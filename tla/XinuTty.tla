-------------------------------- MODULE XinuTty --------------------------------
(***************************************************************************)
(* The tty driver in cooked mode (device/tty): the upper half, called by   *)
(* processes to read and write a character, and the lower half, the        *)
(* handler of the UART's interrupts.  They meet in two rings and the       *)
(* semaphores that count them.  Both run with interrupts off: they are     *)
(* apart only where a process waits.  The fields of the record tty:        *)
(*   ibuff, ihead, itail, icursor, isem   the input ring; icursor of its   *)
(*            characters are of the line being typed, and not yet counted  *)
(*   obuff, ohead, otail, osem, oheld     the output ring                  *)
(*   echo     how many echoes the echo queue holds                         *)
(*   thre     the UART will interrupt to ask for output                    *)
(*   at, put  what each process does next, what it still has to write      *)
(*   line, typed, unsent   history: the line as edited so far, what was    *)
(*            typed and not read, what was written and not sent            *)
(* Bounds: Unhandled; modes and options are those of ttyinit; a UART that  *)
(* is kicked while it has nothing to send interrupts, as ttykickout says;  *)
(* an echo counts as one character, and a cell of a ring is a letter again *)
(* when it has been read or sent.                                          *)
(* A definition named for a slip is the mutant of the one after it.        *)
(***************************************************************************)
EXTENDS XinuSemUse, FiniteSets

CONSTANTS TtyReaders, TtyWriters,  \* process IDs of those that read, and write
          TY_IBUFLEN, TY_OBUFLEN, TY_EBUFLEN,
          UART_FIFO_SIZE,          \* the UART takes so many characters at a time
          TtyOutput,               \* characters that are written, "newline" among them or not
          Unhandled                \* bound: which of these may happen, "overrun", "oversend",
                                   \* "silent_start", that the code does not guard against

ASSUME TtyAssumption ==
  /\ TtyReaders \subseteq Nat /\ TtyWriters \subseteq Nat /\ TtyReaders \cap TtyWriters = {}
  /\ IsFiniteSet(TtyReaders) /\ IsFiniteSet(TtyWriters)
  /\ {TY_IBUFLEN, TY_OBUFLEN, TY_EBUFLEN, UART_FIFO_SIZE} \subseteq Nat \ {0}

VARIABLE tty

TtyUsers == TtyReaders \cup TtyWriters

(* ttyinit.  The cell after the last of ibuff is the memory behind it.     *)
TtyInit ==
  tty = [ibuff |-> [k \in 0 .. TY_IBUFLEN |-> "letter"], ihead |-> 0, itail |-> 0,
         icursor |-> 0, isem |-> semcreate(0),
         obuff |-> [k \in 0 .. TY_OBUFLEN - 1 |-> "letter"], ohead |-> 0, otail |-> 0,
         osem  |-> semcreate(TY_OBUFLEN), oheld |-> FALSE,
         echo  |-> 0, thre |-> TRUE,
         at    |-> [p \in TtyUsers |-> "idle"], put |-> [p \in TtyWriters |-> << >>],
         line  |-> << >>, typed |-> << >>, unsent |-> << >>]

wrapped(k, size) == IF k >= size THEN 0 ELSE k

(* What each process does next after n signals.                            *)
at_after(sem, n) == [p \in TtyUsers |-> IF p \in wokenn(sem, n) THEN "go_on" ELSE tty.at[p]]

-----------------------------------------------------------------------------
ttygetc_wait(p) ==
  /\ tty.at[p] = "idle" /\ blocks(tty.isem)
  /\ tty' = [tty EXCEPT !.isem = waited(@, p), !.at[p] = "wait"]

(* The character at the head is read: ttyread calls again till a newline.  *)
ttygetc(p) ==
  /\ tty.at[p] = "go_on" \/ (tty.at[p] = "idle" /\ ~blocks(tty.isem))
  /\ tty' = [tty EXCEPT !.isem  = IF tty.at[p] = "idle" THEN waited(@, p) ELSE @,
                        !.ibuff[tty.ihead] = "letter", !.ihead = wrapped(@ + 1, TY_IBUFLEN),
                        !.at[p] = "idle", !.typed = Tail(@)]

(* A newline is sent as two characters, which other writers may part.      *)
ttyputc(p, ch) ==
  /\ tty.at[p] = "idle"
  /\ tty' = [tty EXCEPT !.put[p] = IF ch = "newline" THEN << "return", ch >> ELSE << ch >>,
                        !.at[p] = "put"]

ttyputc_wait(p) ==
  /\ tty.at[p] = "put" /\ blocks(tty.osem)
  /\ tty' = [tty EXCEPT !.osem = waited(@, p), !.at[p] = "wait"]

ttyputc_store_unkicked(p) ==
  LET ch == Head(tty.put[p])
  IN  /\ tty.at[p] = "go_on" \/ (tty.at[p] = "put" /\ ~blocks(tty.osem))
      /\ tty' = [tty EXCEPT !.osem = IF tty.at[p] = "put" THEN waited(@, p) ELSE @,
                            !.obuff[tty.otail] = ch, !.otail = wrapped(@ + 1, TY_OBUFLEN),
                            !.put[p] = Tail(@),
                            !.at[p] = IF Len(tty.put[p]) = 1 THEN "idle" ELSE "put",
                            !.unsent = Append(@, ch)]

ttyputc_store(p) ==
  LET ch == Head(tty.put[p])
  IN  /\ tty.at[p] = "go_on" \/ (tty.at[p] = "put" /\ ~blocks(tty.osem))
      /\ tty' = [tty EXCEPT !.osem = IF tty.at[p] = "put" THEN waited(@, p) ELSE @,
                            !.obuff[tty.otail] = ch, !.otail = wrapped(@ + 1, TY_OBUFLEN),
                            !.put[p] = Tail(@),
                            !.at[p] = IF Len(tty.put[p]) = 1 THEN "idle" ELSE "put",
                            !.unsent = Append(@, ch), !.thre = TRUE]

-----------------------------------------------------------------------------
(* The output ring when n characters are sent.                             *)
sent(obuff, n) ==
  [k \in DOMAIN obuff |->
     IF (k - tty.ohead + TY_OBUFLEN) % TY_OBUFLEN < n THEN "letter" ELSE obuff[k]]

(* The UART asks for output.  What the ring has to send is worked out from *)
(* the semaphore, which also counts the writers that wait or were let      *)
(* through: more than was stored, when they have not run ("oversend").     *)
ttyhandle_out ==
  LET echoed == least(tty.echo, UART_FIFO_SIZE)
      avail  == TY_OBUFLEN - tty.osem.scount
      ochars == least(UART_FIFO_SIZE - echoed, avail)
  IN  /\ tty.thre
      /\ ochars <= Len(tty.unsent) \/ "oversend" \in Unhandled \/ tty.oheld
      /\ tty' = IF tty.oheld \/ (tty.echo = 0 /\ tty.osem.scount >= TY_OBUFLEN)
                THEN [tty EXCEPT !.thre = FALSE]
                ELSE [tty EXCEPT !.echo = @ - echoed,
                                 !.obuff = sent(@, ochars),
                                 !.ohead = (@ + ochars) % TY_OBUFLEN,
                                 !.osem = signalledn(@, ochars),
                                 !.at = at_after(tty.osem, ochars),
                                 !.unsent = SubSeq(@, ochars + 1, Len(@))]

(* An echo goes to the echo queue, and the UART is kicked.  The code does  *)
(* not ask whether there is room; characters come when there is.           *)
echo_room == tty.echo + 1 < TY_EBUFLEN

with_echo == [tty EXCEPT !.oheld = FALSE, !.echo = @ + 1, !.thre = TRUE]

input_avail == IF tty.isem.scount < 0 THEN 0 ELSE tty.isem.scount

(* There is room in the ring: the code works it out from the semaphore,    *)
(* which does not count what was promised to readers that have not run,    *)
(* and does not ask before it stores a newline.                            *)
room == Len(tty.typed) + tty.icursor < TY_IBUFLEN \/ "overrun" \in Unhandled

ttyhandle_start ==
  tty' = [tty EXCEPT !.oheld = FALSE, !.thre = TRUE]

ttyhandle_stop ==
  tty' = [tty EXCEPT !.oheld = TRUE]

(* Any other character starts output: but what echoes nothing does not     *)
(* kick the UART ("silent_start").                                         *)
ttyhandle_erase_nothing ==
  /\ tty.icursor = 0
  /\ ~tty.oheld \/ "silent_start" \in Unhandled
  /\ tty' = [tty EXCEPT !.oheld = FALSE]

moved_back(k) == IF tty.itail - k < 0 THEN tty.itail - k + TY_IBUFLEN ELSE tty.itail - k

ttyhandle_erase ==
  /\ tty.icursor > 0 /\ echo_room
  /\ tty' = [with_echo EXCEPT !.icursor = @ - 1, !.itail = moved_back(1), !.line = Front(@)]

ttyhandle_kill_cursor_kept ==
  /\ echo_room
  /\ tty' = [with_echo EXCEPT !.itail = moved_back(tty.icursor), !.line = << >>]

ttyhandle_kill ==
  /\ echo_room
  /\ tty' = [with_echo EXCEPT !.icursor = 0, !.itail = moved_back(tty.icursor), !.line = << >>]

(* The line becomes available as a whole.                                  *)
ttyhandle_newline ==
  /\ room /\ echo_room
  /\ tty' = [with_echo EXCEPT
               !.ibuff[tty.itail] = "newline", !.itail = wrapped(@ + 1, TY_IBUFLEN), !.icursor = 0,
               !.isem = signalledn(@, tty.icursor + 1),
               !.at = at_after(tty.isem, tty.icursor + 1),
               !.typed = @ \o tty.line \o << "newline" >>, !.line = << >>]

input_full == input_avail + tty.icursor >= TY_IBUFLEN - 1

ttyhandle_full == input_full /\ echo_room /\ tty' = with_echo

(* End of file is stored at the beginning of a line, past the end of the   *)
(* ring if need be (an "overrun").                                         *)
ttyhandle_eof ==
  /\ ~input_full /\ echo_room
  /\ IF tty.icursor # 0 THEN tty' = with_echo
     ELSE /\ room /\ (tty.itail < TY_IBUFLEN - 1 \/ "overrun" \in Unhandled)
          /\ tty' = [with_echo EXCEPT
                       !.ibuff[tty.itail] = "eof", !.itail = @ + 1, !.isem = signalledn(@, 1),
                       !.at = at_after(tty.isem, 1), !.typed = Append(@, "eof")]

ttyhandle_letter ==
  /\ ~input_full /\ room /\ echo_room
  /\ tty' = [with_echo EXCEPT
               !.ibuff[tty.itail] = "letter", !.itail = wrapped(@ + 1, TY_IBUFLEN), !.icursor = @ + 1,
               !.line = Append(@, "letter")]

ttyhandle_in ==
  \/ ttyhandle_start \/ ttyhandle_stop
  \/ ttyhandle_erase_nothing \/ ttyhandle_erase \/ ttyhandle_kill
  \/ ttyhandle_newline \/ ttyhandle_full \/ ttyhandle_eof \/ ttyhandle_letter

TtyNext ==
  \/ \E p \in TtyReaders : ttygetc_wait(p) \/ ttygetc(p)
  \/ \E p \in TtyWriters : \/ \E ch \in TtyOutput : ttyputc(p, ch)
                           \/ ttyputc_wait(p) \/ ttyputc_store(p)
  \/ ttyhandle_out \/ ttyhandle_in

TtySpec == TtyInit /\ [][TtyNext]_tty
-----------------------------------------------------------------------------
(* The n characters of the ring of that size from the head on.             *)
ring(buff, head, n, size) == [k \in 1 .. n |-> buff[(head + k - 1) % size]]

let_go_on(users) == Cardinality({p \in users : tty.at[p] = "go_on"})

(* Readers get what was typed, line by line as edited, and the UART what   *)
(* was written, each character once and in order: the rings hold them,     *)
(* whoever of those that wait runs when, and the semaphores count what is  *)
(* there and not promised.                                                 *)
RingsHoldTheText ==
  /\ ring(tty.ibuff, tty.ihead, Len(tty.typed) + tty.icursor, TY_IBUFLEN) = tty.typed \o tty.line
  /\ tty.icursor = Len(tty.line)
  /\ tty.itail = (tty.ihead + Len(tty.typed) + tty.icursor) % TY_IBUFLEN
  /\ counted(tty.isem) = Len(tty.typed) - let_go_on(TtyReaders)
  /\ ring(tty.obuff, tty.ohead, Len(tty.unsent), TY_OBUFLEN) = tty.unsent
  /\ counted(tty.osem) = TY_OBUFLEN - Len(tty.unsent) - let_go_on(TtyWriters)

(* Output never stalls: while it is not held and there is something to     *)
(* send, echo or output, the UART is going to ask for it.                  *)
NoOutputStalls ==
  ~tty.oheld /\ (tty.echo > 0 \/ tty.unsent # << >>) => tty.thre
=============================================================================
