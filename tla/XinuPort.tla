------------------------------- MODULE XinuPort -------------------------------
(***************************************************************************)
(* Ports (system/pt*.c): bounded queues of messages, each with a semaphore *)
(* that counts its free places and one that counts its messages, on nodes  *)
(* that all ports share.                                                   *)
(*                                                                         *)
(* The calls run with interrupts off.  Other processes run between two     *)
(* steps of a call only where it waits or makes processes ready, which is  *)
(* after semreset and semdelete in _ptclear and at the end of the others.  *)
(* The fields of the record port:                                          *)
(*   state, seq, maxcnt, msgs, ssem, rsem   of each port; a message is the *)
(*             sequence number its sender recorded                         *)
(*   nextid    ptnextid       free   the number of nodes on ptfree         *)
(*   call      of each process: what it does next (at), with which port    *)
(*             (id), the sequence number it recorded (seq), and the state  *)
(*             _ptclear is to leave the port in (newstate)                 *)
(*   off       the process in the middle of a call, AVAILABLE if none      *)
(*   panicked  the system has stopped for want of nodes                    *)
(* Bounds: MaxSeq; no process is killed between being woken and going on   *)
(* (it would take a message's count with it), or in the middle of _ptclear *)
(* (the port would stay in limbo); the function that disposes of messages  *)
(* does not touch ports; semaphores do not run out.                        *)
(* A definition named for a slip is the mutant of the one after it.        *)
(***************************************************************************)
EXTENDS XinuSemUse, FiniteSets, FiniteSetsExt

CONSTANTS PortUsers,   \* process IDs of the processes that use ports
          NPORTS,      \* number of ports
          PT_MSGS,     \* number of message nodes
          PortSizes,   \* the sizes ptcreate is called with
          MaxSeq       \* bound: on the sum of the sequence numbers of the ports

NoUser == -1   \* AVAILABLE

ASSUME PortAssumption ==
  /\ NoUser \notin PortUsers /\ IsFiniteSet(PortUsers) /\ PortSizes \subseteq Nat
  /\ NPORTS \in Nat \ {0} /\ PT_MSGS \in Nat /\ MaxSeq \in Nat

Ports == 0 .. NPORTS - 1
NoCall == [at |-> "idle", id |-> 0, seq |-> 0, newstate |-> "PT_FREE"]

VARIABLE port

(* ptinit *)
PortInit ==
  port = [state  |-> [i \in Ports |-> "PT_FREE"],
          seq    |-> [i \in Ports |-> 0],
          maxcnt |-> [i \in Ports |-> 0],
          msgs   |-> [i \in Ports |-> << >>],
          ssem   |-> [i \in Ports |-> semcreate(0)],
          rsem   |-> [i \in Ports |-> semcreate(0)],
          nextid |-> 0, free |-> PT_MSGS,
          call   |-> [p \in PortUsers |-> NoCall],
          off    |-> NoUser, panicked |-> FALSE]

seq_left == MapThenSumSet(LAMBDA i : port.seq[i], Ports) < MaxSeq

port_at(p, point) == port.call[p].at = point /\ port.off \in {NoUser, p} /\ ~port.panicked

(* The calls, when the processes of S have been made ready and p goes on   *)
(* with the call c.                                                        *)
calls(p, c, S) ==
  [q \in PortUsers |-> IF q = p THEN c
                       ELSE IF q \in S
                       THEN [port.call[q] EXCEPT !.at = IF @ = "wait_space" THEN "send" ELSE "recv"]
                       ELSE port.call[q]]

-----------------------------------------------------------------------------
(* The entry ptcreate finds first, and where it looks next time.           *)
ptnext(i) == (i + 1) % NPORTS

first_free ==
  LET probe(n) == (port.nextid + n) % NPORTS
  IN  probe(Min({n \in 0 .. NPORTS - 1 : port.state[probe(n)] = "PT_FREE"}))

ptcreate_old_list(p, count) ==
  /\ port_at(p, "idle") /\ \E i \in Ports : port.state[i] = "PT_FREE"
  /\ LET i == first_free
     IN  /\ seq_left
         /\ port' = [port EXCEPT !.state[i] = "PT_ALLOC", !.seq[i] = @ + 1, !.maxcnt[i] = count,
                                 !.ssem[i] = semcreate(count), !.rsem[i] = semcreate(0),
                                 !.nextid = ptnext(i)]

ptcreate(p, count) ==
  /\ port_at(p, "idle") /\ \E i \in Ports : port.state[i] = "PT_FREE"
  /\ LET i == first_free
     IN  /\ seq_left
         /\ port' = [port EXCEPT !.state[i] = "PT_ALLOC", !.seq[i] = @ + 1, !.maxcnt[i] = count,
                                 !.ssem[i] = semcreate(count), !.rsem[i] = semcreate(0),
                                 !.msgs[i] = << >>, !.nextid = ptnext(i)]

(* The call records the sequence number and waits for a place.             *)
ptsend(p, i) ==
  /\ port_at(p, "idle") /\ port.state[i] = "PT_ALLOC"
  /\ port' = [port EXCEPT !.ssem[i] = waited(@, p),
                          !.call[p] = [NoCall EXCEPT
                             !.at = IF blocks(port.ssem[i]) THEN "wait_space" ELSE "send",
                             !.id = i, !.seq = port.seq[i]],
                          !.off = IF blocks(port.ssem[i]) THEN NoUser ELSE p]

ptrecv(p, i) ==
  /\ port_at(p, "idle") /\ port.state[i] = "PT_ALLOC"
  /\ port' = [port EXCEPT !.rsem[i] = waited(@, p),
                          !.call[p] = [NoCall EXCEPT
                             !.at = IF blocks(port.rsem[i]) THEN "wait_msg" ELSE "recv",
                             !.id = i, !.seq = port.seq[i]],
                          !.off = IF blocks(port.rsem[i]) THEN NoUser ELSE p]

still_allocated(p) == port.state[port.call[p].id] = "PT_ALLOC"

(* The port is the one the call began with.                                *)
still_valid(p) == still_allocated(p) /\ port.seq[port.call[p].id] = port.call[p].seq

ptsend_fail(p) ==
  /\ port_at(p, "send") /\ ~still_valid(p)
  /\ port' = [port EXCEPT !.call[p] = NoCall, !.off = NoUser]

ptsend_panic(p) ==
  /\ port_at(p, "send") /\ still_valid(p) /\ port.free = 0
  /\ port' = [port EXCEPT !.panicked = TRUE]

link_message_of_any_age(p) ==
  LET i == port.call[p].id
  IN  /\ port_at(p, "send") /\ still_allocated(p) /\ port.free > 0
      /\ port' = [port EXCEPT !.free = @ - 1, !.msgs[i] = Append(@, port.call[p].seq),
                              !.rsem[i] = signalled(@),
                              !.call = calls(p, NoCall, woken(port.rsem[i])), !.off = NoUser]

link_message(p) ==
  LET i == port.call[p].id
  IN  /\ port_at(p, "send") /\ still_valid(p) /\ port.free > 0
      /\ port' = [port EXCEPT !.free = @ - 1, !.msgs[i] = Append(@, port.call[p].seq),
                              !.rsem[i] = signalled(@),
                              !.call = calls(p, NoCall, woken(port.rsem[i])), !.off = NoUser]

ptrecv_fail(p) ==
  /\ port_at(p, "recv") /\ ~still_valid(p)
  /\ port' = [port EXCEPT !.call[p] = NoCall, !.off = NoUser]

unlink_message(p) ==
  LET i == port.call[p].id
  IN  /\ port_at(p, "recv") /\ still_valid(p)
      /\ port' = [port EXCEPT !.free = @ + 1, !.msgs[i] = Tail(@),
                              !.ssem[i] = signalled(@),
                              !.call = calls(p, NoCall, woken(port.ssem[i])), !.off = NoUser]

-----------------------------------------------------------------------------
all_of(sem) == ToSet(sem.squeue)

(* ptreset and ptdelete (newstate PT_FREE): the port is in limbo, its      *)
(* messages are disposed of, and the senders that wait made ready.  Their  *)
(* semaphore is reset, or deleted, which the next ptcreate makes good.     *)
ptclear(p, i, newstate) ==
  /\ port_at(p, "idle") /\ port.state[i] = "PT_ALLOC" /\ seq_left
  /\ port' = [port EXCEPT !.state[i] = "PT_LIMBO", !.seq[i] = @ + 1,
                          !.free = @ + Len(port.msgs[i]),
                          !.msgs[i] = IF newstate = "PT_ALLOC" THEN << >> ELSE @,
                          !.ssem[i] = semcreate(port.maxcnt[i]),
                          !.call = calls(p, [NoCall EXCEPT !.at = "clear_rsem", !.id = i, !.newstate = newstate],
                                         all_of(port.ssem[i])),
                          !.off = IF all_of(port.ssem[i]) = {} THEN p ELSE NoUser]

ptclear_receivers(p) ==
  LET i == port.call[p].id
  IN  /\ port_at(p, "clear_rsem")
      /\ port' = [port EXCEPT !.rsem[i] = semcreate(0),
                              !.call = calls(p, [port.call[p] EXCEPT !.at = "clear_end"], all_of(port.rsem[i])),
                              !.off = IF all_of(port.rsem[i]) = {} THEN p ELSE NoUser]

(* ptdelete also names the port as the next to try.                        *)
ptclear_end(p) ==
  LET i == port.call[p].id
  IN  /\ port_at(p, "clear_end")
      /\ port' = [port EXCEPT !.state[i] = port.call[p].newstate, !.call[p] = NoCall, !.off = NoUser,
                              !.nextid = IF port.call[p].newstate = "PT_FREE" THEN i ELSE @]

(* A process that waits is killed; another may take its ID.                *)
kill_waiting(p) ==
  LET i == port.call[p].id
  IN  \/ /\ port_at(p, "wait_space")
         /\ port' = [port EXCEPT !.ssem[i] = killed(@, p), !.call[p] = NoCall]
      \/ /\ port_at(p, "wait_msg")
         /\ port' = [port EXCEPT !.rsem[i] = killed(@, p), !.call[p] = NoCall]

PortNext ==
  \E p \in PortUsers :
    \/ \E count \in PortSizes : ptcreate(p, count)
    \/ \E i \in Ports : ptsend(p, i) \/ ptrecv(p, i)
                        \/ ptclear(p, i, "PT_FREE") \/ ptclear(p, i, "PT_ALLOC")
    \/ ptsend_fail(p) \/ ptsend_panic(p) \/ link_message(p)
    \/ ptrecv_fail(p) \/ unlink_message(p)
    \/ ptclear_receivers(p) \/ ptclear_end(p) \/ kill_waiting(p)

PortSpec == PortInit /\ [][PortNext]_port
-----------------------------------------------------------------------------
(* What ptcount returns: messages and senders that wait, or minus the      *)
(* number of receivers that wait.                                          *)
ptcount(i) ==
  LET waiting(sem) == IF sem.scount < 0 THEN -sem.scount ELSE 0
  IN  IF port.rsem[i].scount < 0 THEN port.rsem[i].scount
      ELSE port.rsem[i].scount + waiting(port.ssem[i])

Allocated == {i \in Ports : port.state[i] = "PT_ALLOC"}

(* The nodes on the lists of the ports, by port and place.                 *)
nodes_used == UNION {{i} \X DOMAIN port.msgs[i] : i \in Allocated}

(* The processes that have been let through a semaphore of the port as it  *)
(* is now, and are at the point.                                           *)
let_through(i, point) ==
  {p \in PortUsers : port.call[p].at = point /\ port.call[p].id = i /\ port.call[p].seq = port.seq[i]}

(* The two semaphores of a port count what they are for, whatever was      *)
(* reset, deleted, created again or killed between: its messages are those *)
(* counted or promised to a receiver, its free places those counted or     *)
(* promised to a sender; so no receiver finds the list empty, and ptcount  *)
(* says what its comment does.  No node is lost or in two places.          *)
PortCountsHold ==
  /\ \A i \in Allocated :
       LET stored   == Len(port.msgs[i])
           promised == Cardinality(let_through(i, "recv"))
           waiting  == {p \in PortUsers : port.call[p].id = i /\ port.call[p].at = "wait_space"}
       IN  /\ stored >= promised
           /\ port.maxcnt[i] - stored - Cardinality(let_through(i, "send"))
                = counted(port.ssem[i])
           /\ ptcount(i) >= 0 => ptcount(i) = stored - promised + Cardinality(waiting)
           /\ ptcount(i) < 0  => stored = promised
  /\ port.free + Cardinality(nodes_used) = PT_MSGS

(* A message whose ptsend began before the port was cleared is never in    *)
(* the port afterwards.                                                    *)
NoMessageOutlivesReset ==
  \A i \in Allocated : \A m \in ToSet(port.msgs[i]) : m = port.seq[i]
=============================================================================
