----------------------------- MODULE XinuKernel ------------------------------
(***************************************************************************)
(* The process manager of the kernel: process table, semaphores, one-word  *)
(* messages, delays and the clock handler, on the scheduler of XinuSched.  *)
(*                                                                         *)
(* There is one CPU.  A system call and the clock handler run with         *)
(* interrupts off, and only resched switches to another process, possibly  *)
(* in the middle of a call; what is left of the call runs when its process *)
(* is dispatched again, still with interrupts off.  pc[p] says where p is: *)
(* in user code, where it may make any call and be interrupted by the      *)
(* clock, or inside a call that has more to do.                            *)
(*                                                                         *)
(* Before some definitions stands the same definition with a slip in it,   *)
(* named for the slip (deliver_unflagged).  Nothing uses it: put in the    *)
(* place of the definition, it makes a run find a property violated.       *)
(***************************************************************************)
EXTENDS XinuSched

CONSTANTS NSEM,      \* size of the semaphore table
          Prios,     \* priorities processes are created with or changed to
          Delays,    \* delays given to sleepms and recvtime
          Counts,    \* counts given to semcreate, semreset and signaln
          MaxCount,  \* bound: no semaphore is signalled above this count
          Calls      \* bound: the system calls the processes make, and "clock"

Sems == 0 .. NSEM - 1

ASSUME KernelAssumption ==
  /\ NPROC > 2 /\ NSEM \in Nat
  /\ Prios \subseteq Nat \ {0} /\ Delays \subseteq Nat /\ Counts \subseteq Nat
  /\ MaxCount \in Nat

VARIABLES sch,       \* the scheduler's record
          prsem,     \* proctab[p].prsem: semaphore p waits on (-1: none yet)
          prparent,  \* proctab[p].prparent
          prhasmsg,  \* proctab[p].prhasmsg
          prcount,   \* number of live processes, as the kernel counts them
          nextpid,   \* where newpid starts, modulo NPROC
          sstate,    \* semtab[s].sstate
          scount,    \* semtab[s].scount
          squeue,    \* semtab[s].squeue
          nextsem,   \* where newsem starts
          pc,        \* where each process is
          halted     \* xdone has stopped the processor

proctab == <<prsem, prparent, prhasmsg>>
pids    == <<prcount, nextpid>>
semtab  == <<sstate, scount, squeue, nextsem>>
vars    == <<sch, proctab, pids, semtab, pc, halted>>

-----------------------------------------------------------------------------
(* at names the call, arg its process or semaphore, n a count.             *)
At(call, arg, n) == [at |-> call, arg |-> arg, n |-> n]
User == At("user", 0, 0)

Points == {"user", "send", "killsend", "kill", "receive", "recvtime",
           "signaln", "semdelete", "semreset", "wakeup", "clock"}

currpid == sch.currpid
prstate == sch.prstate
Here    == pc[currpid]
Goto(f) == pc' = [pc EXCEPT ![currpid] = f]

(* The running process is in user code and makes call c.  The null process *)
(* only loops.                                                             *)
syscall(c) ==
  c \in Calls /\ ~halted /\ Here = User /\ currpid # NULLPROC

(* The running process is inside a call, at the point named p.             *)
inside(p) == ~halted /\ Here.at = p

-----------------------------------------------------------------------------
(* The state when main first runs alone: the null process is ready, and    *)
(* startup, main's parent and once process 1, has exited and left its exit *)
(* message with its own parent, the null process.                          *)
STARTUP == 1
MAIN    == 2

Init ==
  /\ \E pr \in Prios :
       sch = [prstate   |-> [p \in Pids |-> CASE p = NULLPROC -> "READY"
                                              [] p = MAIN -> "CURR"
                                              [] OTHER -> "FREE"],
              prprio    |-> [p \in Pids |-> IF p \in {STARTUP, MAIN} THEN pr ELSE 0],
              readylist |-> <<NULLPROC>>,
              sleepq    |-> << >>,
              qkey      |-> [p \in Pids |-> IF p \in {STARTUP, MAIN} THEN pr ELSE 0],
              currpid   |-> MAIN,
              preempt   |-> QUANTUM,
              ndefers   |-> 0,
              attempt   |-> FALSE]
  /\ prsem    = [p \in Pids |-> IF p \in {STARTUP, MAIN} THEN -1 ELSE 0]
  /\ prparent = [p \in Pids |-> IF p = MAIN THEN STARTUP ELSE NULLPROC]
  /\ prhasmsg = [p \in Pids |-> p = NULLPROC]
  /\ prcount  = 2
  /\ nextpid  = (MAIN + 1) % NPROC
  /\ sstate   = [s \in Sems |-> "FREE"]
  /\ scount   = [s \in Sems |-> 0]
  /\ squeue   = [s \in Sems |-> << >>]
  /\ nextsem  = 0
  /\ pc       = [p \in Pids |-> User]
  /\ halted   = FALSE

-----------------------------------------------------------------------------
(* Semaphores.                                                             *)

(* The first entry that is free, from the place start on and around again. *)
next_free(start, n, free) ==
  LET k == Min({i \in 0 .. n - 1 : (start + i) % n \in free})
  IN  (start + k) % n

semcreate(count) ==
  LET free == {s \in Sems : sstate[s] = "FREE"}
      sem  == next_free(nextsem, NSEM, free)
  IN  /\ syscall("semcreate") /\ free # {}
      /\ sstate'  = [sstate EXCEPT ![sem] = "USED"]
      /\ scount'  = [scount EXCEPT ![sem] = count]
      /\ nextsem' = (sem + 1) % NSEM
      /\ UNCHANGED <<sch, proctab, pids, squeue, pc, halted>>

wait(s) ==
  /\ syscall("wait") /\ sstate[s] = "USED"
  /\ scount' = [scount EXCEPT ![s] = @ - 1]
  /\ \/ /\ scount[s] > 0
        /\ UNCHANGED <<sch, prsem, squeue>>
     \/ /\ scount[s] <= 0
        /\ prsem'  = [prsem EXCEPT ![currpid] = s]
        /\ squeue' = [squeue EXCEPT ![s] = Append(@, currpid)]
        /\ sch'    = block(sch, "WAIT")
  /\ UNCHANGED <<prparent, prhasmsg, pids, sstate, nextsem, pc, halted>>

(* Give one unit to s: count up and, if it was owed, ready the first       *)
(* waiting process (ready of an empty queue's EMPTY does nothing).         *)
release_one(s) ==
  /\ scount' = [scount EXCEPT ![s] = @ + 1]
  /\ \/ /\ scount[s] < 0 /\ squeue[s] # << >>
        /\ squeue' = [squeue EXCEPT ![s] = Tail(@)]
        /\ sch'    = ready(sch, Head(squeue[s]))
     \/ /\ scount[s] >= 0 \/ squeue[s] = << >>
        /\ UNCHANGED <<sch, squeue>>

signal(s) ==
  /\ syscall("signal") /\ sstate[s] = "USED" /\ scount[s] < MaxCount
  /\ release_one(s)
  /\ UNCHANGED <<proctab, pids, sstate, nextsem, pc, halted>>

(* signaln, semdelete and semreset release processes in a loop, with       *)
(* rescheduling deferred to the end of the call.                           *)
begin_loop(f) == Goto(f) /\ sch' = defer_start(sch)
end_loop      == Goto(User) /\ sch' = defer_stop(sch)

signaln(s, count) ==
  /\ syscall("signaln") /\ sstate[s] = "USED" /\ scount[s] + count <= MaxCount
  /\ begin_loop(At("signaln", s, count))
  /\ UNCHANGED <<proctab, pids, semtab, halted>>

signaln_loop ==
  /\ inside("signaln")
  /\ \/ /\ Here.n > 0
        /\ release_one(Here.arg)
        /\ Goto([Here EXCEPT !.n = @ - 1])
     \/ /\ Here.n = 0
        /\ end_loop
        /\ UNCHANGED <<scount, squeue>>
  /\ UNCHANGED <<proctab, pids, sstate, nextsem, halted>>

semdelete(s) ==
  /\ syscall("semdelete") /\ sstate[s] = "USED"
  /\ sstate' = [sstate EXCEPT ![s] = "FREE"]
  /\ begin_loop(At("semdelete", s, 0))
  /\ UNCHANGED <<proctab, pids, scount, squeue, nextsem, halted>>

semdelete_loop ==
  /\ inside("semdelete")
  /\ \/ /\ scount[Here.arg] < 0
        /\ release_one(Here.arg)
        /\ UNCHANGED pc
     \/ /\ scount[Here.arg] >= 0
        /\ scount' = [scount EXCEPT ![Here.arg] = @ + 1]
        /\ end_loop
        /\ UNCHANGED squeue
  /\ UNCHANGED <<proctab, pids, sstate, nextsem, halted>>

semreset(s, count) ==
  /\ syscall("semreset") /\ sstate[s] = "USED"
  /\ begin_loop(At("semreset", s, count))
  /\ UNCHANGED <<proctab, pids, semtab, halted>>

semreset_loop ==
  /\ inside("semreset")
  /\ \/ /\ squeue[Here.arg] # << >>
        /\ squeue' = [squeue EXCEPT ![Here.arg] = Tail(@)]
        /\ sch'    = ready(sch, Head(squeue[Here.arg]))
        /\ UNCHANGED <<scount, pc>>
     \/ /\ squeue[Here.arg] = << >>
        /\ scount' = [scount EXCEPT ![Here.arg] = Here.n]
        /\ end_loop
        /\ UNCHANGED squeue
  /\ UNCHANGED <<proctab, pids, sstate, nextsem, halted>>

-----------------------------------------------------------------------------
(* Messages: each process has room for one.                                *)

deliver_unflagged(q) ==
  /\ prhasmsg' = [prhasmsg EXCEPT ![q] = prstate[q] # "RECV"]
  /\ sch' = CASE prstate[q] = "RECV"   -> ready(sch, q)
              [] prstate[q] = "RECTIM" -> ready(unsleep(sch, q), q)
              [] OTHER                 -> sch

(* Leave a message with q and, if it waits for one, make it ready.         *)
deliver(q) ==
  /\ prhasmsg' = [prhasmsg EXCEPT ![q] = TRUE]
  /\ sch' = CASE prstate[q] = "RECV"   -> ready(sch, q)
              [] prstate[q] = "RECTIM" -> ready(unsleep(sch, q), q)
              [] OTHER                 -> sch

take_message == prhasmsg' = [prhasmsg EXCEPT ![currpid] = FALSE]

(* A child whose parent has not taken its last message waits for it.       *)
must_wait(q) == prhasmsg[q] /\ q = prparent[currpid]

send(q) ==
  /\ syscall("send") /\ prstate[q] # "FREE"
  /\ \/ ~prhasmsg[q] /\ deliver(q) /\ UNCHANGED pc
     \/ must_wait(q) /\ Goto(At("send", q, 0)) /\ UNCHANGED <<sch, prhasmsg>>
  /\ UNCHANGED <<prsem, prparent, pids, semtab, halted>>

send_loop ==
  /\ inside("send")
  /\ \/ prhasmsg[Here.arg] /\ sch' = resched(sch) /\ UNCHANGED <<prhasmsg, pc>>
     \/ ~prhasmsg[Here.arg] /\ deliver(Here.arg) /\ Goto(User)
  /\ UNCHANGED <<prsem, prparent, pids, semtab, halted>>

(* receive, recvtime: with no message, wait for one; the rest of the call  *)
(* takes the message that is there then, if any.                           *)
receive ==
  /\ syscall("receive")
  /\ \/ prhasmsg[currpid] /\ take_message /\ UNCHANGED <<sch, pc>>
     \/ /\ ~prhasmsg[currpid]
        /\ sch' = block(sch, "RECV") /\ Goto(At("receive", 0, 0))
        /\ UNCHANGED prhasmsg
  /\ UNCHANGED <<prsem, prparent, pids, semtab, halted>>

recvtime(maxwait) ==
  /\ syscall("recvtime")
  /\ \/ prhasmsg[currpid] /\ take_message /\ UNCHANGED <<sch, pc>>
     \/ /\ ~prhasmsg[currpid]
        /\ sch' = delay(sch, maxwait, "RECTIM") /\ Goto(At("recvtime", 0, 0))
        /\ UNCHANGED prhasmsg
  /\ UNCHANGED <<prsem, prparent, pids, semtab, halted>>

receive_rest ==
  /\ inside("receive") \/ inside("recvtime")
  /\ take_message /\ Goto(User)
  /\ UNCHANGED <<sch, prsem, prparent, pids, semtab, halted>>

recvclr ==
  /\ syscall("recvclr") /\ prhasmsg[currpid] /\ take_message
  /\ UNCHANGED <<sch, prsem, prparent, pids, semtab, pc, halted>>

-----------------------------------------------------------------------------
(* Delays and the clock.                                                   *)

yield ==
  /\ syscall("yield") /\ sch' = resched(sch)
  /\ UNCHANGED <<proctab, pids, semtab, pc, halted>>

(* sleepms(0) is yield.                                                    *)
sleepms(d) ==
  /\ syscall("sleepms") /\ d > 0 /\ sch' = delay(sch, d, "SLEEP")
  /\ UNCHANGED <<proctab, pids, semtab, pc, halted>>

(* A clock interrupt in user code: the head of the delta list has waited   *)
(* one tick more.  If that was its last one, wakeup runs first.            *)
clkhandler ==
  /\ "clock" \in Calls /\ ~halted /\ Here = User
  /\ LET first  == Head(sch.sleepq)
         ticked == IF sch.sleepq = << >> THEN sch ELSE [sch EXCEPT !.qkey[first] = @ - 1]
     IN  IF sch.sleepq # << >> /\ ticked.qkey[first] <= 0
         THEN sch' = defer_start(ticked) /\ Goto(At("wakeup", 0, 0))
         ELSE sch' = end_of_tick(ticked) /\ UNCHANGED pc
  /\ UNCHANGED <<proctab, pids, semtab, halted>>

wakeup ==
  /\ inside("wakeup")
  /\ LET due == sch.sleepq # << >> /\ sch.qkey[Head(sch.sleepq)] <= 0
     IN  \/ /\ due
            /\ sch' = ready([sch EXCEPT !.sleepq = Tail(@)], Head(sch.sleepq))
            /\ UNCHANGED pc
         \/ ~due /\ sch' = defer_stop(sch) /\ Goto(At("clock", 0, 0))
  /\ UNCHANGED <<proctab, pids, semtab, halted>>

clkhandler_rest ==
  /\ inside("clock") /\ sch' = end_of_tick(sch) /\ Goto(User)
  /\ UNCHANGED <<proctab, pids, semtab, halted>>

-----------------------------------------------------------------------------
(* Processes.                                                              *)

(* newpid, then the new entry of the process table; create(pr) returns     *)
(* SYSERR, with newpid's start advanced, when getstk finds no memory.      *)
create(pr) ==
  LET free == {p \in Pids : prstate[p] = "FREE"}
      pid  == next_free(nextpid, NPROC, free)
  IN  /\ syscall("create") /\ free # {}
      /\ nextpid' = (pid + 1) % NPROC
      /\ \/ /\ prcount'  = prcount + 1
            /\ sch'      = [sch EXCEPT !.prstate[pid] = "SUSP", !.prprio[pid] = pr]
            /\ prsem'    = [prsem EXCEPT ![pid] = -1]
            /\ prparent' = [prparent EXCEPT ![pid] = currpid]
            /\ prhasmsg' = [prhasmsg EXCEPT ![pid] = FALSE]
            /\ pc'       = [pc EXCEPT ![pid] = User]
         \/ /\ "getstk fails" \in Calls
            /\ UNCHANGED <<prcount, sch, proctab, pc>>
      /\ UNCHANGED <<semtab, halted>>

suspend(q) ==
  /\ syscall("suspend") /\ q # NULLPROC
  /\ \/ /\ prstate[q] = "READY"
        /\ sch' = [sch EXCEPT !.readylist = getitem(@, q), !.prstate[q] = "SUSP"]
     \/ prstate[q] = "CURR" /\ sch' = block(sch, "SUSP")
  /\ UNCHANGED <<proctab, pids, semtab, pc, halted>>

resume(q) ==
  /\ syscall("resume") /\ prstate[q] = "SUSP" /\ sch' = ready(sch, q)
  /\ UNCHANGED <<proctab, pids, semtab, pc, halted>>

chprio(q, newprio) ==
  /\ syscall("chprio") /\ prstate[q] # "FREE"
  /\ sch' = [sch EXCEPT !.prprio[q] = newprio]
  /\ UNCHANGED <<proctab, pids, semtab, pc, halted>>

(* kill counts the process out, or stops the machine with the last one,    *)
(* and tells its parent, which may take the CPU before the rest of kill.   *)
kill(q) ==
  LET parent == prparent[q]
  IN  /\ syscall("kill") /\ q # NULLPROC /\ prstate[q] # "FREE"
      /\ prcount' = prcount - 1
      /\ \/ /\ prcount' <= 1
            /\ halted' = TRUE
            /\ UNCHANGED <<sch, prhasmsg, pc>>
         \/ /\ prcount' > 1 /\ prstate[parent] # "FREE" /\ ~prhasmsg[parent]
            /\ deliver(parent)
            /\ Goto(At("kill", q, 0))
            /\ UNCHANGED halted
         \/ /\ prcount' > 1 /\ prstate[parent] # "FREE" /\ must_wait(parent)
            /\ Goto(At("killsend", q, parent))
            /\ UNCHANGED <<sch, prhasmsg, halted>>
         \/ /\ prcount' > 1
            /\ prstate[parent] = "FREE" \/ (prhasmsg[parent] /\ ~must_wait(parent))
            /\ Goto(At("kill", q, 0))
            /\ UNCHANGED <<sch, prhasmsg, halted>>
      /\ UNCHANGED <<prsem, prparent, nextpid, semtab>>

(* The loop of send, called by kill for the parent it found.               *)
killsend_loop ==
  /\ inside("killsend")
  /\ \/ prhasmsg[Here.n] /\ sch' = resched(sch) /\ UNCHANGED <<prhasmsg, pc>>
     \/ ~prhasmsg[Here.n] /\ deliver(Here.n) /\ Goto(At("kill", Here.arg, 0))
  /\ UNCHANGED <<prsem, prparent, pids, semtab, halted>>

(* A process killed while it waits gives back its place in the count.      *)
leave_semaphore_uncounted(s, q) ==
  /\ squeue' = [squeue EXCEPT ![s] = getitem(@, q)]
  /\ UNCHANGED scount

leave_semaphore(s, q) ==
  /\ scount' = [scount EXCEPT ![s] = @ + 1]
  /\ squeue' = [squeue EXCEPT ![s] = getitem(@, q)]

(* Take the process off its queue and free its entry.                      *)
kill_rest ==
  LET q == Here.arg
      freed(S) == [S EXCEPT !.prstate[q] = "FREE"]
  IN  /\ inside("kill")
      /\ \/ /\ prstate[q] = "CURR"
            /\ sch' = block(sch, "FREE")
            /\ UNCHANGED <<scount, squeue>>
         \/ /\ prstate[q] \in Delayed
            /\ sch' = freed(unsleep(sch, q))
            /\ UNCHANGED <<scount, squeue>>
         \/ /\ prstate[q] = "WAIT"
            /\ leave_semaphore(prsem[q], q)
            /\ sch' = freed(sch)
         \/ /\ prstate[q] = "READY"
            /\ sch' = freed([sch EXCEPT !.readylist = getitem(@, q)])
            /\ UNCHANGED <<scount, squeue>>
         \/ /\ prstate[q] \in {"RECV", "SUSP", "FREE"}
            /\ sch' = freed(sch)
            /\ UNCHANGED <<scount, squeue>>
      /\ pc' = [pc EXCEPT ![currpid] = User, ![q] = User]
      /\ UNCHANGED <<proctab, pids, sstate, nextsem, halted>>

-----------------------------------------------------------------------------
SemaphoreCall ==
  \/ \E c \in Counts : semcreate(c)
  \/ \E s \in Sems : wait(s) \/ signal(s) \/ semdelete(s)
  \/ \E s \in Sems, c \in Counts : signaln(s, c) \/ semreset(s, c)

MessageCall ==
  \/ \E q \in Pids : send(q)
  \/ receive \/ recvclr \/ \E d \in Delays : recvtime(d)

ProcessCall ==
  \/ \E pr \in Prios : create(pr)
  \/ \E q \in Pids : suspend(q) \/ resume(q) \/ kill(q)
  \/ \E q \in Pids, pr \in Prios : chprio(q, pr)
  \/ yield \/ \E d \in Delays : sleepms(d)

(* What a call does after its first step.                                  *)
RestOfCall ==
  \/ signaln_loop \/ semdelete_loop \/ semreset_loop
  \/ send_loop \/ receive_rest \/ killsend_loop \/ kill_rest
  \/ wakeup \/ clkhandler_rest

Next == SemaphoreCall \/ MessageCall \/ ProcessCall \/ RestOfCall \/ clkhandler

Spec == Init /\ [][Next]_vars

(* A call runs to its end when its process has the CPU, and the interrupt  *)
(* controller keeps a clock interrupt that comes during a call until       *)
(* interrupts are on again.  Nothing is assumed of user code.              *)
Fairness == WF_vars(RestOfCall) /\ SF_vars(clkhandler)

LiveSpec == Spec /\ Fairness
-----------------------------------------------------------------------------
Frames == [at : Points, arg : Int, n : Nat]

(* The types of the variables; in particular the ready list never runs     *)
(* empty under a switch (dispatch would run no process) and the time slice *)
(* never reaches zero, where the unsigned preempt would wrap.              *)
TypeOK ==
  /\ IsSched(sch)
  /\ prsem \in [Pids -> Sems \cup {-1, 0}]
  /\ prparent \in [Pids -> Pids] /\ prhasmsg \in [Pids -> BOOLEAN]
  /\ prcount \in Int /\ nextpid \in Pids
  /\ sstate \in [Sems -> {"FREE", "USED"}] /\ scount \in [Sems -> Int]
  /\ squeue \in [Sems -> Seq(Pids)] /\ nextsem \in Sems \cup {0}
  /\ pc \in [Pids -> Frames] /\ halted \in BOOLEAN

(* queuetab has one entry per process (queue.h), so every process must be  *)
(* on the one queue its state names, once, and on no other: kill, suspend  *)
(* and unsleep unlink it from there without looking.                       *)
QueuesMatchStates ==
  /\ IsInjective(sch.readylist) /\ IsInjective(sch.sleepq)
  /\ \A s \in Sems : IsInjective(squeue[s])
  /\ \A p \in Pids :
       /\ prstate[p] = "READY" <=> p \in ToSet(sch.readylist)
       /\ prstate[p] \in Delayed <=> p \in ToSet(sch.sleepq)
       /\ \A s \in Sems :
            (prstate[p] = "WAIT" /\ prsem[p] = s) <=> p \in ToSet(squeue[s])
       /\ prstate[p] = "WAIT" => prsem[p] \in Sems
       /\ prstate[p] = "CURR" <=> p = currpid

(* A negative count is the number of waiting processes, also after kills   *)
(* and loops of releases; only semreset's loop sets it right at its end.   *)
(* A semaphore that is free has no waiting process once semdelete is done. *)
CountsMatchQueues ==
  \A s \in Sems :
    /\ ~(Here.at = "semreset" /\ Here.arg = s) =>
         Len(squeue[s]) = IF scount[s] < 0 THEN -scount[s] ELSE 0
    /\ sstate[s] = "FREE" /\ ~(Here.at = "semdelete" /\ Here.arg = s) =>
         squeue[s] = << >>

(* With rescheduling not deferred, the running process has the highest     *)
(* priority of the eligible ones.                                          *)
HighestPriorityRuns ==
  sch.ndefers = 0 =>
    \A p \in Pids : prstate[p] = "READY" => sch.prprio[p] <= sch.prprio[currpid]

(* receive returns only with a message: a process past its wait still has  *)
(* the message that ended it.                                              *)
ReceiveHasMessage ==
  \A p \in Pids : pc[p].at = "receive" /\ prstate[p] # "RECV" => prhasmsg[p]

(* sleepms and recvtime delay for the ticks they were given: no other call *)
(* changes the delay a process on the delta list has left, a tick takes    *)
(* one off, and the process leaves the list when none is left, unless it   *)
(* is killed or gets a message.  Only a head that is overdue (recvtime(0)) *)
(* holds back the others, and never hurries them.                          *)
SleepersOnTime ==
  [][\A p \in ToSet(sch.sleepq) :
       LET left == delay_of(sch.sleepq, sch.qkey, p)
           tick == IF clkhandler THEN 1 ELSE 0
       IN  IF p \in ToSet(sch.sleepq)'
           THEN LET left1 == delay_of(sch.sleepq, sch.qkey, p)'
                IN  /\ left1 >= left - tick
                    /\ sch.qkey[Head(sch.sleepq)] >= 0 => left1 = left - tick
                    /\ Here.at = "wakeup" /\ pc'[currpid].at = "clock" => left1 > 0
           ELSE left <= 0 \/ prstate'[p] = "FREE" \/ prhasmsg'[p]]_vars

(* A delayed process is woken in the end, whatever the others do.          *)
SleepersWake ==
  \A p \in Pids : prstate[p] \in Delayed ~> prstate[p] \notin Delayed

(* Time slicing: a ready process that none exceeds in priority, and that   *)
(* is queued by its priority, does not stay ready for ever.                *)
RoundRobin ==
  \A p \in Pids :
    []<>~(/\ prstate[p] = "READY" /\ sch.qkey[p] = sch.prprio[p]
          /\ \A q \in Pids : prstate[q] # "FREE" => sch.prprio[q] <= sch.prprio[p])

(* prcount is the total number of live processes (initialize.c), whenever  *)
(* no live process has begun a kill and not ended it.                      *)
PrcountIsLive ==
  ~halted /\ (\A p \in Pids : prstate[p] # "FREE" => pc[p].at \notin {"kill", "killsend"}) =>
     prcount = Cardinality({p \in Pids : prstate[p] # "FREE"})

(* resched gives the processor to the highest priority eligible process.   *)
DispatchesHighest ==
  [][currpid' # currpid =>
       \A p \in Pids : prstate'[p] = "READY" =>
         sch'.prprio[p] <= sch'.prprio[currpid']]_vars
=============================================================================
