------------------------------ MODULE XinuSched ------------------------------
(***************************************************************************)
(* The scheduler and the ready list (system/resched.c, ready.c, and the    *)
(* delay queue operations unsleep.c, sleep.c).  Its globals are the fields *)
(* of one record S, so that the calls other kernel routines make to it     *)
(* (ready, resched, unsleep, resched_cntl) are operators from S to S:      *)
(*   prstate, prprio  proctab[pid].prstate and .prprio                     *)
(*   readylist        the ready list                                       *)
(*   sleepq           the delta list of delayed processes                  *)
(*   qkey             queuetab[pid].qkey                                   *)
(*   currpid          the running process                                  *)
(*   preempt          ticks left of its time slice                         *)
(*   ndefers, attempt the structure Defer                                  *)
(* As in XinuQueue, a definition named for a slip is that definition's     *)
(* mutant.                                                                 *)
(***************************************************************************)
EXTENDS XinuQueue

CONSTANTS NPROC,     \* size of the process table
          QUANTUM    \* time slice, in clock ticks

ASSUME SchedAssumption == NPROC \in Nat \ {0, 1} /\ QUANTUM \in Nat \ {0}

Pids     == 0 .. NPROC - 1
NULLPROC == 0

PrStates == {"FREE", "CURR", "READY", "RECV", "SLEEP", "SUSP", "WAIT", "RECTIM"}

(* States of a process that is on the delta list.                          *)
Delayed == {"SLEEP", "RECTIM"}

(* The scheduler's records when keys are in K; a record's own keys are, of  *)
(* course, in the set of its keys.                                         *)
SchedRecords(K) ==
  [prstate : [Pids -> PrStates], prprio : [Pids -> Nat],
   readylist : Seq(Pids), sleepq : Seq(Pids), qkey : [Pids -> K],
   currpid : Pids, preempt : 1 .. QUANTUM, ndefers : {0, 1}, attempt : BOOLEAN]

IsSched(S) == S \in SchedRecords({S.qkey[p] : p \in DOMAIN S.qkey})

-----------------------------------------------------------------------------
(* Make p READY and put it on the ready list by its priority.              *)
make_ready(S, p) ==
  [S EXCEPT !.prstate[p] = "READY",
            !.readylist  = insert(S.readylist, S.qkey, p, S.prprio[p]),
            !.qkey[p]    = S.prprio[p]]

(* Take the head of the ready list and run it with a fresh time slice.     *)
dispatch(S) ==
  [S EXCEPT !.currpid   = Head(S.readylist),
            !.readylist = Tail(S.readylist),
            !.prstate[Head(S.readylist)] = "CURR",
            !.preempt   = QUANTUM]

keeps_cpu_though_blocked(S) ==
  S.readylist = << >> \/ S.prprio[S.currpid] > S.qkey[Head(S.readylist)]

(* The running process stays eligible and nothing on the ready list has a  *)
(* key as high as its priority (an empty ready list has key MINKEY).       *)
keeps_cpu(S) ==
  /\ S.prstate[S.currpid] = "CURR"
  /\ \/ S.readylist = << >>
     \/ S.prprio[S.currpid] > S.qkey[Head(S.readylist)]

(* resched: rescheduling under deferral is only remembered.                *)
resched(S) ==
  CASE S.ndefers > 0 -> [S EXCEPT !.attempt = TRUE]
    [] S.ndefers = 0 /\ keeps_cpu(S) -> S
    [] S.ndefers = 0 /\ ~keeps_cpu(S) ->
         dispatch(IF S.prstate[S.currpid] = "CURR"
                  THEN make_ready(S, S.currpid) ELSE S)

ready_without_resched(S, p) == make_ready(S, p)
ready(S, p) == resched(make_ready(S, p))

(* Leave the CPU in state st.                                              *)
block(S, st) == resched([S EXCEPT !.prstate[S.currpid] = st])

defer_start(S) ==
  [S EXCEPT !.ndefers = @ + 1, !.attempt = IF S.ndefers = 0 THEN FALSE ELSE @]

defer_stop(S) ==
  LET T == [S EXCEPT !.ndefers = @ - 1]
  IN  IF T.ndefers = 0 /\ T.attempt THEN resched(T) ELSE T

-----------------------------------------------------------------------------
delay_not_queued(S, d, st) == block(S, st)

(* Put the running process on the delta list and block it in state st.     *)
delay(S, d, st) ==
  block([S EXCEPT !.sleepq = insertd(S.sleepq, S.qkey, S.currpid, d),
                  !.qkey   = insertd_key(S.sleepq, S.qkey, S.currpid, d)], st)

(* Take p off the delta list before its time.                              *)
unsleep(S, p) ==
  [S EXCEPT !.sleepq = getitem(S.sleepq, p),
            !.qkey   = unsleep_key(S.sleepq, S.qkey, p)]

end_of_tick_one_late(S) ==
  IF S.preempt = 0 THEN resched([S EXCEPT !.preempt = QUANTUM])
                   ELSE [S EXCEPT !.preempt = @ - 1]

(* The clock handler's last part: end the time slice at zero.              *)
end_of_tick(S) ==
  IF S.preempt = 1 THEN resched([S EXCEPT !.preempt = QUANTUM])
                   ELSE [S EXCEPT !.preempt = @ - 1]
=============================================================================
