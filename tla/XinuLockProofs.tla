---------------------------- MODULE XinuLockProofs ----------------------------
(***************************************************************************)
(* The sleeping lock, for every number of processes and every workload     *)
(* without kill: one process at a time has the lock, its owner is the one  *)
(* that holds it, a process is on one queue, and the lock implements the   *)
(* abstract QueueLock.  As lock_window shows, this needs that no clock     *)
(* interrupt comes between enqueue and park; every theorem says so.        *)
(*                                                                         *)
(* The proof has two halves that need each other.  To the kernel a process *)
(* that parks is one that suspends itself and that its unparker resumes:   *)
(* with its state written SUSP, every step of the lock is a step of        *)
(* XinuKernel or none, and all that is proved of the kernel holds.  What   *)
(* is proved of the lock says which processes those are.                   *)
(***************************************************************************)
EXTENDS XinuLock, XinuSchedProofs

(* On the lock's queue and parked, or off it and about to be unparked.     *)
Waiters ==
  {p \in Pids : /\ at[p].at = "own"
                /\ \/ p \in ToSet(lqueue)
                   \/ \E h \in Pids : at[h].at = "unpark" /\ at[h].arg = p}

(* The scheduler's record with the states of the processes in P replaced.  *)
WithState(P, S, st) ==
  [S EXCEPT !.prstate = [p \in Pids |-> IF p \in P THEN st ELSE S.prstate[p]]]

AsKernel == WithState(Waiters, sch, "SUSP")

Kernel == INSTANCE XinuKernelProofs WITH
  sch    <- AsKernel,
  Calls  <- Calls \cup {"suspend", "resume"},
  Delays <- Delays \cup {QUANTUM}

-----------------------------------------------------------------------------
(* Points of the code that are run with the guard taken.                   *)
Guarded == {"test_flag", "set_flag", "set_owner", "leave_lock",
            "enqueue", "topark", "leave_guard",
            "test_owner", "test_queue", "clear_flag", "clear_owner",
            "dequeue", "unpark", "leave_unlock"}

GuardExcludes ==
  /\ \A p, q \in Pids : at[p].at \in Guarded /\ at[q].at \in Guarded => p = q
  /\ guard = 1 <=> \E p \in Pids : at[p].at \in Guarded

(* What a test of the flag found is still so where it is used, and a lock  *)
(* with a queue is held.                                                   *)
FlagKnown ==
  /\ \A p \in Pids : at[p].at \in {"set_flag", "clear_owner"} => flag = 0
  /\ \A p \in Pids : at[p].at = "enqueue" => flag = 1
  /\ lqueue # << >> => flag = 1

OwnerKnown ==
  \A p \in Pids :
    at[p].at \in {"leave_lock", "held", "test_queue", "clear_flag", "dequeue"} => owner = p

(* Who is on the queue is about to park or parked; who is about to park    *)
(* runs, and will find prTopark set.                                       *)
QueueKnown ==
  /\ IsInjective(lqueue)
  /\ \A p \in ToSet(lqueue) : at[p].at \in Enqueued \cup {"own"}
  /\ \A p \in Pids :
       /\ at[p].at \in Enqueued => p \in ToSet(lqueue) /\ p = currpid /\ pc[p] = User
       /\ at[p].at \in {"leave_guard", "park"} => prTopark[p]
       /\ at[p].at = "clear_flag" => lqueue = << >>
       /\ at[p].at = "dequeue" => lqueue # << >>
       /\ at[p].at = "unpark" => at[at[p].arg].at = "own" /\ at[p].arg \notin ToSet(lqueue)

(* The processes that wait for the lock are in the state in which they     *)
(* parked; the null process never uses it; no call to kill is under way.   *)
WaitersWait  == sch = WithState(Waiters, AsKernel, "WAIT")
NullStaysOut == at[NULLPROC].at = "idle"
NobodyKills  == \A p \in Pids : pc[p].at \notin {"kill", "killsend"}

LockIInv ==
  /\ LockTypeOK /\ GuardExcludes /\ MutualExclusion /\ FlagKnown /\ OwnerKnown
  /\ QueueKnown /\ NullStaysOut
  /\ WaitersWait /\ NobodyKills /\ Kernel!IInv

(* The part of it that the kernel's own calls need.                        *)
Seen == WaitersWait /\ Kernel!IInv

-----------------------------------------------------------------------------
(* The scheduler does the same whether a process that is on none of its    *)
(* queues is in WAIT or in SUSP.  M is the record with SUSP.               *)
LEMMA WithStateFields ==
  ASSUME NEW S, IsSched(S), NEW P \in SUBSET Pids, NEW st \in PrStates
  PROVE  LET T == WithState(P, S, st) IN
         /\ IsSched(T)
         /\ T.prstate = [p \in Pids |-> IF p \in P THEN st ELSE S.prstate[p]]
         /\ T.prprio = S.prprio /\ T.readylist = S.readylist /\ T.sleepq = S.sleepq
         /\ T.qkey = S.qkey /\ T.currpid = S.currpid /\ T.preempt = S.preempt
         /\ T.ndefers = S.ndefers /\ T.attempt = S.attempt
<1>1. S.prstate \in [Pids -> PrStates]
  BY SchedFields
<1>2. [p \in Pids |-> IF p \in P THEN st ELSE S.prstate[p]] \in [Pids -> PrStates]
  BY <1>1
<1> QED
  BY <1>2 DEF IsSched, SchedRecords, WithState

LEMMA AsWait ==
  ASSUME NEW S, IsSched(S), NEW P \in SUBSET Pids
  PROVE  LET T == WithState(P, S, "WAIT") IN
         /\ IsSched(T)
         /\ T.prstate = [p \in Pids |-> IF p \in P THEN "WAIT" ELSE S.prstate[p]]
         /\ T.prprio = S.prprio /\ T.readylist = S.readylist /\ T.sleepq = S.sleepq
         /\ T.qkey = S.qkey /\ T.currpid = S.currpid /\ T.preempt = S.preempt
         /\ T.ndefers = S.ndefers /\ T.attempt = S.attempt
<1>1. "WAIT" \in PrStates
  BY DEF PrStates
<1> QED
  BY <1>1, WithStateFields

(* Two records of the scheduler with the same fields are the same.         *)
LEMMA SchedEqual ==
  ASSUME NEW S, IsSched(S), NEW T, IsSched(T),
         S.prstate = T.prstate, S.prprio = T.prprio, S.readylist = T.readylist,
         S.sleepq = T.sleepq, S.qkey = T.qkey, S.currpid = T.currpid,
         S.preempt = T.preempt, S.ndefers = T.ndefers, S.attempt = T.attempt
  PROVE  S = T
<1> DEFINE K == {S.qkey[p] : p \in DOMAIN S.qkey}
<1>1. S \in SchedRecords(K) /\ T \in SchedRecords(K)
  BY DEF IsSched
<1> HIDE DEF K
<1>2. \A R \in SchedRecords(K) :
        R = [prstate |-> R.prstate, prprio |-> R.prprio, readylist |-> R.readylist,
             sleepq |-> R.sleepq, qkey |-> R.qkey, currpid |-> R.currpid,
             preempt |-> R.preempt, ndefers |-> R.ndefers, attempt |-> R.attempt]
  BY DEF SchedRecords
<1> QED
  BY <1>1, <1>2

(* Back and forth.                                                         *)
LEMMA ThereAndBack ==
  ASSUME NEW S, IsSched(S), NEW P \in SUBSET Pids, NEW st \in PrStates, NEW to \in PrStates,
         \A p \in P : S.prstate[p] = st
  PROVE  WithState(P, WithState(P, S, to), st) = S
<1> DEFINE T == WithState(P, S, to)
           U == WithState(P, T, st)
<1>1. S.prstate \in [Pids -> PrStates]
  BY SchedFields
<1>2. /\ IsSched(T) /\ T.prstate = [p \in Pids |-> IF p \in P THEN to ELSE S.prstate[p]]
      /\ T.prprio = S.prprio /\ T.readylist = S.readylist /\ T.sleepq = S.sleepq
      /\ T.qkey = S.qkey /\ T.currpid = S.currpid /\ T.preempt = S.preempt
      /\ T.ndefers = S.ndefers /\ T.attempt = S.attempt
  BY WithStateFields
<1> HIDE DEF T
<1>3. /\ IsSched(U) /\ U.prstate = [p \in Pids |-> IF p \in P THEN st ELSE T.prstate[p]]
      /\ U.prprio = T.prprio /\ U.readylist = T.readylist /\ U.sleepq = T.sleepq
      /\ U.qkey = T.qkey /\ U.currpid = T.currpid /\ U.preempt = T.preempt
      /\ U.ndefers = T.ndefers /\ U.attempt = T.attempt
  BY <1>2, WithStateFields
<1>4. U.prstate = S.prstate
  BY <1>1, <1>2, <1>3
<1> HIDE DEF U
<1>5. U = S
  BY <1>2, <1>3, <1>4, SchedEqual
<1> QED
  BY <1>5 DEF U, T

LEMMA MakeReadyAs ==
  ASSUME NEW M, IsSched(M), NEW P \in SUBSET Pids, NEW q \in Pids
  PROVE  WithState(P \ {q}, make_ready(M, q), "WAIT") = make_ready(WithState(P, M, "WAIT"), q)
<1> DEFINE S == WithState(P, M, "WAIT")
<1>1. M.prstate \in [Pids -> PrStates]
  BY SchedFields
<1>2. /\ S.prstate = [p \in Pids |-> IF p \in P THEN "WAIT" ELSE M.prstate[p]]
      /\ S.prprio = M.prprio /\ S.readylist = M.readylist /\ S.qkey = M.qkey
      /\ make_ready(M, q).prstate = [M.prstate EXCEPT ![q] = "READY"]
  <2>1. make_ready(M, q).prstate = [M.prstate EXCEPT ![q] = "READY"]
    BY DEF make_ready, IsSched, SchedRecords
  <2> QED
    BY <2>1, AsWait
<1>3. [S.prstate EXCEPT ![q] = "READY"]
        = [p \in Pids |-> IF p \in P \ {q} THEN "WAIT" ELSE make_ready(M, q).prstate[p]]
  BY <1>1, <1>2
<1> QED
  BY <1>2, <1>3 DEF WithState, make_ready, IsSched, SchedRecords

LEMMA DispatchAs ==
  ASSUME NEW M, IsSched(M), NEW P \in SUBSET Pids,
         Head(M.readylist) \in Pids \ P
  PROVE  WithState(P, dispatch(M), "WAIT") = dispatch(WithState(P, M, "WAIT"))
<1> DEFINE S == WithState(P, M, "WAIT")
           h == Head(M.readylist)
<1>1. M.prstate \in [Pids -> PrStates]
  BY SchedFields
<1>2. /\ S.prstate = [p \in Pids |-> IF p \in P THEN "WAIT" ELSE M.prstate[p]]
      /\ S.readylist = M.readylist
      /\ dispatch(M).prstate = [M.prstate EXCEPT ![h] = "CURR"]
  <2>1. dispatch(M).prstate = [M.prstate EXCEPT ![h] = "CURR"]
    BY DEF dispatch, IsSched, SchedRecords
  <2> QED
    BY <2>1, AsWait
<1>3. [S.prstate EXCEPT ![h] = "CURR"]
        = [p \in Pids |-> IF p \in P THEN "WAIT" ELSE dispatch(M).prstate[p]]
  BY <1>1, <1>2
<1> QED
  BY <1>2, <1>3 DEF WithState, dispatch, IsSched, SchedRecords

LEMMA ReschedAs ==
  ASSUME NEW M, Coherent(M), NEW P \in SUBSET Pids, \A p \in P : M.prstate[p] = "SUSP"
  PROVE  WithState(P, resched(M), "WAIT") = resched(WithState(P, M, "WAIT"))
<1> DEFINE S == WithState(P, M, "WAIT")
           c == M.currpid
<1>1. /\ IsSched(M) /\ M.prstate \in [Pids -> PrStates] /\ c \in Pids
      /\ M.ndefers \in {0, 1}
  BY SchedFields DEF Coherent
<1>2. /\ S.prstate = [p \in Pids |-> IF p \in P THEN "WAIT" ELSE M.prstate[p]]
      /\ S.readylist = M.readylist /\ S.prprio = M.prprio /\ S.qkey = M.qkey
      /\ S.currpid = c /\ S.ndefers = M.ndefers
  BY <1>1, AsWait
<1>3. /\ S.prstate[c] = "CURR" <=> M.prstate[c] = "CURR"
      /\ keeps_cpu(S) <=> keeps_cpu(M)
  BY <1>1, <1>2 DEF keeps_cpu
<1>4. CASE M.ndefers > 0
  <2>1. resched(M) = [M EXCEPT !.attempt = TRUE] /\ resched(S) = [S EXCEPT !.attempt = TRUE]
    BY <1>2, <1>4 DEF resched
  <2>2. WithState(P, [M EXCEPT !.attempt = TRUE], "WAIT")
          = [WithState(P, M, "WAIT") EXCEPT !.attempt = TRUE]
    <3>1. [M EXCEPT !.attempt = TRUE].prstate = M.prstate
      BY <1>1 DEF IsSched, SchedRecords
    <3> QED
      BY <1>1, <3>1 DEF WithState, IsSched, SchedRecords
  <2> QED
    BY <2>1, <2>2
<1>5. CASE M.ndefers = 0 /\ keeps_cpu(M)
  BY <1>2, <1>3, <1>5 DEF resched
<1>6. CASE M.ndefers = 0 /\ ~keeps_cpu(M)
  <2> DEFINE R == IF M.prstate[c] = "CURR" THEN make_ready(M, c) ELSE M
             Q == IF S.prstate[c] = "CURR" THEN make_ready(S, c) ELSE S
  <2>1. resched(M) = dispatch(R) /\ resched(S) = dispatch(Q)
    BY <1>2, <1>3, <1>6 DEF resched
  <2>2. WithState(P, R, "WAIT") = Q
    <3>1. CASE M.prstate[c] = "CURR"
      <4>1. P \ {c} = P
        BY <3>1
      <4> QED
        BY <1>1, <1>3, <3>1, <4>1, MakeReadyAs
    <3>2. CASE M.prstate[c] # "CURR"
      BY <1>3, <3>2
    <3> QED
      BY <3>1, <3>2
  <2>3. Coherent(R) /\ (\A p \in Pids : R.prstate[p] # "CURR")
        /\ (\A p \in P : R.prstate[p] = "SUSP")
    <3>1. CASE M.prstate[c] = "CURR"
      <4>1. R = make_ready(M, c) /\ M.prstate[c] # "READY"
        BY <3>1
      <4>2. Coherent(R) /\ R.prstate = [M.prstate EXCEPT ![c] = "READY"]
        BY <1>1, <4>1, MakeReadyJoins
      <4> HIDE DEF R
      <4> QED
        BY <1>1, <3>1, <4>2 DEF Coherent
    <3>2. CASE M.prstate[c] # "CURR"
      BY <1>1, <3>2 DEF Coherent
    <3> QED
      BY <3>1, <3>2
  <2> HIDE DEF R, Q
  <2>4. Head(R.readylist) \in Pids \ P
    <3>1. R.readylist \in Seq(Pids) /\ NULLPROC \in ToSet(R.readylist)
      BY <2>3, SchedFields, NullIsAProcess DEF Coherent, Eligible
    <3>2. R.readylist # << >>
      BY <3>1 DEF ToSet
    <3>3. Head(R.readylist) \in ToSet(R.readylist) /\ Head(R.readylist) \in Pids
      BY <2>3, <3>1, <3>2, TailLeaves DEF Coherent
    <3> QED
      BY <2>3, <3>3 DEF Coherent
  <2> QED
    BY <2>1, <2>2, <2>3, <2>4, DispatchAs DEF Coherent
<1> QED
  BY <1>1, <1>4, <1>5, <1>6

(* A process gives up the CPU: in one state to itself and the kernel       *)
(* (Q = P), or in WAIT, which is SUSP to the kernel (Q = P with it).       *)
LEMMA BlockAs ==
  ASSUME NEW M, SchedOK(M), Running(M), M.ndefers = 0, M.currpid # NULLPROC,
         NEW P \in SUBSET Pids, \A p \in P : M.prstate[p] = "SUSP",
         NEW st \in {"RECV", "SUSP", "WAIT", "FREE"}
  PROVE  WithState(P, block(M, st), "WAIT") = block(WithState(P, M, "WAIT"), st)
<1> DEFINE c == M.currpid
           R == [M EXCEPT !.prstate[c] = st]
           S == WithState(P, M, "WAIT")
<1>1. IsSched(M) /\ M.prstate \in [Pids -> PrStates] /\ c \in Pids /\ c \notin P
  BY SchedFields DEF SchedOK, Coherent, Running
<1>2. Coherent(R) /\ R.prstate = [M.prstate EXCEPT ![c] = st]
  BY GivesUpOK DEF SchedOK
<1>3. /\ S.prstate = [p \in Pids |-> IF p \in P THEN "WAIT" ELSE M.prstate[p]]
      /\ S.currpid = c
  BY <1>1, AsWait
<1>4. [S.prstate EXCEPT ![c] = st] = [p \in Pids |-> IF p \in P THEN "WAIT" ELSE R.prstate[p]]
  BY <1>1, <1>2, <1>3
<1>5. [S EXCEPT !.prstate[c] = st] = WithState(P, R, "WAIT")
  BY <1>1, <1>3, <1>4 DEF WithState, IsSched, SchedRecords
<1>6. \A p \in P : R.prstate[p] = "SUSP"
  BY <1>1, <1>2
<1> HIDE DEF R
<1>7. resched(WithState(P, R, "WAIT")) = WithState(P, resched(R), "WAIT")
  BY <1>2, <1>6, ReschedAs
<1> QED
  BY <1>3, <1>5, <1>7 DEF block, R

LEMMA ParkAs ==
  ASSUME NEW M, SchedOK(M), Running(M), M.ndefers = 0, M.currpid # NULLPROC,
         NEW P \in SUBSET Pids, \A p \in P : M.prstate[p] = "SUSP"
  PROVE  WithState(P \cup {M.currpid}, block(M, "SUSP"), "WAIT")
           = block(WithState(P, M, "WAIT"), "WAIT")
<1> DEFINE c == M.currpid
           R == [M EXCEPT !.prstate[c] = "SUSP"]
           S == WithState(P, M, "WAIT")
           Q == P \cup {c}
<1>1. IsSched(M) /\ M.prstate \in [Pids -> PrStates] /\ c \in Pids /\ c \notin P
  BY SchedFields DEF SchedOK, Coherent, Running
<1>2. Coherent(R) /\ R.prstate = [M.prstate EXCEPT ![c] = "SUSP"]
  BY GivesUpOK DEF SchedOK
<1>3. /\ S.prstate = [p \in Pids |-> IF p \in P THEN "WAIT" ELSE M.prstate[p]]
      /\ S.currpid = c
  BY <1>1, AsWait
<1>4. [S.prstate EXCEPT ![c] = "WAIT"] = [p \in Pids |-> IF p \in Q THEN "WAIT" ELSE R.prstate[p]]
  BY <1>1, <1>2, <1>3
<1>5. [S EXCEPT !.prstate[c] = "WAIT"] = WithState(Q, R, "WAIT")
  BY <1>1, <1>3, <1>4 DEF WithState, IsSched, SchedRecords
<1>6. Q \in SUBSET Pids /\ \A p \in Q : R.prstate[p] = "SUSP"
  BY <1>1, <1>2
<1> HIDE DEF R, Q
<1>7. resched(WithState(Q, R, "WAIT")) = WithState(Q, resched(R), "WAIT")
  BY <1>2, <1>6, ReschedAs
<1> QED
  BY <1>3, <1>5, <1>7 DEF block, R, Q

(* A process becomes ready; if it waited for the lock, no longer.          *)
LEMMA ReadyAs ==
  ASSUME NEW M, Coherent(M), NEW P \in SUBSET Pids, \A p \in P : M.prstate[p] = "SUSP",
         NEW q \in Pids, M.prstate[q] # "READY"
  PROVE  WithState(P \ {q}, ready(M, q), "WAIT") = ready(WithState(P, M, "WAIT"), q)
<1> DEFINE R == make_ready(M, q)
           Q == P \ {q}
<1>1. IsSched(M) /\ M.prstate \in [Pids -> PrStates]
  BY SchedFields DEF Coherent
<1>2. Coherent(R) /\ R.prstate = [M.prstate EXCEPT ![q] = "READY"]
  BY MakeReadyJoins
<1>3. WithState(Q, R, "WAIT") = make_ready(WithState(P, M, "WAIT"), q)
  BY <1>1, MakeReadyAs
<1>4. Q \in SUBSET Pids /\ \A p \in Q : R.prstate[p] = "SUSP"
  BY <1>1, <1>2
<1> HIDE DEF R, Q
<1>5. resched(WithState(Q, R, "WAIT")) = WithState(Q, resched(R), "WAIT")
  BY <1>2, <1>4, ReschedAs
<1> QED
  BY <1>3, <1>5 DEF ready, R, Q

LEMMA DelayAs ==
  ASSUME NEW M, SchedOK(M), Running(M), M.ndefers = 0, M.currpid # NULLPROC,
         NEW P \in SUBSET Pids, \A p \in P : M.prstate[p] = "SUSP",
         NEW d, NEW st \in Delayed
  PROVE  WithState(P, delay(M, d, st), "WAIT") = delay(WithState(P, M, "WAIT"), d, st)
<1> DEFINE c == M.currpid
           q == insertd(M.sleepq, M.qkey, c, d)
           k == insertd_key(M.sleepq, M.qkey, c, d)
           R == LyingDown(M, d, st)
           S == WithState(P, M, "WAIT")
<1>1. IsSched(M) /\ M.prstate \in [Pids -> PrStates] /\ c \in Pids /\ c \notin P
  BY SchedFields DEF SchedOK, Coherent, Running
<1>2. /\ Coherent(R) /\ R.prstate = [M.prstate EXCEPT ![c] = st]
      /\ delay(M, d, st) = resched(R)
  BY LyingDownOK DEF SchedOK
<1>3. /\ S.prstate = [p \in Pids |-> IF p \in P THEN "WAIT" ELSE M.prstate[p]]
      /\ S.currpid = c /\ S.sleepq = M.sleepq /\ S.qkey = M.qkey
  BY <1>1, AsWait
<1>4. [S.prstate EXCEPT ![c] = st] = [p \in Pids |-> IF p \in P THEN "WAIT" ELSE R.prstate[p]]
  BY <1>1, <1>2, <1>3
<1> HIDE DEF q, k
<1>5. [S EXCEPT !.sleepq = q, !.qkey = k, !.prstate[c] = st] = WithState(P, R, "WAIT")
  <2>1. R = [M EXCEPT !.sleepq = q, !.qkey = k, !.prstate[c] = st]
    BY DEF LyingDown, q, k
  <2> QED
    BY <1>1, <1>3, <1>4, <2>1 DEF WithState, IsSched, SchedRecords
<1>6. \A p \in P : R.prstate[p] = "SUSP"
  BY <1>1, <1>2
<1>7. delay(S, d, st) = resched([S EXCEPT !.sleepq = q, !.qkey = k, !.prstate[c] = st])
  BY <1>1, <1>3 DEF delay, block, q, k, WithState, IsSched, SchedRecords
<1> HIDE DEF R
<1>8. resched(WithState(P, R, "WAIT")) = WithState(P, resched(R), "WAIT")
  BY <1>2, <1>6, ReschedAs
<1> QED
  BY <1>2, <1>5, <1>7, <1>8

LEMMA DeferStopAs ==
  ASSUME NEW M, SchedOK(M), Running(M), M.ndefers = 1,
         NEW P \in SUBSET Pids, \A p \in P : M.prstate[p] = "SUSP"
  PROVE  WithState(P, defer_stop(M), "WAIT") = defer_stop(WithState(P, M, "WAIT"))
<1> DEFINE R == [M EXCEPT !.ndefers = 0]
           S == WithState(P, M, "WAIT")
           Q == [S EXCEPT !.ndefers = 0]
<1>1. IsSched(M)
  BY DEF SchedOK, Coherent
<1>2. /\ Coherent(R) /\ R.prstate = M.prstate /\ R.attempt = M.attempt
      /\ defer_stop(M) = IF R.attempt THEN resched(R) ELSE R
  BY EndDeferralOK DEF SchedOK
<1>3. S.ndefers = 1 /\ S.attempt = M.attempt /\ IsSched(S)
  BY <1>1, AsWait
<1>4. Q = WithState(P, R, "WAIT")
  BY <1>1 DEF WithState, IsSched, SchedRecords
<1>5. Q = [S EXCEPT !.ndefers = @ - 1] /\ Q.ndefers = 0 /\ Q.attempt = M.attempt
  <2> HIDE DEF S
  <2>1. S.ndefers - 1 = 0
    BY <1>3
  <2> QED
    BY <1>3, <2>1 DEF IsSched, SchedRecords
<1> HIDE DEF S, Q
<1>6. defer_stop(S) = IF Q.attempt THEN resched(Q) ELSE Q
  BY <1>5 DEF defer_stop
<1> HIDE DEF R
<1>7. resched(WithState(P, R, "WAIT")) = WithState(P, resched(R), "WAIT")
  BY <1>2, ReschedAs
<1> QED
  BY <1>2, <1>4, <1>5, <1>6, <1>7 DEF S

LEMMA EndOfTickAs ==
  ASSUME NEW M, SchedOK(M), NEW P \in SUBSET Pids, \A p \in P : M.prstate[p] = "SUSP"
  PROVE  WithState(P, end_of_tick(M), "WAIT") = end_of_tick(WithState(P, M, "WAIT"))
<1> DEFINE R == [M EXCEPT !.preempt = QUANTUM]
           S == WithState(P, M, "WAIT")
<1>1. IsSched(M)
  BY DEF SchedOK, Coherent
<1>2. Coherent(R) /\ R.prstate = M.prstate
  <2> DEFINE K == {M.qkey[p] : p \in DOMAIN M.qkey}
  <2>1. M \in SchedRecords(K)
    BY <1>1 DEF IsSched
  <2>2. /\ R.prstate = M.prstate /\ R.readylist = M.readylist /\ R.currpid = M.currpid
        /\ R.qkey = M.qkey
    BY <2>1 DEF SchedRecords
  <2> HIDE DEF K
  <2>3. R \in SchedRecords(K)
    <3>1. QUANTUM \in 1 .. QUANTUM
      BY SchedAssumption
    <3> QED
      BY <2>1, <3>1 DEF SchedRecords
  <2>4. IsSched(R)
    BY <2>2, <2>3 DEF IsSched, K
  <2> HIDE DEF R
  <2> QED
    BY <2>2, <2>4 DEF SchedOK, Coherent
<1>3. S.preempt = M.preempt
  BY <1>1, AsWait
<1>4. CASE M.preempt = 1
  <2>1. [S EXCEPT !.preempt = QUANTUM] = WithState(P, R, "WAIT")
    BY <1>1 DEF WithState, IsSched, SchedRecords
  <2>2. end_of_tick(M) = resched(R) /\ end_of_tick(S) = resched([S EXCEPT !.preempt = QUANTUM])
    BY <1>3, <1>4 DEF end_of_tick
  <2> HIDE DEF R
  <2>3. resched(WithState(P, R, "WAIT")) = WithState(P, resched(R), "WAIT")
    BY <1>2, ReschedAs
  <2> QED
    BY <2>1, <2>2, <2>3
<1>5. CASE M.preempt # 1
  BY <1>1, <1>3, <1>5 DEF end_of_tick, WithState, IsSched, SchedRecords
<1> QED
  BY <1>4, <1>5

-----------------------------------------------------------------------------
(* The kernel of the instance is the same kernel, with other calls.        *)
LEMMA SameConstants ==
  /\ NPROC \in Nat \ {0, 1} /\ QUANTUM \in Nat \ {0}
  /\ NPROC > 2 /\ NSEM \in Nat
  /\ Prios \subseteq Nat \ {0} /\ Delays \cup {QUANTUM} \subseteq Nat /\ Counts \subseteq Nat
  /\ MaxCount \in Nat
  BY SchedAssumption, KernelAssumption

LEMMA SameNames ==
  /\ Kernel!Pids = Pids /\ Kernel!Sems = Sems /\ Kernel!NULLPROC = NULLPROC
  /\ Kernel!Delayed = Delayed /\ Kernel!User = User
  /\ \A c, a, n : Kernel!At(c, a, n) = At(c, a, n)
  BY DEF Kernel!Pids, Pids, Kernel!Sems, Sems, Kernel!NULLPROC, NULLPROC,
         Kernel!Delayed, Delayed, Kernel!User, User, Kernel!At, At

LEMMA SameQueueOps ==
  ASSUME NEW q, NEW k, NEW p, NEW d
  PROVE  /\ Kernel!insert(q, k, p, d) = insert(q, k, p, d)
         /\ Kernel!getitem(q, p) = getitem(q, p)
         /\ Kernel!insertd(q, k, p, d) = insertd(q, k, p, d)
         /\ Kernel!insertd_key(q, k, p, d) = insertd_key(q, k, p, d)
         /\ Kernel!unsleep_key(q, k, p) = unsleep_key(q, k, p)
<1>1. Kernel!insert(q, k, p, d) = insert(q, k, p, d)
  BY DEF insert, Kernel!insert, insert_place, Kernel!insert_place,
         InsertAt, Kernel!InsertAt, Min, Kernel!Min
<1>2. Kernel!getitem(q, p) = getitem(q, p)
  BY DEF getitem, Kernel!getitem, RemoveAt, Kernel!RemoveAt
<1>3. Kernel!insertd_place(q, k, d) = insertd_place(q, k, d)
  BY DEF insertd_place, Kernel!insertd_place, Min, Kernel!Min, delta_sum, Kernel!delta_sum
<1>4. Kernel!insertd(q, k, p, d) = insertd(q, k, p, d)
  BY <1>3 DEF insertd, Kernel!insertd, InsertAt, Kernel!InsertAt
<1>5. \A i, n : Kernel!add_to_key(q, k, i, n) = add_to_key(q, k, i, n)
  BY DEF add_to_key, Kernel!add_to_key
<1>6. Kernel!insertd_key(q, k, p, d) = insertd_key(q, k, p, d)
  <2>1. Kernel!delta_sum(q, k) = delta_sum(q, k)
    BY DEF delta_sum, Kernel!delta_sum
  <2> QED
    BY <1>3, <1>5, <2>1 DEF insertd_key, Kernel!insertd_key
<1>7. Kernel!unsleep_key(q, k, p) = unsleep_key(q, k, p)
  BY <1>5 DEF unsleep_key, Kernel!unsleep_key
<1> QED
  BY <1>1, <1>2, <1>4, <1>6, <1>7

LEMMA SameScheduler ==
  ASSUME NEW S
  PROVE  /\ Kernel!resched(S) = resched(S)
         /\ \A p : Kernel!ready(S, p) = ready(S, p) /\ Kernel!unsleep(S, p) = unsleep(S, p)
         /\ \A st : Kernel!block(S, st) = block(S, st)
         /\ \A d, st : Kernel!delay(S, d, st) = delay(S, d, st)
         /\ Kernel!defer_start(S) = defer_start(S) /\ Kernel!defer_stop(S) = defer_stop(S)
         /\ Kernel!end_of_tick(S) = end_of_tick(S)
<1>1. \A R, p : Kernel!make_ready(R, p) = make_ready(R, p)
  BY SameQueueOps DEF make_ready, Kernel!make_ready
<1>2. \A R : Kernel!resched(R) = resched(R)
  BY <1>1 DEF resched, Kernel!resched, dispatch, Kernel!dispatch, keeps_cpu, Kernel!keeps_cpu
<1>3. \A p : Kernel!ready(S, p) = ready(S, p)
  BY <1>1, <1>2 DEF ready, Kernel!ready
<1>4. \A p : Kernel!unsleep(S, p) = unsleep(S, p)
  BY SameQueueOps DEF unsleep, Kernel!unsleep
<1>5. \A R, st : Kernel!block(R, st) = block(R, st)
  BY <1>2 DEF block, Kernel!block
<1>6. \A d, st : Kernel!delay(S, d, st) = delay(S, d, st)
  BY <1>5, SameQueueOps DEF delay, Kernel!delay
<1>7. Kernel!defer_start(S) = defer_start(S) /\ Kernel!defer_stop(S) = defer_stop(S)
  BY <1>2 DEF defer_start, Kernel!defer_start, defer_stop, Kernel!defer_stop
<1>8. Kernel!end_of_tick(S) = end_of_tick(S)
  BY <1>2 DEF end_of_tick, Kernel!end_of_tick
<1> QED
  BY <1>2, <1>3, <1>4, <1>5, <1>6, <1>7, <1>8

LEMMA SameInvariants ==
  ASSUME NEW S
  PROVE  /\ Kernel!IsSched(S) <=> IsSched(S)
         /\ Kernel!SchedOK(S) <=> SchedOK(S)
         /\ Kernel!Running(S) <=> Running(S)
<1>1. Kernel!IsSched(S) <=> IsSched(S)
  BY DEF IsSched, Kernel!IsSched, SchedRecords, Kernel!SchedRecords,
         Pids, Kernel!Pids, PrStates, Kernel!PrStates
<1>2. \A q : Kernel!ToSet(q) = ToSet(q) /\ (Kernel!IsInjective(q) <=> IsInjective(q))
  BY DEF ToSet, Kernel!ToSet, IsInjective, Kernel!IsInjective
<1> QED
  BY <1>1, <1>2, SameNames DEF SchedOK, Kernel!SchedOK, Coherent, Kernel!Coherent,
     Eligible, Kernel!Eligible, Running, Kernel!Running

-----------------------------------------------------------------------------
(* What the kernel sees.                                                   *)
LEMMA SeenFacts ==
  ASSUME Seen
  PROVE  /\ SchedOK(AsKernel) /\ Running(AsKernel) /\ AsKernel.ndefers \in {0, 1}
         /\ IsSched(AsKernel) /\ IsSched(sch)
         /\ Waiters \in SUBSET Pids /\ currpid \in Pids \ Waiters
         /\ sch = WithState(Waiters, AsKernel, "WAIT")
         /\ \A p \in Waiters : AsKernel.prstate[p] = "SUSP" /\ prstate[p] = "WAIT"
         /\ \A p \in Pids \ Waiters : AsKernel.prstate[p] = prstate[p]
         /\ AsKernel.prprio = sch.prprio /\ AsKernel.readylist = sch.readylist
         /\ AsKernel.sleepq = sch.sleepq /\ AsKernel.qkey = sch.qkey
         /\ AsKernel.currpid = sch.currpid /\ AsKernel.preempt = sch.preempt
         /\ AsKernel.ndefers = sch.ndefers /\ AsKernel.attempt = sch.attempt
<1> DEFINE M == AsKernel
<1>1. SchedOK(M) /\ Running(M)
  BY SameInvariants DEF Seen, Kernel!IInv, Kernel!RunningOK
<1>2. IsSched(M) /\ M.prstate \in [Pids -> PrStates] /\ M.ndefers \in {0, 1}
      /\ M.currpid \in Pids
  BY <1>1, SchedFields DEF SchedOK, Coherent
<1>3. Waiters \in SUBSET Pids /\ sch = WithState(Waiters, M, "WAIT")
  BY DEF Waiters, Seen, WaitersWait
<1> HIDE DEF M
<1>4. /\ IsSched(sch)
      /\ sch.prstate = [p \in Pids |-> IF p \in Waiters THEN "WAIT" ELSE M.prstate[p]]
      /\ sch.prprio = M.prprio /\ sch.readylist = M.readylist /\ sch.sleepq = M.sleepq
      /\ sch.qkey = M.qkey /\ sch.currpid = M.currpid /\ sch.preempt = M.preempt
      /\ sch.ndefers = M.ndefers /\ sch.attempt = M.attempt
  BY <1>2, <1>3, AsWait
<1>5. M.prstate = [p \in Pids |-> IF p \in Waiters THEN "SUSP" ELSE sch.prstate[p]]
  <2>1. "SUSP" \in PrStates
    BY DEF PrStates
  <2> QED
    BY <1>3, <1>4, <2>1, WithStateFields DEF M, AsKernel
<1>6. M.currpid \notin Waiters
  BY <1>1, <1>2, <1>5 DEF Running, M
<1> QED
  BY <1>1, <1>2, <1>3, <1>4, <1>5, <1>6 DEF M, currpid, prstate

(* If the step shows the kernel the record T, it keeps the waiters apart.  *)
LEMMA StepSeen ==
  ASSUME NEW Q \in SUBSET Pids, NEW T, IsSched(T), \A p \in Q : T.prstate[p] = "SUSP",
         Waiters' = Q, sch' = WithState(Q, T, "WAIT")
  PROVE  AsKernel' = T /\ WaitersWait'
<1>1. "SUSP" \in PrStates /\ "WAIT" \in PrStates
  BY DEF PrStates
<1>2. WithState(Q, WithState(Q, T, "WAIT"), "SUSP") = T
  BY <1>1, ThereAndBack
<1>3. AsKernel' = T
  BY <1>2 DEF AsKernel, WithState
<1> QED
  BY <1>3 DEF WaitersWait, WithState

LEMMA WaitersStay ==
  ASSUME UNCHANGED lockvars
  PROVE  Waiters' = Waiters
  BY DEF lockvars, lk, Waiters

(* The scheduler's routines, called in a step that leaves the lock alone.  *)
LEMMA NothingSeen ==
  ASSUME Seen, Waiters' = Waiters, sch' = sch
  PROVE  AsKernel' = AsKernel /\ WaitersWait'
<1>1. AsKernel' = AsKernel
  BY DEF AsKernel, WithState
<1> QED
  BY <1>1 DEF WaitersWait, WithState, Seen

LEMMA ReschedSeen ==
  ASSUME Seen, Waiters' = Waiters,
         NEW R, SchedOK(R), \A p \in Waiters : R.prstate[p] = "SUSP",
         sch' = resched(WithState(Waiters, R, "WAIT"))
  PROVE  AsKernel' = resched(R) /\ WaitersWait'
<1> DEFINE T == resched(R)
<1>1. IsSched(T) /\ OnlyTurns(R, T)
  BY ReschedOK DEF SchedOK, Coherent
<1>2. Waiters \in SUBSET Pids
  BY SeenFacts
<1>3. \A p \in Waiters : T.prstate[p] = "SUSP"
  BY <1>1, <1>2 DEF OnlyTurns, Turns, Eligible
<1>4. sch' = WithState(Waiters, T, "WAIT")
  BY <1>2, ReschedAs DEF SchedOK
<1> HIDE DEF T
<1>5. AsKernel' = T /\ WaitersWait'
  BY <1>1, <1>2, <1>3, <1>4, StepSeen
<1> QED
  BY <1>5 DEF T

LEMMA BlockSeen ==
  ASSUME Seen, Waiters' = Waiters, sch.ndefers = 0, currpid # NULLPROC,
         NEW st \in {"RECV", "SUSP", "WAIT", "FREE"}, sch' = block(sch, st)
  PROVE  AsKernel' = block(AsKernel, st) /\ WaitersWait'
<1> DEFINE M == AsKernel
           T == block(M, st)
<1>1. /\ SchedOK(M) /\ Running(M) /\ M.ndefers = 0 /\ M.currpid # NULLPROC
      /\ Waiters \in SUBSET Pids /\ M.currpid \notin Waiters
      /\ sch = WithState(Waiters, M, "WAIT") /\ \A p \in Waiters : M.prstate[p] = "SUSP"
  BY SeenFacts DEF currpid
<1> HIDE DEF M
<1>2. IsSched(T) /\ Turns({M.currpid}, M, T)
  BY <1>1, BlockOK DEF SchedOK, Coherent
<1>3. \A p \in Waiters : T.prstate[p] = "SUSP"
  BY <1>1, <1>2 DEF Turns, Eligible
<1>4. sch' = WithState(Waiters, T, "WAIT")
  BY <1>1, BlockAs
<1> HIDE DEF T
<1>5. AsKernel' = T /\ WaitersWait'
  BY <1>1, <1>2, <1>3, <1>4, StepSeen
<1> QED
  BY <1>5 DEF T, M

LEMMA DelaySeen ==
  ASSUME Seen, Waiters' = Waiters, sch.ndefers = 0, currpid # NULLPROC,
         NEW d, NEW st \in Delayed, sch' = delay(sch, d, st)
  PROVE  AsKernel' = delay(AsKernel, d, st) /\ WaitersWait'
<1> DEFINE M == AsKernel
           T == delay(M, d, st)
<1>1. /\ SchedOK(M) /\ Running(M) /\ M.ndefers = 0 /\ M.currpid # NULLPROC
      /\ Waiters \in SUBSET Pids /\ M.currpid \notin Waiters
      /\ sch = WithState(Waiters, M, "WAIT") /\ \A p \in Waiters : M.prstate[p] = "SUSP"
  BY SeenFacts DEF currpid
<1> HIDE DEF M
<1>2. IsSched(T) /\ Turns({M.currpid}, M, T)
  BY <1>1, DelayOK DEF SchedOK, Coherent
<1>3. \A p \in Waiters : T.prstate[p] = "SUSP"
  BY <1>1, <1>2 DEF Turns, Eligible
<1>4. sch' = WithState(Waiters, T, "WAIT")
  BY <1>1, DelayAs
<1> HIDE DEF T
<1>5. AsKernel' = T /\ WaitersWait'
  BY <1>1, <1>2, <1>3, <1>4, StepSeen
<1> QED
  BY <1>5 DEF T, M

LEMMA ReadySeen ==
  ASSUME Seen, Waiters' = Waiters, NEW q \in Pids \ Waiters,
         NEW R, Parked(R, q), \A p \in Waiters : R.prstate[p] = "SUSP",
         sch' = ready(WithState(Waiters, R, "WAIT"), q)
  PROVE  AsKernel' = ready(R, q) /\ WaitersWait'
<1> DEFINE T == ready(R, q)
<1>1. IsSched(T) /\ Turns({q}, R, T) /\ Coherent(R) /\ R.prstate[q] # "READY"
  BY ReadyOK DEF SchedOK, Coherent, Parked, Eligible
<1>2. Waiters \in SUBSET Pids /\ Waiters \ {q} = Waiters
  BY SeenFacts
<1>3. \A p \in Waiters : T.prstate[p] = "SUSP"
  BY <1>1, <1>2 DEF Turns, Eligible
<1>4. sch' = WithState(Waiters, T, "WAIT")
  BY <1>1, <1>2, ReadyAs
<1> HIDE DEF T
<1>5. AsKernel' = T /\ WaitersWait'
  BY <1>1, <1>2, <1>3, <1>4, StepSeen
<1> QED
  BY <1>5 DEF T

LEMMA DeferStopSeen ==
  ASSUME Seen, Waiters' = Waiters, sch.ndefers = 1, sch' = defer_stop(sch)
  PROVE  AsKernel' = defer_stop(AsKernel) /\ WaitersWait'
<1> DEFINE M == AsKernel
           T == defer_stop(M)
<1>1. /\ SchedOK(M) /\ Running(M) /\ M.ndefers = 1 /\ Waiters \in SUBSET Pids
      /\ sch = WithState(Waiters, M, "WAIT") /\ \A p \in Waiters : M.prstate[p] = "SUSP"
  BY SeenFacts
<1> HIDE DEF M
<1>2. IsSched(T) /\ Turns({}, M, T)
  BY <1>1, DeferStopOK DEF SchedOK, Coherent
<1>3. \A p \in Waiters : T.prstate[p] = "SUSP"
  BY <1>1, <1>2 DEF Turns, Eligible
<1>4. sch' = WithState(Waiters, T, "WAIT")
  BY <1>1, DeferStopAs
<1> HIDE DEF T
<1>5. AsKernel' = T /\ WaitersWait'
  BY <1>1, <1>2, <1>3, <1>4, StepSeen
<1> QED
  BY <1>5 DEF T, M

LEMMA EndOfTickSeen ==
  ASSUME Seen, Waiters' = Waiters,
         NEW R, SchedOK(R), Running(R), R.ndefers = 0, \A p \in Waiters : R.prstate[p] = "SUSP",
         sch' = end_of_tick(WithState(Waiters, R, "WAIT"))
  PROVE  AsKernel' = end_of_tick(R) /\ WaitersWait'
<1> DEFINE T == end_of_tick(R)
<1>1. IsSched(T) /\ Turns({}, R, T)
  BY EndOfTickOK DEF SchedOK, Coherent
<1>2. Waiters \in SUBSET Pids
  BY SeenFacts
<1>3. \A p \in Waiters : T.prstate[p] = "SUSP"
  BY <1>1, <1>2 DEF Turns, Eligible
<1>4. sch' = WithState(Waiters, T, "WAIT")
  BY <1>2, EndOfTickAs
<1> HIDE DEF T
<1>5. AsKernel' = T /\ WaitersWait'
  BY <1>1, <1>2, <1>3, <1>4, StepSeen
<1> QED
  BY <1>5 DEF T

(* The scheduler's record in these, but for the states, is that of sch.    *)
LEMMA DeferStartSeen ==
  ASSUME Seen, Waiters' = Waiters,
         NEW R, SchedOK(R), R.ndefers = 0, \A p \in Waiters : R.prstate[p] = "SUSP",
         sch' = defer_start(WithState(Waiters, R, "WAIT"))
  PROVE  AsKernel' = defer_start(R) /\ WaitersWait'
<1> DEFINE T == defer_start(R)
<1>1. IsSched(T) /\ T.prstate = R.prstate /\ IsSched(R)
  BY DeferStartOK DEF SchedOK, Coherent
<1>2. Waiters \in SUBSET Pids
  BY SeenFacts
<1>3. sch' = WithState(Waiters, T, "WAIT")
  BY <1>1 DEF defer_start, WithState, IsSched, SchedRecords
<1> HIDE DEF T
<1>5. AsKernel' = T /\ WaitersWait'
  BY <1>1, <1>2, <1>3, StepSeen
<1> QED
  BY <1>5 DEF T

-----------------------------------------------------------------------------
(* Every call of the kernel's is the same call to the kernel of the        *)
(* instance.                                                               *)
LEMMA CallSeen ==
  ASSUME Seen
  PROVE  /\ Kernel!currpid = currpid /\ Kernel!Here = Here
         /\ \A q \in Pids \ Waiters : Kernel!prstate[q] = prstate[q]
         /\ \A c : syscall(c) => Kernel!syscall(c)
         /\ \A p : inside(p) => Kernel!inside(p)
         /\ \A f : Goto(f) => Kernel!Goto(f)
<1>1. Kernel!currpid = currpid /\ Kernel!Here = Here
  BY SeenFacts DEF Kernel!currpid, Kernel!Here, currpid, Here
<1>2. \A q \in Pids \ Waiters : Kernel!prstate[q] = prstate[q]
  BY SeenFacts DEF Kernel!prstate
<1> QED
  BY <1>1, <1>2, SameNames DEF syscall, Kernel!syscall, inside, Kernel!inside, Goto, Kernel!Goto

LEMMA NotLooping ==
  ASSUME Seen, Here.at \notin {"signaln", "semdelete", "semreset", "wakeup"}
  PROVE  sch.ndefers = 0
<1>1. AsKernel.ndefers = 0
  BY SameConstants, CallSeen, Kernel!NotDeferred DEF Seen, Kernel!Looping
<1> QED
  BY <1>1, SeenFacts

LEMMA InLoop ==
  ASSUME Seen, Here.at \in {"signaln", "semdelete", "semreset", "wakeup"}
  PROVE  sch.ndefers = 1
<1>1. AsKernel.ndefers = 1
  BY SameConstants, CallSeen, Kernel!Deferred DEF Seen, Kernel!Looping
<1> QED
  BY <1>1, SeenFacts

LEMMA InCall ==
  ASSUME Seen, NEW c, syscall(c)
  PROVE  sch.ndefers = 0 /\ currpid # NULLPROC /\ Here = User
<1>1. currpid # NULLPROC /\ Here = User /\ Here.at = "user"
  BY DEF syscall, User, At
<1> QED
  BY <1>1, NotLooping

LEMMA WaitSeen ==
  ASSUME Seen, NEW s \in Sems, wait(s), UNCHANGED lockvars
  PROVE  Kernel!wait(s) /\ WaitersWait'
<1>1. syscall("wait") /\ Waiters' = Waiters
  BY WaitersStay DEF wait
<1>2. /\ Kernel!syscall("wait") /\ Kernel!currpid = currpid
      /\ sch.ndefers = 0 /\ currpid # NULLPROC
  BY <1>1, CallSeen, InCall
<1>3. CASE /\ scount[s] > 0
           /\ UNCHANGED <<sch, prsem, squeue>>
  <2>1. AsKernel' = AsKernel /\ WaitersWait'
    BY <1>1, <1>3, NothingSeen
  <2> QED
    BY <1>2, <1>3, <2>1 DEF wait, Kernel!wait, pids, Kernel!pids
<1>4. CASE /\ scount[s] <= 0
           /\ prsem'  = [prsem EXCEPT ![currpid] = s]
           /\ squeue' = [squeue EXCEPT ![s] = Append(@, currpid)]
           /\ sch'    = block(sch, "WAIT")
  <2>1. AsKernel' = block(AsKernel, "WAIT") /\ WaitersWait'
    BY <1>1, <1>2, <1>4, BlockSeen
  <2>2. Kernel!block(AsKernel, "WAIT") = block(AsKernel, "WAIT")
    BY SameScheduler
  <2> QED
    BY <1>2, <1>4, <2>1, <2>2 DEF wait, Kernel!wait, pids, Kernel!pids
<1> QED
  BY <1>3, <1>4 DEF wait

LEMMA SemcreateSeen ==
  ASSUME Seen, NEW c, semcreate(c), UNCHANGED lockvars
  PROVE  Kernel!semcreate(c) /\ WaitersWait'
<1>1. /\ syscall("semcreate") /\ Waiters' = Waiters /\ sch' = sch
  BY WaitersStay DEF semcreate
<1>2. Kernel!syscall("semcreate") /\ AsKernel' = AsKernel /\ WaitersWait'
  BY <1>1, CallSeen, NothingSeen
<1>3. \A start, n, free : Kernel!next_free(start, n, free) = next_free(start, n, free)
  BY DEF next_free, Kernel!next_free, Min, Kernel!Min
<1> QED
  BY <1>2, <1>3, SameNames DEF semcreate, Kernel!semcreate, proctab, Kernel!proctab, pids, Kernel!pids

(* A process on a semaphore's queue does not wait for the lock.            *)
FirstOfSemaphore(s) ==
  Head(squeue[s]) \in Pids \ Waiters /\ AsKernel.prstate[Head(squeue[s])] = "WAIT"

LEMMA FirstSeen ==
  ASSUME Seen, NEW s \in Sems, squeue[s] # << >>
  PROVE  FirstOfSemaphore(s)
<1> DEFINE q == Head(squeue[s])
<1>1. squeue[s] \in Seq(Pids)
  BY SameNames DEF Seen, Kernel!IInv, Kernel!TypeOK
<1>2. q \in Pids /\ q \in ToSet(squeue[s])
  <2>1. 1 \in DOMAIN squeue[s] /\ q = squeue[s][1]
    BY <1>1
  <2> QED
    BY <1>1, <2>1 DEF ToSet
<1>3. Kernel!ToSet(squeue[s]) = ToSet(squeue[s])
  BY DEF ToSet, Kernel!ToSet
<1>4. AsKernel.prstate[q] = "WAIT"
  BY <1>2, <1>3, SameNames DEF Seen, Kernel!IInv, Kernel!SemQueuesOK, Kernel!prstate
<1> QED
  BY <1>2, <1>4, SeenFacts DEF FirstOfSemaphore

LEMMA ReleaseSeen ==
  ASSUME Seen, NEW s \in Sems, release_one(s), Waiters' = Waiters
  PROVE  Kernel!release_one(s) /\ WaitersWait'
<1>1. CASE scount[s] >= 0 \/ squeue[s] = << >>
  <2>1. UNCHANGED <<sch, squeue>> /\ scount' = [scount EXCEPT ![s] = @ + 1]
    <3>1. scount[s] \in Int
      BY SameNames DEF Seen, Kernel!IInv, Kernel!TypeOK
    <3> QED
      BY <1>1, <3>1 DEF release_one
  <2>2. AsKernel' = AsKernel /\ WaitersWait'
    BY <2>1, NothingSeen
  <2> QED
    BY <1>1, <2>1, <2>2 DEF Kernel!release_one
<1>2. CASE ~(scount[s] >= 0 \/ squeue[s] = << >>)
  <2> DEFINE q == Head(squeue[s])
  <2>1. /\ scount' = [scount EXCEPT ![s] = @ + 1] /\ scount[s] < 0 /\ squeue[s] # << >>
        /\ squeue' = [squeue EXCEPT ![s] = Tail(@)] /\ sch' = ready(sch, q)
    BY <1>2 DEF release_one
  <2>2. FirstOfSemaphore(s)
    BY <2>1, FirstSeen
  <2>3. /\ sch = WithState(Waiters, AsKernel, "WAIT") /\ SchedOK(AsKernel)
        /\ \A p \in Waiters : AsKernel.prstate[p] = "SUSP"
    BY SeenFacts
  <2>4. Parked(AsKernel, q)
    BY <2>2, <2>3, IdleIsParked DEF FirstOfSemaphore, Idle
  <2> HIDE DEF q
  <2>5. AsKernel' = ready(AsKernel, q) /\ WaitersWait'
    BY <2>1, <2>2, <2>3, <2>4, ReadySeen DEF FirstOfSemaphore, q
  <2>6. Kernel!ready(AsKernel, q) = ready(AsKernel, q)
    BY SameScheduler
  <2> QED
    BY <2>1, <2>5, <2>6 DEF Kernel!release_one, q
<1> QED
  BY <1>1, <1>2

LEMMA SignalSeen ==
  ASSUME Seen, NEW s \in Sems, signal(s), UNCHANGED lockvars
  PROVE  Kernel!signal(s) /\ WaitersWait'
<1>1. syscall("signal") /\ release_one(s) /\ Waiters' = Waiters
  BY WaitersStay DEF signal
<1>2. Kernel!syscall("signal") /\ Kernel!release_one(s) /\ WaitersWait'
  BY <1>1, CallSeen, ReleaseSeen
<1> QED
  BY <1>2 DEF signal, Kernel!signal, proctab, Kernel!proctab, pids, Kernel!pids

(* The loops that release processes begin and end.                         *)
LEMMA BeginLoopSeen ==
  ASSUME Seen, Waiters' = Waiters, sch.ndefers = 0, NEW f, begin_loop(f)
  PROVE  Kernel!begin_loop(f) /\ WaitersWait'
<1>1. Goto(f) /\ sch' = defer_start(sch)
  BY DEF begin_loop
<1>2. /\ sch = WithState(Waiters, AsKernel, "WAIT") /\ SchedOK(AsKernel)
      /\ AsKernel.ndefers = 0 /\ \A p \in Waiters : AsKernel.prstate[p] = "SUSP"
  BY SeenFacts
<1>3. AsKernel' = defer_start(AsKernel) /\ WaitersWait'
  BY <1>1, <1>2, DeferStartSeen
<1>4. Kernel!defer_start(AsKernel) = defer_start(AsKernel)
  BY SameScheduler
<1> QED
  BY <1>1, <1>3, <1>4, CallSeen DEF Kernel!begin_loop

LEMMA EndLoopSeen ==
  ASSUME Seen, Waiters' = Waiters, sch.ndefers = 1, end_loop
  PROVE  Kernel!end_loop /\ WaitersWait'
<1>1. Goto(User) /\ sch' = defer_stop(sch)
  BY DEF end_loop
<1>2. AsKernel' = defer_stop(AsKernel) /\ WaitersWait'
  BY <1>1, DeferStopSeen
<1>3. Kernel!defer_stop(AsKernel) = defer_stop(AsKernel)
  BY SameScheduler
<1> QED
  BY <1>1, <1>2, <1>3, CallSeen, SameNames DEF Kernel!end_loop

LEMMA LoopCallsSeen ==
  ASSUME Seen, NEW s \in Sems, NEW c, UNCHANGED lockvars
  PROVE  /\ signaln(s, c) => Kernel!signaln(s, c) /\ WaitersWait'
         /\ semdelete(s) => Kernel!semdelete(s) /\ WaitersWait'
         /\ semreset(s, c) => Kernel!semreset(s, c) /\ WaitersWait'
<1>0. Waiters' = Waiters
  BY WaitersStay
<1>1. ASSUME signaln(s, c) PROVE Kernel!signaln(s, c) /\ WaitersWait'
  <2>1. syscall("signaln") /\ begin_loop(At("signaln", s, c))
    BY <1>1 DEF signaln
  <2>2. Kernel!syscall("signaln") /\ Kernel!begin_loop(At("signaln", s, c)) /\ WaitersWait'
    BY <1>0, <2>1, CallSeen, InCall, BeginLoopSeen
  <2> QED
    BY <1>1, <2>2, SameNames DEF signaln, Kernel!signaln, proctab, Kernel!proctab,
       pids, Kernel!pids, semtab, Kernel!semtab
<1>2. ASSUME semdelete(s) PROVE Kernel!semdelete(s) /\ WaitersWait'
  <2>1. syscall("semdelete") /\ begin_loop(At("semdelete", s, 0))
    BY <1>2 DEF semdelete
  <2>2. Kernel!syscall("semdelete") /\ Kernel!begin_loop(At("semdelete", s, 0)) /\ WaitersWait'
    BY <1>0, <2>1, CallSeen, InCall, BeginLoopSeen
  <2> QED
    BY <1>2, <2>2, SameNames DEF semdelete, Kernel!semdelete, proctab, Kernel!proctab,
       pids, Kernel!pids
<1>3. ASSUME semreset(s, c) PROVE Kernel!semreset(s, c) /\ WaitersWait'
  <2>1. syscall("semreset") /\ begin_loop(At("semreset", s, c))
    BY <1>3 DEF semreset
  <2>2. Kernel!syscall("semreset") /\ Kernel!begin_loop(At("semreset", s, c)) /\ WaitersWait'
    BY <1>0, <2>1, CallSeen, InCall, BeginLoopSeen
  <2> QED
    BY <1>3, <2>2, SameNames DEF semreset, Kernel!semreset, proctab, Kernel!proctab,
       pids, Kernel!pids, semtab, Kernel!semtab
<1> QED
  BY <1>1, <1>2, <1>3

LEMMA InLoopSeen ==
  ASSUME Seen, NEW c \in {"signaln", "semdelete", "semreset"}, inside(c)
  PROVE  /\ Kernel!inside(c) /\ Kernel!Here = Here /\ Here.arg \in Sems /\ sch.ndefers = 1
<1>1. Here.at = c /\ Kernel!Here = Here
  BY CallSeen DEF inside
<1>2. Kernel!FrameOK(Kernel!Here)
  BY SameConstants, Kernel!IInvFacts DEF Seen
<1>3. Here.arg \in Sems
  BY <1>1, <1>2, SameNames DEF Kernel!FrameOK
<1>4. sch.ndefers = 1
  BY <1>1, InLoop
<1> QED
  BY <1>1, <1>3, <1>4, CallSeen

LEMMA SignalnLoopSeen ==
  ASSUME Seen, signaln_loop, UNCHANGED lockvars
  PROVE  Kernel!signaln_loop /\ WaitersWait'
<1>1. Waiters' = Waiters /\ inside("signaln")
  BY WaitersStay DEF signaln_loop
<1>2. Kernel!inside("signaln") /\ Kernel!Here = Here /\ Here.arg \in Sems /\ sch.ndefers = 1
  BY <1>1, InLoopSeen
<1>3. CASE Here.n > 0 /\ release_one(Here.arg) /\ Goto([Here EXCEPT !.n = @ - 1])
  <2>1. Kernel!release_one(Here.arg) /\ Kernel!Goto([Here EXCEPT !.n = @ - 1]) /\ WaitersWait'
    BY <1>1, <1>2, <1>3, ReleaseSeen, CallSeen
  <2> QED
    BY <1>2, <1>3, <2>1 DEF signaln_loop, Kernel!signaln_loop,
       proctab, Kernel!proctab, pids, Kernel!pids
<1>4. CASE Here.n = 0 /\ end_loop /\ UNCHANGED <<scount, squeue>>
  <2>1. Kernel!end_loop /\ WaitersWait'
    BY <1>1, <1>2, <1>4, EndLoopSeen
  <2> QED
    BY <1>2, <1>4, <2>1 DEF signaln_loop, Kernel!signaln_loop,
       proctab, Kernel!proctab, pids, Kernel!pids
<1> QED
  BY <1>3, <1>4 DEF signaln_loop

LEMMA SemdeleteLoopSeen ==
  ASSUME Seen, semdelete_loop, UNCHANGED lockvars
  PROVE  Kernel!semdelete_loop /\ WaitersWait'
<1>1. Waiters' = Waiters /\ inside("semdelete")
  BY WaitersStay DEF semdelete_loop
<1>2. Kernel!inside("semdelete") /\ Kernel!Here = Here /\ Here.arg \in Sems /\ sch.ndefers = 1
  BY <1>1, InLoopSeen
<1>3. CASE scount[Here.arg] < 0 /\ release_one(Here.arg) /\ UNCHANGED pc
  <2>1. Kernel!release_one(Here.arg) /\ WaitersWait'
    BY <1>1, <1>2, <1>3, ReleaseSeen
  <2> QED
    BY <1>2, <1>3, <2>1 DEF semdelete_loop, Kernel!semdelete_loop,
       proctab, Kernel!proctab, pids, Kernel!pids
<1>4. CASE /\ scount[Here.arg] >= 0
           /\ scount' = [scount EXCEPT ![Here.arg] = @ + 1]
           /\ end_loop
           /\ UNCHANGED squeue
  <2>1. Kernel!end_loop /\ WaitersWait'
    BY <1>1, <1>2, <1>4, EndLoopSeen
  <2> QED
    BY <1>2, <1>4, <2>1 DEF semdelete_loop, Kernel!semdelete_loop,
       proctab, Kernel!proctab, pids, Kernel!pids
<1> QED
  BY <1>3, <1>4 DEF semdelete_loop

LEMMA SemresetLoopSeen ==
  ASSUME Seen, semreset_loop, UNCHANGED lockvars
  PROVE  Kernel!semreset_loop /\ WaitersWait'
<1>1. Waiters' = Waiters /\ inside("semreset")
  BY WaitersStay DEF semreset_loop
<1>2. Kernel!inside("semreset") /\ Kernel!Here = Here /\ Here.arg \in Sems /\ sch.ndefers = 1
  BY <1>1, InLoopSeen
<1>3. CASE /\ squeue[Here.arg] # << >>
           /\ squeue' = [squeue EXCEPT ![Here.arg] = Tail(@)]
           /\ sch'    = ready(sch, Head(squeue[Here.arg]))
           /\ UNCHANGED <<scount, pc>>
  <2> DEFINE s == Here.arg
             q == Head(squeue[s])
  <2>2. FirstOfSemaphore(s)
    BY <1>2, <1>3, FirstSeen
  <2>3. /\ sch = WithState(Waiters, AsKernel, "WAIT") /\ SchedOK(AsKernel)
        /\ \A p \in Waiters : AsKernel.prstate[p] = "SUSP"
    BY SeenFacts
  <2>4. Parked(AsKernel, q)
    BY <2>2, <2>3, IdleIsParked DEF FirstOfSemaphore, Idle
  <2> HIDE DEF q
  <2>5. AsKernel' = ready(AsKernel, q) /\ WaitersWait'
    BY <1>1, <1>3, <2>2, <2>3, <2>4, ReadySeen DEF FirstOfSemaphore, q
  <2>6. Kernel!ready(AsKernel, q) = ready(AsKernel, q)
    BY SameScheduler
  <2> QED
    BY <1>2, <1>3, <2>5, <2>6 DEF semreset_loop, Kernel!semreset_loop, q,
       proctab, Kernel!proctab, pids, Kernel!pids
<1>4. CASE /\ squeue[Here.arg] = << >>
           /\ scount' = [scount EXCEPT ![Here.arg] = Here.n]
           /\ end_loop
           /\ UNCHANGED squeue
  <2>1. Kernel!end_loop /\ WaitersWait'
    BY <1>1, <1>2, <1>4, EndLoopSeen
  <2> QED
    BY <1>2, <1>4, <2>1 DEF semreset_loop, Kernel!semreset_loop,
       proctab, Kernel!proctab, pids, Kernel!pids
<1> QED
  BY <1>3, <1>4 DEF semreset_loop

-----------------------------------------------------------------------------
LEMMA DeliverSeen ==
  ASSUME Seen, NEW q \in Pids, deliver(q), Waiters' = Waiters
  PROVE  Kernel!deliver(q) /\ WaitersWait'
<1> DEFINE M == AsKernel
<1>1. /\ sch = WithState(Waiters, M, "WAIT") /\ SchedOK(M) /\ IsSched(M)
      /\ Waiters \in SUBSET Pids
      /\ \A p \in Waiters : M.prstate[p] = "SUSP" /\ prstate[p] = "WAIT"
      /\ \A p \in Pids \ Waiters : M.prstate[p] = prstate[p]
      /\ M.sleepq = sch.sleepq /\ M.qkey = sch.qkey
  BY SeenFacts
<1>2. /\ prhasmsg' = [prhasmsg EXCEPT ![q] = TRUE]
      /\ sch' = CASE prstate[q] = "RECV"   -> ready(sch, q)
                  [] prstate[q] = "RECTIM" -> ready(unsleep(sch, q), q)
                  [] OTHER                 -> sch
  BY DEF deliver
<1>3. Kernel!prstate = M.prstate
  BY DEF Kernel!prstate
<1> HIDE DEF M
<1>4. CASE prstate[q] = "RECV"
  <2>1. q \in Pids \ Waiters /\ M.prstate[q] = "RECV" /\ sch' = ready(sch, q)
    BY <1>1, <1>2, <1>4
  <2>2. Parked(M, q)
    BY <1>1, <2>1, IdleIsParked DEF Idle
  <2>3. AsKernel' = ready(M, q) /\ WaitersWait'
    BY <1>1, <2>1, <2>2, ReadySeen
  <2> QED
    BY <1>2, <1>3, <2>1, <2>3, SameScheduler DEF Kernel!deliver, M
<1>5. CASE prstate[q] = "RECTIM"
  <2> DEFINE R == unsleep(M, q)
  <2>1. q \in Pids \ Waiters /\ M.prstate[q] = "RECTIM" /\ sch' = ready(unsleep(sch, q), q)
    BY <1>1, <1>2, <1>5
  <2>2. Parked(R, q) /\ R.prstate = M.prstate
    BY <1>1, <2>1, UnsleepParks DEF Delayed
  <2>3. unsleep(sch, q) = WithState(Waiters, R, "WAIT")
    BY <1>1 DEF unsleep, WithState, IsSched, SchedRecords
  <2> HIDE DEF R
  <2>4. AsKernel' = ready(R, q) /\ WaitersWait'
    BY <1>1, <2>1, <2>2, <2>3, ReadySeen
  <2> QED
    BY <1>2, <1>3, <2>1, <2>4, SameScheduler DEF Kernel!deliver, M, R
<1>6. CASE prstate[q] \notin {"RECV", "RECTIM"}
  <2>1. AsKernel' = AsKernel /\ WaitersWait'
    BY <1>2, <1>6, NothingSeen
  <2>2. M.prstate[q] \notin {"RECV", "RECTIM"}
    BY <1>1, <1>6
  <2> QED
    BY <1>2, <1>3, <2>1, <2>2 DEF Kernel!deliver, M
<1> QED
  BY <1>4, <1>5, <1>6

LEMMA SendSeen ==
  ASSUME Seen, NEW q \in Pids, send(q), UNCHANGED lockvars
  PROVE  Kernel!send(q) /\ WaitersWait'
<1>1. syscall("send") /\ Waiters' = Waiters /\ prstate[q] # "FREE"
  BY WaitersStay DEF send
<1>2. /\ Kernel!syscall("send") /\ Kernel!prstate[q] # "FREE"
      /\ Kernel!must_wait(q) <=> must_wait(q)
  BY <1>1, CallSeen, SeenFacts DEF must_wait, Kernel!must_wait, Kernel!prstate
<1>3. CASE ~prhasmsg[q] /\ deliver(q) /\ UNCHANGED pc
  <2>1. Kernel!deliver(q) /\ WaitersWait'
    BY <1>1, <1>3, DeliverSeen
  <2> QED
    BY <1>2, <1>3, <2>1 DEF send, Kernel!send, pids, Kernel!pids, semtab, Kernel!semtab
<1>4. CASE must_wait(q) /\ Goto(At("send", q, 0)) /\ UNCHANGED <<sch, prhasmsg>>
  <2>1. AsKernel' = AsKernel /\ WaitersWait' /\ Kernel!Goto(At("send", q, 0))
    BY <1>1, <1>4, NothingSeen, CallSeen
  <2> QED
    BY <1>2, <1>4, <2>1, SameNames
    DEF send, Kernel!send, pids, Kernel!pids, semtab, Kernel!semtab
<1> QED
  BY <1>3, <1>4 DEF send

LEMMA YieldsSeen ==
  ASSUME Seen, Waiters' = Waiters, sch' = resched(sch)
  PROVE  AsKernel' = Kernel!resched(AsKernel) /\ WaitersWait'
<1>1. /\ sch = WithState(Waiters, AsKernel, "WAIT") /\ SchedOK(AsKernel)
      /\ \A p \in Waiters : AsKernel.prstate[p] = "SUSP"
  BY SeenFacts
<1>2. AsKernel' = resched(AsKernel) /\ WaitersWait'
  BY <1>1, ReschedSeen
<1> QED
  BY <1>2, SameScheduler

LEMMA SendLoopSeen ==
  ASSUME Seen, send_loop, UNCHANGED lockvars
  PROVE  Kernel!send_loop /\ WaitersWait'
<1>1. inside("send") /\ Waiters' = Waiters
  BY WaitersStay DEF send_loop
<1>2. Kernel!inside("send") /\ Kernel!Here = Here /\ Here.at = "send"
  BY <1>1, CallSeen DEF inside
<1>3. Here.arg \in Pids
  <2>1. Kernel!FrameOK(Kernel!Here)
    BY SameConstants, Kernel!IInvFacts DEF Seen
  <2> QED
    BY <1>2, <2>1, SameNames DEF Kernel!FrameOK
<1>4. CASE prhasmsg[Here.arg] /\ sch' = resched(sch) /\ UNCHANGED <<prhasmsg, pc>>
  <2>1. AsKernel' = Kernel!resched(AsKernel) /\ WaitersWait'
    BY <1>1, <1>4, YieldsSeen
  <2> QED
    BY <1>2, <1>4, <2>1 DEF send_loop, Kernel!send_loop, pids, Kernel!pids, semtab, Kernel!semtab
<1>5. CASE ~prhasmsg[Here.arg] /\ deliver(Here.arg) /\ Goto(User)
  <2>1. Kernel!deliver(Here.arg) /\ Kernel!Goto(User) /\ WaitersWait'
    BY <1>1, <1>3, <1>5, DeliverSeen, CallSeen
  <2> QED
    BY <1>2, <1>5, <2>1, SameNames
    DEF send_loop, Kernel!send_loop, pids, Kernel!pids, semtab, Kernel!semtab
<1> QED
  BY <1>4, <1>5 DEF send_loop

LEMMA TakeSeen ==
  ASSUME Seen, take_message
  PROVE  Kernel!take_message
  BY CallSeen DEF take_message, Kernel!take_message

LEMMA ReceiveSeen ==
  ASSUME Seen, receive, UNCHANGED lockvars
  PROVE  Kernel!receive /\ WaitersWait'
<1>1. syscall("receive") /\ Waiters' = Waiters
  BY WaitersStay DEF receive
<1>2. /\ Kernel!syscall("receive") /\ Kernel!currpid = currpid
      /\ sch.ndefers = 0 /\ currpid # NULLPROC
  BY <1>1, CallSeen, InCall
<1>3. CASE prhasmsg[currpid] /\ take_message /\ UNCHANGED <<sch, pc>>
  <2>1. AsKernel' = AsKernel /\ WaitersWait' /\ Kernel!take_message
    BY <1>1, <1>3, NothingSeen, TakeSeen
  <2> QED
    BY <1>2, <1>3, <2>1 DEF receive, Kernel!receive, pids, Kernel!pids, semtab, Kernel!semtab
<1>4. CASE /\ ~prhasmsg[currpid]
           /\ sch' = block(sch, "RECV") /\ Goto(At("receive", 0, 0))
           /\ UNCHANGED prhasmsg
  <2>1. AsKernel' = block(AsKernel, "RECV") /\ WaitersWait' /\ Kernel!Goto(At("receive", 0, 0))
    BY <1>1, <1>2, <1>4, BlockSeen, CallSeen
  <2>2. Kernel!block(AsKernel, "RECV") = block(AsKernel, "RECV")
    BY SameScheduler
  <2> QED
    BY <1>2, <1>4, <2>1, <2>2, SameNames
    DEF receive, Kernel!receive, pids, Kernel!pids, semtab, Kernel!semtab
<1> QED
  BY <1>3, <1>4 DEF receive

LEMMA RecvtimeSeen ==
  ASSUME Seen, NEW d, recvtime(d), UNCHANGED lockvars
  PROVE  Kernel!recvtime(d) /\ WaitersWait'
<1>1. syscall("recvtime") /\ Waiters' = Waiters
  BY WaitersStay DEF recvtime
<1>2. /\ Kernel!syscall("recvtime") /\ Kernel!currpid = currpid
      /\ sch.ndefers = 0 /\ currpid # NULLPROC
  BY <1>1, CallSeen, InCall
<1>3. CASE prhasmsg[currpid] /\ take_message /\ UNCHANGED <<sch, pc>>
  <2>1. AsKernel' = AsKernel /\ WaitersWait' /\ Kernel!take_message
    BY <1>1, <1>3, NothingSeen, TakeSeen
  <2> QED
    BY <1>2, <1>3, <2>1 DEF recvtime, Kernel!recvtime, pids, Kernel!pids, semtab, Kernel!semtab
<1>4. CASE /\ ~prhasmsg[currpid]
           /\ sch' = delay(sch, d, "RECTIM") /\ Goto(At("recvtime", 0, 0))
           /\ UNCHANGED prhasmsg
  <2>0. "RECTIM" \in Delayed
    BY DEF Delayed
  <2>1. /\ AsKernel' = delay(AsKernel, d, "RECTIM") /\ WaitersWait'
        /\ Kernel!Goto(At("recvtime", 0, 0))
    BY <1>1, <1>2, <1>4, <2>0, DelaySeen, CallSeen
  <2>2. Kernel!delay(AsKernel, d, "RECTIM") = delay(AsKernel, d, "RECTIM")
    BY SameScheduler
  <2> QED
    BY <1>2, <1>4, <2>1, <2>2, SameNames
    DEF recvtime, Kernel!recvtime, pids, Kernel!pids, semtab, Kernel!semtab
<1> QED
  BY <1>3, <1>4 DEF recvtime

LEMMA TakingSeen ==
  ASSUME Seen, UNCHANGED lockvars
  PROVE  /\ recvclr => Kernel!recvclr /\ WaitersWait'
         /\ receive_rest => Kernel!receive_rest /\ WaitersWait'
<1>0. Waiters' = Waiters
  BY WaitersStay
<1>1. ASSUME recvclr PROVE Kernel!recvclr /\ WaitersWait'
  <2>1. syscall("recvclr") /\ take_message /\ sch' = sch /\ prhasmsg[currpid]
    BY <1>1 DEF recvclr
  <2>2. /\ Kernel!syscall("recvclr") /\ Kernel!take_message /\ Kernel!currpid = currpid
        /\ AsKernel' = AsKernel /\ WaitersWait'
    BY <1>0, <2>1, CallSeen, TakeSeen, NothingSeen
  <2> QED
    BY <1>1, <2>2 DEF recvclr, Kernel!recvclr, pids, Kernel!pids, semtab, Kernel!semtab
<1>2. ASSUME receive_rest PROVE Kernel!receive_rest /\ WaitersWait'
  <2>1. (inside("receive") \/ inside("recvtime")) /\ take_message /\ Goto(User) /\ sch' = sch
    BY <1>2 DEF receive_rest
  <2>2. /\ Kernel!inside("receive") \/ Kernel!inside("recvtime")
        /\ Kernel!take_message /\ Kernel!Goto(User)
        /\ AsKernel' = AsKernel /\ WaitersWait'
    BY <1>0, <2>1, CallSeen, TakeSeen, NothingSeen
  <2> QED
    BY <1>2, <2>2, SameNames
    DEF receive_rest, Kernel!receive_rest, pids, Kernel!pids, semtab, Kernel!semtab
<1> QED
  BY <1>1, <1>2

LEMMA YieldSeen ==
  ASSUME Seen, yield, UNCHANGED lockvars
  PROVE  Kernel!yield /\ WaitersWait'
<1>1. syscall("yield") /\ sch' = resched(sch) /\ Waiters' = Waiters
  BY WaitersStay DEF yield
<1>2. Kernel!syscall("yield") /\ AsKernel' = Kernel!resched(AsKernel) /\ WaitersWait'
  BY <1>1, CallSeen, YieldsSeen
<1> QED
  BY <1>2 DEF yield, Kernel!yield, proctab, Kernel!proctab, pids, Kernel!pids,
     semtab, Kernel!semtab

LEMMA SleepmsSeen ==
  ASSUME Seen, NEW d, sleepms(d), Waiters' = Waiters
  PROVE  Kernel!sleepms(d) /\ WaitersWait'
<1>1. syscall("sleepms") /\ d > 0 /\ sch' = delay(sch, d, "SLEEP") /\ "SLEEP" \in Delayed
  BY DEF sleepms, Delayed
<1>2. Kernel!syscall("sleepms") /\ sch.ndefers = 0 /\ currpid # NULLPROC
  BY <1>1, CallSeen, InCall
<1>3. AsKernel' = delay(AsKernel, d, "SLEEP") /\ WaitersWait'
  BY <1>1, <1>2, DelaySeen
<1>4. Kernel!delay(AsKernel, d, "SLEEP") = delay(AsKernel, d, "SLEEP")
  BY SameScheduler
<1> QED
  BY <1>1, <1>2, <1>3, <1>4 DEF sleepms, Kernel!sleepms, proctab, Kernel!proctab,
     pids, Kernel!pids, semtab, Kernel!semtab

-----------------------------------------------------------------------------
(* The clock handler.                                                      *)
LEMMA ClkhandlerSeen ==
  ASSUME Seen, clkhandler, UNCHANGED lockvars
  PROVE  Kernel!clkhandler /\ WaitersWait'
<1> DEFINE M == AsKernel
           R == IF M.sleepq = << >> THEN M ELSE [M EXCEPT !.qkey[Head(M.sleepq)] = @ - 1]
           S == IF sch.sleepq = << >> THEN sch
                ELSE [sch EXCEPT !.qkey[Head(sch.sleepq)] = @ - 1]
           f == At("wakeup", 0, 0)
           due == sch.sleepq # << >> /\ S.qkey[Head(sch.sleepq)] <= 0
<1>1. /\ Waiters' = Waiters /\ Waiters \in SUBSET Pids /\ Here = User /\ ~halted
      /\ "clock" \in Calls /\ Here.at = "user"
      /\ UNCHANGED <<proctab, pids, semtab, halted>>
      /\ IF due THEN sch' = defer_start(S) /\ Goto(f) ELSE sch' = end_of_tick(S) /\ pc' = pc
  BY WaitersStay, SeenFacts DEF clkhandler, User, At
<1>2. /\ sch = WithState(Waiters, M, "WAIT") /\ SchedOK(M) /\ Running(M) /\ IsSched(M)
      /\ \A p \in Waiters : M.prstate[p] = "SUSP"
      /\ M.sleepq = sch.sleepq /\ M.qkey = sch.qkey /\ M.ndefers = sch.ndefers
  BY SeenFacts
<1>3. M.ndefers = 0
  BY <1>1, <1>2, NotLooping
<1> HIDE DEF M
<1>4. SchedOK(R) /\ Running(R) /\ R.ndefers = 0 /\ \A p \in Waiters : R.prstate[p] = "SUSP"
  <2>1. CASE M.sleepq = << >>
    BY <1>2, <1>3, <2>1
  <2>2. CASE M.sleepq # << >>
    <3> DEFINE T == [M EXCEPT !.qkey[Head(M.sleepq)] = @ - 1]
    <3>1. /\ SchedOK(T) /\ T.ndefers = M.ndefers /\ T.prstate = M.prstate
          /\ T.currpid = M.currpid
      BY <1>2, <2>2, TickOK
    <3>2. R = T
      BY <2>2
    <3> HIDE DEF R, T
    <3> QED
      BY <1>2, <1>3, <3>1, <3>2 DEF Running
  <2> QED
    BY <2>1, <2>2
<1>5. S = WithState(Waiters, R, "WAIT") /\ S.qkey = R.qkey
  BY <1>2 DEF WithState, IsSched, SchedRecords
<1>6. due <=> M.sleepq # << >> /\ R.qkey[Head(M.sleepq)] <= 0
  BY <1>2, <1>5
<1> HIDE DEF R, S, due
<1>7. CASE due
  <2>1. sch' = defer_start(S) /\ Goto(f)
    BY <1>1, <1>7
  <2>2. AsKernel' = defer_start(R) /\ WaitersWait'
    BY <1>1, <1>4, <1>5, <2>1, DeferStartSeen
  <2>3. Kernel!Goto(f) /\ Kernel!defer_start(R) = defer_start(R)
    BY <2>1, CallSeen, SameScheduler
  <2> QED
    BY <1>1, <1>2, <1>6, <1>7, <2>2, <2>3, SameNames, CallSeen
    DEF Kernel!clkhandler, R, M, proctab, Kernel!proctab, pids, Kernel!pids,
        semtab, Kernel!semtab
<1>8. CASE ~due
  <2>1. sch' = end_of_tick(S) /\ pc' = pc
    BY <1>1, <1>8
  <2>2. AsKernel' = end_of_tick(R) /\ WaitersWait'
    BY <1>1, <1>4, <1>5, <2>1, EndOfTickSeen
  <2>3. Kernel!end_of_tick(R) = end_of_tick(R)
    BY SameScheduler
  <2> QED
    BY <1>1, <1>2, <1>6, <1>8, <2>1, <2>2, <2>3, SameNames, CallSeen
    DEF Kernel!clkhandler, R, M, proctab, Kernel!proctab, pids, Kernel!pids,
        semtab, Kernel!semtab
<1> QED
  BY <1>7, <1>8

LEMMA WakeupSeen ==
  ASSUME Seen, wakeup, UNCHANGED lockvars
  PROVE  Kernel!wakeup /\ WaitersWait'
<1> DEFINE M == AsKernel
           due == sch.sleepq # << >> /\ sch.qkey[Head(sch.sleepq)] <= 0
<1>1. /\ Waiters' = Waiters /\ inside("wakeup") /\ Here.at = "wakeup"
      /\ UNCHANGED <<proctab, pids, semtab, halted>>
      /\ \/ due /\ pc' = pc /\ sch' = ready([sch EXCEPT !.sleepq = Tail(@)], Head(sch.sleepq))
         \/ ~due /\ sch' = defer_stop(sch) /\ Goto(At("clock", 0, 0))
  BY WaitersStay DEF wakeup, inside
<1>2. /\ sch = WithState(Waiters, M, "WAIT") /\ SchedOK(M) /\ IsSched(M)
      /\ \A p \in Waiters : M.prstate[p] = "SUSP"
      /\ M.sleepq = sch.sleepq /\ M.qkey = sch.qkey
  BY SeenFacts
<1>3. Kernel!inside("wakeup") /\ sch.ndefers = 1
  BY <1>1, CallSeen, InLoop
<1> HIDE DEF M
<1>4. CASE /\ due /\ pc' = pc
           /\ sch' = ready([sch EXCEPT !.sleepq = Tail(@)], Head(sch.sleepq))
  <2> DEFINE q == Head(sch.sleepq)
             R == [M EXCEPT !.sleepq = Tail(M.sleepq)]
  <2>1. q \in Pids /\ M.prstate[q] \in Delayed /\ Parked(R, q) /\ R.prstate = M.prstate
    BY <1>2, <1>4, FirstParks
  <2>2. q \in Pids \ Waiters
    BY <1>2, <2>1 DEF Delayed
  <2>3. [sch EXCEPT !.sleepq = Tail(@)] = WithState(Waiters, R, "WAIT")
    BY <1>2 DEF WithState, IsSched, SchedRecords
  <2> HIDE DEF q
  <2>4. sch' = ready(WithState(Waiters, R, "WAIT"), q)
    BY <1>4, <2>3 DEF q
  <2> HIDE DEF R
  <2>5. AsKernel' = ready(R, q) /\ WaitersWait'
    BY <1>1, <1>2, <2>1, <2>2, <2>4, ReadySeen
  <2>6. Kernel!ready(R, q) = ready(R, q) /\ R = [AsKernel EXCEPT !.sleepq = Tail(@)]
    BY SameScheduler DEF R, M
  <2> QED
    BY <1>1, <1>2, <1>3, <1>4, <2>5, <2>6
    DEF Kernel!wakeup, q, M, proctab, Kernel!proctab, pids, Kernel!pids, semtab, Kernel!semtab
<1>5. CASE ~due /\ sch' = defer_stop(sch) /\ Goto(At("clock", 0, 0))
  <2>1. AsKernel' = defer_stop(AsKernel) /\ WaitersWait'
    BY <1>1, <1>3, <1>5, DeferStopSeen
  <2>2. Kernel!defer_stop(AsKernel) = defer_stop(AsKernel) /\ Kernel!Goto(At("clock", 0, 0))
    BY <1>5, SameScheduler, CallSeen
  <2> QED
    BY <1>1, <1>2, <1>3, <1>5, <2>1, <2>2, SameNames
    DEF Kernel!wakeup, M, proctab, Kernel!proctab, pids, Kernel!pids, semtab, Kernel!semtab
<1> QED
  BY <1>1, <1>4, <1>5

LEMMA ClkhandlerRestSeen ==
  ASSUME Seen, clkhandler_rest, UNCHANGED lockvars
  PROVE  Kernel!clkhandler_rest /\ WaitersWait'
<1>1. inside("clock") /\ Here.at = "clock" /\ sch' = end_of_tick(sch) /\ Goto(User)
      /\ Waiters' = Waiters
  BY WaitersStay DEF clkhandler_rest, inside
<1>2. Kernel!inside("clock") /\ sch.ndefers = 0 /\ Kernel!Goto(User)
  BY <1>1, CallSeen, NotLooping
<1>3. /\ sch = WithState(Waiters, AsKernel, "WAIT") /\ SchedOK(AsKernel) /\ Running(AsKernel)
      /\ AsKernel.ndefers = 0 /\ \A p \in Waiters : AsKernel.prstate[p] = "SUSP"
  BY <1>2, SeenFacts
<1>4. AsKernel' = end_of_tick(AsKernel) /\ WaitersWait'
  BY <1>1, <1>3, EndOfTickSeen
<1>5. Kernel!end_of_tick(AsKernel) = end_of_tick(AsKernel)
  BY SameScheduler
<1> QED
  BY <1>2, <1>4, <1>5, SameNames
  DEF clkhandler_rest, Kernel!clkhandler_rest, proctab, Kernel!proctab, pids, Kernel!pids,
      semtab, Kernel!semtab

-----------------------------------------------------------------------------
(* Calls that change a process.                                            *)
LEMMA SetSeen ==
  ASSUME Seen, Waiters' = Waiters, NEW T, IsSched(T), \A p \in Waiters : T.prstate[p] = "SUSP",
         sch' = WithState(Waiters, T, "WAIT")
  PROVE  AsKernel' = T /\ WaitersWait'
<1>1. Waiters \in SUBSET Pids
  BY SeenFacts
<1> QED
  BY <1>1, StepSeen

LEMMA ChprioSeen ==
  ASSUME Seen, NEW q \in Pids, NEW pr \in Prios, chprio(q, pr), UNCHANGED lockvars
  PROVE  Kernel!chprio(q, pr) /\ WaitersWait'
<1> DEFINE M == AsKernel
           T == [M EXCEPT !.prprio[q] = pr]
<1>1. /\ syscall("chprio") /\ prstate[q] # "FREE" /\ Waiters' = Waiters
      /\ sch' = [sch EXCEPT !.prprio[q] = pr] /\ pr \in Nat
      /\ UNCHANGED <<proctab, pids, semtab, pc, halted>>
  BY WaitersStay, KernelAssumption DEF chprio
<1>2. /\ sch = WithState(Waiters, M, "WAIT") /\ SchedOK(M) /\ IsSched(M)
      /\ \A p \in Waiters : M.prstate[p] = "SUSP" /\ prstate[p] = "WAIT"
      /\ \A p \in Pids \ Waiters : M.prstate[p] = prstate[p]
  BY SeenFacts
<1>3. Kernel!syscall("chprio") /\ Kernel!prstate[q] # "FREE"
  BY <1>1, <1>2, CallSeen DEF Kernel!prstate, M
<1> HIDE DEF M
<1>4. SchedOK(T) /\ IsSched(T) /\ T.prstate = M.prstate
  BY <1>1, <1>2, SetPrioOK DEF SchedOK, Coherent
<1>5. sch' = WithState(Waiters, T, "WAIT")
  BY <1>1, <1>2 DEF WithState, IsSched, SchedRecords
<1> HIDE DEF T
<1>6. AsKernel' = T /\ WaitersWait'
  BY <1>1, <1>2, <1>4, <1>5, SetSeen
<1> QED
  BY <1>1, <1>3, <1>6 DEF Kernel!chprio, T, M, proctab, Kernel!proctab, pids, Kernel!pids,
     semtab, Kernel!semtab

LEMMA ResumeSeen ==
  ASSUME Seen, NEW q \in Pids, resume(q), UNCHANGED lockvars
  PROVE  Kernel!resume(q) /\ WaitersWait'
<1>1. /\ syscall("resume") /\ prstate[q] = "SUSP" /\ sch' = ready(sch, q)
      /\ Waiters' = Waiters /\ UNCHANGED <<proctab, pids, semtab, pc, halted>>
  BY WaitersStay DEF resume
<1>2. /\ sch = WithState(Waiters, AsKernel, "WAIT") /\ SchedOK(AsKernel)
      /\ \A p \in Waiters : AsKernel.prstate[p] = "SUSP" /\ prstate[p] = "WAIT"
      /\ \A p \in Pids \ Waiters : AsKernel.prstate[p] = prstate[p]
  BY SeenFacts
<1>3. q \in Pids \ Waiters /\ AsKernel.prstate[q] = "SUSP"
  BY <1>1, <1>2
<1>4. Parked(AsKernel, q)
  BY <1>2, <1>3, IdleIsParked DEF Idle
<1>5. AsKernel' = ready(AsKernel, q) /\ WaitersWait'
  BY <1>1, <1>2, <1>3, <1>4, ReadySeen
<1>6. Kernel!ready(AsKernel, q) = ready(AsKernel, q) /\ Kernel!syscall("resume")
  BY <1>1, SameScheduler, CallSeen
<1> QED
  BY <1>1, <1>3, <1>5, <1>6 DEF Kernel!resume, Kernel!prstate, proctab, Kernel!proctab,
     pids, Kernel!pids, semtab, Kernel!semtab

LEMMA SuspendSeen ==
  ASSUME Seen, NEW q \in Pids, suspend(q), UNCHANGED lockvars
  PROVE  Kernel!suspend(q) /\ WaitersWait'
<1> DEFINE M == AsKernel
<1>1. /\ syscall("suspend") /\ q # NULLPROC /\ Waiters' = Waiters
      /\ UNCHANGED <<proctab, pids, semtab, pc, halted>>
      /\ \/ /\ prstate[q] = "READY"
            /\ sch' = [sch EXCEPT !.readylist = getitem(@, q), !.prstate[q] = "SUSP"]
         \/ prstate[q] = "CURR" /\ sch' = block(sch, "SUSP")
  BY WaitersStay DEF suspend
<1>2. /\ sch = WithState(Waiters, M, "WAIT") /\ SchedOK(M) /\ IsSched(M)
      /\ Waiters \in SUBSET Pids
      /\ \A p \in Waiters : M.prstate[p] = "SUSP" /\ prstate[p] = "WAIT"
      /\ \A p \in Pids \ Waiters : M.prstate[p] = prstate[p]
      /\ M.readylist = sch.readylist
  BY SeenFacts
<1>3. Kernel!syscall("suspend") /\ sch.ndefers = 0 /\ currpid # NULLPROC
  BY <1>1, CallSeen, InCall
<1>4. Kernel!prstate = M.prstate
  BY DEF Kernel!prstate
<1> HIDE DEF M
<1>5. CASE /\ prstate[q] = "READY"
           /\ sch' = [sch EXCEPT !.readylist = getitem(@, q), !.prstate[q] = "SUSP"]
  <2> DEFINE T == [M EXCEPT !.readylist = getitem(M.readylist, q),
                            !.prstate   = [M.prstate EXCEPT ![q] = "SUSP"]]
  <2>1. q \in Pids \ Waiters /\ M.prstate[q] = "READY" /\ M.prstate \in [Pids -> PrStates]
    BY <1>2, <1>5, SchedFields
  <2>2. /\ SchedOK(T) /\ T.prstate = [M.prstate EXCEPT ![q] = "SUSP"]
    <3>1. "SUSP" \in Idle
      BY DEF Idle
    <3>2. SchedOK(T)
      BY <1>1, <1>2, <2>1, <3>1, LeaveReadyOK
    <3>3. T.prstate = [M.prstate EXCEPT ![q] = "SUSP"]
      BY <1>2 DEF IsSched, SchedRecords
    <3> QED
      BY <3>2, <3>3
  <2>3. \A p \in Waiters : T.prstate[p] = "SUSP"
    BY <1>2, <2>1, <2>2
  <2>4. sch' = WithState(Waiters, T, "WAIT")
    <3>1. sch.prstate = [p \in Pids |-> IF p \in Waiters THEN "WAIT" ELSE M.prstate[p]]
      BY <1>2, AsWait
    <3>2. [sch.prstate EXCEPT ![q] = "SUSP"]
            = [p \in Pids |-> IF p \in Waiters THEN "WAIT" ELSE T.prstate[p]]
      BY <2>1, <2>2, <3>1
    <3> DEFINE a == getitem(M.readylist, q)
    <3> HIDE DEF a
    <3>3. sch' = [sch EXCEPT !.readylist = a, !.prstate = [sch.prstate EXCEPT ![q] = "SUSP"]]
      BY <1>2, <1>5 DEF a
    <3>4. T = [M EXCEPT !.readylist = a, !.prstate = [M.prstate EXCEPT ![q] = "SUSP"]]
      BY DEF a
    <3> QED
      BY <1>2, <3>2, <3>3, <3>4 DEF WithState, IsSched, SchedRecords
  <2>5. T = [AsKernel EXCEPT !.readylist = getitem(@, q), !.prstate[q] = "SUSP"]
    BY DEF M
  <2> HIDE DEF T
  <2>6. AsKernel' = T /\ WaitersWait'
    BY <1>1, <1>2, <2>2, <2>3, <2>4, SetSeen DEF SchedOK, Coherent
  <2> QED
    BY <1>1, <1>3, <1>4, <2>1, <2>5, <2>6, SameNames, SameQueueOps
    DEF Kernel!suspend, proctab, Kernel!proctab, pids, Kernel!pids, semtab, Kernel!semtab
<1>6. CASE prstate[q] = "CURR" /\ sch' = block(sch, "SUSP")
  <2>1. AsKernel' = block(AsKernel, "SUSP") /\ WaitersWait'
    BY <1>1, <1>3, <1>6, BlockSeen
  <2>2. M.prstate[q] = "CURR" /\ Kernel!block(AsKernel, "SUSP") = block(AsKernel, "SUSP")
    BY <1>2, <1>6, SameScheduler
  <2> QED
    BY <1>1, <1>3, <1>4, <2>1, <2>2, SameNames
    DEF Kernel!suspend, proctab, Kernel!proctab, pids, Kernel!pids, semtab, Kernel!semtab
<1> QED
  BY <1>1, <1>5, <1>6

LEMMA CreateSeen ==
  ASSUME Seen, NEW pr \in Prios, create(pr), UNCHANGED lockvars
  PROVE  Kernel!create(pr) /\ WaitersWait'
<1> DEFINE M    == AsKernel
           free == {p \in Pids : prstate[p] = "FREE"}
           pid  == next_free(nextpid, NPROC, free)
           made == /\ prcount'  = prcount + 1
                   /\ sch'      = [sch EXCEPT !.prstate[pid] = "SUSP", !.prprio[pid] = pr]
                   /\ prsem'    = [prsem EXCEPT ![pid] = -1]
                   /\ prparent' = [prparent EXCEPT ![pid] = currpid]
                   /\ prhasmsg' = [prhasmsg EXCEPT ![pid] = FALSE]
                   /\ pc'       = [pc EXCEPT ![pid] = User]
           none == /\ "getstk fails" \in Calls
                   /\ UNCHANGED <<prcount, sch, proctab, pc>>
<1>1. /\ syscall("create") /\ free # {} /\ Waiters' = Waiters /\ pr \in Nat
      /\ nextpid' = (pid + 1) % NPROC /\ (made \/ none)
      /\ UNCHANGED <<semtab, halted>>
  BY WaitersStay, KernelAssumption DEF create
<1>2. /\ sch = WithState(Waiters, M, "WAIT") /\ SchedOK(M) /\ IsSched(M)
      /\ Waiters \in SUBSET Pids
      /\ \A p \in Waiters : M.prstate[p] = "SUSP" /\ prstate[p] = "WAIT"
      /\ \A p \in Pids \ Waiters : M.prstate[p] = prstate[p]
  BY SeenFacts
<1>3. Kernel!syscall("create") /\ Kernel!currpid = currpid
  BY <1>1, CallSeen
<1>4. free = {p \in Kernel!Pids : Kernel!prstate[p] = "FREE"}
  BY <1>2, SameNames DEF Kernel!prstate, M
<1>5. pid = Kernel!next_free(nextpid, NPROC, free)
  BY DEF next_free, Kernel!next_free, Min, Kernel!Min
<1>6. pid \in Pids \ Waiters /\ M.prstate[pid] = "FREE"
  <2>1. nextpid \in Pids
    BY SameNames DEF Seen, Kernel!IInv, Kernel!TypeOK
  <2>2. free \in SUBSET Pids
    OBVIOUS
  <2> HIDE DEF free
  <2>3. pid \in free
    <3> HIDE DEF pid
    <3>1. NPROC \in Nat /\ nextpid \in 0 .. NPROC - 1 /\ free \in SUBSET (0 .. NPROC - 1)
      BY <2>1, <2>2, SchedAssumption DEF Pids
    <3>2. free # {}
      BY <1>1
    <3>3. Kernel!next_free(nextpid, NPROC, free) \in free
      BY <3>1, <3>2, SameConstants, Kernel!NextFree
    <3> QED
      BY <1>5, <3>3
  <2> QED
    BY <1>2, <2>3 DEF free
<1>9. M.prstate \in [Pids -> PrStates]
  BY <1>2, SchedFields
<1> HIDE DEF pid, free, M
<1>7. CASE made
  <2> DEFINE R == [M EXCEPT !.prstate[pid] = "SUSP"]
             T == [R EXCEPT !.prprio[pid] = pr]
  <2>1. SchedOK(R) /\ R.prstate = [M.prstate EXCEPT ![pid] = "SUSP"]
    <3>1. Parked(M, pid) /\ "SUSP" \in Idle
      BY <1>2, <1>6, IdleIsParked DEF Idle
    <3>2. SchedOK(R)
      BY <1>6, <3>1, SetIdleOK
    <3> QED
      BY <1>2, <3>2 DEF IsSched, SchedRecords
  <2> HIDE DEF R
  <2>2. SchedOK(T) /\ T.prstate = R.prstate
    BY <1>1, <1>6, <2>1, SetPrioOK
  <2>3. \A p \in Waiters : T.prstate[p] = "SUSP"
    BY <1>2, <1>6, <1>9, <2>1, <2>2
  <2>4. T = [M EXCEPT !.prstate[pid] = "SUSP", !.prprio[pid] = pr]
    BY DEF R
  <2>5. sch' = WithState(Waiters, T, "WAIT")
    <3>1. sch.prstate = [p \in Pids |-> IF p \in Waiters THEN "WAIT" ELSE M.prstate[p]]
      BY <1>2, AsWait
    <3>2. [sch.prstate EXCEPT ![pid] = "SUSP"]
            = [p \in Pids |-> IF p \in Waiters THEN "WAIT" ELSE T.prstate[p]]
      BY <1>6, <1>9, <2>1, <2>2, <3>1
    <3>3. sch' = [sch EXCEPT !.prstate[pid] = "SUSP", !.prprio[pid] = pr]
      BY <1>7
    <3> HIDE DEF T
    <3> QED
      BY <1>2, <2>4, <3>2, <3>3 DEF WithState, IsSched, SchedRecords
  <2> HIDE DEF T
  <2>6. AsKernel' = T /\ WaitersWait'
    BY <1>1, <1>2, <2>2, <2>3, <2>5, SetSeen DEF SchedOK, Coherent
  <2> QED
    BY <1>1, <1>3, <1>4, <1>5, <1>7, <2>4, <2>6, SameNames
    DEF Kernel!create, M, semtab, Kernel!semtab
<1>8. CASE none
  <2>1. AsKernel' = AsKernel /\ WaitersWait'
    BY <1>1, <1>8, NothingSeen
  <2> QED
    BY <1>1, <1>3, <1>4, <1>5, <1>8, <2>1
    DEF Kernel!create, proctab, Kernel!proctab, semtab, Kernel!semtab
<1> QED
  BY <1>1, <1>7, <1>8

-----------------------------------------------------------------------------
(* The kernel's part of a step.                                            *)
Quietly == pc' = pc \/ \E x, f : f.at \notin {"kill", "killsend"} /\ pc' = [pc EXCEPT ![x] = f]

LEMMA StaysQuiet ==
  ASSUME Seen, NobodyKills, Quietly
  PROVE  NobodyKills'
<1>1. pc = [p \in Pids |-> pc[p]]
  BY SameNames DEF Seen, Kernel!IInv, Kernel!TypeOK
<1> QED
  BY <1>1 DEF NobodyKills, Quietly

LEMMA GotoQuietly ==
  ASSUME NEW f, f.at \notin {"kill", "killsend"}, Goto(f)
  PROVE  Quietly
  BY DEF Goto, Quietly

LEMMA SemaphoreCallSeen ==
  ASSUME Seen, SemaphoreCall, UNCHANGED lockvars
  PROVE  Kernel!SemaphoreCall /\ WaitersWait' /\ Quietly
<1>1. ASSUME NEW c \in Counts, semcreate(c)
      PROVE  Kernel!SemaphoreCall /\ WaitersWait' /\ Quietly
  BY <1>1, SemcreateSeen DEF Kernel!SemaphoreCall, semcreate, Quietly
<1>2. ASSUME NEW s \in Sems, wait(s) \/ signal(s)
      PROVE  Kernel!SemaphoreCall /\ WaitersWait' /\ Quietly
  <2>1. Quietly
    BY <1>2 DEF wait, signal, Quietly
  <2> QED
    BY <1>2, <2>1, WaitSeen, SignalSeen, SameNames DEF Kernel!SemaphoreCall
<1>3. ASSUME NEW s \in Sems, semdelete(s)
      PROVE  Kernel!SemaphoreCall /\ WaitersWait' /\ Quietly
  <2>1. Quietly
    BY <1>3, GotoQuietly DEF semdelete, begin_loop, At
  <2> QED
    BY <1>3, <2>1, LoopCallsSeen, SameNames DEF Kernel!SemaphoreCall
<1>4. ASSUME NEW s \in Sems, NEW c \in Counts, signaln(s, c) \/ semreset(s, c)
      PROVE  Kernel!SemaphoreCall /\ WaitersWait' /\ Quietly
  <2>1. Quietly
    BY <1>4, GotoQuietly DEF signaln, semreset, begin_loop, At
  <2> QED
    BY <1>4, <2>1, LoopCallsSeen, SameNames DEF Kernel!SemaphoreCall
<1> QED
  BY <1>1, <1>2, <1>3, <1>4 DEF SemaphoreCall

LEMMA MessageCallSeen ==
  ASSUME Seen, MessageCall, UNCHANGED lockvars
  PROVE  Kernel!MessageCall /\ WaitersWait' /\ Quietly
<1>1. ASSUME NEW q \in Pids, send(q)
      PROVE  Kernel!MessageCall /\ WaitersWait' /\ Quietly
  <2>1. Quietly
    <3>1. pc' = pc \/ Goto(At("send", q, 0))
      BY <1>1 DEF send
    <3> QED
      BY <3>1, GotoQuietly DEF Quietly, At
  <2> QED
    BY <1>1, <2>1, SendSeen, SameNames DEF Kernel!MessageCall
<1>2. ASSUME receive \/ recvclr
      PROVE  Kernel!MessageCall /\ WaitersWait' /\ Quietly
  <2>1. Quietly
    <3>1. pc' = pc \/ Goto(At("receive", 0, 0))
      BY <1>2 DEF receive, recvclr
    <3> QED
      BY <3>1, GotoQuietly DEF Quietly, At
  <2> QED
    BY <1>2, <2>1, ReceiveSeen, TakingSeen DEF Kernel!MessageCall
<1>3. ASSUME NEW d \in Delays, recvtime(d)
      PROVE  Kernel!MessageCall /\ WaitersWait' /\ Quietly
  <2>1. Quietly
    <3>1. pc' = pc \/ Goto(At("recvtime", 0, 0))
      BY <1>3 DEF recvtime
    <3> QED
      BY <3>1, GotoQuietly DEF Quietly, At
  <2> QED
    BY <1>3, <2>1, RecvtimeSeen DEF Kernel!MessageCall
<1> QED
  BY <1>1, <1>2, <1>3 DEF MessageCall

LEMMA ProcessCallSeen ==
  ASSUME Seen, ProcessCall, UNCHANGED lockvars
  PROVE  Kernel!ProcessCall /\ WaitersWait' /\ Quietly
<1>1. ASSUME NEW pr \in Prios, create(pr)
      PROVE  Kernel!ProcessCall /\ WaitersWait' /\ Quietly
  <2>1. Quietly
    <3>1. pc' = pc \/ \E x : pc' = [pc EXCEPT ![x] = User]
      BY <1>1 DEF create
    <3>2. User.at = "user"
      BY DEF User, At
    <3> QED
      BY <3>1, <3>2 DEF Quietly
  <2> QED
    BY <1>1, <2>1, CreateSeen DEF Kernel!ProcessCall
<1>2. ASSUME NEW q \in Pids, suspend(q) \/ resume(q)
      PROVE  Kernel!ProcessCall /\ WaitersWait' /\ Quietly
  <2>1. Quietly
    BY <1>2 DEF suspend, resume, Quietly
  <2> QED
    BY <1>2, <2>1, SuspendSeen, ResumeSeen, SameNames DEF Kernel!ProcessCall
<1>3. ASSUME NEW q \in Pids, kill(q) PROVE FALSE
  BY <1>3, LockAssumption DEF kill, syscall
<1>4. ASSUME NEW q \in Pids, NEW pr \in Prios, chprio(q, pr)
      PROVE  Kernel!ProcessCall /\ WaitersWait' /\ Quietly
  <2>1. Quietly
    BY <1>4 DEF chprio, Quietly
  <2> QED
    BY <1>4, <2>1, ChprioSeen, SameNames DEF Kernel!ProcessCall
<1>5. ASSUME yield
      PROVE  Kernel!ProcessCall /\ WaitersWait' /\ Quietly
  BY <1>5, YieldSeen DEF Kernel!ProcessCall, yield, Quietly
<1>6. ASSUME NEW d \in Delays, sleepms(d)
      PROVE  Kernel!ProcessCall /\ WaitersWait' /\ Quietly
  BY <1>6, WaitersStay, SleepmsSeen DEF Kernel!ProcessCall, sleepms, Quietly
<1> QED
  BY <1>1, <1>2, <1>3, <1>4, <1>5, <1>6 DEF ProcessCall

LEMMA RestOfCallSeen ==
  ASSUME Seen, NobodyKills, RestOfCall, UNCHANGED lockvars
  PROVE  Kernel!RestOfCall /\ WaitersWait' /\ Quietly /\ Here # User
<1>u. User.at = "user" /\ \A p : inside(p) => Here.at = p
  BY DEF User, At, inside
<1>1. ASSUME signaln_loop
      PROVE  Kernel!RestOfCall /\ WaitersWait' /\ Quietly /\ Here # User
  <2>1. Here.at = "signaln" /\ (Goto([Here EXCEPT !.n = @ - 1]) \/ Goto(User))
    BY <1>1, <1>u DEF signaln_loop, end_loop
  <2>2. Here \in Kernel!Frames
    BY SameConstants, CallSeen, Kernel!IInvFacts DEF Seen
  <2>3. [Here EXCEPT !.n = @ - 1].at = Here.at
    BY <2>2 DEF Kernel!Frames
  <2>4. Quietly
    BY <2>1, <2>3, <1>u, GotoQuietly
  <2> QED
    BY <1>1, <1>u, <2>1, <2>4, SignalnLoopSeen DEF Kernel!RestOfCall
<1>2. ASSUME semdelete_loop
      PROVE  Kernel!RestOfCall /\ WaitersWait' /\ Quietly /\ Here # User
  <2>1. Here.at = "semdelete" /\ (pc' = pc \/ Goto(User))
    BY <1>2, <1>u DEF semdelete_loop, end_loop
  <2> QED
    BY <1>2, <1>u, <2>1, SemdeleteLoopSeen, GotoQuietly DEF Kernel!RestOfCall, Quietly
<1>3. ASSUME semreset_loop
      PROVE  Kernel!RestOfCall /\ WaitersWait' /\ Quietly /\ Here # User
  <2>1. Here.at = "semreset" /\ (pc' = pc \/ Goto(User))
    BY <1>3, <1>u DEF semreset_loop, end_loop
  <2> QED
    BY <1>3, <1>u, <2>1, SemresetLoopSeen, GotoQuietly DEF Kernel!RestOfCall, Quietly
<1>4. ASSUME send_loop
      PROVE  Kernel!RestOfCall /\ WaitersWait' /\ Quietly /\ Here # User
  <2>1. Here.at = "send" /\ (pc' = pc \/ Goto(User))
    BY <1>4, <1>u DEF send_loop
  <2> QED
    BY <1>4, <1>u, <2>1, SendLoopSeen, GotoQuietly DEF Kernel!RestOfCall, Quietly
<1>5. ASSUME receive_rest
      PROVE  Kernel!RestOfCall /\ WaitersWait' /\ Quietly /\ Here # User
  <2>1. Here.at \in {"receive", "recvtime"} /\ Goto(User)
    BY <1>5, <1>u DEF receive_rest
  <2> QED
    BY <1>5, <1>u, <2>1, TakingSeen, GotoQuietly DEF Kernel!RestOfCall
<1>6. ASSUME killsend_loop \/ kill_rest PROVE FALSE
  <2>1. Here.at \in {"kill", "killsend"}
    BY <1>6, <1>u DEF killsend_loop, kill_rest
  <2>2. currpid \in Pids
    BY SeenFacts
  <2> QED
    BY <2>1, <2>2 DEF NobodyKills, Here
<1>7. ASSUME wakeup
      PROVE  Kernel!RestOfCall /\ WaitersWait' /\ Quietly /\ Here # User
  <2>1. Here.at = "wakeup" /\ (pc' = pc \/ Goto(At("clock", 0, 0)))
    BY <1>7, <1>u DEF wakeup
  <2>2. Quietly
    BY <2>1, GotoQuietly DEF Quietly, At
  <2> QED
    BY <1>7, <1>u, <2>1, <2>2, WakeupSeen DEF Kernel!RestOfCall
<1>8. ASSUME clkhandler_rest
      PROVE  Kernel!RestOfCall /\ WaitersWait' /\ Quietly /\ Here # User
  <2>1. Here.at = "clock" /\ Goto(User)
    BY <1>8, <1>u DEF clkhandler_rest
  <2> QED
    BY <1>8, <1>u, <2>1, ClkhandlerRestSeen, GotoQuietly DEF Kernel!RestOfCall
<1> QED
  BY <1>1, <1>2, <1>3, <1>4, <1>5, <1>6, <1>7, <1>8 DEF RestOfCall

(* A step of the kernel's is one to the kernel of the instance, and comes  *)
(* when the running process is not on its way to park.                     *)
LEMMA KernelStepSeen ==
  ASSUME Seen, NobodyKills, KernelStep, ~PreemptEnqueued
  PROVE  /\ Kernel!Next /\ WaitersWait' /\ NobodyKills'
         /\ Point.at \notin Enqueued \/ Here # User
<1>1. UNCHANGED lockvars
  BY DEF KernelStep
<1>2. CASE Point.at \in {"idle", "held"} /\ (SemaphoreCall \/ MessageCall \/ ProcessCall)
  BY <1>1, <1>2, SemaphoreCallSeen, MessageCallSeen, ProcessCallSeen, StaysQuiet
  DEF Kernel!Next, Enqueued
<1>3. CASE RestOfCall
  BY <1>1, <1>3, RestOfCallSeen, StaysQuiet DEF Kernel!Next
<1>4. CASE Point.at \notin Enqueued /\ clkhandler
  <2>1. Quietly
    <3>1. pc' = pc \/ Goto(At("wakeup", 0, 0))
      BY <1>4 DEF clkhandler
    <3> QED
      BY <3>1, GotoQuietly DEF Quietly, At
  <2> QED
    BY <1>1, <1>4, <2>1, ClkhandlerSeen, StaysQuiet DEF Kernel!Next
<1> QED
  BY <1>2, <1>3, <1>4 DEF KernelStep
-----------------------------------------------------------------------------
(* The lock.  Who has it:                                                  *)
Having == {p \in Pids : Has(p)}

LockOK ==
  /\ LockTypeOK /\ GuardExcludes /\ MutualExclusion /\ FlagKnown /\ OwnerKnown
  /\ QueueKnown /\ NullStaysOut

(* The running process p goes on to the point to, with nothing else of     *)
(* at changed.                                                             *)
Steps(p, from, to, x) ==
  /\ p \in Pids \ {NULLPROC} /\ p = currpid /\ pc[p] = User
  /\ at[p].at = from /\ at'[p] = At(to, x, 0)
  /\ \A q \in Pids \ {p} : at'[q] = at[q]
  /\ at' \in [Pids -> [at : LockPoints, arg : Pids, n : {0}]]
  /\ NullStaysOut'

LEMMA StepsTo ==
  ASSUME LockIInv, NEW from, AtPoint(from), NEW to \in LockPoints, NEW x \in Pids,
         at' = [at EXCEPT ![currpid] = At(to, x, 0)]
  PROVE  Steps(currpid, from, to, x) /\ currpid \notin Waiters
<1>1. currpid \in Pids \ Waiters
  BY SeenFacts DEF LockIInv, Seen
<1>2. currpid # NULLPROC /\ pc[currpid] = User /\ at[currpid].at = from
  BY DEF AtPoint, Here, Point
<1>3. NULLPROC \in Pids /\ at \in [Pids -> [at : LockPoints, arg : Pids, n : {0}]]
  BY NullIsAProcess DEF LockIInv, LockTypeOK
<1>4. At(to, x, 0) \in [at : LockPoints, arg : Pids, n : {0}]
  BY DEF At
<1> QED
  BY <1>1, <1>2, <1>3, <1>4 DEF Steps, NullStaysOut, LockIInv

LEMMA GoesOn ==
  ASSUME LockIInv, NEW from, AtPoint(from), NEW to \in LockPoints, GoOn(to)
  PROVE  Steps(currpid, from, to, 0) /\ currpid \notin Waiters
<1>1. 0 \in Pids
  BY NullIsAProcess DEF NULLPROC
<1> QED
  BY <1>1, StepsTo DEF GoOn

(* The guard stays as it is, is taken or is given back.                    *)
LEMMA GuardStays ==
  ASSUME GuardExcludes, NEW p, NEW from, NEW to, NEW x, Steps(p, from, to, x), guard' = guard,
         from \in Guarded <=> to \in Guarded
  PROVE  GuardExcludes'
  BY DEF GuardExcludes, Steps, At

LEMMA GuardTaken ==
  ASSUME GuardExcludes, NEW p, NEW from, NEW to, NEW x, Steps(p, from, to, x),
         guard = 0, guard' = 1, to \in Guarded
  PROVE  GuardExcludes'
  BY DEF GuardExcludes, Steps, At

LEMMA GuardFreed ==
  ASSUME GuardExcludes, NEW p, NEW from, NEW to, NEW x, Steps(p, from, to, x),
         guard' = 0, from \in Guarded, to \notin Guarded
  PROVE  GuardExcludes'
  BY DEF GuardExcludes, Steps, At

(* Nobody else is at a point that needs the guard.                         *)
LEMMA AloneGuarded ==
  ASSUME GuardExcludes, NEW p, NEW from \in Guarded, NEW to, NEW x, Steps(p, from, to, x)
  PROVE  \A q \in Pids \ {p} : at[q].at \notin Guarded /\ at'[q].at \notin Guarded
  BY DEF GuardExcludes, Steps

LEMMA SameHolders ==
  ASSUME MutualExclusion, Having' = Having, flag' = flag
  PROVE  MutualExclusion'
<1>1. \A p \in Pids : Has(p) <=> p \in Having
  BY DEF Having
<1>2. \A p \in Pids : Has(p)' <=> p \in Having'
  BY DEF Having
<1> HIDE DEF Having
<1> QED
  BY <1>1, <1>2 DEF MutualExclusion

Hand(pt, p) ==
  \/ pt \in {"set_owner", "leave_lock", "held"}
  \/ pt \in {"unlock", "test_owner", "test_queue", "clear_flag", "dequeue"} /\ owner = p

(* A step that changes nothing but where the running process is, and may   *)
(* take or give back the guard.                                            *)
MayGo(p, from, to) ==
  /\ Hand(from, p) <=> Hand(to, p)
  /\ from \notin {"own", "unpark", "park"} /\ to \notin {"own", "unpark", "topark"}
  /\ to \in {"set_flag", "clear_owner"} => flag = 0
  /\ to = "enqueue" => flag = 1
  /\ to \in {"leave_lock", "held", "test_queue", "clear_flag", "dequeue"} => owner = p
  /\ from \in Enqueued <=> to \in Enqueued
  /\ to \in {"leave_guard", "park"} => prTopark[p]
  /\ to = "clear_flag" => lqueue = << >>
  /\ to = "dequeue" => lqueue # << >>

LEMMA Goes ==
  ASSUME LockOK, NEW p, NEW from, NEW to, Steps(p, from, to, 0), MayGo(p, from, to),
         currpid' = currpid, UNCHANGED <<pc, flag, owner, lqueue, prTopark>>,
         guard' \in {0, 1}
  PROVE  /\ LockTypeOK' /\ FlagKnown' /\ OwnerKnown' /\ QueueKnown' /\ NullStaysOut'
         /\ MutualExclusion' /\ Having' = Having /\ Waiters' = Waiters
<1>1. /\ p \in Pids /\ at[p].at = from /\ at'[p].at = to /\ p = currpid /\ pc[p] = User
      /\ \A q \in Pids \ {p} : at'[q] = at[q]
      /\ at' \in [Pids -> [at : LockPoints, arg : Pids, n : {0}]]
  BY DEF Steps, At
<1>2. LockTypeOK'
  BY <1>1 DEF LockOK, LockTypeOK
<1>3. FlagKnown' /\ OwnerKnown'
  BY <1>1 DEF LockOK, FlagKnown, OwnerKnown, MayGo
<1>4. QueueKnown'
  <2>1. IsInjective(lqueue)'
    BY DEF LockOK, QueueKnown
  <2>2. \A q \in ToSet(lqueue)' : at'[q].at \in Enqueued \cup {"own"}
    <3>1. ToSet(lqueue) \subseteq Pids
      BY DEF LockOK, LockTypeOK, ToSet
    <3> QED
      BY <1>1, <3>1 DEF LockOK, QueueKnown, MayGo
  <2>3. ASSUME NEW q \in Pids
        PROVE  /\ at'[q].at \in Enqueued => q \in ToSet(lqueue)' /\ q = currpid' /\ pc'[q] = User
               /\ at'[q].at \in {"leave_guard", "park"} => prTopark'[q]
               /\ at'[q].at = "clear_flag" => lqueue' = << >>
               /\ at'[q].at = "dequeue" => lqueue' # << >>
    BY <1>1 DEF LockOK, QueueKnown, MayGo
  <2>4. ASSUME NEW q \in Pids, at'[q].at = "unpark"
        PROVE  at'[at'[q].arg].at = "own" /\ at'[q].arg \notin ToSet(lqueue)'
    <3>1. q # p /\ at'[q] = at[q]
      BY <1>1, <2>4 DEF MayGo
    <3>2. at[at[q].arg].at = "own" /\ at[q].arg \notin ToSet(lqueue) /\ at[q].arg \in Pids
      BY <2>4, <3>1 DEF LockOK, QueueKnown, LockTypeOK
    <3>3. at[q].arg # p
      BY <1>1, <3>2 DEF MayGo
    <3> QED
      BY <1>1, <3>1, <3>2, <3>3
  <2> QED
    BY <2>1, <2>2, <2>3, <2>4 DEF QueueKnown
<1>5. Waiters' = Waiters
  <2>1. \A q \in Pids : /\ at'[q].at = "own" <=> at[q].at = "own"
                        /\ at'[q].at = "unpark" <=> at[q].at = "unpark"
                        /\ at[q].at = "unpark" => at'[q].arg = at[q].arg
    BY <1>1 DEF MayGo
  <2> QED
    BY <2>1 DEF Waiters
<1>6. Having' = Having
  <2>1. ASSUME NEW q \in Pids PROVE Has(q)' <=> Has(q)
    BY <1>1 DEF Has, MayGo, Hand
  <2> QED
    BY <2>1 DEF Having
<1>7. MutualExclusion'
  BY <1>6, SameHolders DEF LockOK
<1>8. NullStaysOut'
  BY DEF Steps
<1> QED
  BY <1>2, <1>3, <1>4, <1>5, <1>6, <1>7, <1>8

(* What a step within the lock keeps.                                      *)
Keeps == LockOK' /\ Waiters' = Waiters /\ Having' = Having

LEMMA Within ==
  ASSUME LockIInv,
         NEW from, NEW to \in LockPoints, AtPoint(from), GoOn(to), MayGo(currpid, from, to),
         UNCHANGED <<vars, guard, flag, owner, lqueue, prTopark>>,
         from \in Guarded <=> to \in Guarded
  PROVE  Keeps
<1>1. LockOK
  BY DEF LockIInv, LockOK
<1>2. PICK p : p = currpid
  OBVIOUS
<1>3. Steps(p, from, to, 0) /\ MayGo(p, from, to)
  BY <1>2, GoesOn
<1>4. currpid' = currpid /\ guard' \in {0, 1}
  BY <1>1 DEF currpid, vars, LockOK, LockTypeOK
<1>5. UNCHANGED <<pc, flag, owner, lqueue, prTopark>>
  BY DEF vars
<1>6. /\ LockTypeOK' /\ FlagKnown' /\ OwnerKnown' /\ QueueKnown' /\ NullStaysOut'
      /\ MutualExclusion' /\ Having' = Having /\ Waiters' = Waiters
  BY <1>1, <1>3, <1>4, <1>5, Goes
<1>7. GuardExcludes'
  BY <1>1, <1>3, GuardStays DEF LockOK
<1> QED
  BY <1>6, <1>7 DEF Keeps, LockOK

LEMMA TestsKeep ==
  ASSUME LockIInv, lock \/ unlock \/ test_flag \/ test_owner \/ test_queue
  PROVE  Keeps /\ UNCHANGED vars
<1>0. /\ flag \in {0, 1}
      /\ AtPoint("held") \/ AtPoint("test_queue") => owner = currpid
  <2>1. currpid \in Pids
    BY SeenFacts DEF LockIInv, Seen
  <2> QED
    BY <2>1 DEF LockIInv, LockTypeOK, OwnerKnown, AtPoint, Point
<1>1. CASE lock
  BY <1>1, Within DEF lock, lk, MayGo, Hand, LockPoints, Guarded, Enqueued
<1>2. CASE unlock
  <2>1. CASE AtPoint("held")
    BY <1>0, <1>2, <2>1, Within DEF unlock, lk, MayGo, Hand, LockPoints, Guarded, Enqueued
  <2>2. CASE AtPoint("idle") /\ owner # currpid
    BY <1>2, <2>2, Within DEF unlock, lk, MayGo, Hand, LockPoints, Guarded, Enqueued
  <2> QED
    BY <1>2, <2>1, <2>2 DEF unlock
<1>3. CASE test_flag
  BY <1>0, <1>3, Within DEF test_flag, lk, MayGo, Hand, LockPoints, Guarded, Enqueued
<1>4. CASE test_owner
  BY <1>4, Within DEF test_owner, lk, MayGo, Hand, LockPoints, Guarded, Enqueued
<1>5. CASE test_queue
  BY <1>0, <1>5, Within DEF test_queue, lk, MayGo, Hand, LockPoints, Guarded, Enqueued
<1> QED
  BY <1>1, <1>2, <1>3, <1>4, <1>5

(* With the lock left alone, when the running process is not about to park.*)
LEMMA LockStays ==
  ASSUME LockIInv, UNCHANGED lockvars, Point.at \notin Enqueued \/ Here # User
  PROVE  Keeps
<1>1. \A p \in Pids : at[p].at \notin Enqueued
  BY DEF LockIInv, QueueKnown, Point, Here
<1>2. UNCHANGED <<flag, guard, owner, lqueue, prTopark, at>>
  BY DEF lockvars, lk
<1>3. Waiters' = Waiters /\ Having' = Having
  BY <1>2 DEF Waiters, Having, Has
<1>4. QueueKnown'
  BY <1>1, <1>2 DEF LockIInv, QueueKnown, Enqueued
<1>5. MutualExclusion'
  BY <1>2, <1>3, SameHolders DEF LockIInv
<1> QED
  BY <1>2, <1>3, <1>4, <1>5
  DEF LockIInv, LockTypeOK, GuardExcludes, FlagKnown, OwnerKnown, NullStaysOut, Keeps, LockOK

LEMMA GuardKeeps ==
  ASSUME LockIInv, lock_guard \/ unlock_guard
  PROVE  Keeps /\ (UNCHANGED vars \/ sleepms(QUANTUM))
<1>0. LockOK
  BY DEF LockIInv, LockOK
<1>1. PICK from, to : /\ \/ from = "lock" /\ to = "test_flag"
                         \/ from = "unlock" /\ to = "test_owner"
                      /\ take_guard(from, to)
  BY DEF lock_guard, unlock_guard
<1>2. /\ AtPoint(from) /\ from \notin Guarded \cup Enqueued /\ to \in Guarded
      /\ to \in LockPoints /\ UNCHANGED <<flag, owner, lqueue, prTopark>>
  BY <1>1 DEF take_guard, Guarded, Enqueued, LockPoints
<1>3. CASE guard = 0 /\ guard' = 1 /\ GoOn(to) /\ UNCHANGED vars
  <2>1. PICK p : p = currpid
    OBVIOUS
  <2>2. Steps(p, from, to, 0)
    BY <1>2, <1>3, <2>1, GoesOn
  <2>3. MayGo(p, from, to)
    BY <1>1 DEF MayGo, Hand, Enqueued
  <2>4. currpid' = currpid /\ pc' = pc /\ guard' \in {0, 1}
    BY <1>3 DEF vars, currpid
  <2>5. /\ LockTypeOK' /\ FlagKnown' /\ OwnerKnown' /\ QueueKnown' /\ NullStaysOut'
        /\ MutualExclusion' /\ Having' = Having /\ Waiters' = Waiters
    BY <1>0, <1>2, <2>2, <2>3, <2>4, Goes
  <2>6. GuardExcludes'
    BY <1>0, <1>2, <1>3, <2>2, GuardTaken DEF LockOK
  <2> QED
    BY <1>3, <2>5, <2>6 DEF Keeps, LockOK
<1>4. CASE guard = 1 /\ sleepms(QUANTUM) /\ UNCHANGED <<guard, at>>
  <2>1. Point.at \notin Enqueued /\ UNCHANGED lockvars
    BY <1>2, <1>4 DEF AtPoint, lockvars, lk
  <2> QED
    BY <1>4, <2>1, LockStays
<1> QED
  BY <1>1, <1>3, <1>4 DEF take_guard

LEMMA LeaveKeeps ==
  ASSUME LockIInv, leave_lock \/ leave_guard \/ leave_unlock
  PROVE  Keeps /\ UNCHANGED vars
<1>0. LockOK
  BY DEF LockIInv, LockOK
<1>1. PICK from, to : /\ \/ from = "leave_lock" /\ to = "held"
                         \/ from = "leave_guard" /\ to = "park"
                         \/ from = "leave_unlock" /\ to = "idle"
                      /\ free_guard(from, to)
  BY DEF leave_lock, leave_guard, leave_unlock
<1>2. /\ AtPoint(from) /\ from \in Guarded /\ to \notin Guarded /\ guard' = 0 /\ GoOn(to)
      /\ to \in LockPoints /\ UNCHANGED <<vars, flag, owner, lqueue, prTopark>>
  BY <1>1 DEF free_guard, Guarded, LockPoints
<1>3. PICK p : p = currpid
  OBVIOUS
<1>4. Steps(p, from, to, 0)
  BY <1>2, <1>3, GoesOn
<1>5. MayGo(p, from, to)
  <2>1. /\ from = "leave_lock" => owner = p
        /\ from = "leave_guard" => prTopark[p]
    BY <1>0, <1>4 DEF LockOK, OwnerKnown, QueueKnown, Steps
  <2> QED
    BY <1>1, <2>1 DEF MayGo, Hand, Enqueued
<1>6. currpid' = currpid /\ pc' = pc /\ guard' \in {0, 1}
  BY <1>2 DEF vars, currpid
<1>7. /\ LockTypeOK' /\ FlagKnown' /\ OwnerKnown' /\ QueueKnown' /\ NullStaysOut'
      /\ MutualExclusion' /\ Having' = Having /\ Waiters' = Waiters
  BY <1>0, <1>2, <1>4, <1>5, <1>6, Goes
<1>8. GuardExcludes'
  BY <1>0, <1>2, <1>4, GuardFreed DEF LockOK
<1> QED
  BY <1>2, <1>7, <1>8 DEF Keeps, LockOK

(* A process does what the guard protects.                                 *)
Alone(p, from, to, x) ==
  /\ LockOK /\ Steps(p, from, to, x) /\ p \notin Waiters
  /\ at[p].at = from /\ at'[p].at = to /\ at'[p].arg = x
  /\ \A q \in Pids \ {p} : at[q].at \notin Guarded /\ at'[q].at \notin Guarded
  /\ currpid' = currpid /\ pc' = pc /\ GuardExcludes' /\ NullStaysOut'
  /\ ToSet(lqueue) \subseteq Pids

LEMMA InTheGuard ==
  ASSUME LockIInv, NEW from \in Guarded, AtPoint(from), NEW to \in Guarded, NEW x \in Pids,
         at' = [at EXCEPT ![currpid] = At(to, x, 0)],
         guard' = guard, UNCHANGED vars
  PROVE  Alone(currpid, from, to, x)
<1>1. PICK p : p = currpid
  OBVIOUS
<1>2. LockOK /\ to \in LockPoints
  BY DEF LockIInv, LockOK, Guarded, LockPoints
<1>3. Steps(p, from, to, x) /\ p \notin Waiters
  BY <1>1, <1>2, StepsTo
<1>4. GuardExcludes'
  BY <1>2, <1>3, GuardStays DEF LockOK
<1>5. \A q \in Pids \ {p} : at[q].at \notin Guarded /\ at'[q].at \notin Guarded
  BY <1>2, <1>3, AloneGuarded DEF LockOK
<1>6. currpid' = currpid /\ pc' = pc /\ ToSet(lqueue) \subseteq Pids
  BY <1>2 DEF vars, currpid, LockOK, LockTypeOK, ToSet
<1> QED
  BY <1>1, <1>2, <1>3, <1>4, <1>5, <1>6 DEF Alone, Steps, At

LEMMA SetFlagKeeps ==
  ASSUME LockIInv, set_flag
  PROVE  /\ LockOK' /\ Waiters' = Waiters /\ UNCHANGED vars /\ lqueue' = lqueue
         /\ Having = {} /\ Having' = {currpid} /\ lqueue = << >>
<1>1. PICK p : p = currpid
  OBVIOUS
<1>2. Alone(p, "set_flag", "set_owner", 0)
  <2>1. 0 \in Pids
    BY NullIsAProcess DEF NULLPROC
  <2> QED
    BY <1>1, <2>1, InTheGuard DEF set_flag, GoOn, Guarded
<1>3. flag' = 1 /\ UNCHANGED <<vars, guard, owner, lqueue, prTopark>>
  BY DEF set_flag
<1>4. flag = 0 /\ lqueue = << >>
  BY <1>2 DEF Alone, Steps, LockOK, FlagKnown
<1>5. Having = {}
  BY <1>2, <1>4 DEF Alone, LockOK, MutualExclusion, Having
<1>6. \A q \in Pids : Has(q)' <=> q = p
  <2>1. \A q \in Pids : ~Has(q)
    BY <1>5 DEF Having
  <2> QED
    BY <1>2, <1>3, <2>1 DEF Has, Alone, Steps
<1>7. Having' = {p} /\ MutualExclusion'
  BY <1>2, <1>3, <1>6 DEF Having, MutualExclusion, Alone, Steps
<1>8. LockTypeOK'
  BY <1>2, <1>3 DEF Alone, Steps, LockOK, LockTypeOK
<1>9. FlagKnown' /\ OwnerKnown' /\ QueueKnown' /\ Waiters' = Waiters
  <2>1. FlagKnown'
    BY <1>2, <1>3, <1>4 DEF Alone, LockOK, Steps, FlagKnown, Guarded
  <2>2. OwnerKnown'
    BY <1>2, <1>3 DEF Alone, LockOK, Steps, OwnerKnown
  <2>3. QueueKnown'
    BY <1>2, <1>3, <1>4 DEF Alone, LockOK, Steps, QueueKnown, Guarded, Enqueued
  <2>4. Waiters' = Waiters
    BY <1>2, <1>3 DEF Alone, Steps, Waiters
  <2> QED
    BY <2>1, <2>2, <2>3, <2>4
<1> QED
  BY <1>1, <1>2, <1>3, <1>4, <1>5, <1>7, <1>8, <1>9 DEF LockOK, Alone

LEMMA ClearFlagKeeps ==
  ASSUME LockIInv, clear_flag
  PROVE  /\ LockOK' /\ Waiters' = Waiters /\ UNCHANGED vars /\ lqueue' = lqueue
         /\ Having = {currpid} /\ Having' = {} /\ lqueue = << >>
<1>1. PICK p : p = currpid
  OBVIOUS
<1>2. Alone(p, "clear_flag", "clear_owner", 0)
  <2>1. 0 \in Pids
    BY NullIsAProcess DEF NULLPROC
  <2> QED
    BY <1>1, <2>1, InTheGuard DEF clear_flag, GoOn, Guarded
<1>3. flag' = 0 /\ UNCHANGED <<vars, guard, owner, lqueue, prTopark>>
  BY DEF clear_flag
<1>4. lqueue = << >> /\ owner = p /\ p \in Pids
  BY <1>2 DEF Alone, Steps, LockOK, QueueKnown, OwnerKnown
<1>5. Has(p) /\ \A q \in Pids : Has(q) <=> q = p
  <2>1. Has(p)
    BY <1>2, <1>4 DEF Has, Alone
  <2> QED
    BY <1>2, <1>4, <2>1 DEF Alone, LockOK, MutualExclusion
<1>6. \A q \in Pids : ~Has(q)'
  BY <1>2, <1>3, <1>5 DEF Has, Alone, Steps
<1>7. Having = {p} /\ Having' = {} /\ MutualExclusion'
  BY <1>3, <1>4, <1>5, <1>6 DEF Having, MutualExclusion
<1>8. LockTypeOK'
  BY <1>2, <1>3 DEF Alone, Steps, LockOK, LockTypeOK
<1>9. FlagKnown' /\ OwnerKnown' /\ QueueKnown' /\ Waiters' = Waiters
  <2>1. FlagKnown'
    BY <1>2, <1>3, <1>4 DEF Alone, LockOK, Steps, FlagKnown, Guarded
  <2>2. OwnerKnown'
    BY <1>2, <1>3 DEF Alone, LockOK, Steps, OwnerKnown
  <2>3. QueueKnown'
    BY <1>2, <1>3, <1>4 DEF Alone, LockOK, Steps, QueueKnown, Guarded, Enqueued
  <2>4. Waiters' = Waiters
    BY <1>2, <1>3 DEF Alone, Steps, Waiters
  <2> QED
    BY <2>1, <2>2, <2>3, <2>4
<1> QED
  BY <1>1, <1>2, <1>3, <1>4, <1>7, <1>8, <1>9 DEF LockOK, Alone

LEMMA ClearOwnerKeeps ==
  ASSUME LockIInv, clear_owner
  PROVE  Keeps /\ UNCHANGED vars
<1>1. PICK p : p = currpid
  OBVIOUS
<1>2. Alone(p, "clear_owner", "leave_unlock", 0)
  <2>1. 0 \in Pids
    BY NullIsAProcess DEF NULLPROC
  <2> QED
    BY <1>1, <2>1, InTheGuard DEF clear_owner, GoOn, Guarded
<1>3. owner' = LOCK_AVAILABLE /\ UNCHANGED <<vars, guard, flag, lqueue, prTopark>>
  BY DEF clear_owner
<1>4. flag = 0 /\ p \in Pids /\ LOCK_AVAILABLE \notin Pids
  BY <1>2, SchedAssumption DEF Alone, Steps, LockOK, FlagKnown, Pids, LOCK_AVAILABLE
<1>5. \A q \in Pids : ~Has(q)
  BY <1>2, <1>4 DEF Alone, LockOK, MutualExclusion
<1>6. \A q \in Pids : ~Has(q)'
  BY <1>2, <1>3, <1>4, <1>5 DEF Has, Alone, Steps
<1>7. Having' = Having /\ MutualExclusion'
  BY <1>3, <1>4, <1>5, <1>6 DEF Having, MutualExclusion
<1>8. LockTypeOK'
  BY <1>2, <1>3 DEF Alone, Steps, LockOK, LockTypeOK
<1>9. FlagKnown' /\ OwnerKnown' /\ QueueKnown' /\ Waiters' = Waiters
  <2>1. FlagKnown'
    BY <1>2, <1>3, <1>4 DEF Alone, LockOK, Steps, FlagKnown, Guarded
  <2>2. OwnerKnown'
    BY <1>2, <1>3, <1>5 DEF Alone, LockOK, Steps, OwnerKnown, Has
  <2>3. QueueKnown'
    BY <1>2, <1>3 DEF Alone, LockOK, Steps, QueueKnown, Guarded, Enqueued
  <2>4. Waiters' = Waiters
    BY <1>2, <1>3 DEF Alone, Steps, Waiters
  <2> QED
    BY <2>1, <2>2, <2>3, <2>4
<1> QED
  BY <1>2, <1>3, <1>7, <1>8, <1>9 DEF LockOK, Alone, Keeps

(* The owner writes its name, with the guard or as the one woken.          *)
LEMMA SetOwnerKeeps ==
  ASSUME LockIInv, set_owner("set_owner", "leave_lock") \/ set_owner("own", "held")
  PROVE  Keeps /\ UNCHANGED vars
<1>0. LockOK
  BY DEF LockIInv, LockOK
<1>1. PICK p : p = currpid
  OBVIOUS
<1>2. PICK from, to : /\ \/ from = "set_owner" /\ to = "leave_lock"
                         \/ from = "own" /\ to = "held"
                      /\ set_owner(from, to)
  OBVIOUS
<1>3. /\ Steps(p, from, to, 0) /\ p \notin Waiters /\ p \in Pids
      /\ owner' = p /\ UNCHANGED <<vars, flag, guard, lqueue, prTopark>>
      /\ at[p].at = from /\ at'[p].at = to /\ at'[p].arg = 0
      /\ \A q \in Pids \ {p} : at'[q] = at[q]
  <2>1. AtPoint(from) /\ GoOn(to) /\ to \in LockPoints
    BY <1>2 DEF set_owner, LockPoints
  <2>2. Steps(p, from, to, 0) /\ p \notin Waiters
    BY <1>1, <2>1, GoesOn
  <2> QED
    BY <1>1, <1>2, <2>2 DEF set_owner, Steps, At
<1>4. from = "own" => p \notin ToSet(lqueue) /\ \A q \in Pids : at[q].at = "unpark" => at[q].arg # p
  BY <1>3 DEF Waiters
<1>5. Has(p) /\ \A q \in Pids : Has(q) <=> q = p
  <2>1. Has(p)
    BY <1>2, <1>3, <1>4 DEF Has
  <2> QED
    BY <1>0, <1>3, <2>1 DEF LockOK, MutualExclusion
<1>6. \A q \in Pids : Has(q)' <=> q = p
  BY <1>2, <1>3, <1>5 DEF Has
<1>7. Having' = Having /\ MutualExclusion'
  <2>1. Having' = Having
    BY <1>5, <1>6 DEF Having
  <2> QED
    BY <1>0, <1>3, <2>1, SameHolders DEF LockOK
<1>8. LockTypeOK' /\ GuardExcludes' /\ NullStaysOut'
  <2>1. from \in Guarded <=> to \in Guarded
    BY <1>2 DEF Guarded
  <2> QED
    BY <1>0, <1>3, <2>1, GuardStays DEF LockOK, LockTypeOK, Steps
<1>9. FlagKnown' /\ OwnerKnown' /\ QueueKnown' /\ Waiters' = Waiters
  <2>1. FlagKnown'
    BY <1>0, <1>2, <1>3 DEF LockOK, FlagKnown
  <2>2. OwnerKnown'
    <3>1. ASSUME NEW q \in Pids \ {p},
                 at[q].at \in {"leave_lock", "held", "test_queue", "clear_flag", "dequeue"}
          PROVE  FALSE
      <4>1. owner = q
        BY <1>0, <3>1 DEF LockOK, OwnerKnown
      <4> QED
        BY <1>5, <3>1, <4>1 DEF Has
    <3> QED
      BY <1>3, <3>1 DEF OwnerKnown
  <2>3. QueueKnown'
    <3>1. p \notin ToSet(lqueue) /\ currpid' = currpid /\ pc' = pc /\ ToSet(lqueue) \subseteq Pids
      BY <1>0, <1>2, <1>3, <1>4 DEF LockOK, QueueKnown, Enqueued, vars, currpid, LockTypeOK, ToSet
    <3>2. ASSUME NEW q \in Pids, at'[q].at = "unpark"
          PROVE  at'[at'[q].arg].at = "own" /\ at'[q].arg \notin ToSet(lqueue)'
      <4>1. q # p /\ at'[q] = at[q]
        BY <1>2, <1>3, <3>2
      <4>2. at[at[q].arg].at = "own" /\ at[q].arg \notin ToSet(lqueue) /\ at[q].arg \in Pids
        BY <1>0, <3>2, <4>1 DEF LockOK, QueueKnown, LockTypeOK
      <4>3. at[q].arg # p
        BY <1>2, <1>3, <1>4, <3>2, <4>1, <4>2
      <4> QED
        BY <1>3, <4>1, <4>2, <4>3
    <3>3. ASSUME NEW q \in Pids
          PROVE  /\ at'[q].at \in Enqueued => q \in ToSet(lqueue)' /\ q = currpid' /\ pc'[q] = User
                 /\ at'[q].at \in {"leave_guard", "park"} => prTopark'[q]
                 /\ at'[q].at = "clear_flag" => lqueue' = << >>
                 /\ at'[q].at = "dequeue" => lqueue' # << >>
      BY <1>0, <1>2, <1>3, <3>1 DEF LockOK, QueueKnown, Enqueued
    <3>4. \A q \in ToSet(lqueue)' : at'[q].at \in Enqueued \cup {"own"}
      BY <1>0, <1>3, <3>1 DEF LockOK, QueueKnown
    <3>5. IsInjective(lqueue)'
      BY <1>0, <1>3 DEF LockOK, QueueKnown
    <3> QED
      BY <3>2, <3>3, <3>4, <3>5 DEF QueueKnown
  <2>4. Waiters' = Waiters
    <3>1. \A q, h \in Pids : at'[h].at = "unpark" /\ at'[h].arg = q
                              <=> at[h].at = "unpark" /\ at[h].arg = q
      BY <1>2, <1>3
    <3>2. ASSUME NEW q \in Pids PROVE q \in Waiters' <=> q \in Waiters
      <4>1. CASE q = p
        BY <1>2, <1>3, <4>1 DEF Waiters
      <4>2. CASE q # p
        BY <1>3, <3>1, <4>2 DEF Waiters
      <4> QED
        BY <4>1, <4>2
    <3> QED
      BY <3>2 DEF Waiters
  <2> QED
    BY <2>1, <2>2, <2>3, <2>4
<1> QED
  BY <1>3, <1>7, <1>8, <1>9 DEF LockOK, Keeps

LEMMA EnqueueKeeps ==
  ASSUME LockIInv, enqueue
  PROVE  /\ LockOK' /\ Waiters' = Waiters /\ UNCHANGED vars /\ Having' = Having
         /\ lqueue' = Append(lqueue, currpid) /\ flag = 1 /\ currpid \in Pids \ Having
<1>1. PICK p : p = currpid
  OBVIOUS
<1>2. Alone(p, "enqueue", "topark", 0)
  <2>1. 0 \in Pids
    BY NullIsAProcess DEF NULLPROC
  <2> QED
    BY <1>1, <2>1, InTheGuard DEF enqueue, GoOn, Guarded
<1>3. lqueue' = Append(lqueue, p) /\ UNCHANGED <<vars, guard, flag, owner, prTopark>>
  BY <1>1 DEF enqueue
<1>4. /\ flag = 1 /\ p \in Pids /\ p = currpid /\ pc[p] = User
      /\ lqueue \in Seq(Pids) /\ IsInjective(lqueue)
      /\ p \notin ToSet(lqueue)
  BY <1>2 DEF Alone, Steps, LockOK, LockTypeOK, FlagKnown, QueueKnown, Enqueued
<1>5. /\ lqueue' \in Seq(Pids) /\ IsInjective(lqueue') /\ lqueue' # << >>
      /\ ToSet(lqueue') = ToSet(lqueue) \cup {p}
  <2>1. /\ lqueue' \in Seq(Pids) /\ IsInjective(lqueue')
        /\ ToSet(lqueue') = ToSet(lqueue) \cup {p}
    BY <1>3, <1>4, AppendJoins
  <2>2. ToSet(<< >>) = {}
    BY DEF ToSet
  <2> QED
    BY <2>1, <2>2
<1>6. \A q \in Pids : Has(q)' <=> Has(q)
  BY <1>2, <1>3, <1>5 DEF Has, Alone, Steps
<1>7. Having' = Having /\ MutualExclusion' /\ ~Has(p)
  <2>1. Having' = Having /\ ~Has(p)
    BY <1>2, <1>6 DEF Having, Has, Alone
  <2> QED
    BY <1>2, <1>3, <2>1, SameHolders DEF Alone, LockOK
<1>8. LockTypeOK'
  BY <1>2, <1>3, <1>5 DEF Alone, Steps, LockOK, LockTypeOK
<1>9. FlagKnown' /\ OwnerKnown' /\ QueueKnown' /\ Waiters' = Waiters
  <2>1. FlagKnown'
    BY <1>2, <1>3, <1>4 DEF Alone, LockOK, Steps, FlagKnown, Guarded
  <2>2. OwnerKnown'
    BY <1>2, <1>3 DEF Alone, LockOK, Steps, OwnerKnown
  <2>3. QueueKnown'
    <3>1. \A q \in ToSet(lqueue)' : at'[q].at \in Enqueued \cup {"own"}
      BY <1>2, <1>5 DEF Alone, LockOK, Steps, QueueKnown, Enqueued
    <3>2. ASSUME NEW q \in Pids
          PROVE  /\ at'[q].at \in Enqueued => q \in ToSet(lqueue)' /\ q = currpid' /\ pc'[q] = User
                 /\ at'[q].at \in {"leave_guard", "park"} => prTopark'[q]
                 /\ at'[q].at \notin {"clear_flag", "dequeue", "unpark"}
      BY <1>2, <1>3, <1>4, <1>5 DEF Alone, LockOK, Steps, QueueKnown, Enqueued, Guarded
    <3> QED
      BY <1>5, <3>1, <3>2 DEF QueueKnown
  <2>4. Waiters' = Waiters
    <3>1. ASSUME NEW q \in Pids PROVE q \in Waiters' <=> q \in Waiters
      <4>1. \A h \in Pids : at'[h].at # "unpark" /\ at[h].at # "unpark"
        BY <1>2 DEF Alone, Guarded
      <4> QED
        BY <1>2, <1>5, <4>1 DEF Waiters, Alone, Steps
    <3> QED
      BY <3>1 DEF Waiters
  <2> QED
    BY <2>1, <2>2, <2>3, <2>4
<1> QED
  BY <1>1, <1>2, <1>3, <1>4, <1>7, <1>8, <1>9 DEF LockOK, Alone, Having

LEMMA SetparkKeeps ==
  ASSUME LockIInv, setpark
  PROVE  Keeps /\ UNCHANGED vars
<1>1. PICK p : p = currpid
  OBVIOUS
<1>2. Alone(p, "topark", "leave_guard", 0)
  <2>1. 0 \in Pids
    BY NullIsAProcess DEF NULLPROC
  <2> QED
    BY <1>1, <2>1, InTheGuard DEF setpark, GoOn, Guarded, lk
<1>3. prTopark' = [prTopark EXCEPT ![p] = TRUE] /\ UNCHANGED <<vars, guard, flag, owner, lqueue>>
  BY <1>1 DEF setpark, lk
<1>4. /\ \A q \in Pids : Has(q)' <=> Has(q)
      /\ \A q \in Pids : at'[q].at = "unpark" <=> at[q].at = "unpark"
  BY <1>2, <1>3 DEF Has, Alone, Steps
<1>5. Having' = Having /\ MutualExclusion'
  <2>1. Having' = Having
    BY <1>4 DEF Having
  <2> QED
    BY <1>2, <1>3, <2>1, SameHolders DEF Alone, LockOK
<1>6. LockTypeOK' /\ FlagKnown' /\ OwnerKnown'
  BY <1>2, <1>3, ZenonT(30) DEF Alone, Steps, LockOK, LockTypeOK, FlagKnown, OwnerKnown
<1>7. QueueKnown'
  <2>1. \A q \in ToSet(lqueue)' : at'[q].at \in Enqueued \cup {"own"}
    BY <1>2, <1>3 DEF Alone, LockOK, Steps, QueueKnown, Enqueued
  <2>2. ASSUME NEW q \in Pids
        PROVE  /\ at'[q].at \in Enqueued => q \in ToSet(lqueue)' /\ q = currpid' /\ pc'[q] = User
               /\ at'[q].at \in {"leave_guard", "park"} => prTopark'[q]
               /\ at'[q].at \notin {"clear_flag", "dequeue", "unpark"}
    BY <1>2, <1>3 DEF Alone, LockOK, LockTypeOK, Steps, QueueKnown, Enqueued, Guarded
  <2> QED
    BY <1>2, <1>3, <2>1, <2>2 DEF QueueKnown, Alone, LockOK
<1>8. Waiters' = Waiters
  <2>1. \A h \in Pids : at'[h].at # "unpark" /\ at[h].at # "unpark"
    BY <1>2 DEF Alone, Guarded
  <2> QED
    BY <1>2, <1>3, <2>1 DEF Waiters, Alone, Steps
<1> QED
  BY <1>2, <1>3, <1>5, <1>6, <1>7, <1>8 DEF LockOK, Alone, Keeps

(* The first one on the queue is taken off it: it has the lock from then.  *)
LEMMA DequeueKeeps ==
  ASSUME LockIInv, dequeue
  PROVE  /\ LockOK' /\ Waiters' = Waiters /\ UNCHANGED vars
         /\ lqueue # << >> /\ lqueue' = Tail(lqueue)
         /\ Having = {currpid} /\ Having' = {Head(lqueue)}
<1>1. PICK p, x : p = currpid /\ x = Head(lqueue)
  OBVIOUS
<1>2. /\ AtPoint("dequeue") /\ lqueue' = Tail(lqueue)
      /\ at' = [at EXCEPT ![p] = At("unpark", x, 0)]
      /\ UNCHANGED <<vars, flag, guard, owner, prTopark>>
  BY <1>1 DEF dequeue
<1>3. /\ lqueue \in Seq(Pids) /\ IsInjective(lqueue) /\ lqueue # << >>
      /\ \A q \in ToSet(lqueue) : at[q].at \in Enqueued \cup {"own"}
      /\ \A q \in Pids : at[q].at \in Enqueued => q = currpid
      /\ currpid \in Pids /\ at[currpid].at = "dequeue"
  <2>1. currpid \in Pids
    BY SeenFacts DEF LockIInv, Seen
  <2> QED
    BY <1>2, <2>1 DEF LockIInv, QueueKnown, LockTypeOK, AtPoint, Point
<1>4. /\ x \in ToSet(lqueue) /\ x \in Pids /\ lqueue' \in Seq(Pids)
      /\ IsInjective(lqueue') /\ ToSet(lqueue') = ToSet(lqueue) \ {x}
  BY <1>1, <1>2, <1>3, TailLeaves
<1>5. at[x].at = "own" /\ x # p
  <2>1. x # currpid
    BY <1>3, <1>4 DEF Enqueued
  <2> QED
    BY <1>1, <1>3, <1>4, <2>1
<1>6. Alone(p, "dequeue", "unpark", x)
  BY <1>1, <1>2, <1>4, InTheGuard DEF Guarded
<1>7. owner = p /\ flag = 1
  BY <1>3, <1>6 DEF Alone, Steps, LockOK, OwnerKnown, FlagKnown
<1>8. Has(p) /\ \A q \in Pids : Has(q) <=> q = p
  <2>1. Has(p) /\ p \in Pids
    BY <1>6, <1>7 DEF Has, Alone, Steps
  <2> QED
    BY <1>6, <2>1 DEF Alone, LockOK, MutualExclusion
<1>9. \A q \in Pids : Has(q)' <=> q = x
  <2>1. Has(x)'
    BY <1>4, <1>5, <1>6 DEF Has, Alone, Steps
  <2>2. ASSUME NEW q \in Pids \ {x, p} PROVE ~Has(q)'
    BY <1>2, <1>4, <1>6, <1>8 DEF Has, Alone, Steps
  <2>3. ~Has(p)'
    BY <1>6 DEF Has, Alone
  <2> QED
    BY <2>1, <2>2, <2>3
<1>10. Having = {p} /\ Having' = {x} /\ MutualExclusion'
  <2>1. Having = {p} /\ Having' = {x}
    BY <1>4, <1>6, <1>8, <1>9 DEF Having, Alone, Steps
  <2> QED
    BY <1>2, <1>4, <1>7, <1>9, <2>1 DEF MutualExclusion
<1>11. LockTypeOK' /\ FlagKnown' /\ OwnerKnown'
  <2>1. LockTypeOK'
    BY <1>2, <1>4, <1>6 DEF Alone, Steps, LockOK, LockTypeOK
  <2>2. FlagKnown'
    BY <1>2, <1>6, <1>7 DEF Alone, Steps, LockOK, FlagKnown, Guarded
  <2>3. OwnerKnown'
    BY <1>2, <1>6 DEF Alone, Steps, LockOK, OwnerKnown
  <2> QED
    BY <2>1, <2>2, <2>3
<1>12. QueueKnown'
  <2>1. \A q \in ToSet(lqueue)' : at'[q].at \in Enqueued \cup {"own"}
    <3>1. \A q \in ToSet(lqueue) : q # p
      BY <1>1, <1>3 DEF Enqueued
    <3> QED
      BY <1>3, <1>4, <1>6, <3>1 DEF Alone, Steps
  <2>2. ASSUME NEW q \in Pids
        PROVE  /\ at'[q].at \in Enqueued => q \in ToSet(lqueue)' /\ q = currpid' /\ pc'[q] = User
               /\ at'[q].at \in {"leave_guard", "park"} => prTopark'[q]
               /\ at'[q].at \notin {"clear_flag", "dequeue"}
    <3>1. at'[q].at \notin Enqueued
      BY <1>1, <1>3, <1>6 DEF Alone, Steps, Enqueued
    <3> QED
      BY <1>6, <3>1 DEF Alone, Enqueued, Guarded
  <2>3. ASSUME NEW q \in Pids, at'[q].at = "unpark"
        PROVE  at'[at'[q].arg].at = "own" /\ at'[q].arg \notin ToSet(lqueue)'
    <3>1. q = p
      BY <1>6, <2>3 DEF Alone, Guarded
    <3>2. at'[q].arg = x
      BY <1>6, <3>1 DEF Alone
    <3> QED
      BY <1>4, <1>5, <1>6, <3>2 DEF Alone, Steps
  <2> QED
    BY <1>4, <2>1, <2>2, <2>3 DEF QueueKnown
<1>13. Waiters' = Waiters
  <2>1. \A h \in Pids : at[h].at # "unpark"
    BY <1>6 DEF Alone, Guarded
  <2>2. \A q, h \in Pids : at'[h].at = "unpark" /\ at'[h].arg = q <=> h = p /\ q = x
    BY <1>6 DEF Alone, Guarded
  <2>3. ASSUME NEW q \in Pids PROVE q \in Waiters' <=> q \in Waiters
    <3>1. q \in Waiters' <=> at'[q].at = "own" /\ (q \in ToSet(lqueue') \/ q = x)
      BY <1>6, <2>2 DEF Waiters, Alone, Steps
    <3>2. q \in Waiters <=> at[q].at = "own" /\ q \in ToSet(lqueue)
      BY <2>1 DEF Waiters
    <3>3. at'[q].at = "own" <=> at[q].at = "own"
      BY <1>6 DEF Alone, Steps
    <3> QED
      BY <1>4, <3>1, <3>2, <3>3
  <2> QED
    BY <2>3 DEF Waiters
<1> QED
  BY <1>1, <1>2, <1>3, <1>6, <1>10, <1>11, <1>12, <1>13 DEF LockOK, Alone

(* To park is to suspend oneself.                                          *)
LEMMA ParkKeeps ==
  ASSUME LockIInv, park
  PROVE  /\ LockOK' /\ Having' = Having /\ lqueue' = lqueue
         /\ Kernel!suspend(currpid) /\ currpid \in Pids /\ WaitersWait' /\ pc' = pc
<1> DEFINE M == AsKernel
           T == block(M, "SUSP")
<1>1. PICK p : p = currpid
  OBVIOUS
<1>2. AtPoint("park") /\ GoOn("own") /\ UNCHANGED <<proctab, pids, semtab, pc, halted, lk>>
  BY DEF park
<1>3. LockOK /\ Steps(p, "park", "own", 0) /\ p \notin Waiters
  BY <1>1, <1>2, GoesOn DEF LockIInv, LockOK, LockPoints
<1>4. /\ p \in Pids \ {NULLPROC} /\ p = currpid /\ pc[p] = User /\ Here = User /\ ~halted
      /\ at[p].at = "park" /\ at'[p].at = "own" /\ at'[p].arg = 0
      /\ \A q \in Pids \ {p} : at'[q] = at[q]
      /\ prTopark[p] /\ p \in ToSet(lqueue)
  BY <1>2, <1>3 DEF Steps, At, LockOK, QueueKnown, Enqueued, AtPoint
<1>5. /\ UNCHANGED <<flag, guard, owner, lqueue>>
      /\ prTopark' = [prTopark EXCEPT ![p] = FALSE] /\ sch' = block(sch, "WAIT")
  BY <1>1, <1>2, <1>4 DEF park, lk
<1>6. \A q \in Pids : at[q].at \in Enqueued <=> q = p
  BY <1>1, <1>3, <1>4 DEF LockOK, QueueKnown, Enqueued
<1>7. \A q \in Pids : /\ Has(q)' <=> Has(q)
                      /\ at'[q].at = "unpark" <=> at[q].at = "unpark"
                      /\ at'[q].at \notin Enqueued
  BY <1>4, <1>5, <1>6 DEF Has, Enqueued
<1>8. Having' = Having /\ MutualExclusion'
  <2>1. Having' = Having
    BY <1>7 DEF Having
  <2> QED
    BY <1>3, <1>5, <2>1, SameHolders DEF LockOK
<1>9. LockTypeOK' /\ FlagKnown' /\ OwnerKnown' /\ GuardExcludes' /\ NullStaysOut'
  <2>1. LockTypeOK' /\ FlagKnown' /\ OwnerKnown' /\ NullStaysOut'
    BY <1>3, <1>4, <1>5 DEF Steps, LockOK, LockTypeOK, FlagKnown, OwnerKnown
  <2>2. GuardExcludes'
    BY <1>3, <1>5, GuardStays DEF LockOK, Guarded
  <2> QED
    BY <2>1, <2>2
<1>10. QueueKnown'
  <2>1. \A q \in ToSet(lqueue)' : at'[q].at \in Enqueued \cup {"own"}
    <3>1. ToSet(lqueue) \subseteq Pids
      BY <1>3 DEF LockOK, LockTypeOK, ToSet
    <3> QED
      BY <1>3, <1>4, <1>5, <3>1 DEF LockOK, QueueKnown
  <2>2. ASSUME NEW q \in Pids
        PROVE  /\ at'[q].at \notin Enqueued \cup {"leave_guard", "park"}
               /\ at'[q].at = "clear_flag" => lqueue' = << >>
               /\ at'[q].at = "dequeue" => lqueue' # << >>
    BY <1>3, <1>4, <1>5, <1>7 DEF LockOK, QueueKnown, Enqueued
  <2>3. ASSUME NEW q \in Pids, at'[q].at = "unpark"
        PROVE  at'[at'[q].arg].at = "own" /\ at'[q].arg \notin ToSet(lqueue)'
    <3>1. at'[q] = at[q] /\ at[at[q].arg].at = "own" /\ at[q].arg \notin ToSet(lqueue)
          /\ at[q].arg \in Pids
      BY <1>3, <1>4, <2>3 DEF LockOK, QueueKnown, LockTypeOK
    <3> QED
      BY <1>4, <1>5, <3>1
  <2> QED
    BY <1>3, <1>5, <2>1, <2>2, <2>3 DEF QueueKnown, LockOK
<1>11. Waiters' = Waiters \cup {p}
  <2>1. ASSUME NEW q \in Pids PROVE q \in Waiters' <=> q \in Waiters \cup {p}
    <3>1. CASE q = p
      BY <1>4, <1>5, <3>1 DEF Waiters
    <3>2. CASE q # p
      <4>1. \A h \in Pids : at'[h].at = "unpark" /\ at'[h].arg = q
                            <=> at[h].at = "unpark" /\ at[h].arg = q
        BY <1>4
      <4> QED
        BY <1>4, <1>5, <3>2, <4>1 DEF Waiters
    <3> QED
      BY <3>1, <3>2
  <2> QED
    BY <1>4, <2>1 DEF Waiters
<1>12. sch.ndefers = 0 /\ Seen
  BY <1>4, NotLooping DEF User, At, LockIInv, Seen
<1>13. /\ SchedOK(M) /\ Running(M) /\ M.ndefers = 0 /\ M.currpid = p
       /\ Waiters \in SUBSET Pids /\ sch = WithState(Waiters, M, "WAIT")
       /\ \A q \in Waiters : M.prstate[q] = "SUSP"
  BY <1>1, <1>12, SeenFacts DEF currpid
<1> HIDE DEF M
<1>14. IsSched(T) /\ Turns({p}, M, T) /\ T.prstate[p] = "SUSP"
  <2>1. /\ SchedOK(T) /\ Turns({M.currpid}, M, T) /\ T.prstate[M.currpid] = "SUSP"
    BY <1>4, <1>13, BlockOK
  <2> QED
    BY <1>13, <2>1 DEF SchedOK, Coherent
<1>15. \A q \in Waiters \cup {p} : T.prstate[q] = "SUSP"
  BY <1>13, <1>14 DEF Turns, Eligible
<1>16. sch' = WithState(Waiters \cup {p}, T, "WAIT")
  BY <1>4, <1>5, <1>13, ParkAs
<1> HIDE DEF T
<1>17. AsKernel' = T /\ WaitersWait'
  BY <1>4, <1>11, <1>13, <1>14, <1>15, <1>16, StepSeen
<1>18. Kernel!suspend(currpid)
  <2>1. Kernel!currpid = currpid /\ Kernel!Here = Here /\ Kernel!prstate[p] = "CURR"
    BY <1>12, <1>13, CallSeen DEF Kernel!prstate, Running, M
  <2>2. AsKernel' = Kernel!block(AsKernel, "SUSP")
    BY <1>17, SameScheduler DEF T, M
  <2> QED
    BY <1>1, <1>2, <1>4, <2>1, <2>2, SameNames
    DEF Kernel!suspend, Kernel!syscall, proctab, Kernel!proctab, pids, Kernel!pids,
        semtab, Kernel!semtab
<1> QED
  BY <1>1, <1>2, <1>3, <1>4, <1>5, <1>8, <1>9, <1>10, <1>17, <1>18 DEF LockOK

(* To unpark a process is to resume it.                                    *)
LEMMA UnparkKeeps ==
  ASSUME LockIInv, unpark
  PROVE  /\ LockOK' /\ Having' = Having /\ lqueue' = lqueue
         /\ Kernel!resume(Point.arg) /\ Point.arg \in Pids /\ WaitersWait' /\ pc' = pc
<1> DEFINE M == AsKernel
           x == Point.arg
           T == ready(M, x)
<1>1. PICK p : p = currpid
  OBVIOUS
<1>2. /\ AtPoint("unpark") /\ GoOn("leave_unlock") /\ sch' = ready(sch, x)
      /\ prTopark' = [prTopark EXCEPT ![p] = FALSE]
      /\ UNCHANGED <<proctab, pids, semtab, pc, halted, lk>>
  BY <1>1 DEF unpark
<1>3. LockOK /\ Steps(p, "unpark", "leave_unlock", 0) /\ p \notin Waiters
  BY <1>1, <1>2, GoesOn DEF LockIInv, LockOK, LockPoints
<1>4. /\ p \in Pids \ {NULLPROC} /\ p = currpid /\ pc[p] = User /\ Here = User /\ ~halted
      /\ at[p].at = "unpark" /\ at'[p].at = "leave_unlock"
      /\ \A q \in Pids \ {p} : at'[q] = at[q] /\ at[q].at # "unpark"
  <2>1. \A q \in Pids \ {p} : at[q].at \notin Guarded
    BY <1>3, AloneGuarded DEF LockOK, Guarded
  <2> QED
    BY <1>2, <1>3, <2>1 DEF Steps, At, AtPoint, Guarded
<1>5. /\ x \in Pids /\ x = at[p].arg /\ at[x].at = "own" /\ x \notin ToSet(lqueue)
      /\ x \in Waiters
  BY <1>1, <1>3, <1>4 DEF Point, LockOK, QueueKnown, LockTypeOK, Waiters
<1> HIDE DEF x
<1>6. UNCHANGED <<flag, guard, owner, lqueue>>
  BY <1>2 DEF lk
<1>7. \A q \in Pids : at[q].at \notin Enqueued /\ at'[q].at \notin Enqueued
  BY <1>1, <1>3, <1>4 DEF LockOK, QueueKnown, Enqueued
<1>8. Having' = Having /\ MutualExclusion'
  <2>1. \A q \in Pids : Has(q)' <=> Has(q)
    BY <1>4, <1>6 DEF Has
  <2>2. Having' = Having
    BY <2>1 DEF Having
  <2> QED
    BY <1>3, <1>6, <2>2, SameHolders DEF LockOK
<1>9. LockTypeOK' /\ FlagKnown' /\ OwnerKnown' /\ GuardExcludes' /\ NullStaysOut'
  <2>1. LockTypeOK' /\ FlagKnown' /\ OwnerKnown' /\ NullStaysOut'
    BY <1>2, <1>3, <1>4, <1>6 DEF Steps, LockOK, LockTypeOK, FlagKnown, OwnerKnown
  <2>2. GuardExcludes'
    BY <1>3, <1>6, GuardStays DEF LockOK, Guarded
  <2> QED
    BY <2>1, <2>2
<1>10. QueueKnown'
  <2>1. \A q \in ToSet(lqueue)' : at'[q].at \in Enqueued \cup {"own"}
    <3>1. ToSet(lqueue) \subseteq Pids
      BY <1>3 DEF LockOK, LockTypeOK, ToSet
    <3> QED
      BY <1>3, <1>4, <1>6, <3>1 DEF LockOK, QueueKnown, Enqueued
  <2>2. ASSUME NEW q \in Pids
        PROVE  /\ at'[q].at \notin Enqueued \cup {"leave_guard", "park", "unpark"}
               /\ at'[q].at = "clear_flag" => lqueue' = << >>
               /\ at'[q].at = "dequeue" => lqueue' # << >>
    BY <1>3, <1>4, <1>6, <1>7 DEF LockOK, QueueKnown, Enqueued
  <2> QED
    BY <1>3, <1>6, <2>1, <2>2 DEF QueueKnown, LockOK
<1>11. Waiters' = Waiters \ {x}
  <2>1. ASSUME NEW q \in Pids PROVE q \in Waiters' <=> q \in Waiters \ {x}
    <3>1. q \in Waiters' <=> at'[q].at = "own" /\ q \in ToSet(lqueue)
      BY <1>4, <1>6 DEF Waiters
    <3>2. q \in Waiters <=> at[q].at = "own" /\ (q \in ToSet(lqueue) \/ q = x)
      BY <1>4, <1>5 DEF Waiters
    <3>3. at'[q].at = "own" <=> at[q].at = "own"
      BY <1>4
    <3> QED
      BY <1>5, <3>1, <3>2, <3>3
  <2> QED
    BY <2>1 DEF Waiters
<1>12. sch.ndefers = 0 /\ Seen
  BY <1>4, NotLooping DEF User, At, LockIInv, Seen
<1>13. /\ SchedOK(M) /\ Running(M) /\ M.currpid = p
       /\ Waiters \in SUBSET Pids /\ sch = WithState(Waiters, M, "WAIT")
       /\ \A q \in Waiters : M.prstate[q] = "SUSP"
  BY <1>1, <1>12, SeenFacts DEF currpid
<1> HIDE DEF M
<1>14. IsSched(T) /\ Turns({x}, M, T)
  <2>1. Parked(M, x)
    BY <1>5, <1>13, IdleIsParked DEF Idle
  <2> QED
    BY <1>5, <2>1, ReadyOK DEF SchedOK, Coherent
<1>15. \A q \in Waiters \ {x} : T.prstate[q] = "SUSP"
  BY <1>13, <1>14 DEF Turns, Eligible
<1>16. sch' = WithState(Waiters \ {x}, T, "WAIT")
  BY <1>2, <1>5, <1>13, ReadyAs DEF SchedOK
<1> HIDE DEF T
<1>17. AsKernel' = T /\ WaitersWait'
  BY <1>11, <1>13, <1>14, <1>15, <1>16, StepSeen
<1>18. Kernel!resume(x)
  <2>1. Kernel!currpid = currpid /\ Kernel!Here = Here /\ Kernel!prstate[x] = "SUSP"
    BY <1>5, <1>12, <1>13, CallSeen DEF Kernel!prstate, M
  <2>2. AsKernel' = Kernel!ready(AsKernel, x)
    BY <1>17, SameScheduler DEF T, M
  <2> QED
    BY <1>1, <1>2, <1>4, <2>1, <2>2, SameNames
    DEF Kernel!resume, Kernel!syscall, proctab, Kernel!proctab, pids, Kernel!pids,
        semtab, Kernel!semtab
<1> QED
  BY <1>2, <1>3, <1>5, <1>6, <1>8, <1>9, <1>10, <1>17, <1>18 DEF LockOK, x
-----------------------------------------------------------------------------
(* The two halves together.  A step of the lock, as the kernel sees it:    *)
KernelSees == [Kernel!Next]_(Kernel!vars) /\ WaitersWait' /\ NobodyKills'

(* Steps that the kernel does not see.                                     *)
LEMMA NothingHappens ==
  ASSUME LockIInv, UNCHANGED vars, Waiters' = Waiters
  PROVE  KernelSees
<1>1. AsKernel' = AsKernel /\ WaitersWait'
  BY NothingSeen DEF LockIInv, Seen, vars
<1>2. UNCHANGED Kernel!vars
  BY <1>1 DEF vars, proctab, pids, semtab, Kernel!vars, Kernel!proctab, Kernel!pids,
              Kernel!semtab
<1>3. NobodyKills'
  BY DEF LockIInv, NobodyKills, vars
<1> QED
  BY <1>1, <1>2, <1>3 DEF KernelSees

(* The calls of the kernel that the lock makes.                            *)
LEMMA SleepsInKernel ==
  ASSUME LockIInv, sleepms(QUANTUM), Waiters' = Waiters
  PROVE  KernelSees
<1>1. Kernel!sleepms(QUANTUM) /\ WaitersWait'
  BY SleepmsSeen DEF LockIInv, Seen
<1>2. NobodyKills'
  BY DEF LockIInv, NobodyKills, sleepms
<1>3. Kernel!ProcessCall
  BY <1>1 DEF Kernel!ProcessCall
<1> QED
  BY <1>1, <1>2, <1>3 DEF KernelSees, Kernel!Next

LEMMA ParksInKernel ==
  ASSUME LockIInv, park \/ unpark
  PROVE  /\ KernelSees /\ LockOK' /\ Having' = Having /\ lqueue' = lqueue
<1>1. CASE park
  <2>1. /\ LockOK' /\ Having' = Having /\ lqueue' = lqueue
        /\ Kernel!suspend(currpid) /\ currpid \in Pids /\ WaitersWait' /\ pc' = pc
    BY <1>1, ParkKeeps
  <2>2. Kernel!ProcessCall
    BY <2>1, SameNames DEF Kernel!ProcessCall
  <2> QED
    BY <2>1, <2>2 DEF KernelSees, Kernel!Next, LockIInv, NobodyKills
<1>2. CASE unpark
  <2>1. /\ LockOK' /\ Having' = Having /\ lqueue' = lqueue
        /\ Kernel!resume(Point.arg) /\ Point.arg \in Pids /\ WaitersWait' /\ pc' = pc
    BY <1>2, UnparkKeeps
  <2>2. Kernel!ProcessCall
    BY <2>1, SameNames DEF Kernel!ProcessCall
  <2> QED
    BY <2>1, <2>2 DEF KernelSees, Kernel!Next, LockIInv, NobodyKills
<1> QED
  BY <1>1, <1>2

-----------------------------------------------------------------------------
(* What a step does to the queue and to who has the lock.                  *)
AsBefore    == Having' = Having /\ lqueue' = lqueue
Acquires(p) == Having = {} /\ Having' = {p} /\ lqueue = << >> /\ lqueue' = lqueue
Waits(p)    == /\ Having # {} /\ p \notin Having
               /\ Having' = Having /\ lqueue' = Append(lqueue, p)
Releases(p) == Having = {p} /\ Having' = {} /\ lqueue = << >> /\ lqueue' = lqueue
HandsOn(p)  == /\ Having = {p} /\ Having' = {Head(lqueue)}
               /\ lqueue # << >> /\ lqueue' = Tail(lqueue)

QueueMoves ==
  AsBefore \/ \E p \in Pids : Acquires(p) \/ Waits(p) \/ Releases(p) \/ HandsOn(p)

LEMMA LockStepOK ==
  ASSUME LockIInv, ~PreemptEnqueued, [LockNext]_allvars
  PROVE  LockOK' /\ KernelSees /\ QueueMoves
<1>0. LockOK /\ currpid \in Pids
  BY SeenFacts DEF LockIInv, LockOK, Seen
<1>1. CASE \/ lock \/ unlock \/ test_flag \/ test_owner \/ test_queue
           \/ leave_lock \/ leave_guard \/ leave_unlock \/ clear_owner \/ setpark
           \/ set_owner("set_owner", "leave_lock") \/ set_owner("own", "held")
  <2>1. Keeps /\ UNCHANGED vars
    BY <1>1, TestsKeep, LeaveKeeps, ClearOwnerKeeps, SetparkKeeps, SetOwnerKeeps
  <2>2. lqueue' = lqueue
    BY <1>1 DEF lock, unlock, test_flag, test_owner, test_queue, leave_lock, leave_guard,
                leave_unlock, free_guard, clear_owner, setpark, set_owner, lk
  <2> QED
    BY <2>1, <2>2, NothingHappens DEF Keeps, QueueMoves, AsBefore
<1>2. CASE lock_guard \/ unlock_guard
  <2>1. Keeps /\ (UNCHANGED vars \/ sleepms(QUANTUM))
    BY <1>2, GuardKeeps
  <2>2. lqueue' = lqueue
    BY <1>2 DEF lock_guard, unlock_guard, take_guard
  <2> QED
    BY <2>1, <2>2, NothingHappens, SleepsInKernel DEF Keeps, QueueMoves, AsBefore
<1>3. CASE park \/ unpark
  BY <1>3, ParksInKernel DEF QueueMoves, AsBefore
<1>4. CASE set_flag
  BY <1>0, <1>4, SetFlagKeeps, NothingHappens DEF QueueMoves, Acquires
<1>5. CASE clear_flag
  BY <1>0, <1>5, ClearFlagKeeps, NothingHappens DEF QueueMoves, Releases
<1>6. CASE enqueue
  <2>1. /\ LockOK' /\ Waiters' = Waiters /\ UNCHANGED vars /\ Having' = Having
        /\ lqueue' = Append(lqueue, currpid) /\ flag = 1 /\ currpid \in Pids \ Having
    BY <1>6, EnqueueKeeps
  <2>2. Having # {}
    BY <1>0, <2>1 DEF LockOK, MutualExclusion, Having
  <2>3. Waits(currpid)
    BY <2>1, <2>2 DEF Waits
  <2> QED
    BY <1>0, <2>1, <2>3, NothingHappens DEF QueueMoves
<1>7. CASE dequeue
  BY <1>0, <1>7, DequeueKeeps, NothingHappens DEF QueueMoves, HandsOn
<1>8. CASE KernelStep
  <2>1. /\ Kernel!Next /\ WaitersWait' /\ NobodyKills'
        /\ Point.at \notin Enqueued \/ Here # User
    BY <1>8, KernelStepSeen DEF LockIInv, Seen
  <2>2. UNCHANGED lockvars
    BY <1>8 DEF KernelStep
  <2>3. Keeps
    BY <2>1, <2>2, LockStays
  <2> QED
    BY <2>1, <2>2, <2>3 DEF KernelSees, Keeps, QueueMoves, AsBefore, lockvars, lk
<1>9. CASE UNCHANGED allvars
  <2>1. Waiters' = Waiters /\ Having' = Having
    BY <1>9 DEF allvars, lockvars, lk, vars, Waiters, Having, Has
  <2>2. LockOK'
    BY <1>0, <1>9
    DEF allvars, lockvars, lk, vars, LockOK, LockTypeOK, GuardExcludes, MutualExclusion, Has,
        FlagKnown, OwnerKnown, QueueKnown, NullStaysOut, currpid
  <2> QED
    BY <1>9, <2>1, <2>2, NothingHappens
    DEF allvars, lockvars, lk, QueueMoves, AsBefore
<1> QED
  BY <1>1, <1>2, <1>3, <1>4, <1>5, <1>6, <1>7, <1>8, <1>9 DEF LockNext, LockStep

LEMMA LockIInvStep ==
  ASSUME LockIInv, ~PreemptEnqueued, [LockNext]_allvars
  PROVE  LockIInv'
<1>1. LockOK' /\ KernelSees
  BY LockStepOK
<1>2. Kernel!IInv'
  BY <1>1, SameConstants, Kernel!NextIInv DEF KernelSees, LockIInv
<1> QED
  BY <1>1, <1>2 DEF LockOK, KernelSees, LockIInv

LEMMA LockInitOK ==
  ASSUME LockInit
  PROVE  LockIInv /\ Kernel!Init /\ Having = {} /\ lqueue = << >>
<1>1. /\ \A p \in Pids : at[p] = At("idle", 0, 0)
      /\ flag = 0 /\ guard = 0 /\ owner = LOCK_AVAILABLE /\ lqueue = << >>
      /\ prTopark = [p \in Pids |-> FALSE] /\ Init /\ NULLPROC \in Pids
      /\ at = [p \in Pids |-> At("idle", 0, 0)]
  BY NullIsAProcess DEF LockInit
<1>2. \A p \in Pids : at[p].at = "idle"
  BY <1>1 DEF At
<1>3. ToSet(lqueue) = {} /\ IsInjective(lqueue) /\ lqueue \in Seq(Pids)
  BY <1>1 DEF ToSet, IsInjective
<1>4. Waiters = {} /\ Having = {}
  BY <1>2, <1>3 DEF Waiters, Having, Has
<1>5. LockTypeOK
  BY <1>1, <1>3 DEF LockTypeOK, At, LockPoints, NULLPROC
<1>6. /\ GuardExcludes /\ MutualExclusion /\ FlagKnown /\ OwnerKnown /\ NullStaysOut
  BY <1>1, <1>2 DEF GuardExcludes, MutualExclusion, FlagKnown, OwnerKnown, NullStaysOut,
                    Guarded, Has
<1>7. QueueKnown
  BY <1>2, <1>3 DEF QueueKnown, Enqueued
<1>8. AsKernel = sch /\ WaitersWait
  <2>1. DOMAIN sch.prstate = Pids
    BY <1>1 DEF Init
  <2>2. \A st : WithState(Waiters, sch, st) = sch
    <3>1. \A st : [p \in Pids |-> IF p \in Waiters THEN st ELSE sch.prstate[p]] = sch.prstate
      BY <1>1, <1>4 DEF Init
    <3> QED
      BY <1>1, <3>1 DEF WithState, Init
  <2> QED
    BY <2>2 DEF AsKernel, WaitersWait
<1>9. Kernel!Init
  <2>1. ASSUME AsKernel = sch, Init PROVE Kernel!Init
    BY <2>1, Zenon
    DEF Init, Kernel!Init, MAIN, Kernel!MAIN, STARTUP, Kernel!STARTUP, NULLPROC,
        Kernel!NULLPROC, Pids, Kernel!Pids, Sems, Kernel!Sems, User, Kernel!User,
        At, Kernel!At
  <2> QED
    BY <1>1, <1>8, <2>1
<1>10. NobodyKills
  BY <1>1 DEF Init, NobodyKills, User, At
<1>11. Kernel!IInv
  BY <1>9, SameConstants, Kernel!InitIInv
<1> QED
  BY <1>1, <1>4, <1>5, <1>6, <1>7, <1>8, <1>9, <1>10, <1>11 DEF LockIInv
-----------------------------------------------------------------------------
(* The inductive invariant holds in every reachable state.                 *)
THEOREM SpecLockIInv ==
  ASSUME ~PreemptEnqueued
  PROVE  LockSpec => []LockIInv
<1>1. LockInit => LockIInv
  BY LockInitOK
<1>2. LockIInv /\ [LockNext]_allvars => LockIInv'
  BY LockIInvStep
<1> QED
  BY <1>1, <1>2, PTL DEF LockSpec

(* Types of the lock's fields and of the points its callers are at.        *)
THEOREM SpecLockTypeOK ==
  ASSUME ~PreemptEnqueued
  PROVE  LockSpec => []LockTypeOK
<1>1. LockIInv => LockTypeOK
  BY DEF LockIInv
<1> QED
  BY <1>1, SpecLockIInv, PTL

(* One process at a time has the lock, also while it is handed over, and   *)
(* the flag is set just while one has it.                                  *)
THEOREM SpecMutualExclusion ==
  ASSUME ~PreemptEnqueued
  PROVE  LockSpec => []MutualExclusion
<1>1. LockIInv => MutualExclusion
  BY DEF LockIInv
<1> QED
  BY <1>1, SpecLockIInv, PTL

(* The process that returned from lock is the owner by name, however it    *)
(* came by the lock: unlock does not refuse it.                            *)
THEOREM SpecHolderIsOwner ==
  ASSUME ~PreemptEnqueued
  PROVE  LockSpec => []HolderIsOwner
<1>1. LockIInv => HolderIsOwner
  BY DEF LockIInv, OwnerKnown, HolderIsOwner
<1> QED
  BY <1>1, SpecLockIInv, PTL

(* A process on the lock's queue is on it once, and on no other queue: not *)
(* ready, not asleep and waiting on no semaphore.  It runs and is about to *)
(* park, or has parked.                                                    *)
THEOREM SpecOneQueuePerProcess ==
  ASSUME ~PreemptEnqueued
  PROVE  LockSpec => []OneQueuePerProcess
<1>1. ASSUME LockIInv PROVE OneQueuePerProcess
  <2>1. /\ SchedOK(AsKernel) /\ Running(AsKernel)
        /\ AsKernel.readylist = sch.readylist /\ AsKernel.sleepq = sch.sleepq
        /\ AsKernel.currpid = currpid
        /\ \A p \in Waiters : AsKernel.prstate[p] = "SUSP"
    BY <1>1, SeenFacts DEF LockIInv, Seen, currpid
  <2>2. ASSUME NEW p \in ToSet(lqueue)
        PROVE  p \in Pids /\ AsKernel.prstate[p] \in {"SUSP", "CURR"}
    <3>1. p \in Pids
      BY <1>1 DEF LockIInv, LockTypeOK, ToSet
    <3>2. CASE at[p].at = "own"
      BY <2>1, <3>1, <3>2 DEF Waiters
    <3>3. CASE at[p].at \in Enqueued
      BY <1>1, <2>1, <3>1, <3>3 DEF LockIInv, QueueKnown, Running
    <3> QED
      BY <1>1, <3>1, <3>2, <3>3 DEF LockIInv, QueueKnown
  <2>3. \A p \in ToSet(lqueue) : p \notin ToSet(sch.readylist) /\ p \notin ToSet(sch.sleepq)
    BY <2>1, <2>2 DEF SchedOK, Coherent, Delayed
  <2>4. \A p \in Pids, s \in Sems : p \in ToSet(squeue[s]) => AsKernel.prstate[p] = "WAIT"
    <3>1. \A q : Kernel!ToSet(q) = ToSet(q)
      BY DEF ToSet, Kernel!ToSet
    <3> QED
      BY <1>1, <3>1, SameNames
      DEF LockIInv, Kernel!IInv, Kernel!SemQueuesOK, Kernel!prstate
  <2>5. \A s \in Sems : ToSet(lqueue) \cap ToSet(squeue[s]) = {}
    BY <2>2, <2>4
  <2> QED
    BY <1>1, <2>3, <2>5 DEF LockIInv, QueueKnown, OneQueuePerProcess
<1> QED
  BY <1>1, SpecLockIInv, PTL

(* With the lock's waiters taken for suspended processes, the system with  *)
(* the lock is a behaviour of the kernel: the lock breaks nothing of what  *)
(* the kernel keeps, its ready list, delta list and semaphores included.   *)
THEOREM LockKeepsKernel ==
  ASSUME ~PreemptEnqueued
  PROVE  LockSpec => Kernel!Spec
<1>1. LockInit => Kernel!Init
  BY LockInitOK
<1>2. LockIInv /\ [LockNext]_allvars => [Kernel!Next]_(Kernel!vars)
  BY LockStepOK DEF KernelSees
<1> QED
  BY <1>1, <1>2, SpecLockIInv, PTL DEF LockSpec, Kernel!Spec

-----------------------------------------------------------------------------
(* The holder that the refinement names.                                   *)
Holder == IF \E p \in Pids : Has(p) THEN CHOOSE p \in Pids : Has(p) ELSE LOCK_AVAILABLE

LEMMA HolderNamed ==
  /\ Having = {} => Holder = LOCK_AVAILABLE
  /\ \A p : Having = {p} => Holder = p
<1>1. (CHOOSE p \in Pids : Has(p)) = CHOOSE p : p \in Having
  BY DEF Having
<1> QED
  BY <1>1 DEF Having, Holder

LEMMA HolderNamedNext ==
  /\ Having' = {} => Holder' = LOCK_AVAILABLE
  /\ \A p : Having' = {p} => Holder' = p
  /\ Having' = Having => Holder' = Holder
<1>1. /\ (CHOOSE p \in Pids : Has(p)) = CHOOSE p : p \in Having
      /\ (CHOOSE p \in Pids : Has(p)') = CHOOSE p : p \in Having'
  BY DEF Having
<1>2. Holder = IF Having # {} THEN CHOOSE p : p \in Having ELSE LOCK_AVAILABLE
  BY <1>1 DEF Having, Holder
<1>3. Holder' = IF Having' # {} THEN CHOOSE p : p \in Having' ELSE LOCK_AVAILABLE
  BY <1>1 DEF Having, Holder
<1>4. ASSUME Having' = Having PROVE Holder' = Holder
  <2>1. (CHOOSE p : p \in Having) = CHOOSE p : p \in Having'
    BY <1>4
  <2> QED
    BY <1>2, <1>3, <1>4, <2>1
<1>5. Having' = {} => Holder' = LOCK_AVAILABLE
  BY <1>3
<1>6. \A p : Having' = {p} => Holder' = p
  BY <1>3
<1> QED
  BY <1>4, <1>5, <1>6

(* Each step of the lock is a step of QueueLock or none.                   *)
LEMMA LockStepMaps ==
  ASSUME LockIInv, ~PreemptEnqueued, [LockNext]_allvars
  PROVE  [Queue!Next]_<<Holder, lqueue>>
<1>0. LOCK_AVAILABLE \notin Pids
  BY SchedAssumption DEF Pids, LOCK_AVAILABLE
<1>1. QueueMoves
  BY LockStepOK
<1>2. CASE AsBefore
  BY <1>2, HolderNamedNext DEF AsBefore
<1>3. ASSUME NEW p \in Pids, Acquires(p) PROVE Queue!Acquire(p)
  <2>1. Holder = LOCK_AVAILABLE /\ Holder' = p
    BY <1>3, HolderNamed, HolderNamedNext DEF Acquires
  <2> QED
    BY <1>3, <2>1 DEF Acquires, Queue!Acquire, Holder
<1>4. ASSUME NEW p \in Pids, Waits(p) PROVE Queue!Wait(p)
  <2>1. PICK h \in Pids : Having = {h}
    BY <1>4 DEF Waits, Having, LockIInv, MutualExclusion
  <2>2. Holder = h /\ Holder' = Holder /\ h # p /\ h # LOCK_AVAILABLE
    BY <1>0, <1>4, <2>1, HolderNamed, HolderNamedNext DEF Waits
  <2> QED
    BY <1>4, <2>2 DEF Waits, Queue!Wait, Holder
<1>5. ASSUME NEW p \in Pids, Releases(p) PROVE Queue!Release
  <2>1. Holder = p /\ Holder' = LOCK_AVAILABLE /\ p # LOCK_AVAILABLE
    BY <1>0, <1>5, HolderNamed, HolderNamedNext DEF Releases
  <2> QED
    BY <1>5, <2>1 DEF Releases, Queue!Release, Holder
<1>6. ASSUME NEW p \in Pids, HandsOn(p) PROVE Queue!HandOver
  <2>1. Holder = p /\ Holder' = Head(lqueue) /\ p # LOCK_AVAILABLE
    BY <1>0, <1>6, HolderNamed, HolderNamedNext DEF HandsOn
  <2> QED
    BY <1>6, <2>1 DEF HandsOn, Queue!HandOver, Holder
<1> QED
  BY <1>1, <1>2, <1>3, <1>4, <1>5, <1>6 DEF QueueMoves, Queue!Next

(* First come, first served, without overtaking: the lock is a QueueLock,  *)
(* acquired where the flag is set, released where it is cleared, waited    *)
(* for at enqueue and handed over at dequeue.                              *)
THEOREM LockImplementsQueueLock ==
  ASSUME ~PreemptEnqueued
  PROVE  LockSpec => ImplementsQueueLock
<1>1. ASSUME LockInit PROVE Queue!Init
  <2>1. Holder = LOCK_AVAILABLE /\ lqueue = << >>
    BY <1>1, LockInitOK, HolderNamed
  <2> QED
    BY <2>1 DEF Queue!Init, Holder
<1>2. LockIInv /\ [LockNext]_allvars => [Queue!Next]_<<Holder, lqueue>>
  BY LockStepMaps
<1> QED
  BY <1>1, <1>2, SpecLockIInv, PTL DEF LockSpec, ImplementsQueueLock, Queue!Spec, Holder
=============================================================================
