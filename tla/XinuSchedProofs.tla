--------------------------- MODULE XinuSchedProofs ---------------------------
(***************************************************************************)
(* What the scheduler's routines preserve, whoever calls them.  Coherent   *)
(* says that the ready list holds exactly the READY processes, each once,  *)
(* that at most the current process is CURR and that the null process is   *)
(* eligible.  The current process may have given up the CPU already: that  *)
(* is the state in which a blocking call enters resched.                   *)
(***************************************************************************)
EXTENDS XinuSched, XinuQueueProofs

Eligible == {"READY", "CURR"}

Coherent(S) ==
  /\ IsSched(S)
  /\ IsInjective(S.readylist)
  /\ \A p \in Pids : S.prstate[p] = "READY" <=> p \in ToSet(S.readylist)
  /\ \A p \in Pids : S.prstate[p] = "CURR" => p = S.currpid
  /\ S.prstate[NULLPROC] \in Eligible

(* Outside P, T differs from S only in whose turn it is among the eligible. *)
Turns(P, S, T) ==
  \A r \in Pids \ P : IF S.prstate[r] \in Eligible THEN T.prstate[r] \in Eligible
                                                   ELSE T.prstate[r] = S.prstate[r]

(* resched also leaves the delta list and the deferral alone.              *)
OnlyTurns(S, T) ==
  T.sleepq = S.sleepq /\ T.ndefers = S.ndefers /\ Turns({}, S, T)

(* The ready list stands as it was, with the keys and the priorities.      *)
SameReady(S, T) ==
  /\ T.readylist = S.readylist /\ T.prprio = S.prprio
  /\ \A p \in Pids : S.prstate[p] = "READY" => T.qkey[p] = S.qkey[p]

LEMMA NullIsAProcess == NULLPROC \in Pids
  BY SchedAssumption DEF NULLPROC, Pids

(* The fields of a coherent record have their types.                       *)
LEMMA SchedFields ==
  ASSUME NEW S, IsSched(S)
  PROVE  /\ S.prstate \in [Pids -> PrStates] /\ S.prprio \in [Pids -> Nat]
         /\ S.readylist \in Seq(Pids) /\ S.sleepq \in Seq(Pids)
         /\ S.qkey = [p \in Pids |-> S.qkey[p]]
         /\ S.currpid \in Pids /\ S.preempt \in 1 .. QUANTUM
         /\ S.ndefers \in {0, 1} /\ S.attempt \in BOOLEAN
  BY DEF IsSched, SchedRecords

LEMMA KeysAreTyped ==
  ASSUME NEW f, f = [p \in Pids |-> f[p]]
  PROVE  f \in [Pids -> {f[p] : p \in DOMAIN f}]
  OBVIOUS

LEMMA AddToKeyTyped ==
  ASSUME NEW f, f = [p \in Pids |-> f[p]], NEW q, NEW i, NEW d
  PROVE  add_to_key(q, f, i, d) = [p \in Pids |-> add_to_key(q, f, i, d)[p]]
  BY DEF add_to_key

(* make_ready puts a process that is not READY on the ready list.          *)
LEMMA MakeReadyJoins ==
  ASSUME NEW S, Coherent(S), NEW p \in Pids, S.prstate[p] # "READY"
  PROVE  LET T == make_ready(S, p) IN
         /\ Coherent(T)
         /\ T.prstate = [S.prstate EXCEPT ![p] = "READY"]
         /\ T.sleepq = S.sleepq /\ T.ndefers = S.ndefers /\ T.currpid = S.currpid
<1> DEFINE T == make_ready(S, p)
           q == insert(S.readylist, S.qkey, p, S.prprio[p])
<1>1. /\ S.prstate \in [Pids -> PrStates] /\ S.readylist \in Seq(Pids)
      /\ S.qkey = [r \in Pids |-> S.qkey[r]]
  BY SchedFields DEF Coherent
<1>2. insert_place(S.readylist, S.qkey, S.prprio[p]) \in 1 .. Len(S.readylist) + 1
  BY <1>1, PlaceInQueue
<1>3. /\ q \in Seq(Pids) /\ IsInjective(q) /\ ToSet(q) = ToSet(S.readylist) \cup {p}
  <2> DEFINE i == insert_place(S.readylist, S.qkey, S.prprio[p])
  <2>1. IsInjective(S.readylist) /\ p \notin ToSet(S.readylist)
    BY DEF Coherent
  <2>2. i \in 1 .. Len(S.readylist) + 1
    BY <1>2
  <2>3. q = InsertAt(S.readylist, i, p)
    BY DEF insert
  <2> HIDE DEF q, i
  <2> QED
    BY <1>1, <2>1, <2>2, <2>3, InsertAtJoins
<1> HIDE DEF q
<1>4. /\ T.prstate = [S.prstate EXCEPT ![p] = "READY"] /\ T.readylist = q
      /\ T.qkey = [S.qkey EXCEPT ![p] = S.prprio[p]]
      /\ T.sleepq = S.sleepq /\ T.ndefers = S.ndefers /\ T.currpid = S.currpid
  BY DEF make_ready, Coherent, IsSched, SchedRecords, q
<1>5. T.qkey \in [Pids -> {T.qkey[r] : r \in DOMAIN T.qkey}]
  BY <1>1, <1>4, KeysAreTyped
<1>6. IsSched(T)
  BY <1>1, <1>3, <1>4, <1>5 DEF IsSched, SchedRecords, make_ready, Coherent, PrStates, q
<1> QED
  BY <1>1, <1>3, <1>4, <1>6, NullIsAProcess DEF Coherent, Eligible

(* dispatch runs a READY process: with nothing running, the ready list is  *)
(* never empty.                                                            *)
LEMMA DispatchRuns ==
  ASSUME NEW S, Coherent(S), \A p \in Pids : S.prstate[p] # "CURR"
  PROVE  LET T == dispatch(S) IN
         /\ Coherent(T) /\ OnlyTurns(S, T)
         /\ T.prstate[T.currpid] = "CURR"
<1> DEFINE T == dispatch(S)
           h == Head(S.readylist)
           q == Tail(S.readylist)
<1>1. /\ S.prstate \in [Pids -> PrStates] /\ S.readylist \in Seq(Pids)
  BY SchedFields DEF Coherent
<1>2. S.readylist # << >>
  <2>1. NULLPROC \in ToSet(S.readylist)
    BY NullIsAProcess DEF Coherent, Eligible
  <2> QED
    BY <2>1 DEF ToSet
<1>3. /\ h \in ToSet(S.readylist) /\ h \in Pids
      /\ q \in Seq(Pids) /\ IsInjective(q) /\ ToSet(q) = ToSet(S.readylist) \ {h}
  BY <1>1, <1>2, TailLeaves DEF Coherent
<1> HIDE DEF q, h
<1>4. /\ T.prstate = [S.prstate EXCEPT ![h] = "CURR"] /\ T.readylist = q
      /\ T.qkey = S.qkey /\ T.sleepq = S.sleepq /\ T.ndefers = S.ndefers
      /\ T.currpid = h
  BY DEF dispatch, Coherent, IsSched, SchedRecords, q, h
<1>5. IsSched(T)
  <2> DEFINE K == {S.qkey[p] : p \in DOMAIN S.qkey}
  <2>1. S \in SchedRecords(K) /\ K = {T.qkey[p] : p \in DOMAIN T.qkey}
    BY <1>4 DEF Coherent, IsSched
  <2> HIDE DEF K
  <2>2. T.prstate \in [Pids -> PrStates] /\ QUANTUM \in 1 .. QUANTUM
    BY <1>1, <1>3, <1>4, SchedAssumption DEF PrStates
  <2>3. T = [S EXCEPT !.currpid = h, !.readylist = q,
                      !.prstate = T.prstate, !.preempt = QUANTUM]
    BY <1>4, <2>1 DEF dispatch, SchedRecords, q, h
  <2> HIDE DEF T
  <2>4. T \in SchedRecords(K)
    BY <1>3, <2>1, <2>2, <2>3 DEF SchedRecords
  <2> QED
    BY <2>1, <2>4 DEF IsSched
<1>6. Coherent(T)
  BY <1>1, <1>3, <1>4, <1>5, NullIsAProcess DEF Coherent, Eligible
<1> QED
  BY <1>1, <1>3, <1>4, <1>6 DEF Coherent, OnlyTurns, Turns, Eligible

(* resched, deferred or not, keeps the scheduler coherent and only hands   *)
(* the CPU over among the eligible processes; not deferred, it leaves the  *)
(* current process running.                                                *)
LEMMA ReschedCoherent ==
  ASSUME NEW S, Coherent(S)
  PROVE  LET T == resched(S) IN
         /\ Coherent(T) /\ OnlyTurns(S, T)
         /\ S.ndefers = 0 => T.prstate[T.currpid] = "CURR"
         /\ S.ndefers > 0 => T.prstate = S.prstate /\ T.currpid = S.currpid
<1> DEFINE T == resched(S)
<1>1. S.ndefers \in {0, 1} /\ S.currpid \in Pids /\ S.prstate \in [Pids -> PrStates]
  BY SchedFields DEF Coherent
<1>2. CASE S.ndefers > 0
  <2>1. T = [S EXCEPT !.attempt = TRUE]
    BY <1>2 DEF resched
  <2>2. IsSched(T)
    <3> DEFINE K == {S.qkey[p] : p \in DOMAIN S.qkey}
    <3>1. S \in SchedRecords(K)
      BY DEF Coherent, IsSched
    <3> HIDE DEF K
    <3>2. T \in SchedRecords(K) /\ T.qkey = S.qkey
      BY <2>1, <3>1 DEF SchedRecords
    <3> QED
      BY <3>2 DEF IsSched, K
  <2>3. /\ T.prstate = S.prstate /\ T.currpid = S.currpid /\ T.sleepq = S.sleepq
        /\ T.ndefers = S.ndefers /\ T.readylist = S.readylist
    BY <2>1 DEF IsSched, SchedRecords, Coherent
  <2> QED
    BY <1>1, <1>2, <2>2, <2>3 DEF Coherent, OnlyTurns, Turns
<1>3. CASE S.ndefers = 0 /\ keeps_cpu(S)
  <2>1. T = S
    BY <1>3 DEF resched
  <2> QED
    BY <1>3, <2>1 DEF OnlyTurns, Turns, keeps_cpu
<1>4. CASE S.ndefers = 0 /\ ~keeps_cpu(S) /\ S.prstate[S.currpid] = "CURR"
  <2> DEFINE R == make_ready(S, S.currpid)
  <2>1. T = dispatch(R)
    BY <1>4 DEF resched
  <2>2. /\ Coherent(R) /\ R.prstate = [S.prstate EXCEPT ![S.currpid] = "READY"]
        /\ R.sleepq = S.sleepq /\ R.ndefers = S.ndefers
    BY <1>1, <1>4, MakeReadyJoins
  <2>3. \A p \in Pids : R.prstate[p] # "CURR"
    BY <1>1, <2>2 DEF Coherent
  <2>4. Coherent(T) /\ OnlyTurns(R, T) /\ T.prstate[T.currpid] = "CURR"
    <3>1. PICK X : X = R
      OBVIOUS
    <3>2. Coherent(X) /\ T = dispatch(X) /\ \A p \in Pids : X.prstate[p] # "CURR"
      BY <2>1, <2>2, <2>3, <3>1
    <3> HIDE DEF T, R
    <3>3. Coherent(T) /\ OnlyTurns(X, T) /\ T.prstate[T.currpid] = "CURR"
      BY <3>2, DispatchRuns, SMTT(30)
    <3> QED
      BY <3>1, <3>3
  <2>5. OnlyTurns(S, T)
    BY <1>1, <1>4, <2>2, <2>4 DEF OnlyTurns, Turns, Eligible
  <2> QED
    BY <1>4, <2>4, <2>5
<1>5. CASE S.ndefers = 0 /\ ~keeps_cpu(S) /\ S.prstate[S.currpid] # "CURR"
  <2>1. T = dispatch(S)
    BY <1>5 DEF resched
  <2>2. \A p \in Pids : S.prstate[p] # "CURR"
    BY <1>5 DEF Coherent
  <2> QED
    BY <1>5, <2>1, <2>2, DispatchRuns
<1> QED
  BY <1>1, <1>2, <1>3, <1>4, <1>5

-----------------------------------------------------------------------------
(***************************************************************************)
(* The delta list as well.  Parked(S, p) is the state in the middle of a   *)
(* call that has taken p off the delta list, or found it on no queue, and  *)
(* has still to give it a new state.                                       *)
(***************************************************************************)
SchedOK(S) ==
  /\ Coherent(S) /\ IsInjective(S.sleepq)
  /\ \A p \in Pids : S.prstate[p] \in Delayed <=> p \in ToSet(S.sleepq)

Parked(S, p) ==
  /\ Coherent(S) /\ IsInjective(S.sleepq)
  /\ \A r \in Pids : (r # p /\ S.prstate[r] \in Delayed) <=> r \in ToSet(S.sleepq)
  /\ S.prstate[p] \notin Eligible

Running(S) == S.prstate[S.currpid] = "CURR"

LEMMA ReschedOK ==
  ASSUME NEW S, SchedOK(S)
  PROVE  LET T == resched(S) IN
         /\ SchedOK(T) /\ OnlyTurns(S, T)
         /\ S.ndefers = 0 => Running(T)
         /\ S.ndefers > 0 => T.prstate = S.prstate /\ T.currpid = S.currpid
<1> DEFINE T == resched(S)
<1>1. /\ Coherent(T) /\ OnlyTurns(S, T)
      /\ S.ndefers = 0 => T.prstate[T.currpid] = "CURR"
      /\ S.ndefers > 0 => T.prstate = S.prstate /\ T.currpid = S.currpid
  BY ReschedCoherent DEF SchedOK
<1> HIDE DEF T
<1>2. /\ S.prstate \in [Pids -> PrStates] /\ T.prstate \in [Pids -> PrStates]
  BY <1>1, SchedFields DEF SchedOK, Coherent
<1>3. IsInjective(T.sleepq) /\ T.sleepq = S.sleepq
  BY <1>1 DEF SchedOK, OnlyTurns, Turns
<1>4. ASSUME NEW p \in Pids
      PROVE  T.prstate[p] \in Delayed <=> S.prstate[p] \in Delayed
  BY <1>1, <1>2 DEF OnlyTurns, Turns, Eligible, Delayed
<1> QED
  BY <1>1, <1>3, <1>4 DEF SchedOK, Running, T

(* ready puts a parked process among the eligible ones.                    *)
LEMMA ReadyOK ==
  ASSUME NEW S, NEW p \in Pids, Parked(S, p)
  PROVE  LET T == ready(S, p) IN
         /\ SchedOK(T) /\ Turns({p}, S, T) /\ T.ndefers = S.ndefers
         /\ T.prstate[p] \in Eligible
         /\ Running(S) => Running(T)
         /\ S.ndefers > 0 => T.currpid = S.currpid
<1> DEFINE R == make_ready(S, p)
           T == resched(R)
<1>1. S.prstate \in [Pids -> PrStates] /\ S.currpid \in Pids /\ S.ndefers \in {0, 1}
  BY SchedFields DEF Parked, Coherent
<1>2. /\ Coherent(R) /\ R.prstate = [S.prstate EXCEPT ![p] = "READY"]
      /\ R.sleepq = S.sleepq /\ R.ndefers = S.ndefers /\ R.currpid = S.currpid
  BY MakeReadyJoins DEF Parked, Eligible
<1> HIDE DEF R
<1>3. SchedOK(R)
  BY <1>1, <1>2 DEF SchedOK, Parked, Delayed
<1>4. /\ SchedOK(T) /\ OnlyTurns(R, T)
      /\ R.ndefers = 0 => Running(T)
      /\ R.ndefers > 0 => T.prstate = R.prstate /\ T.currpid = R.currpid
  BY <1>3, ReschedOK
<1>5. T = ready(S, p)
  BY DEF ready, R
<1> HIDE DEF T
<1>6. Running(S) => Running(T)
  BY <1>1, <1>2, <1>4 DEF Running, Parked, Eligible
<1>7. Turns({p}, S, T) /\ T.prstate[p] \in Eligible /\ T.ndefers = S.ndefers
  BY <1>1, <1>2, <1>4 DEF OnlyTurns, Turns, Eligible
<1> QED
  BY <1>2, <1>4, <1>5, <1>6, <1>7

(* The current process, not the null process, gives up the CPU: before and *)
(* after resched finds another.                                            *)
LEMMA GivesUpOK ==
  ASSUME NEW S, SchedOK(S), Running(S), S.ndefers = 0, S.currpid # NULLPROC,
         NEW st \in {"RECV", "SUSP", "WAIT", "FREE"}
  PROVE  LET R == [S EXCEPT !.prstate[S.currpid] = st] IN
         /\ SchedOK(R) /\ SameReady(S, R)
         /\ R.prstate = [S.prstate EXCEPT ![S.currpid] = st] /\ R.ndefers = 0
<1> DEFINE c == S.currpid
           R == [S EXCEPT !.prstate[c] = st]
<1>1. /\ S.prstate \in [Pids -> PrStates] /\ c \in Pids
      /\ S.qkey = [r \in Pids |-> S.qkey[r]]
  BY SchedFields DEF SchedOK, Coherent
<1>2. /\ R.prstate = [S.prstate EXCEPT ![c] = st] /\ R.sleepq = S.sleepq
      /\ R.ndefers = 0 /\ R.currpid = c /\ R.readylist = S.readylist
      /\ R.qkey = S.qkey /\ R.prprio = S.prprio
  BY DEF SchedOK, Coherent, IsSched, SchedRecords
<1>3. IsSched(R)
  <2> DEFINE K == {S.qkey[p] : p \in DOMAIN S.qkey}
  <2>1. S \in SchedRecords(K) /\ K = {R.qkey[p] : p \in DOMAIN R.qkey}
    BY <1>2 DEF SchedOK, Coherent, IsSched
  <2> HIDE DEF K
  <2>2. R \in SchedRecords(K)
    BY <1>1, <2>1 DEF SchedRecords, PrStates
  <2> QED
    BY <2>1, <2>2 DEF IsSched
<1> HIDE DEF R
<1>4. SchedOK(R)
  BY <1>1, <1>2, <1>3, NullIsAProcess DEF SchedOK, Coherent, Running, Delayed, Eligible
<1> QED
  BY <1>2, <1>4 DEF SameReady, R

LEMMA BlockOK ==
  ASSUME NEW S, SchedOK(S), Running(S), S.ndefers = 0, S.currpid # NULLPROC,
         NEW st \in {"RECV", "SUSP", "WAIT", "FREE"}
  PROVE  LET T == block(S, st) IN
         /\ SchedOK(T) /\ Turns({S.currpid}, S, T) /\ T.ndefers = 0
         /\ T.prstate[S.currpid] = st
         /\ Running(T)
<1> DEFINE c == S.currpid
           R == [S EXCEPT !.prstate[c] = st]
           T == resched(R)
<1>1. S.prstate \in [Pids -> PrStates] /\ c \in Pids
  BY SchedFields DEF SchedOK, Coherent
<1>2. SchedOK(R) /\ R.prstate = [S.prstate EXCEPT ![c] = st] /\ R.ndefers = 0
  BY GivesUpOK
<1> HIDE DEF R
<1>3. /\ SchedOK(T) /\ OnlyTurns(R, T) /\ Running(T)
  BY <1>2, ReschedOK
<1>4. T = block(S, st)
  BY DEF block, R
<1> HIDE DEF T
<1>5. Turns({c}, S, T) /\ T.prstate[c] = st /\ T.ndefers = 0
  BY <1>1, <1>2, <1>3 DEF OnlyTurns, Turns, Eligible
<1> QED
  BY <1>3, <1>4, <1>5

-----------------------------------------------------------------------------
(* Deferring, and the end of it: the switch that was put off happens then. *)
LEMMA DeferStartOK ==
  ASSUME NEW S, SchedOK(S), S.ndefers = 0
  PROVE  LET T == defer_start(S) IN
         /\ SchedOK(T) /\ T.ndefers = 1
         /\ T.prstate = S.prstate /\ T.currpid = S.currpid
<1> DEFINE T == defer_start(S)
<1>1. /\ T.prstate = S.prstate /\ T.currpid = S.currpid /\ T.sleepq = S.sleepq
      /\ T.ndefers = 1 /\ T.readylist = S.readylist /\ T.qkey = S.qkey
  BY DEF defer_start, SchedOK, Coherent, IsSched, SchedRecords
<1>2. IsSched(T)
  <2> DEFINE K == {S.qkey[p] : p \in DOMAIN S.qkey}
  <2>1. S \in SchedRecords(K) /\ K = {T.qkey[p] : p \in DOMAIN T.qkey}
    BY <1>1 DEF SchedOK, Coherent, IsSched
  <2> HIDE DEF K
  <2>2. T = [S EXCEPT !.ndefers = 1, !.attempt = FALSE]
    BY DEF defer_start
  <2> HIDE DEF T
  <2>3. T \in SchedRecords(K)
    BY <2>1, <2>2 DEF SchedRecords
  <2> QED
    BY <2>1, <2>3 DEF IsSched
<1> QED
  BY <1>1, <1>2 DEF SchedOK, Coherent

LEMMA EndDeferralOK ==
  ASSUME NEW S, SchedOK(S), Running(S), S.ndefers = 1
  PROVE  LET R == [S EXCEPT !.ndefers = 0] IN
         /\ SchedOK(R) /\ Running(R) /\ Turns({}, S, R) /\ SameReady(S, R)
         /\ R.ndefers = 0 /\ R.attempt = S.attempt /\ R.prstate = S.prstate
         /\ R.currpid = S.currpid
         /\ defer_stop(S) = IF R.attempt THEN resched(R) ELSE R
<1> DEFINE R == [S EXCEPT !.ndefers = 0]
<1>1. /\ R.prstate = S.prstate /\ R.currpid = S.currpid /\ R.sleepq = S.sleepq
      /\ R.ndefers = 0 /\ R.readylist = S.readylist /\ R.qkey = S.qkey
  BY DEF SchedOK, Coherent, IsSched, SchedRecords
<1>2. IsSched(R)
  <2> DEFINE K == {S.qkey[p] : p \in DOMAIN S.qkey}
  <2>1. S \in SchedRecords(K) /\ K = {R.qkey[p] : p \in DOMAIN R.qkey}
    BY <1>1 DEF SchedOK, Coherent, IsSched
  <2> HIDE DEF K
  <2>2. R \in SchedRecords(K)
    BY <2>1 DEF SchedRecords
  <2> QED
    BY <2>1, <2>2 DEF IsSched
<1>3. SchedOK(R) /\ Running(R) /\ Turns({}, S, R)
  BY <1>1, <1>2 DEF SchedOK, Coherent, Running, Turns
<1>4. R = [S EXCEPT !.ndefers = @ - 1]
  OBVIOUS
<1>5. defer_stop(S) = IF R.attempt THEN resched(R) ELSE R
  BY <1>1, <1>4 DEF defer_stop
<1>6. R.prprio = S.prprio /\ R.attempt = S.attempt
  BY DEF SchedOK, Coherent, IsSched, SchedRecords
<1> QED
  BY <1>1, <1>3, <1>5, <1>6 DEF SameReady

LEMMA DeferStopOK ==
  ASSUME NEW S, SchedOK(S), Running(S), S.ndefers = 1
  PROVE  LET T == defer_stop(S) IN
         SchedOK(T) /\ Turns({}, S, T) /\ Running(T) /\ T.ndefers = 0
<1> DEFINE R == [S EXCEPT !.ndefers = 0]
<1>1. /\ SchedOK(R) /\ Running(R) /\ Turns({}, S, R) /\ R.ndefers = 0
      /\ R.prstate = S.prstate
      /\ defer_stop(S) = IF R.attempt THEN resched(R) ELSE R
  BY EndDeferralOK
<1> HIDE DEF R
<1>2. LET T == resched(R) IN SchedOK(T) /\ OnlyTurns(R, T) /\ Running(T)
  BY <1>1, ReschedOK
<1> QED
  BY <1>1, <1>2 DEF OnlyTurns, Turns

-----------------------------------------------------------------------------
(* Clock ticks: a tick off the first key, and one off the time slice.      *)
LEMMA TickOK ==
  ASSUME NEW S, SchedOK(S), S.sleepq # << >>
  PROVE  LET T == [S EXCEPT !.qkey[Head(S.sleepq)] = @ - 1] IN
         /\ SchedOK(T) /\ T.ndefers = S.ndefers /\ T.prstate = S.prstate
         /\ T.currpid = S.currpid
<1> DEFINE h == Head(S.sleepq)
           T == [S EXCEPT !.qkey[h] = @ - 1]
<1>1. /\ T.prstate = S.prstate /\ T.currpid = S.currpid /\ T.sleepq = S.sleepq
      /\ T.ndefers = S.ndefers /\ T.readylist = S.readylist
      /\ T.qkey = [S.qkey EXCEPT ![h] = @ - 1]
  BY DEF SchedOK, Coherent, IsSched, SchedRecords
<1>2. T.qkey \in [Pids -> {T.qkey[p] : p \in DOMAIN T.qkey}]
  <2>1. S.qkey = [p \in Pids |-> S.qkey[p]]
    BY SchedFields DEF SchedOK, Coherent
  <2> HIDE DEF T, h
  <2>2. T.qkey = [p \in Pids |-> T.qkey[p]]
    BY <1>1, <2>1
  <2> QED
    BY <2>2, KeysAreTyped
<1>3. IsSched(T)
  BY <1>2 DEF IsSched, SchedRecords, SchedOK, Coherent
<1> QED
  BY <1>1, <1>3 DEF SchedOK, Coherent

LEMMA SliceOK ==
  ASSUME NEW S, SchedOK(S), Running(S), S.ndefers = 0
  PROVE  \E R : /\ SchedOK(R) /\ Running(R) /\ Turns({}, S, R) /\ SameReady(S, R)
               /\ R.ndefers = 0 /\ R.prstate = S.prstate /\ R.currpid = S.currpid
               /\ end_of_tick(S) \in {resched(R), R}
<1> DEFINE n == IF S.preempt = 1 THEN QUANTUM ELSE S.preempt - 1
           R == [S EXCEPT !.preempt = n]
<1>a. S.preempt \in 1 .. QUANTUM
  BY SchedFields DEF SchedOK, Coherent
<1>1. n \in 1 .. QUANTUM
  BY <1>a, SchedAssumption
<1> HIDE DEF n
<1>2. /\ R.prstate = S.prstate /\ R.currpid = S.currpid /\ R.sleepq = S.sleepq
      /\ R.ndefers = 0 /\ R.readylist = S.readylist /\ R.qkey = S.qkey
  BY DEF SchedOK, Coherent, IsSched, SchedRecords
<1>3. IsSched(R)
  <2> DEFINE K == {S.qkey[p] : p \in DOMAIN S.qkey}
  <2>1. S \in SchedRecords(K) /\ K = {R.qkey[p] : p \in DOMAIN R.qkey}
    BY <1>2 DEF SchedOK, Coherent, IsSched
  <2> HIDE DEF K
  <2>2. R \in SchedRecords(K)
    BY <1>1, <2>1 DEF SchedRecords
  <2> QED
    BY <2>1, <2>2 DEF IsSched
<1>4. SchedOK(R) /\ Running(R) /\ Turns({}, S, R)
  BY <1>2, <1>3 DEF SchedOK, Coherent, Running, Turns
<1>5. end_of_tick(S) = IF S.preempt = 1 THEN resched(R) ELSE R
  BY DEF end_of_tick, n
<1>6. SameReady(S, R)
  BY <1>2 DEF SameReady, SchedOK, Coherent, IsSched, SchedRecords
<1> HIDE DEF R
<1> QED
  BY <1>2, <1>4, <1>5, <1>6

LEMMA EndOfTickOK ==
  ASSUME NEW S, SchedOK(S), Running(S), S.ndefers = 0
  PROVE  LET T == end_of_tick(S) IN
         SchedOK(T) /\ Turns({}, S, T) /\ Running(T) /\ T.ndefers = 0
<1>1. PICK R : /\ SchedOK(R) /\ Running(R) /\ Turns({}, S, R)
               /\ R.ndefers = 0 /\ R.prstate = S.prstate
               /\ end_of_tick(S) \in {resched(R), R}
  BY SliceOK
<1>2. LET T == resched(R) IN SchedOK(T) /\ OnlyTurns(R, T) /\ Running(T)
  BY <1>1, ReschedOK
<1> QED
  BY <1>1, <1>2 DEF OnlyTurns, Turns

-----------------------------------------------------------------------------
(* The delta list.  Its operations change the key of the process they name *)
(* and of one on the list.                                                 *)
LEMMA SleepLeavesReady ==
  ASSUME NEW S, SchedOK(S), Running(S), NEW d,
         NEW p \in Pids, S.prstate[p] = "READY"
  PROVE  insertd_key(S.sleepq, S.qkey, S.currpid, d)[p] = S.qkey[p]
<1> DEFINE at   == insertd_place(S.sleepq, S.qkey, d)
           left == d - delta_sum(S.sleepq, S.qkey)[at - 1]
           k    == add_to_key(S.sleepq, S.qkey, at, -left)
<1>1. /\ S.qkey = [r \in Pids |-> S.qkey[r]] /\ S.sleepq \in Seq(Pids)
      /\ p # S.currpid /\ p \notin ToSet(S.sleepq)
  BY SchedFields DEF SchedOK, Coherent, Running, Delayed
<1> HIDE DEF at, left
<1>2. k[p] = S.qkey[p] /\ k = [r \in Pids |-> k[r]]
  BY <1>1 DEF add_to_key, ToSet
<1>3. insertd_key(S.sleepq, S.qkey, S.currpid, d) = [k EXCEPT ![S.currpid] = left]
  BY DEF insertd_key, at, left
<1> HIDE DEF k
<1> QED
  BY <1>1, <1>2, <1>3

(* The record in which sleepms and recvtime call resched: the current      *)
(* process is on the delta list and in state st.                           *)
LyingDown(S, d, st) ==
  [S EXCEPT !.sleepq = insertd(S.sleepq, S.qkey, S.currpid, d),
            !.qkey   = insertd_key(S.sleepq, S.qkey, S.currpid, d),
            !.prstate[S.currpid] = st]

LEMMA LyingDownOK ==
  ASSUME NEW S, SchedOK(S), Running(S), S.ndefers = 0, S.currpid # NULLPROC,
         NEW d, NEW st \in Delayed
  PROVE  LET R == LyingDown(S, d, st)
         IN  /\ SchedOK(R) /\ SameReady(S, R)
             /\ R.prstate = [S.prstate EXCEPT ![S.currpid] = st] /\ R.ndefers = 0
             /\ delay(S, d, st) = resched(R)
<1> DEFINE c == S.currpid
           q == insertd(S.sleepq, S.qkey, c, d)
           k == insertd_key(S.sleepq, S.qkey, c, d)
           R == [S EXCEPT !.sleepq = q, !.qkey = k, !.prstate[c] = st]
<1>1. /\ S.prstate \in [Pids -> PrStates] /\ c \in Pids /\ S.sleepq \in Seq(Pids)
      /\ S.qkey = [r \in Pids |-> S.qkey[r]]
  BY SchedFields DEF SchedOK, Coherent
<1>2. q \in Seq(Pids) /\ IsInjective(q) /\ ToSet(q) = ToSet(S.sleepq) \cup {c}
  <2> DEFINE i == insertd_place(S.sleepq, S.qkey, d)
  <2>1. IsInjective(S.sleepq) /\ c \notin ToSet(S.sleepq)
    BY <1>1 DEF SchedOK, Running, Delayed
  <2>2. i \in 1 .. Len(S.sleepq) + 1
    BY <1>1, DelayPlaceInQueue
  <2>3. q = InsertAt(S.sleepq, i, c)
    BY DEF insertd
  <2> HIDE DEF q, i, c
  <2> QED
    BY <1>1, <2>1, <2>2, <2>3, InsertAtJoins
<1>3. k = [p \in Pids |-> k[p]]
  BY <1>1 DEF insertd_key, add_to_key
<1> HIDE DEF q, k
<1>4. /\ R.prstate = [S.prstate EXCEPT ![c] = st] /\ R.sleepq = q
      /\ R.ndefers = 0 /\ R.currpid = c /\ R.readylist = S.readylist
      /\ R.qkey = k
  BY DEF SchedOK, Coherent, IsSched, SchedRecords
<1>5. IsSched(R)
  <2>1. R.prstate \in [Pids -> PrStates]
    BY <1>1, <1>4 DEF PrStates, Delayed
  <2>2. R.qkey \in [Pids -> {R.qkey[p] : p \in DOMAIN R.qkey}]
    BY <1>3, <1>4, KeysAreTyped
  <2> QED
    BY <1>2, <2>1, <2>2 DEF IsSched, SchedRecords, SchedOK, Coherent
<1> HIDE DEF R
<1>6. SchedOK(R)
  <2>1. \A p \in Pids : R.prstate[p] = IF p = c THEN st ELSE S.prstate[p]
    BY <1>1, <1>4
  <2> QED
    BY <1>1, <1>2, <1>4, <1>5, <2>1, NullIsAProcess
    DEF SchedOK, Coherent, Running, Delayed, Eligible
<1>7. resched(R) = delay(S, d, st)
  BY DEF delay, block, R, q, k
<1>8. SameReady(S, R)
  <2>1. \A p \in Pids : S.prstate[p] = "READY" => k[p] = S.qkey[p]
    BY SleepLeavesReady DEF k
  <2>2. R.prprio = S.prprio
    BY DEF R, SchedOK, Coherent, IsSched, SchedRecords
  <2> QED
    BY <1>4, <2>1, <2>2 DEF SameReady
<1> QED
  BY <1>4, <1>6, <1>7, <1>8 DEF LyingDown, R, q, k

LEMMA GoesToSleepOK ==
  ASSUME NEW S, SchedOK(S), Running(S), S.ndefers = 0, S.currpid # NULLPROC,
         NEW d, NEW st \in Delayed
  PROVE  \E R : /\ SchedOK(R) /\ SameReady(S, R)
               /\ R.prstate = [S.prstate EXCEPT ![S.currpid] = st] /\ R.ndefers = 0
               /\ delay(S, d, st) = resched(R)
<1> DEFINE R == LyingDown(S, d, st)
<1>1. /\ SchedOK(R) /\ SameReady(S, R)
      /\ R.prstate = [S.prstate EXCEPT ![S.currpid] = st] /\ R.ndefers = 0
      /\ delay(S, d, st) = resched(R)
  BY LyingDownOK
<1> HIDE DEF R
<1> QED
  BY <1>1

LEMMA DelayOK ==
  ASSUME NEW S, SchedOK(S), Running(S), S.ndefers = 0, S.currpid # NULLPROC,
         NEW d, NEW st \in Delayed
  PROVE  LET T == delay(S, d, st) IN
         /\ SchedOK(T) /\ Turns({S.currpid}, S, T) /\ T.ndefers = 0
         /\ T.prstate[S.currpid] = st
         /\ Running(T)
<1> DEFINE c == S.currpid
           T == delay(S, d, st)
<1>1. S.prstate \in [Pids -> PrStates] /\ c \in Pids
  BY SchedFields DEF SchedOK, Coherent
<1>2. PICK R : /\ SchedOK(R) /\ R.prstate = [S.prstate EXCEPT ![c] = st]
               /\ R.ndefers = 0 /\ T = resched(R)
  BY GoesToSleepOK
<1> HIDE DEF T
<1>3. SchedOK(T) /\ OnlyTurns(R, T) /\ Running(T)
  BY <1>2, ReschedOK
<1>4. Turns({c}, S, T) /\ T.prstate[c] = st /\ T.ndefers = 0
  BY <1>1, <1>2, <1>3 DEF OnlyTurns, Turns, Eligible, Delayed
<1> QED
  BY <1>3, <1>4 DEF T

(* unsleep takes a delayed process off the list.                           *)
LEMMA UnsleepParks ==
  ASSUME NEW S, SchedOK(S), NEW p \in Pids, S.prstate[p] \in Delayed
  PROVE  LET T == unsleep(S, p) IN
         /\ Parked(T, p) /\ T.prstate = S.prstate
         /\ T.currpid = S.currpid /\ T.ndefers = S.ndefers
         /\ SameReady(S, T)
<1> DEFINE q == getitem(S.sleepq, p)
           k == unsleep_key(S.sleepq, S.qkey, p)
           T == unsleep(S, p)
<1>1. S.sleepq \in Seq(Pids) /\ S.qkey = [r \in Pids |-> S.qkey[r]]
  BY SchedFields DEF SchedOK, Coherent
<1>2. q \in Seq(Pids) /\ IsInjective(q) /\ ToSet(q) = ToSet(S.sleepq) \ {p}
  BY <1>1, GetitemLeaves DEF SchedOK
<1>3. k = [r \in Pids |-> k[r]]
  <2> DEFINE at == CHOOSE i \in 1 .. Len(S.sleepq) : S.sleepq[i] = p
  <2>1. k = add_to_key(S.sleepq, S.qkey, at + 1, S.qkey[p])
    BY DEF unsleep_key
  <2> HIDE DEF at, k
  <2> QED
    BY <1>1, <2>1, AddToKeyTyped
<1>a. \A r \in Pids : S.prstate[r] = "READY" => k[r] = S.qkey[r]
  <2> DEFINE at == CHOOSE i \in 1 .. Len(S.sleepq) : S.sleepq[i] = p
  <2>1. k = add_to_key(S.sleepq, S.qkey, at + 1, S.qkey[p])
    BY DEF unsleep_key
  <2>2. \A r \in Pids : S.prstate[r] = "READY" => r \notin ToSet(S.sleepq)
    BY DEF SchedOK, Delayed
  <2> HIDE DEF at, k
  <2> QED
    BY <1>1, <2>1, <2>2 DEF add_to_key, ToSet
<1> HIDE DEF q, k
<1>4. /\ T.prstate = S.prstate /\ T.currpid = S.currpid /\ T.sleepq = q
      /\ T.ndefers = S.ndefers /\ T.readylist = S.readylist /\ T.qkey = k
  BY DEF unsleep, q, k, SchedOK, Coherent, IsSched, SchedRecords
<1>5. IsSched(T)
  <2>1. T.qkey \in [Pids -> {T.qkey[r] : r \in DOMAIN T.qkey}]
    BY <1>3, <1>4, KeysAreTyped
  <2>2. T = [S EXCEPT !.sleepq = q, !.qkey = k]
    BY DEF unsleep, q, k
  <2> HIDE DEF T
  <2> QED
    BY <1>2, <2>1, <2>2 DEF IsSched, SchedRecords, SchedOK, Coherent
<1>6. Parked(T, p)
  BY <1>2, <1>4, <1>5 DEF Parked, SchedOK, Coherent, Eligible, Delayed
<1>7. T.prprio = S.prprio
  BY DEF unsleep, SchedOK, Coherent, IsSched, SchedRecords
<1> QED
  BY <1>a, <1>4, <1>6, <1>7 DEF SameReady

(* wakeup takes the first one.                                             *)
LEMMA FirstParks ==
  ASSUME NEW S, SchedOK(S), S.sleepq # << >>
  PROVE  LET T == [S EXCEPT !.sleepq = Tail(S.sleepq)]
             p == Head(S.sleepq)
         IN  /\ p \in Pids /\ S.prstate[p] \in Delayed
             /\ Parked(T, p) /\ T.prstate = S.prstate
             /\ T.currpid = S.currpid /\ T.ndefers = S.ndefers
<1> DEFINE q == Tail(S.sleepq)
           p == Head(S.sleepq)
           T == [S EXCEPT !.sleepq = q]
<1>1. S.sleepq \in Seq(Pids)
  BY SchedFields DEF SchedOK, Coherent
<1>2. /\ p \in ToSet(S.sleepq) /\ p \in Pids
      /\ q \in Seq(Pids) /\ IsInjective(q) /\ ToSet(q) = ToSet(S.sleepq) \ {p}
  BY <1>1, TailLeaves DEF SchedOK
<1> HIDE DEF p, q
<1>3. S.prstate[p] \in Delayed
  BY <1>2 DEF SchedOK
<1>4. /\ T.prstate = S.prstate /\ T.currpid = S.currpid /\ T.sleepq = q
      /\ T.ndefers = S.ndefers /\ T.readylist = S.readylist /\ T.qkey = S.qkey
  BY DEF SchedOK, Coherent, IsSched, SchedRecords
<1>5. IsSched(T)
  <2> DEFINE K == {S.qkey[r] : r \in DOMAIN S.qkey}
  <2>1. S \in SchedRecords(K) /\ K = {T.qkey[r] : r \in DOMAIN T.qkey}
    BY <1>4 DEF SchedOK, Coherent, IsSched
  <2> HIDE DEF K
  <2>2. T \in SchedRecords(K)
    BY <1>2, <2>1 DEF SchedRecords
  <2> QED
    BY <2>1, <2>2 DEF IsSched
<1>6. Parked(T, p)
  BY <1>2, <1>3, <1>4, <1>5 DEF Parked, SchedOK, Coherent, Eligible, Delayed
<1> QED
  BY <1>2, <1>3, <1>4, <1>6 DEF p, q

-----------------------------------------------------------------------------
(* States without a queue of the scheduler's.                              *)
Idle == {"FREE", "SUSP", "RECV", "WAIT"}

LEMMA IdleIsParked ==
  ASSUME NEW S, SchedOK(S), NEW p \in Pids, S.prstate[p] \in Idle
  PROVE  Parked(S, p)
<1>1. S.prstate[p] \notin Delayed /\ S.prstate[p] \notin Eligible
  BY DEF Idle, Delayed, Eligible
<1> QED
  BY <1>1 DEF SchedOK, Parked

(* A parked process may be given any state without a queue.                *)
LEMMA SetIdleOK ==
  ASSUME NEW S, NEW p \in Pids, Parked(S, p), NEW st \in Idle
  PROVE  LET T == [S EXCEPT !.prstate[p] = st] IN
         /\ SchedOK(T) /\ Turns({p}, S, T) /\ T.prstate[p] = st
         /\ Running(S) => Running(T)
         /\ T.currpid = S.currpid /\ T.ndefers = S.ndefers
<1> DEFINE T == [S EXCEPT !.prstate[p] = st]
<1>1. S.prstate \in [Pids -> PrStates] /\ S.currpid \in Pids
  BY SchedFields DEF Parked, Coherent
<1>2. /\ T.prstate = [S.prstate EXCEPT ![p] = st] /\ T.sleepq = S.sleepq
      /\ T.ndefers = S.ndefers /\ T.currpid = S.currpid
      /\ T.readylist = S.readylist /\ T.qkey = S.qkey
  BY DEF Parked, Coherent, IsSched, SchedRecords
<1>3. IsSched(T)
  <2> DEFINE K == {S.qkey[r] : r \in DOMAIN S.qkey}
  <2>1. S \in SchedRecords(K) /\ K = {T.qkey[r] : r \in DOMAIN T.qkey}
    BY <1>2 DEF Parked, Coherent, IsSched
  <2> HIDE DEF K
  <2>2. T \in SchedRecords(K)
    BY <1>1, <2>1 DEF SchedRecords, PrStates, Idle
  <2> QED
    BY <2>1, <2>2 DEF IsSched
<1> HIDE DEF T
<1>4. \A r \in Pids : T.prstate[r] = IF r = p THEN st ELSE S.prstate[r]
  BY <1>1, <1>2
<1>5. st \notin Delayed /\ st \notin Eligible
  BY DEF Idle, Delayed, Eligible
<1>6. Coherent(T)
  BY <1>2, <1>3, <1>4, <1>5, NullIsAProcess DEF Parked, Coherent, Eligible
<1>7. SchedOK(T)
  BY <1>2, <1>4, <1>5, <1>6 DEF SchedOK, Parked
<1>8. Running(S) => Running(T)
  BY <1>1, <1>2, <1>4 DEF Running, Parked, Eligible
<1> QED
  BY <1>1, <1>2, <1>4, <1>7, <1>8 DEF Turns, T

(* A READY process, not the null process, is taken off the ready list.     *)
LEMMA LeaveReadyOK ==
  ASSUME NEW S, SchedOK(S), NEW p \in Pids \ {NULLPROC}, S.prstate[p] = "READY",
         NEW st \in Idle
  PROVE  LET T == [S EXCEPT !.readylist = getitem(S.readylist, p),
                            !.prstate   = [S.prstate EXCEPT ![p] = st]] IN
         /\ SchedOK(T) /\ Turns({p}, S, T) /\ T.prstate[p] = st
         /\ Running(S) => Running(T)
         /\ T.currpid = S.currpid /\ T.ndefers = S.ndefers
<1> DEFINE q == getitem(S.readylist, p)
           T == [S EXCEPT !.readylist = q, !.prstate = [S.prstate EXCEPT ![p] = st]]
<1>1. /\ S.prstate \in [Pids -> PrStates] /\ S.currpid \in Pids
      /\ S.readylist \in Seq(Pids)
  BY SchedFields DEF SchedOK, Coherent
<1>2. q \in Seq(Pids) /\ IsInjective(q) /\ ToSet(q) = ToSet(S.readylist) \ {p}
  BY <1>1, GetitemLeaves DEF SchedOK, Coherent
<1> HIDE DEF q
<1>3. /\ T.prstate = [S.prstate EXCEPT ![p] = st] /\ T.sleepq = S.sleepq
      /\ T.ndefers = S.ndefers /\ T.currpid = S.currpid
      /\ T.readylist = q /\ T.qkey = S.qkey
  BY DEF SchedOK, Coherent, IsSched, SchedRecords
<1>4. IsSched(T)
  <2> DEFINE K == {S.qkey[r] : r \in DOMAIN S.qkey}
  <2>1. S \in SchedRecords(K) /\ K = {T.qkey[r] : r \in DOMAIN T.qkey}
    BY <1>3 DEF SchedOK, Coherent, IsSched
  <2> HIDE DEF K
  <2>2. [S.prstate EXCEPT ![p] = st] \in [Pids -> PrStates]
    BY <1>1 DEF PrStates, Idle
  <2>3. T \in SchedRecords(K)
    BY <1>2, <2>1, <2>2 DEF SchedRecords
  <2> QED
    BY <2>1, <2>3 DEF IsSched
<1> HIDE DEF T
<1>5. \A r \in Pids : T.prstate[r] = IF r = p THEN st ELSE S.prstate[r]
  BY <1>1, <1>3
<1>6. st \notin Delayed /\ st \notin Eligible
  BY DEF Idle, Delayed, Eligible
<1>7. Coherent(T)
  BY <1>2, <1>3, <1>4, <1>5, <1>6, NullIsAProcess DEF SchedOK, Coherent, Eligible
<1>8. SchedOK(T)
  BY <1>3, <1>5, <1>6, <1>7 DEF SchedOK, Delayed
<1>9. Running(S) => Running(T)
  BY <1>1, <1>3, <1>5 DEF Running
<1> QED
  BY <1>1, <1>3, <1>5, <1>8, <1>9 DEF Turns, T, q

(* A priority may change under the scheduler's feet: chprio.               *)
LEMMA SetPrioOK ==
  ASSUME NEW S, SchedOK(S), NEW p \in Pids, NEW pr \in Nat
  PROVE  LET T == [S EXCEPT !.prprio[p] = pr] IN
         /\ SchedOK(T) /\ T.prstate = S.prstate
         /\ T.currpid = S.currpid /\ T.ndefers = S.ndefers
<1> DEFINE T == [S EXCEPT !.prprio[p] = pr]
<1>1. /\ T.prstate = S.prstate /\ T.sleepq = S.sleepq
      /\ T.ndefers = S.ndefers /\ T.currpid = S.currpid
      /\ T.readylist = S.readylist /\ T.qkey = S.qkey
  BY DEF SchedOK, Coherent, IsSched, SchedRecords
<1>2. IsSched(T)
  <2> DEFINE K == {S.qkey[r] : r \in DOMAIN S.qkey}
  <2>1. S \in SchedRecords(K) /\ K = {T.qkey[r] : r \in DOMAIN T.qkey}
    BY <1>1 DEF SchedOK, Coherent, IsSched
  <2> HIDE DEF K
  <2>2. T \in SchedRecords(K)
    BY <2>1 DEF SchedRecords
  <2> QED
    BY <2>1, <2>2 DEF IsSched
<1> QED
  BY <1>1, <1>2 DEF SchedOK, Coherent
=============================================================================
