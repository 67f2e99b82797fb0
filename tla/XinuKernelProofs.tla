-------------------------- MODULE XinuKernelProofs ---------------------------
(***************************************************************************)
(* For every size of the tables and every workload, the kernel keeps its   *)
(* types (TypeOK) and every process on the one queue its state names       *)
(* (QueuesMatchStates).  The invariant that is inductive adds where a call *)
(* can be interrupted: only a loop of releases defers rescheduling, only   *)
(* the running process is in one, and what a call still has to do names    *)
(* processes and semaphores that exist.  Then follows what it keeps        *)
(* besides: the counts of the semaphores, the messages of those that wait  *)
(* for one, the priority of the process that runs.                         *)
(***************************************************************************)
EXTENDS XinuKernel, XinuSchedProofs

Looping == {"signaln", "semdelete", "semreset", "wakeup"}

FrameOK(f) ==
  /\ f.at = "send" => f.arg \in Pids
  /\ f.at \in {"kill", "killsend"} => f.arg \in Pids \ {NULLPROC}
  /\ f.at = "killsend" => f.n \in Pids
  /\ f.at \in {"signaln", "semdelete", "semreset"} => f.arg \in Sems

FramesOK ==
  /\ \A p \in Pids : FrameOK(pc[p])
  /\ \A p \in Pids : pc[p].at \in Looping => p = currpid
  /\ sch.ndefers > 0 <=> Here.at \in Looping

SemQueuesOK ==
  /\ \A s \in Sems : IsInjective(squeue[s])
  /\ \A p \in Pids, s \in Sems :
       (prstate[p] = "WAIT" /\ prsem[p] = s) <=> p \in ToSet(squeue[s])
  /\ \A p \in Pids : prstate[p] = "WAIT" => prsem[p] \in Sems

RunningOK == SchedOK(sch) /\ Running(sch)

IInv == TypeOK /\ RunningOK /\ SemQueuesOK /\ FramesOK

-----------------------------------------------------------------------------
(* What the invariant says of the scheduler's record and the current call. *)
LEMMA IInvFacts ==
  ASSUME IInv
  PROVE  /\ prstate \in [Pids -> PrStates] /\ currpid \in Pids
         /\ sch.ndefers \in {0, 1} /\ prstate[currpid] = "CURR"
         /\ sch.sleepq \in Seq(Pids) /\ sch.prprio \in [Pids -> Nat]
         /\ Here \in Frames /\ FrameOK(Here)
         /\ SchedOK(sch) /\ Running(sch)
<1>1. IsSched(sch) /\ SchedOK(sch) /\ Running(sch)
  BY DEF IInv, TypeOK, RunningOK
<1>2. /\ prstate \in [Pids -> PrStates] /\ currpid \in Pids
      /\ sch.ndefers \in {0, 1}
      /\ sch.sleepq \in Seq(Pids) /\ sch.prprio \in [Pids -> Nat]
  BY <1>1, SchedFields DEF prstate, currpid
<1>3. Here \in Frames /\ FrameOK(Here)
  BY <1>2 DEF IInv, TypeOK, FramesOK, Here
<1> QED
  BY <1>1, <1>2, <1>3 DEF Running, prstate, currpid

(* The same processes wait on semaphores in S and in T.                    *)
SameWaiters(S, T) ==
  \A p \in Pids : S.prstate[p] = "WAIT" <=> T.prstate[p] = "WAIT"

LEMMA TurnsKeepWaiters ==
  ASSUME NEW S, NEW T, NEW P, Turns(P, S, T),
         \A p \in P : S.prstate[p] # "WAIT" /\ T.prstate[p] # "WAIT"
  PROVE  SameWaiters(S, T)
  BY DEF Turns, SameWaiters, Eligible

LEMMA SemQueuesKeep ==
  ASSUME SemQueuesOK, UNCHANGED <<prsem, squeue>>, SameWaiters(sch, sch')
  PROVE  SemQueuesOK'
  BY DEF SemQueuesOK, SameWaiters, prstate

(* A step that moves the current process to a point f outside the loops,   *)
(* and one that moves it into a loop or on in one.                         *)
LEMMA FramesMove ==
  ASSUME IInv, sch'.ndefers = 0, sch'.currpid \in Pids,
         NEW f, Goto(f), FrameOK(f), f.at \notin Looping
  PROVE  FramesOK'
<1>1. /\ currpid \in Pids /\ \A p \in Pids : FrameOK(pc[p])
      /\ \A p \in Pids : pc[p].at \in Looping => p = currpid
  BY IInvFacts DEF IInv, FramesOK, Here
<1>2. \A p \in Pids : pc'[p] = IF p = currpid THEN f ELSE pc[p]
  BY DEF Goto, IInv, TypeOK
<1>3. \A p \in Pids : FrameOK(pc'[p]) /\ pc'[p].at \notin Looping
  BY <1>1, <1>2
<1> QED
  BY <1>3 DEF FramesOK, Here, currpid

LEMMA FramesLoop ==
  ASSUME IInv, sch'.ndefers = 1, sch'.currpid = sch.currpid,
         NEW f, pc' = [pc EXCEPT ![currpid] = f], FrameOK(f), f.at \in Looping
  PROVE  FramesOK'
<1>1. /\ currpid \in Pids /\ \A p \in Pids : FrameOK(pc[p])
      /\ \A p \in Pids : pc[p].at \in Looping => p = currpid
  BY IInvFacts DEF IInv, FramesOK, Here
<1>2. \A p \in Pids : pc'[p] = IF p = currpid THEN f ELSE pc[p]
  BY DEF IInv, TypeOK
<1> QED
  BY <1>1, <1>2 DEF FramesOK, Here, currpid

(* A step that leaves every process where it is.                           *)
LEMMA FramesStay ==
  ASSUME IInv, pc' = pc, sch'.ndefers = sch.ndefers, sch'.currpid \in Pids,
         sch.ndefers > 0 => sch'.currpid = sch.currpid
  PROVE  FramesOK'
<1>1. sch.ndefers \in {0, 1} /\ FramesOK
  BY IInvFacts DEF IInv
<1>2. CASE sch.ndefers = 0
  BY <1>1, <1>2 DEF FramesOK, Here, currpid
<1>3. CASE sch.ndefers > 0
  BY <1>1, <1>3 DEF FramesOK, Here, currpid
<1> QED
  BY <1>1, <1>2, <1>3

-----------------------------------------------------------------------------
(* The steps calls share.                                                  *)

(* What a scheduler operation leaves behind.                               *)
Handed == /\ SchedOK(sch') /\ Running(sch') /\ sch'.ndefers = sch.ndefers
          /\ sch.ndefers > 0 => sch'.currpid = sch.currpid

LEMMA HandedFacts ==
  ASSUME SchedOK(sch')
  PROVE  IsSched(sch') /\ sch'.currpid \in Pids
  BY SchedFields DEF SchedOK, Coherent

(* The first process waiting on a semaphore is made ready.                 *)
LEMMA ReadyFirst ==
  ASSUME IInv, NEW s \in Sems, squeue[s] # << >>,
         squeue' = [squeue EXCEPT ![s] = Tail(@)],
         sch' = ready(sch, Head(squeue[s])), prsem' = prsem
  PROVE  Handed /\ SemQueuesOK' /\ squeue' \in [Sems -> Seq(Pids)]
<1> DEFINE p == Head(squeue[s])
           q == Tail(squeue[s])
<1>1. squeue[s] \in Seq(Pids) /\ IsInjective(squeue[s])
  BY DEF IInv, TypeOK, SemQueuesOK
<1>2. /\ p \in ToSet(squeue[s]) /\ p \in Pids
      /\ q \in Seq(Pids) /\ IsInjective(q) /\ ToSet(q) = ToSet(squeue[s]) \ {p}
  BY <1>1, TailLeaves
<1>3. squeue' = [squeue EXCEPT ![s] = q] /\ sch' = ready(sch, p)
  OBVIOUS
<1> HIDE DEF p, q
<1>4. prstate[p] = "WAIT" /\ prsem[p] = s
  BY <1>2 DEF IInv, SemQueuesOK
<1>5. Parked(sch, p)
  BY <1>2, <1>4, IInvFacts, IdleIsParked DEF prstate, Idle
<1>a. Running(sch)
  BY IInvFacts
<1>6. /\ SchedOK(sch') /\ Turns({p}, sch, sch') /\ sch'.ndefers = sch.ndefers
      /\ sch'.prstate[p] \in Eligible /\ Running(sch')
      /\ sch.ndefers > 0 => sch'.currpid = sch.currpid
  BY <1>2, <1>3, <1>5, <1>a, ReadyOK, SMTT(30)
<1>7. \A r \in Pids \ {p} : sch'.prstate[r] = "WAIT" <=> prstate[r] = "WAIT"
  BY <1>6 DEF Turns, Eligible, prstate
<1>8. sch'.prstate[p] # "WAIT"
  BY <1>6 DEF Eligible
<1>9. squeue' \in [Sems -> Seq(Pids)]
  BY <1>2, <1>3 DEF IInv, TypeOK
<1>10. \A t \in Sems : squeue'[t] = IF t = s THEN q ELSE squeue[t]
  BY <1>3 DEF IInv, TypeOK
<1>11. SemQueuesOK'
  BY <1>2, <1>4, <1>7, <1>8, <1>10 DEF IInv, SemQueuesOK, prstate
<1> QED
  BY <1>6, <1>9, <1>11 DEF Handed

LEMMA ReleaseOne ==
  ASSUME IInv, NEW s \in Sems, release_one(s), prsem' = prsem
  PROVE  /\ Handed /\ SemQueuesOK'
         /\ squeue' \in [Sems -> Seq(Pids)] /\ scount' \in [Sems -> Int]
<1>1. scount' \in [Sems -> Int]
  BY DEF release_one, IInv, TypeOK
<1>2. CASE squeue[s] # << >> /\ scount[s] < 0
  <2>1. /\ squeue' = [squeue EXCEPT ![s] = Tail(@)]
        /\ sch' = ready(sch, Head(squeue[s]))
    BY <1>2 DEF release_one, IInv, TypeOK
  <2> QED
    BY <1>1, <1>2, <2>1, ReadyFirst
<1>3. CASE ~(squeue[s] # << >> /\ scount[s] < 0)
  <2>1. UNCHANGED <<sch, squeue>>
    BY <1>3 DEF release_one, IInv, TypeOK
  <2>2. SameWaiters(sch, sch')
    BY <2>1 DEF SameWaiters
  <2>3. SemQueuesOK' /\ squeue' \in [Sems -> Seq(Pids)]
    BY <2>1, <2>2, SemQueuesKeep DEF IInv, TypeOK
  <2> QED
    BY <1>1, <2>1, <2>3, IInvFacts DEF Handed
<1> QED
  BY <1>2, <1>3

(* A message is left with q, which is woken if it waits for one.           *)
LEMMA Deliver ==
  ASSUME IInv, NEW q \in Pids, deliver(q), UNCHANGED <<prsem, squeue>>
  PROVE  /\ Handed /\ SemQueuesOK'
         /\ prhasmsg' \in [Pids -> BOOLEAN]
<1>1. prhasmsg' \in [Pids -> BOOLEAN]
  BY DEF deliver, IInv, TypeOK
<1>2. CASE prstate[q] \in {"RECV", "RECTIM"}
  <2>1. PICK S : /\ Parked(S, q) /\ S.prstate = sch.prstate
                 /\ S.currpid = sch.currpid /\ S.ndefers = sch.ndefers
                 /\ sch' = ready(S, q)
    <3>1. CASE prstate[q] = "RECV"
      <4>1. sch' = ready(sch, q)
        BY <3>1 DEF deliver
      <4>2. Parked(sch, q)
        BY <3>1, IInvFacts, IdleIsParked DEF prstate, Idle
      <4> QED
        BY <4>1, <4>2
    <3>2. CASE prstate[q] = "RECTIM"
      <4>1. sch' = ready(unsleep(sch, q), q)
        BY <3>2 DEF deliver
      <4>2. LET S == unsleep(sch, q) IN
            /\ Parked(S, q) /\ S.prstate = sch.prstate
            /\ S.currpid = sch.currpid /\ S.ndefers = sch.ndefers
        BY <3>2, IInvFacts, UnsleepParks DEF prstate, Delayed
      <4> QED
        BY <4>1, <4>2
    <3> QED
      BY <1>2, <3>1, <3>2
  <2>2. Running(S)
    BY <2>1, IInvFacts DEF Running
  <2>3. /\ SchedOK(sch') /\ Turns({q}, S, sch') /\ sch'.ndefers = sch.ndefers
        /\ sch'.prstate[q] \in Eligible /\ Running(sch')
        /\ sch.ndefers > 0 => sch'.currpid = sch.currpid
    BY <2>1, <2>2, ReadyOK
  <2>4. SameWaiters(S, sch')
    BY <1>2, <2>1, <2>3, TurnsKeepWaiters DEF Eligible, prstate
  <2>5. SameWaiters(sch, sch')
    BY <2>1, <2>4 DEF SameWaiters
  <2> QED
    BY <1>1, <2>3, <2>5, SemQueuesKeep DEF Handed, IInv
<1>3. CASE prstate[q] \notin {"RECV", "RECTIM"}
  <2>1. sch' = sch
    BY <1>3 DEF deliver
  <2>2. SameWaiters(sch, sch')
    BY <2>1 DEF SameWaiters
  <2> QED
    BY <1>1, <2>1, <2>2, IInvFacts, SemQueuesKeep DEF Handed, IInv
<1> QED
  BY <1>2, <1>3

(* The current process gives up the CPU, which is taken from a process     *)
(* that is not in the middle of a loop and is not the null process.        *)
LEMMA Blocks ==
  ASSUME IInv, sch.ndefers = 0, currpid # NULLPROC, NEW st \in {"RECV", "SUSP", "FREE"},
         sch' = block(sch, st), UNCHANGED <<prsem, squeue>>
  PROVE  Handed /\ SemQueuesOK'
<1>1. /\ SchedOK(sch') /\ Turns({sch.currpid}, sch, sch') /\ sch'.ndefers = 0
      /\ sch'.prstate[sch.currpid] = st /\ Running(sch')
  BY IInvFacts, BlockOK DEF currpid
<1>2. SameWaiters(sch, sch')
  BY <1>1, IInvFacts, TurnsKeepWaiters DEF prstate, currpid
<1> QED
  BY <1>1, <1>2, SemQueuesKeep DEF Handed, IInv

LEMMA GoesToSleep ==
  ASSUME IInv, sch.ndefers = 0, currpid # NULLPROC, NEW st \in Delayed, NEW d,
         sch' = delay(sch, d, st), UNCHANGED <<prsem, squeue>>
  PROVE  Handed /\ SemQueuesOK'
<1>1. /\ SchedOK(sch') /\ Turns({sch.currpid}, sch, sch') /\ sch'.ndefers = 0
      /\ sch'.prstate[sch.currpid] = st /\ Running(sch')
  BY IInvFacts, DelayOK DEF currpid
<1>2. SameWaiters(sch, sch')
  BY <1>1, IInvFacts, TurnsKeepWaiters DEF prstate, currpid, Delayed
<1> QED
  BY <1>1, <1>2, SemQueuesKeep DEF Handed, IInv

(* Outside the loops rescheduling is not deferred.                         *)
LEMMA NotDeferred ==
  ASSUME IInv, Here.at \notin Looping
  PROVE  sch.ndefers = 0
  BY IInvFacts DEF IInv, FramesOK

LEMMA Called ==
  ASSUME IInv, NEW c, syscall(c)
  PROVE  sch.ndefers = 0 /\ Here = User /\ currpid # NULLPROC
<1>1. Here = User /\ currpid # NULLPROC
  BY DEF syscall
<1>2. Here.at \notin Looping
  BY <1>1 DEF User, At, Looping
<1> QED
  BY <1>1, <1>2, NotDeferred

-----------------------------------------------------------------------------
(* One lemma per action: it preserves the invariant.                       *)

LEMMA InitIInv == Init => IInv
<1> SUFFICES ASSUME Init PROVE IInv
  OBVIOUS
<1>1. /\ NULLPROC \in Pids /\ MAIN \in Pids /\ STARTUP \in Pids /\ NULLPROC # MAIN
      /\ QUANTUM \in 1 .. QUANTUM
  BY SchedAssumption, KernelAssumption DEF Pids, NULLPROC, MAIN, STARTUP
<1>2. PICK pr \in Prios :
        sch = [prstate   |-> [p \in Pids |-> CASE p = NULLPROC -> "READY"
                                                [] p = MAIN -> "CURR"
                                                [] OTHER -> "FREE"],
               prprio    |-> [p \in Pids |-> IF p \in {STARTUP, MAIN} THEN pr ELSE 0],
               readylist |-> <<NULLPROC>>,
               sleepq    |-> << >>,
               qkey      |-> [p \in Pids |-> IF p \in {STARTUP, MAIN} THEN pr ELSE 0],
               currpid   |-> MAIN,
               preempt   |-> QUANTUM,
               ndefers   |-> 0,
               attempt   |-> FALSE]
  BY DEF Init
<1>3. /\ sch.readylist = <<NULLPROC>> /\ sch.sleepq = << >> /\ sch.currpid = MAIN
      /\ sch.ndefers = 0 /\ sch.prstate = [p \in Pids |-> CASE p = NULLPROC -> "READY"
                                                [] p = MAIN -> "CURR"
                                                [] OTHER -> "FREE"]
      /\ sch.qkey = [p \in Pids |-> sch.qkey[p]]
  BY <1>2
<1>4. IsSched(sch)
  <2>1. /\ sch.prstate \in [Pids -> PrStates] /\ sch.prprio \in [Pids -> Nat]
        /\ sch.qkey \in [Pids -> {sch.qkey[p] : p \in DOMAIN sch.qkey}]
    BY <1>2, <1>3, KernelAssumption, KeysAreTyped DEF PrStates
  <2>2. /\ sch.readylist \in Seq(Pids) /\ sch.sleepq \in Seq(Pids)
        /\ sch.preempt \in 1 .. QUANTUM /\ sch.attempt \in BOOLEAN
    BY <1>1, <1>2
  <2> QED
    BY <1>1, <1>2, <2>1, <2>2 DEF IsSched, SchedRecords
<1>5. /\ IsInjective(sch.readylist) /\ ToSet(sch.readylist) = {NULLPROC}
      /\ IsInjective(sch.sleepq) /\ ToSet(sch.sleepq) = {}
  BY <1>3 DEF IsInjective, ToSet
<1>6. RunningOK
  <2>1. \A p \in Pids : sch.prstate[p] = IF p = NULLPROC THEN "READY"
                                         ELSE IF p = MAIN THEN "CURR" ELSE "FREE"
    BY <1>1, <1>3
  <2>2. Coherent(sch)
    BY <1>1, <1>3, <1>4, <1>5, <2>1 DEF Coherent, Eligible
  <2> QED
    BY <1>1, <1>3, <1>5, <2>1, <2>2 DEF RunningOK, SchedOK, Running, Delayed
<1>7. SemQueuesOK
  <2>1. \A p \in Pids : prstate[p] # "WAIT"
    BY <1>3 DEF prstate
  <2>2. \A s \in Sems : IsInjective(squeue[s]) /\ ToSet(squeue[s]) = {}
    BY DEF Init, IsInjective, ToSet
  <2> QED
    BY <2>1, <2>2 DEF SemQueuesOK
<1>8. FramesOK
  BY <1>1, <1>3 DEF Init, FramesOK, FrameOK, Here, currpid, User, At, Looping
<1>9. TypeOK
  <2>1. nextpid \in Pids
    BY SchedAssumption, KernelAssumption DEF Init, Pids, MAIN
  <2>2. User \in Frames
    BY DEF User, At, Frames, Points
  <2>3. pc \in [Pids -> Frames]
    BY <2>2 DEF Init
  <2>4. /\ prsem \in [Pids -> Sems \cup {-1, 0}]
        /\ prparent \in [Pids -> Pids] /\ prhasmsg \in [Pids -> BOOLEAN]
    BY <1>1 DEF Init
  <2>5. /\ sstate \in [Sems -> {"FREE", "USED"}] /\ scount \in [Sems -> Int]
        /\ nextsem \in Sems \cup {0} /\ prcount \in Int
    BY DEF Init
  <2>6. squeue \in [Sems -> Seq(Pids)]
    <3>1. << >> \in Seq(Pids)
      OBVIOUS
    <3> QED
      BY <3>1 DEF Init
  <2>7. halted \in BOOLEAN
    BY Zenon DEF Init
  <2> QED
    BY <1>4, <2>1, <2>3, <2>4, <2>5, <2>6, <2>7 DEF TypeOK
<1> QED
  BY <1>6, <1>7, <1>8, <1>9 DEF IInv

-----------------------------------------------------------------------------
(* The search of newpid and newsem ends at a free entry.                   *)
LEMMA NextFree ==
  ASSUME NEW n \in Nat, NEW start \in 0 .. n - 1,
         NEW free \in SUBSET (0 .. n - 1), free # {}
  PROVE  next_free(start, n, free) \in free
<1> DEFINE I == {i \in 0 .. n - 1 : (start + i) % n \in free}
<1>1. PICK x \in free : x \in 0 .. n - 1
  OBVIOUS
<1>2. \A y \in 0 .. n - 1 : y % n = y /\ (y + n) % n = y
  OBVIOUS
<1>3. I # {}
  <2> DEFINE i == IF x >= start THEN x - start ELSE x - start + n
  <2>1. i \in 0 .. n - 1 /\ (start + i = x \/ start + i = x + n)
    BY <1>1
  <2> HIDE DEF i
  <2>2. (start + i) % n = x
    BY <1>1, <1>2, <2>1
  <2> QED
    BY <1>1, <2>1, <2>2
<1>4. Min(I) \in I
  <2>1. I \in SUBSET Nat
    OBVIOUS
  <2> HIDE DEF I
  <2> QED
    BY <1>3, <2>1, MinOfNaturals
<1> QED
  BY <1>4 DEF next_free

-----------------------------------------------------------------------------
(* Semaphore calls.                                                        *)

LEMMA SemcreateIInv ==
  ASSUME IInv, NEW count \in Counts, semcreate(count)
  PROVE  IInv'
<1> DEFINE free == {s \in Sems : sstate[s] = "FREE"}
           sem  == next_free(nextsem, NSEM, free)
<1>1. sem \in Sems
  <2>1. free \in SUBSET Sems /\ free # {}
    BY DEF semcreate
  <2>2. nextsem \in Sems
    BY <2>1, KernelAssumption DEF IInv, TypeOK, Sems
  <2> HIDE DEF free
  <2> QED
    BY <2>1, <2>2, NextFree, KernelAssumption DEF Sems
<1>2. (sem + 1) % NSEM \in Sems
  BY <1>1, KernelAssumption DEF Sems
<1>3. /\ sstate' = [sstate EXCEPT ![sem] = "USED"]
      /\ scount' = [scount EXCEPT ![sem] = count]
      /\ nextsem' = (sem + 1) % NSEM
      /\ UNCHANGED <<sch, prsem, prparent, prhasmsg, prcount, nextpid, squeue, pc, halted>>
  BY DEF semcreate, proctab, pids
<1> HIDE DEF sem
<1>4. TypeOK'
  BY <1>1, <1>2, <1>3, KernelAssumption DEF IInv, TypeOK
<1>5. RunningOK' /\ FramesOK'
  BY <1>3 DEF IInv, RunningOK, FramesOK, Here, currpid
<1>6. SemQueuesOK'
  BY <1>3 DEF IInv, SemQueuesOK, prstate
<1> QED
  BY <1>4, <1>5, <1>6 DEF IInv

LEMMA WaitIInv ==
  ASSUME IInv, NEW s \in Sems, wait(s)
  PROVE  IInv'
<1>1. /\ sch.ndefers = 0 /\ currpid # NULLPROC /\ currpid \in Pids
      /\ prstate[currpid] = "CURR"
  BY Called, IInvFacts DEF wait
<1>2. /\ UNCHANGED <<prparent, prhasmsg, prcount, nextpid, sstate, nextsem, pc, halted>>
      /\ scount' = [scount EXCEPT ![s] = @ - 1]
  BY DEF wait, pids
<1>3. CASE UNCHANGED <<sch, prsem, squeue>>
  <2>1. TypeOK'
    BY <1>2, <1>3 DEF IInv, TypeOK
  <2>2. RunningOK' /\ FramesOK' /\ SemQueuesOK'
    BY <1>2, <1>3 DEF IInv, RunningOK, FramesOK, SemQueuesOK, Here, currpid, prstate
  <2> QED
    BY <2>1, <2>2 DEF IInv
<1>4. CASE /\ prsem'  = [prsem EXCEPT ![currpid] = s]
           /\ squeue' = [squeue EXCEPT ![s] = Append(@, currpid)]
           /\ sch'    = block(sch, "WAIT")
  <2> DEFINE q == Append(squeue[s], currpid)
  <2>1. /\ SchedOK(sch') /\ Turns({sch.currpid}, sch, sch') /\ sch'.ndefers = 0
        /\ sch'.prstate[sch.currpid] = "WAIT" /\ Running(sch')
    BY <1>1, <1>4, IInvFacts, BlockOK DEF currpid
  <2>2. /\ q \in Seq(Pids) /\ IsInjective(q) /\ ToSet(q) = ToSet(squeue[s]) \cup {currpid}
    <3>1. squeue[s] \in Seq(Pids) /\ IsInjective(squeue[s]) /\ currpid \notin ToSet(squeue[s])
      BY <1>1 DEF IInv, TypeOK, SemQueuesOK
    <3> QED
      BY <1>1, <3>1, AppendJoins
  <2>3. squeue' = [squeue EXCEPT ![s] = q]
    BY <1>4
  <2> HIDE DEF q
  <2>4. TypeOK'
    BY <1>1, <1>2, <1>4, <2>1, <2>2, <2>3, HandedFacts DEF IInv, TypeOK
  <2>5. SemQueuesOK'
    <3>1. \A t \in Sems : squeue'[t] = IF t = s THEN q ELSE squeue[t]
      BY <2>3 DEF IInv, TypeOK
    <3>2. \A p \in Pids : prsem'[p] = IF p = currpid THEN s ELSE prsem[p]
      BY <1>4 DEF IInv, TypeOK
    <3>3. \A p \in Pids \ {currpid} : sch'.prstate[p] = "WAIT" <=> prstate[p] = "WAIT"
      BY <2>1 DEF Turns, Eligible, prstate, currpid
    <3>4. sch'.prstate[currpid] = "WAIT"
      BY <2>1 DEF currpid
    <3>5. \A t \in Sems : currpid \notin ToSet(squeue[t])
      BY <1>1 DEF IInv, SemQueuesOK
    <3> QED
      BY <1>1, <2>2, <3>1, <3>2, <3>3, <3>4, <3>5 DEF IInv, SemQueuesOK, prstate
  <2>6. FramesOK'
    BY <1>1, <1>2, <2>1, FramesStay, HandedFacts
  <2> QED
    BY <2>1, <2>4, <2>5, <2>6 DEF IInv, RunningOK
<1> QED
  BY <1>3, <1>4 DEF wait

LEMMA SignalIInv ==
  ASSUME IInv, NEW s \in Sems, signal(s)
  PROVE  IInv'
<1>1. /\ release_one(s)
      /\ UNCHANGED <<prsem, prparent, prhasmsg, prcount, nextpid, sstate, nextsem, pc, halted>>
  BY DEF signal, proctab, pids
<1>2. /\ Handed /\ SemQueuesOK'
      /\ squeue' \in [Sems -> Seq(Pids)] /\ scount' \in [Sems -> Int]
  BY <1>1, ReleaseOne
<1>3. FramesOK'
  BY <1>1, <1>2, FramesStay, HandedFacts DEF Handed
<1>4. TypeOK'
  BY <1>1, <1>2, HandedFacts DEF IInv, TypeOK, Handed
<1> QED
  BY <1>2, <1>3, <1>4 DEF IInv, RunningOK, Handed

-----------------------------------------------------------------------------
(* The loops of releases.                                                  *)

LEMMA BeginsLoop ==
  ASSUME IInv, sch.ndefers = 0, NEW S, SchedOK(S), S.prstate = sch.prstate,
         S.currpid = sch.currpid, S.ndefers = 0, sch' = defer_start(S),
         NEW f, Goto(f), FrameOK(f), f.at \in Looping, UNCHANGED <<prsem, squeue>>
  PROVE  RunningOK' /\ SemQueuesOK' /\ FramesOK'
<1>1. /\ SchedOK(sch') /\ sch'.ndefers = 1
      /\ sch'.prstate = sch.prstate /\ sch'.currpid = sch.currpid
  BY DeferStartOK
<1>2. Running(sch')
  BY <1>1, IInvFacts DEF Running
<1>3. SameWaiters(sch, sch')
  BY <1>1 DEF SameWaiters
<1>4. SemQueuesOK'
  BY <1>3, SemQueuesKeep DEF IInv
<1>5. FramesOK'
  BY <1>1, FramesLoop DEF Goto
<1> QED
  BY <1>1, <1>2, <1>4, <1>5 DEF RunningOK

LEMMA EndsLoop ==
  ASSUME IInv, sch.ndefers > 0, sch' = defer_stop(sch),
         NEW f, Goto(f), FrameOK(f), f.at \notin Looping, UNCHANGED <<prsem, squeue>>
  PROVE  RunningOK' /\ SemQueuesOK' /\ FramesOK'
<1>1. SchedOK(sch) /\ Running(sch) /\ sch.ndefers = 1
  BY IInvFacts
<1>2. SchedOK(sch') /\ Turns({}, sch, sch') /\ Running(sch') /\ sch'.ndefers = 0
  BY <1>1, DeferStopOK
<1>3. SameWaiters(sch, sch')
  BY <1>2, TurnsKeepWaiters
<1>4. SemQueuesOK'
  BY <1>3, SemQueuesKeep DEF IInv
<1>5. FramesOK'
  BY <1>2, HandedFacts, FramesMove
<1> QED
  BY <1>2, <1>4, <1>5 DEF RunningOK

(* Inside a loop rescheduling is deferred.                                 *)
LEMMA Deferred ==
  ASSUME IInv, Here.at \in Looping
  PROVE  sch.ndefers = 1
  BY IInvFacts DEF IInv, FramesOK

LEMMA SignalnIInv ==
  ASSUME IInv, NEW s \in Sems, NEW count \in Counts, signaln(s, count)
  PROVE  IInv'
<1> DEFINE f == At("signaln", s, count)
<1>1. sch.ndefers = 0
  BY Called DEF signaln
<1>2. /\ Goto(f) /\ sch' = defer_start(sch)
      /\ UNCHANGED <<prsem, prparent, prhasmsg, prcount, nextpid,
                     sstate, scount, squeue, nextsem, halted>>
  BY DEF signaln, begin_loop, proctab, pids, semtab
<1>3. f \in Frames /\ FrameOK(f) /\ f.at \in Looping
  BY KernelAssumption DEF At, Frames, Points, FrameOK, Looping, Sems
<1> HIDE DEF f
<1>4. RunningOK' /\ SemQueuesOK' /\ FramesOK'
  BY <1>1, <1>2, <1>3, IInvFacts, BeginsLoop
<1>5. TypeOK'
  BY <1>2, <1>3, <1>4, HandedFacts DEF IInv, TypeOK, RunningOK, Goto
<1> QED
  BY <1>4, <1>5 DEF IInv

LEMMA SemdeleteIInv ==
  ASSUME IInv, NEW s \in Sems, semdelete(s)
  PROVE  IInv'
<1> DEFINE f == At("semdelete", s, 0)
<1>1. sch.ndefers = 0
  BY Called DEF semdelete
<1>2. /\ Goto(f) /\ sch' = defer_start(sch) /\ sstate' = [sstate EXCEPT ![s] = "FREE"]
      /\ UNCHANGED <<prsem, prparent, prhasmsg, prcount, nextpid,
                     scount, squeue, nextsem, halted>>
  BY DEF semdelete, begin_loop, proctab, pids
<1>3. f \in Frames /\ FrameOK(f) /\ f.at \in Looping
  BY DEF At, Frames, Points, FrameOK, Looping, Sems
<1> HIDE DEF f
<1>4. RunningOK' /\ SemQueuesOK' /\ FramesOK'
  BY <1>1, <1>2, <1>3, IInvFacts, BeginsLoop
<1>5. TypeOK'
  BY <1>2, <1>3, <1>4, HandedFacts DEF IInv, TypeOK, RunningOK, Goto
<1> QED
  BY <1>4, <1>5 DEF IInv

LEMMA SemresetIInv ==
  ASSUME IInv, NEW s \in Sems, NEW count \in Counts, semreset(s, count)
  PROVE  IInv'
<1> DEFINE f == At("semreset", s, count)
<1>1. sch.ndefers = 0
  BY Called DEF semreset
<1>2. /\ Goto(f) /\ sch' = defer_start(sch)
      /\ UNCHANGED <<prsem, prparent, prhasmsg, prcount, nextpid,
                     sstate, scount, squeue, nextsem, halted>>
  BY DEF semreset, begin_loop, proctab, pids, semtab
<1>3. f \in Frames /\ FrameOK(f) /\ f.at \in Looping
  BY KernelAssumption DEF At, Frames, Points, FrameOK, Looping, Sems
<1> HIDE DEF f
<1>4. RunningOK' /\ SemQueuesOK' /\ FramesOK'
  BY <1>1, <1>2, <1>3, IInvFacts, BeginsLoop
<1>5. TypeOK'
  BY <1>2, <1>3, <1>4, HandedFacts DEF IInv, TypeOK, RunningOK, Goto
<1> QED
  BY <1>4, <1>5 DEF IInv

(* The end of a loop, back in user code.                                   *)
LEMMA UserFrame == User \in Frames /\ FrameOK(User) /\ User.at \notin Looping
  BY DEF User, At, Frames, Points, FrameOK, Looping

LEMMA SignalnLoopIInv ==
  ASSUME IInv, signaln_loop
  PROVE  IInv'
<1>1. /\ Here.at = "signaln" /\ Here.arg \in Sems /\ Here \in Frames
      /\ sch.ndefers = 1 /\ currpid \in Pids
  BY IInvFacts, Deferred DEF signaln_loop, inside, FrameOK, Looping
<1>2. UNCHANGED <<prsem, prparent, prhasmsg, prcount, nextpid, sstate, nextsem, halted>>
  BY DEF signaln_loop, proctab, pids
<1>3. CASE /\ Here.n > 0 /\ release_one(Here.arg)
           /\ Goto([Here EXCEPT !.n = @ - 1])
  <2> DEFINE f == [Here EXCEPT !.n = @ - 1]
  <2>1. /\ Handed /\ SemQueuesOK'
        /\ squeue' \in [Sems -> Seq(Pids)] /\ scount' \in [Sems -> Int]
    BY <1>1, <1>2, <1>3, ReleaseOne
  <2>2. f \in Frames /\ f.at = "signaln" /\ f.arg \in Sems
    BY <1>1, <1>3 DEF Frames
  <2>3. pc' = [pc EXCEPT ![currpid] = f]
    BY <1>3 DEF Goto
  <2> HIDE DEF f
  <2>4. FramesOK'
    <3>1. /\ currpid \in Pids /\ \A p \in Pids : FrameOK(pc[p])
          /\ \A p \in Pids : pc[p].at \in Looping => p = currpid
      BY IInvFacts DEF IInv, FramesOK, Here
    <3>2. \A p \in Pids : pc'[p] = IF p = currpid THEN f ELSE pc[p]
      BY <2>3 DEF IInv, TypeOK
    <3>3. FrameOK(f) /\ f.at \in Looping
      BY <2>2 DEF FrameOK, Looping
    <3>4. sch'.currpid = sch.currpid /\ sch'.ndefers = 1
      BY <1>1, <2>1 DEF Handed
    <3> QED
      BY <3>1, <3>2, <3>3, <3>4 DEF FramesOK, Here, currpid
  <2>5. TypeOK'
    BY <1>1, <1>2, <2>1, <2>2, <2>3, HandedFacts DEF IInv, TypeOK, Handed
  <2> QED
    BY <2>1, <2>4, <2>5 DEF IInv, RunningOK, Handed
<1>4. CASE Here.n = 0 /\ end_loop /\ UNCHANGED <<scount, squeue>>
  <2>1. RunningOK' /\ SemQueuesOK' /\ FramesOK'
    BY <1>1, <1>2, <1>4, UserFrame, EndsLoop DEF end_loop
  <2>2. TypeOK'
    BY <1>2, <1>4, <2>1, UserFrame, HandedFacts DEF IInv, TypeOK, RunningOK, end_loop, Goto
  <2> QED
    BY <2>1, <2>2 DEF IInv
<1> QED
  BY <1>3, <1>4 DEF signaln_loop

LEMMA SemdeleteLoopIInv ==
  ASSUME IInv, semdelete_loop
  PROVE  IInv'
<1>1. /\ Here.at = "semdelete" /\ Here.arg \in Sems /\ Here \in Frames
      /\ sch.ndefers = 1 /\ currpid \in Pids
  BY IInvFacts, Deferred DEF semdelete_loop, inside, FrameOK, Looping
<1>2. UNCHANGED <<prsem, prparent, prhasmsg, prcount, nextpid, sstate, nextsem, halted>>
  BY DEF semdelete_loop, proctab, pids
<1>3. CASE release_one(Here.arg) /\ pc' = pc
  <2>1. /\ Handed /\ SemQueuesOK'
        /\ squeue' \in [Sems -> Seq(Pids)] /\ scount' \in [Sems -> Int]
    BY <1>1, <1>2, <1>3, ReleaseOne
  <2>2. FramesOK'
    BY <1>3, <2>1, HandedFacts, FramesStay DEF Handed
  <2>3. TypeOK'
    BY <1>2, <1>3, <2>1, HandedFacts DEF IInv, TypeOK, Handed
  <2> QED
    BY <2>1, <2>2, <2>3 DEF IInv, RunningOK, Handed
<1>4. CASE /\ scount' = [scount EXCEPT ![Here.arg] = @ + 1]
           /\ end_loop /\ UNCHANGED squeue
  <2>1. RunningOK' /\ SemQueuesOK' /\ FramesOK'
    BY <1>1, <1>2, <1>4, UserFrame, EndsLoop DEF end_loop
  <2>2. scount' \in [Sems -> Int]
    BY <1>1, <1>4 DEF IInv, TypeOK
  <2>3. TypeOK'
    BY <1>2, <1>4, <2>1, <2>2, UserFrame, HandedFacts
    DEF IInv, TypeOK, RunningOK, end_loop, Goto
  <2> QED
    BY <2>1, <2>3 DEF IInv
<1> QED
  BY <1>3, <1>4 DEF semdelete_loop

LEMMA SemresetLoopIInv ==
  ASSUME IInv, semreset_loop
  PROVE  IInv'
<1>1. /\ Here.at = "semreset" /\ Here.arg \in Sems /\ Here \in Frames
      /\ sch.ndefers = 1 /\ currpid \in Pids
  BY IInvFacts, Deferred DEF semreset_loop, inside, FrameOK, Looping
<1>2. UNCHANGED <<prsem, prparent, prhasmsg, prcount, nextpid, sstate, nextsem, halted>>
  BY DEF semreset_loop, proctab, pids
<1>3. CASE /\ squeue[Here.arg] # << >>
           /\ squeue' = [squeue EXCEPT ![Here.arg] = Tail(@)]
           /\ sch'    = ready(sch, Head(squeue[Here.arg]))
           /\ UNCHANGED <<scount, pc>>
  <2>1. Handed /\ SemQueuesOK' /\ squeue' \in [Sems -> Seq(Pids)]
    BY <1>1, <1>2, <1>3, ReadyFirst
  <2>2. FramesOK'
    BY <1>3, <2>1, HandedFacts, FramesStay DEF Handed
  <2>3. TypeOK'
    BY <1>2, <1>3, <2>1, HandedFacts DEF IInv, TypeOK, Handed
  <2> QED
    BY <2>1, <2>2, <2>3 DEF IInv, RunningOK, Handed
<1>4. CASE /\ scount' = [scount EXCEPT ![Here.arg] = Here.n]
           /\ end_loop /\ UNCHANGED squeue
  <2>1. RunningOK' /\ SemQueuesOK' /\ FramesOK'
    BY <1>1, <1>2, <1>4, UserFrame, EndsLoop DEF end_loop
  <2>2. scount' \in [Sems -> Int]
    BY <1>1, <1>4 DEF IInv, TypeOK, Frames
  <2>3. TypeOK'
    BY <1>2, <1>4, <2>1, <2>2, UserFrame, HandedFacts
    DEF IInv, TypeOK, RunningOK, end_loop, Goto
  <2> QED
    BY <2>1, <2>3 DEF IInv
<1> QED
  BY <1>3, <1>4 DEF semreset_loop

-----------------------------------------------------------------------------
(* Messages and delays.                                                    *)

(* A step that moves the current process, or none, and changes nothing     *)
(* beyond the scheduler and the message flags.                             *)
LEMMA MovingStep ==
  ASSUME IInv, Handed, sch.ndefers = 0, SemQueuesOK',
         prhasmsg' \in [Pids -> BOOLEAN], prcount' \in Int, halted' \in BOOLEAN,
         UNCHANGED <<prsem, prparent, nextpid, sstate, scount, squeue, nextsem>>,
         NEW f \in Frames, FrameOK(f), f.at \notin Looping, Goto(f) \/ pc' = pc
  PROVE  IInv'
<1>1. sch'.ndefers = 0 /\ IsSched(sch') /\ sch'.currpid \in Pids
  BY HandedFacts DEF Handed
<1>2. FramesOK' /\ pc' \in [Pids -> Frames]
  <2>1. CASE Goto(f)
    BY <1>1, <2>1, FramesMove DEF Goto, IInv, TypeOK
  <2>2. CASE pc' = pc
    BY <1>1, <2>2, FramesStay DEF IInv, TypeOK
  <2> QED
    BY <2>1, <2>2
<1>3. TypeOK'
  BY <1>1, <1>2 DEF IInv, TypeOK
<1> QED
  BY <1>2, <1>3 DEF IInv, RunningOK, Handed

(* A step that leaves the scheduler alone has handed nothing over.         *)
LEMMA NothingHanded ==
  ASSUME IInv, UNCHANGED <<sch, prsem, squeue>>
  PROVE  Handed /\ SemQueuesOK'
<1>1. SameWaiters(sch, sch')
  BY DEF SameWaiters
<1> QED
  BY <1>1, IInvFacts, SemQueuesKeep DEF Handed, IInv

(* A voluntary resched.                                                    *)
LEMMA Resched ==
  ASSUME IInv, sch.ndefers = 0, sch' = resched(sch), UNCHANGED <<prsem, squeue>>
  PROVE  Handed /\ SemQueuesOK'
<1>1. SchedOK(sch') /\ OnlyTurns(sch, sch') /\ Running(sch')
  BY IInvFacts, ReschedOK
<1>2. SameWaiters(sch, sch')
  BY <1>1, TurnsKeepWaiters DEF OnlyTurns
<1> QED
  BY <1>1, <1>2, SemQueuesKeep DEF Handed, OnlyTurns, IInv

LEMMA FrameAt ==
  ASSUME NEW q \in Pids
  PROVE  /\ At("send", q, 0) \in Frames /\ FrameOK(At("send", q, 0))
         /\ At("send", q, 0).at \notin Looping
  BY SchedAssumption DEF At, Frames, Points, FrameOK, Looping, Pids

LEMMA FrameAtRest ==
  ASSUME NEW c \in {"receive", "recvtime", "clock"}
  PROVE  /\ At(c, 0, 0) \in Frames /\ FrameOK(At(c, 0, 0))
         /\ At(c, 0, 0).at \notin Looping
  BY DEF At, Frames, Points, FrameOK, Looping

LEMMA FrameAtKill ==
  ASSUME NEW q \in Pids \ {NULLPROC}, NEW r \in Pids
  PROVE  /\ At("kill", q, 0) \in Frames /\ FrameOK(At("kill", q, 0))
         /\ At("kill", q, 0).at \notin Looping
         /\ At("killsend", q, r) \in Frames /\ FrameOK(At("killsend", q, r))
         /\ At("killsend", q, r).at \notin Looping
  BY SchedAssumption DEF At, Frames, Points, FrameOK, Looping, Pids

LEMMA BooleansStay ==
  ASSUME IInv
  PROVE  /\ halted' = halted => halted' \in BOOLEAN
         /\ prcount' = prcount => prcount' \in Int
         /\ prhasmsg' = prhasmsg => prhasmsg' \in [Pids -> BOOLEAN]
         /\ take_message => prhasmsg' \in [Pids -> BOOLEAN]
  BY DEF IInv, TypeOK, take_message

LEMMA SendIInv ==
  ASSUME IInv, NEW q \in Pids, send(q)
  PROVE  IInv'
<1>1. sch.ndefers = 0
  BY Called DEF send
<1>2. UNCHANGED <<prsem, prparent, prcount, nextpid,
                  sstate, scount, squeue, nextsem, halted>>
  BY DEF send, pids, semtab
<1>3. CASE deliver(q) /\ pc' = pc
  BY <1>1, <1>2, <1>3, Deliver, UserFrame, BooleansStay, MovingStep
<1>4. CASE Goto(At("send", q, 0)) /\ UNCHANGED <<sch, prhasmsg>>
  BY <1>1, <1>2, <1>4, NothingHanded, FrameAt, BooleansStay, MovingStep
<1> QED
  BY <1>3, <1>4 DEF send

LEMMA SendLoopIInv ==
  ASSUME IInv, send_loop
  PROVE  IInv'
<1>1. Here.at = "send" /\ Here.arg \in Pids /\ sch.ndefers = 0
  BY IInvFacts, NotDeferred DEF send_loop, inside, FrameOK, Looping
<1>2. UNCHANGED <<prsem, prparent, prcount, nextpid,
                  sstate, scount, squeue, nextsem, halted>>
  BY DEF send_loop, pids, semtab
<1>3. CASE sch' = resched(sch) /\ UNCHANGED <<prhasmsg, pc>>
  BY <1>1, <1>2, <1>3, Resched, UserFrame, BooleansStay, MovingStep
<1>4. CASE deliver(Here.arg) /\ Goto(User)
  BY <1>1, <1>2, <1>4, Deliver, UserFrame, BooleansStay, MovingStep
<1> QED
  BY <1>3, <1>4 DEF send_loop

LEMMA ReceiveIInv ==
  ASSUME IInv, receive
  PROVE  IInv'
<1>1. sch.ndefers = 0 /\ currpid # NULLPROC
  BY Called DEF receive
<1>2. UNCHANGED <<prsem, prparent, prcount, nextpid,
                  sstate, scount, squeue, nextsem, halted>>
  BY DEF receive, pids, semtab
<1>3. CASE take_message /\ UNCHANGED <<sch, pc>>
  BY <1>1, <1>2, <1>3, NothingHanded, UserFrame, BooleansStay, MovingStep
<1>4. CASE /\ sch' = block(sch, "RECV") /\ Goto(At("receive", 0, 0))
           /\ UNCHANGED prhasmsg
  BY <1>1, <1>2, <1>4, Blocks, FrameAtRest, BooleansStay, MovingStep
<1> QED
  BY <1>3, <1>4 DEF receive

LEMMA RecvtimeIInv ==
  ASSUME IInv, NEW d \in Delays, recvtime(d)
  PROVE  IInv'
<1>1. sch.ndefers = 0 /\ currpid # NULLPROC
  BY Called DEF recvtime
<1>2. UNCHANGED <<prsem, prparent, prcount, nextpid,
                  sstate, scount, squeue, nextsem, halted>>
  BY DEF recvtime, pids, semtab
<1>3. CASE take_message /\ UNCHANGED <<sch, pc>>
  BY <1>1, <1>2, <1>3, NothingHanded, UserFrame, BooleansStay, MovingStep
<1>4. CASE /\ sch' = delay(sch, d, "RECTIM") /\ Goto(At("recvtime", 0, 0))
           /\ UNCHANGED prhasmsg
  <2>1. "RECTIM" \in Delayed
    BY DEF Delayed
  <2> QED
    BY <1>1, <1>2, <1>4, <2>1, GoesToSleep, FrameAtRest, BooleansStay, MovingStep
<1> QED
  BY <1>3, <1>4 DEF recvtime

LEMMA ReceiveRestIInv ==
  ASSUME IInv, receive_rest
  PROVE  IInv'
<1>1. sch.ndefers = 0
  BY NotDeferred DEF receive_rest, inside, Looping
<1>2. /\ UNCHANGED <<sch, prsem, prparent, prcount, nextpid,
                     sstate, scount, squeue, nextsem, halted>>
      /\ take_message /\ Goto(User)
  BY DEF receive_rest, pids, semtab
<1> QED
  BY <1>1, <1>2, NothingHanded, UserFrame, BooleansStay, MovingStep

LEMMA RecvclrIInv ==
  ASSUME IInv, recvclr
  PROVE  IInv'
<1>1. sch.ndefers = 0
  BY Called DEF recvclr
<1>2. /\ UNCHANGED <<sch, prsem, prparent, prcount, nextpid,
                     sstate, scount, squeue, nextsem, pc, halted>>
      /\ take_message
  BY DEF recvclr, pids, semtab
<1> QED
  BY <1>1, <1>2, NothingHanded, UserFrame, BooleansStay, MovingStep

LEMMA YieldIInv ==
  ASSUME IInv, yield
  PROVE  IInv'
<1>1. sch.ndefers = 0
  BY Called DEF yield
<1>2. /\ UNCHANGED <<prsem, prparent, prhasmsg, prcount, nextpid,
                     sstate, scount, squeue, nextsem, pc, halted>>
      /\ sch' = resched(sch)
  BY DEF yield, proctab, pids, semtab
<1> QED
  BY <1>1, <1>2, Resched, UserFrame, BooleansStay, MovingStep

LEMMA SleepmsIInv ==
  ASSUME IInv, NEW d \in Delays, sleepms(d)
  PROVE  IInv'
<1>1. sch.ndefers = 0 /\ currpid # NULLPROC
  BY Called DEF sleepms
<1>2. /\ UNCHANGED <<prsem, prparent, prhasmsg, prcount, nextpid,
                     sstate, scount, squeue, nextsem, pc, halted>>
      /\ sch' = delay(sch, d, "SLEEP") /\ "SLEEP" \in Delayed
  BY DEF sleepms, proctab, pids, semtab, Delayed
<1> QED
  BY <1>1, <1>2, GoesToSleep, UserFrame, BooleansStay, MovingStep

-----------------------------------------------------------------------------
(* The clock.                                                              *)

LEMMA EndsTick ==
  ASSUME IInv, sch.ndefers = 0, NEW S, SchedOK(S), S.prstate = sch.prstate,
         S.currpid = sch.currpid, S.ndefers = 0, sch' = end_of_tick(S),
         UNCHANGED <<prsem, squeue>>
  PROVE  Handed /\ SemQueuesOK'
<1>1. Running(S)
  BY IInvFacts DEF Running
<1>2. SchedOK(sch') /\ Turns({}, S, sch') /\ Running(sch') /\ sch'.ndefers = 0
  BY <1>1, EndOfTickOK
<1>3. SameWaiters(S, sch')
  BY <1>2, TurnsKeepWaiters
<1>4. SameWaiters(sch, sch')
  BY <1>3 DEF SameWaiters
<1> QED
  BY <1>2, <1>4, SemQueuesKeep DEF Handed, IInv

LEMMA ClkhandlerIInv ==
  ASSUME IInv, clkhandler
  PROVE  IInv'
<1> DEFINE S == IF sch.sleepq = << >> THEN sch
                ELSE [sch EXCEPT !.qkey[Head(sch.sleepq)] = @ - 1]
           f == At("wakeup", 0, 0)
<1>1. Here = User /\ sch.ndefers = 0
  <2>1. Here = User
    BY DEF clkhandler
  <2> QED
    BY <2>1, UserFrame, NotDeferred
<1>2. /\ UNCHANGED <<prsem, prparent, prhasmsg, prcount, nextpid,
                     sstate, scount, squeue, nextsem, halted>>
      /\ \/ sch' = defer_start(S) /\ Goto(f)
         \/ sch' = end_of_tick(S) /\ pc' = pc
  BY DEF clkhandler, proctab, pids, semtab
<1>3. SchedOK(S) /\ S.prstate = sch.prstate /\ S.currpid = sch.currpid /\ S.ndefers = 0
  <2>1. CASE sch.sleepq = << >>
    BY <1>1, <2>1, IInvFacts
  <2>2. CASE sch.sleepq # << >>
    <3> DEFINE T == [sch EXCEPT !.qkey[Head(sch.sleepq)] = @ - 1]
    <3>1. /\ SchedOK(T) /\ T.ndefers = sch.ndefers /\ T.prstate = sch.prstate
          /\ T.currpid = sch.currpid
      BY <2>2, IInvFacts, TickOK
    <3>2. S = T
      BY <2>2
    <3> HIDE DEF S, T
    <3> QED
      BY <1>1, <3>1, <3>2
  <2> QED
    BY <2>1, <2>2
<1> HIDE DEF S
<1>4. CASE sch' = defer_start(S) /\ Goto(f)
  <2>1. f \in Frames /\ FrameOK(f) /\ f.at \in Looping
    BY DEF At, Frames, Points, FrameOK, Looping
  <2> HIDE DEF f
  <2>2. RunningOK' /\ SemQueuesOK' /\ FramesOK'
    BY <1>1, <1>2, <1>3, <1>4, <2>1, BeginsLoop
  <2>3. TypeOK'
    BY <1>2, <1>4, <2>1, <2>2, HandedFacts DEF IInv, TypeOK, RunningOK, Goto
  <2> QED
    BY <2>2, <2>3 DEF IInv
<1>5. CASE sch' = end_of_tick(S) /\ pc' = pc
  <2>1. Handed /\ SemQueuesOK'
    BY <1>1, <1>2, <1>3, <1>5, EndsTick
  <2> QED
    BY <1>1, <1>2, <1>5, <2>1, UserFrame, BooleansStay, MovingStep
<1> QED
  BY <1>2, <1>4, <1>5

LEMMA WakeupIInv ==
  ASSUME IInv, wakeup
  PROVE  IInv'
<1>1. Here.at = "wakeup" /\ sch.ndefers = 1
  BY Deferred DEF wakeup, inside, Looping
<1>2. UNCHANGED <<prsem, prparent, prhasmsg, prcount, nextpid,
                  sstate, scount, squeue, nextsem, halted>>
  BY DEF wakeup, proctab, pids, semtab
<1>3. CASE /\ sch.sleepq # << >> /\ pc' = pc
           /\ sch' = ready([sch EXCEPT !.sleepq = Tail(@)], Head(sch.sleepq))
  <2> DEFINE S == [sch EXCEPT !.sleepq = Tail(sch.sleepq)]
             p == Head(sch.sleepq)
  <2>1. /\ p \in Pids /\ sch.prstate[p] \in Delayed
        /\ Parked(S, p) /\ S.prstate = sch.prstate
        /\ S.currpid = sch.currpid /\ S.ndefers = sch.ndefers
    BY <1>3, IInvFacts, FirstParks
  <2>2. sch' = ready(S, p)
    BY <1>3
  <2> HIDE DEF S, p
  <2>3. Running(S)
    BY <2>1, IInvFacts DEF Running
  <2>4. /\ SchedOK(sch') /\ Turns({p}, S, sch') /\ sch'.ndefers = sch.ndefers
        /\ sch'.prstate[p] \in Eligible /\ Running(sch')
        /\ sch.ndefers > 0 => sch'.currpid = sch.currpid
    BY <2>1, <2>2, <2>3, ReadyOK
  <2>5. SameWaiters(S, sch')
    BY <2>1, <2>4, TurnsKeepWaiters DEF Eligible, Delayed
  <2>6. SameWaiters(sch, sch')
    BY <2>1, <2>5 DEF SameWaiters
  <2>7. SemQueuesOK'
    BY <1>2, <2>6, SemQueuesKeep DEF IInv
  <2>8. FramesOK'
    BY <1>3, <2>4, HandedFacts, FramesStay
  <2>9. TypeOK'
    BY <1>2, <1>3, <2>4, HandedFacts DEF IInv, TypeOK
  <2> QED
    BY <2>4, <2>7, <2>8, <2>9 DEF IInv, RunningOK
<1>4. CASE sch' = defer_stop(sch) /\ Goto(At("clock", 0, 0))
  <2>1. LET f == At("clock", 0, 0) IN f \in Frames /\ FrameOK(f) /\ f.at \notin Looping
    BY FrameAtRest
  <2>2. RunningOK' /\ SemQueuesOK' /\ FramesOK'
    BY <1>1, <1>2, <1>4, <2>1, EndsLoop
  <2>3. TypeOK'
    BY <1>2, <1>4, <2>1, <2>2, HandedFacts DEF IInv, TypeOK, RunningOK, Goto
  <2> QED
    BY <2>2, <2>3 DEF IInv
<1> QED
  BY <1>3, <1>4 DEF wakeup

LEMMA ClkhandlerRestIInv ==
  ASSUME IInv, clkhandler_rest
  PROVE  IInv'
<1>1. sch.ndefers = 0
  BY NotDeferred DEF clkhandler_rest, inside, Looping
<1>2. /\ UNCHANGED <<prsem, prparent, prhasmsg, prcount, nextpid,
                     sstate, scount, squeue, nextsem, halted>>
      /\ sch' = end_of_tick(sch) /\ Goto(User)
  BY DEF clkhandler_rest, proctab, pids, semtab
<1> QED
  BY <1>1, <1>2, IInvFacts, EndsTick, UserFrame, BooleansStay, MovingStep

-----------------------------------------------------------------------------
(* Processes.                                                              *)

LEMMA CreateIInv ==
  ASSUME IInv, NEW pr \in Prios, create(pr)
  PROVE  IInv'
<1> DEFINE free == {p \in Pids : prstate[p] = "FREE"}
           pid  == next_free(nextpid, NPROC, free)
<1>1. pid \in Pids /\ prstate[pid] = "FREE"
  <2>1. free \in SUBSET Pids /\ free # {}
    BY DEF create
  <2>2. nextpid \in Pids
    BY DEF IInv, TypeOK
  <2> HIDE DEF free
  <2>3. pid \in free
    BY <2>1, <2>2, NextFree, SchedAssumption DEF Pids
  <2> QED
    BY <2>3 DEF free
<1>2. /\ nextpid' = (pid + 1) % NPROC /\ sch.ndefers = 0 /\ currpid # NULLPROC
      /\ UNCHANGED <<sstate, scount, squeue, nextsem, halted>>
  BY Called DEF create, semtab
<1>3. nextpid' \in Pids
  BY <1>1, <1>2, SchedAssumption DEF Pids
<1>4. CASE /\ prcount'  = prcount + 1
           /\ sch'      = [sch EXCEPT !.prstate[pid] = "SUSP", !.prprio[pid] = pr]
           /\ prsem'    = [prsem EXCEPT ![pid] = -1]
           /\ prparent' = [prparent EXCEPT ![pid] = currpid]
           /\ prhasmsg' = [prhasmsg EXCEPT ![pid] = FALSE]
           /\ pc'       = [pc EXCEPT ![pid] = User]
  <2> DEFINE R == [sch EXCEPT !.prstate[pid] = "SUSP"]
  <2>0. sch' = [R EXCEPT !.prprio[pid] = pr]
    BY <1>4
  <2> HIDE DEF pid
  <2>1. /\ SchedOK(R) /\ Turns({pid}, sch, R) /\ R.prstate[pid] = "SUSP"
        /\ Running(R) /\ R.currpid = sch.currpid /\ R.ndefers = sch.ndefers
    <3>1. Parked(sch, pid)
      BY <1>1, IInvFacts, IdleIsParked DEF prstate, Idle
    <3>2. "SUSP" \in Idle /\ Running(sch)
      BY IInvFacts DEF Idle
    <3> QED
      BY <1>1, <3>1, <3>2, SetIdleOK
  <2> HIDE DEF R
  <2>2. /\ SchedOK(sch') /\ sch'.prstate = R.prstate
        /\ sch'.currpid = sch.currpid /\ sch'.ndefers = sch.ndefers
    BY <1>1, <2>0, <2>1, SetPrioOK, KernelAssumption
  <2>3. Running(sch')
    BY <2>1, <2>2 DEF Running
  <2>4. SameWaiters(sch, sch')
    <3>1. SameWaiters(sch, R)
      BY <1>1, <2>1, TurnsKeepWaiters DEF prstate
    <3> QED
      BY <2>2, <3>1 DEF SameWaiters
  <2>5. SemQueuesOK'
    <3>1. \A p \in Pids : prsem'[p] = IF p = pid THEN -1 ELSE prsem[p]
      BY <1>4 DEF IInv, TypeOK
    <3>2. prstate[pid] # "WAIT" /\ sch'.prstate[pid] # "WAIT"
      BY <1>1, <2>1, <2>2
    <3> QED
      BY <1>2, <2>4, <3>1, <3>2 DEF IInv, SemQueuesOK, SameWaiters, prstate
  <2>6. FramesOK'
    <3>1. pid # currpid
      BY <1>1, IInvFacts
    <3>2. \A p \in Pids : pc'[p] = IF p = pid THEN User ELSE pc[p]
      BY <1>4 DEF IInv, TypeOK
    <3> QED
      BY <2>2, <3>1, <3>2, UserFrame, IInvFacts DEF IInv, FramesOK, Here, currpid
  <2>7. TypeOK'
    <3>1. IsSched(sch') /\ currpid \in Pids
      BY <2>2, HandedFacts, IInvFacts
    <3>2. prsem' \in [Pids -> Sems \cup {-1, 0}]
      BY <1>4 DEF IInv, TypeOK
    <3>3. prparent' \in [Pids -> Pids] /\ prhasmsg' \in [Pids -> BOOLEAN]
      BY <1>4, <3>1 DEF IInv, TypeOK
    <3>4. prcount' \in Int
      BY <1>4 DEF IInv, TypeOK
    <3>5. pc' \in [Pids -> Frames]
      BY <1>4, UserFrame DEF IInv, TypeOK
    <3> QED
      BY <1>2, <1>3, <3>1, <3>2, <3>3, <3>4, <3>5 DEF IInv, TypeOK
  <2> QED
    BY <2>2, <2>3, <2>5, <2>6, <2>7 DEF IInv, RunningOK
<1>5. CASE UNCHANGED <<prcount, sch, prsem, prparent, prhasmsg, pc>>
  <2>1. TypeOK'
    BY <1>2, <1>3, <1>5 DEF IInv, TypeOK
  <2>2. Handed /\ SemQueuesOK'
    BY <1>2, <1>5, NothingHanded
  <2>3. FramesOK'
    BY <1>5 DEF IInv, FramesOK, Here, currpid
  <2> QED
    BY <2>1, <2>2, <2>3 DEF IInv, RunningOK, Handed
<1> QED
  BY <1>4, <1>5 DEF create, proctab

LEMMA SuspendIInv ==
  ASSUME IInv, NEW q \in Pids, suspend(q)
  PROVE  IInv'
<1>1. sch.ndefers = 0 /\ currpid # NULLPROC /\ q # NULLPROC
  BY Called DEF suspend
<1>2. UNCHANGED <<prsem, prparent, prhasmsg, prcount, nextpid,
                  sstate, scount, squeue, nextsem, pc, halted>>
  BY DEF suspend, proctab, pids, semtab
<1>3. CASE /\ prstate[q] = "READY"
           /\ sch' = [sch EXCEPT !.readylist = getitem(@, q), !.prstate[q] = "SUSP"]
  <2> DEFINE T == [sch EXCEPT !.readylist = getitem(sch.readylist, q),
                              !.prstate   = [sch.prstate EXCEPT ![q] = "SUSP"]]
  <2>1. sch' = T
    BY <1>3
  <2>2. /\ SchedOK(T) /\ Turns({q}, sch, T) /\ T.prstate[q] = "SUSP"
        /\ Running(T) /\ T.currpid = sch.currpid /\ T.ndefers = sch.ndefers
    <3>1. "SUSP" \in Idle /\ SchedOK(sch) /\ Running(sch)
      BY IInvFacts DEF Idle
    <3> QED
      BY <1>1, <1>3, <3>1, LeaveReadyOK, ZenonT(30) DEF prstate
  <2> HIDE DEF T
  <2>3. SameWaiters(sch, sch')
    BY <1>3, <2>1, <2>2, TurnsKeepWaiters DEF prstate
  <2>4. Handed /\ SemQueuesOK'
    BY <1>2, <2>1, <2>2, <2>3, SemQueuesKeep DEF Handed, IInv
  <2> QED
    BY <1>1, <1>2, <2>4, UserFrame, BooleansStay, MovingStep
<1>4. CASE sch' = block(sch, "SUSP")
  BY <1>1, <1>2, <1>4, Blocks, UserFrame, BooleansStay, MovingStep
<1> QED
  BY <1>3, <1>4 DEF suspend

LEMMA ResumeIInv ==
  ASSUME IInv, NEW q \in Pids, resume(q)
  PROVE  IInv'
<1>1. sch.ndefers = 0 /\ prstate[q] = "SUSP" /\ sch' = ready(sch, q)
  BY Called DEF resume
<1>2. UNCHANGED <<prsem, prparent, prhasmsg, prcount, nextpid,
                  sstate, scount, squeue, nextsem, pc, halted>>
  BY DEF resume, proctab, pids, semtab
<1>3. Parked(sch, q) /\ Running(sch)
  BY <1>1, IInvFacts, IdleIsParked DEF prstate, Idle
<1>4. /\ SchedOK(sch') /\ Turns({q}, sch, sch') /\ sch'.ndefers = sch.ndefers
      /\ sch'.prstate[q] \in Eligible /\ Running(sch')
  BY <1>1, <1>3, ReadyOK
<1>5. SameWaiters(sch, sch')
  BY <1>1, <1>4, TurnsKeepWaiters DEF Eligible, prstate
<1>6. Handed /\ SemQueuesOK'
  BY <1>1, <1>2, <1>4, <1>5, SemQueuesKeep DEF Handed, IInv
<1> QED
  BY <1>1, <1>2, <1>6, UserFrame, BooleansStay, MovingStep

LEMMA ChprioIInv ==
  ASSUME IInv, NEW q \in Pids, NEW pr \in Prios, chprio(q, pr)
  PROVE  IInv'
<1>1. sch.ndefers = 0 /\ sch' = [sch EXCEPT !.prprio[q] = pr]
  BY Called DEF chprio
<1>2. UNCHANGED <<prsem, prparent, prhasmsg, prcount, nextpid,
                  sstate, scount, squeue, nextsem, pc, halted>>
  BY DEF chprio, proctab, pids, semtab
<1>a. SchedOK(sch) /\ pr \in Nat
  BY IInvFacts, KernelAssumption
<1>3. /\ SchedOK(sch') /\ sch'.prstate = sch.prstate
      /\ sch'.currpid = sch.currpid /\ sch'.ndefers = sch.ndefers
  BY <1>1, <1>a, SetPrioOK
<1>4. Running(sch')
  BY <1>3, IInvFacts DEF Running
<1>5. SameWaiters(sch, sch')
  BY <1>3 DEF SameWaiters
<1>6. Handed /\ SemQueuesOK'
  BY <1>1, <1>2, <1>3, <1>4, <1>5, SemQueuesKeep DEF Handed, IInv
<1> QED
  BY <1>1, <1>2, <1>6, UserFrame, BooleansStay, MovingStep

LEMMA KillIInv ==
  ASSUME IInv, NEW q \in Pids, kill(q)
  PROVE  IInv'
<1> DEFINE parent == prparent[q]
<1>1. sch.ndefers = 0 /\ q \in Pids \ {NULLPROC} /\ parent \in Pids
  BY Called DEF kill, IInv, TypeOK
<1>2. UNCHANGED <<prsem, prparent, nextpid, sstate, scount, squeue, nextsem>>
  BY DEF kill, semtab
<1>3. prcount' \in Int
  BY DEF kill, IInv, TypeOK
<1>4. CASE halted' = TRUE /\ UNCHANGED <<sch, prhasmsg, pc>>
  <2>1. halted' \in BOOLEAN
    BY <1>4
  <2> QED
    BY <1>1, <1>2, <1>3, <1>4, <2>1, NothingHanded, UserFrame, BooleansStay, MovingStep
<1>5. CASE deliver(parent) /\ Goto(At("kill", q, 0)) /\ halted' = halted
  BY <1>1, <1>2, <1>3, <1>5, Deliver, FrameAtKill, BooleansStay, MovingStep
<1>6. CASE Goto(At("killsend", q, parent)) /\ UNCHANGED <<sch, prhasmsg, halted>>
  BY <1>1, <1>2, <1>3, <1>6, NothingHanded, FrameAtKill, BooleansStay, MovingStep
<1>7. CASE Goto(At("kill", q, 0)) /\ UNCHANGED <<sch, prhasmsg, halted>>
  BY <1>1, <1>2, <1>3, <1>7, NothingHanded, FrameAtKill, BooleansStay, MovingStep
<1> QED
  BY <1>4, <1>5, <1>6, <1>7 DEF kill

LEMMA KillsendLoopIInv ==
  ASSUME IInv, killsend_loop
  PROVE  IInv'
<1>1. /\ Here.arg \in Pids \ {NULLPROC} /\ Here.n \in Pids /\ sch.ndefers = 0
  BY IInvFacts, NotDeferred DEF killsend_loop, inside, FrameOK, Looping
<1>2. UNCHANGED <<prsem, prparent, prcount, nextpid,
                  sstate, scount, squeue, nextsem, halted>>
  BY DEF killsend_loop, pids, semtab
<1>3. CASE sch' = resched(sch) /\ UNCHANGED <<prhasmsg, pc>>
  BY <1>1, <1>2, <1>3, Resched, UserFrame, BooleansStay, MovingStep
<1>4. CASE deliver(Here.n) /\ Goto(At("kill", Here.arg, 0))
  BY <1>1, <1>2, <1>4, Deliver, FrameAtKill, BooleansStay, MovingStep
<1> QED
  BY <1>3, <1>4 DEF killsend_loop

(* The end of kill: its victim, off every queue, gets the state FREE.      *)
LEMMA Frees ==
  ASSUME IInv, NEW q \in Pids, NEW S, Parked(S, q), S.prstate = sch.prstate,
         S.currpid = sch.currpid, S.ndefers = sch.ndefers,
         sch' = [S EXCEPT !.prstate[q] = "FREE"]
  PROVE  Handed /\ Turns({q}, sch, sch') /\ sch'.prstate[q] = "FREE"
<1>1. Running(S) /\ "FREE" \in Idle
  BY IInvFacts DEF Running, Idle
<1>2. /\ SchedOK(sch') /\ Turns({q}, S, sch') /\ sch'.prstate[q] = "FREE"
      /\ Running(sch') /\ sch'.currpid = S.currpid /\ sch'.ndefers = S.ndefers
  BY <1>1, SetIdleOK
<1>3. Turns({q}, sch, sch')
  BY <1>2 DEF Turns
<1> QED
  BY <1>2, <1>3 DEF Handed

LEMMA KillRestIInv ==
  ASSUME IInv, kill_rest
  PROVE  IInv'
<1> DEFINE q == Here.arg
           s == prsem[q]
<1>1. q \in Pids /\ q # NULLPROC /\ sch.ndefers = 0
  BY IInvFacts, NotDeferred DEF kill_rest, inside, FrameOK, Looping
<1>2. /\ UNCHANGED <<prsem, prparent, prhasmsg, prcount, nextpid,
                     sstate, nextsem, halted>>
      /\ pc' = [pc EXCEPT ![currpid] = User, ![q] = User]
  BY DEF kill_rest, proctab, pids
<1>3. SUFFICES Handed /\ SemQueuesOK' /\ squeue' \in [Sems -> Seq(Pids)]
               /\ scount' \in [Sems -> Int]
  <2>1. SchedOK(sch') /\ sch'.ndefers = 0 /\ sch'.currpid \in Pids /\ IsSched(sch')
    BY <1>1, <1>3, HandedFacts DEF Handed
  <2>2. pc' \in [Pids -> Frames]
    BY <1>2, UserFrame DEF IInv, TypeOK
  <2>3. \A p \in Pids : pc'[p] = User \/ (pc'[p] = pc[p] /\ p # currpid)
    BY <1>2 DEF IInv, TypeOK
  <2>4. FramesOK'
    <3>1. \A p \in Pids : FrameOK(pc'[p]) /\ pc'[p].at \notin Looping
      BY <2>3, UserFrame DEF IInv, FramesOK
    <3> QED
      BY <2>1, <3>1 DEF FramesOK, Here, currpid
  <2>5. TypeOK'
    BY <1>2, <1>3, <2>1, <2>2 DEF IInv, TypeOK
  <2> QED
    BY <1>3, <2>4, <2>5 DEF IInv, RunningOK, Handed
<1> HIDE DEF q
<1>4. ASSUME NEW S, Parked(S, q), S.prstate = sch.prstate, S.currpid = sch.currpid,
             S.ndefers = sch.ndefers, prstate[q] # "WAIT",
             sch' = [S EXCEPT !.prstate[q] = "FREE"], UNCHANGED <<scount, squeue>>
      PROVE  Handed /\ SemQueuesOK' /\ squeue' \in [Sems -> Seq(Pids)]
             /\ scount' \in [Sems -> Int]
  <2>1. Handed /\ Turns({q}, sch, sch') /\ sch'.prstate[q] = "FREE"
    BY <1>1, <1>4, Frees
  <2>2. sch.prstate[q] # "WAIT" /\ sch'.prstate[q] # "WAIT"
    BY <1>4, <2>1 DEF prstate
  <2>3. SameWaiters(sch, sch')
    BY <2>1, <2>2, TurnsKeepWaiters
  <2> QED
    BY <1>2, <1>4, <2>1, <2>3, SemQueuesKeep DEF IInv, TypeOK
<1>5. CASE /\ prstate[q] = "CURR" /\ sch' = block(sch, "FREE")
           /\ UNCHANGED <<scount, squeue>>
  <2>1. q = currpid
    BY <1>1, <1>5, IInvFacts DEF SchedOK, Coherent, prstate, currpid
  <2>2. Handed /\ SemQueuesOK'
    BY <1>1, <1>2, <1>5, <2>1, Blocks
  <2> QED
    BY <1>5, <2>2 DEF IInv, TypeOK
<1>6. CASE /\ prstate[q] \in Delayed /\ UNCHANGED <<scount, squeue>>
           /\ sch' = [unsleep(sch, q) EXCEPT !.prstate[q] = "FREE"]
  <2> DEFINE S == unsleep(sch, q)
  <2>1. /\ Parked(S, q) /\ S.prstate = sch.prstate
        /\ S.currpid = sch.currpid /\ S.ndefers = sch.ndefers
    BY <1>1, <1>6, IInvFacts, UnsleepParks DEF prstate
  <2>2. sch' = [S EXCEPT !.prstate[q] = "FREE"] /\ prstate[q] # "WAIT"
    BY <1>6 DEF Delayed
  <2> HIDE DEF S
  <2> QED
    BY <1>4, <1>6, <2>1, <2>2
<1>7. CASE /\ prstate[q] = "WAIT"
           /\ scount' = [scount EXCEPT ![s] = @ + 1]
           /\ squeue' = [squeue EXCEPT ![s] = getitem(@, q)]
           /\ sch' = [sch EXCEPT !.prstate[q] = "FREE"]
  <2>1. s \in Sems /\ q \in ToSet(squeue[s]) /\ squeue[s] \in Seq(Pids) /\ IsInjective(squeue[s])
    BY <1>1, <1>7 DEF IInv, SemQueuesOK, TypeOK
  <2> DEFINE r == getitem(squeue[s], q)
  <2>2. r \in Seq(Pids) /\ IsInjective(r) /\ ToSet(r) = ToSet(squeue[s]) \ {q}
    BY <2>1, GetitemLeaves
  <2>3. squeue' = [squeue EXCEPT ![s] = r]
    BY <1>7
  <2> HIDE DEF r
  <2>4. Handed /\ Turns({q}, sch, sch') /\ sch'.prstate[q] = "FREE"
    <3>1. Parked(sch, q)
      BY <1>1, <1>7, IInvFacts, IdleIsParked DEF prstate, Idle
    <3> QED
      BY <1>1, <1>7, <3>1, Frees
  <2>5. squeue' \in [Sems -> Seq(Pids)]
    BY <2>1, <2>2, <2>3 DEF IInv, TypeOK
  <2>6. scount' \in [Sems -> Int]
    BY <1>7, <2>1 DEF IInv, TypeOK
  <2>7. SemQueuesOK'
    <3>1. \A t \in Sems : squeue'[t] = IF t = s THEN r ELSE squeue[t]
      BY <2>3 DEF IInv, TypeOK
    <3>2. \A p \in Pids : sch'.prstate[p] = "WAIT" <=> prstate[p] = "WAIT" /\ p # q
      BY <2>4 DEF Turns, Eligible, prstate
    <3> QED
      BY <1>1, <1>2, <2>1, <2>2, <3>1, <3>2 DEF IInv, SemQueuesOK, prstate
  <2> QED
    BY <2>4, <2>5, <2>6, <2>7
<1>8. CASE /\ prstate[q] = "READY" /\ UNCHANGED <<scount, squeue>>
           /\ sch' = [[sch EXCEPT !.readylist = getitem(@, q)] EXCEPT !.prstate[q] = "FREE"]
  <2> DEFINE T == [sch EXCEPT !.readylist = getitem(sch.readylist, q),
                              !.prstate   = [sch.prstate EXCEPT ![q] = "FREE"]]
  <2>1. sch' = T
    BY <1>8
  <2>2. /\ SchedOK(T) /\ Turns({q}, sch, T) /\ T.prstate[q] = "FREE"
        /\ Running(T) /\ T.currpid = sch.currpid /\ T.ndefers = sch.ndefers
    <3>1. "FREE" \in Idle /\ SchedOK(sch) /\ Running(sch)
      BY IInvFacts DEF Idle
    <3> QED
      BY <1>1, <1>8, <3>1, LeaveReadyOK DEF prstate
  <2> HIDE DEF T
  <2>3. SameWaiters(sch, sch')
    BY <1>8, <2>1, <2>2, TurnsKeepWaiters DEF prstate
  <2> QED
    BY <1>2, <1>8, <2>1, <2>2, <2>3, SemQueuesKeep DEF Handed, IInv, TypeOK
<1>9. CASE /\ prstate[q] \in {"RECV", "SUSP", "FREE"} /\ UNCHANGED <<scount, squeue>>
           /\ sch' = [sch EXCEPT !.prstate[q] = "FREE"]
  <2>1. Parked(sch, q) /\ prstate[q] # "WAIT"
    BY <1>1, <1>9, IInvFacts, IdleIsParked DEF prstate, Idle
  <2> QED
    BY <1>4, <1>9, <2>1
<1> QED
  BY <1>5, <1>6, <1>7, <1>8, <1>9 DEF kill_rest, leave_semaphore, q

-----------------------------------------------------------------------------
(* The invariant holds in every state of every behaviour.                  *)

LEMMA NextIInv == IInv /\ [Next]_vars => IInv'
<1> SUFFICES ASSUME IInv, [Next]_vars PROVE IInv'
  OBVIOUS
<1>1. CASE SemaphoreCall
  BY <1>1, SemcreateIInv, WaitIInv, SignalIInv, SemdeleteIInv, SignalnIInv, SemresetIInv
  DEF SemaphoreCall
<1>2. CASE MessageCall
  BY <1>2, SendIInv, ReceiveIInv, RecvclrIInv, RecvtimeIInv DEF MessageCall
<1>3. CASE ProcessCall
  BY <1>3, CreateIInv, SuspendIInv, ResumeIInv, KillIInv, ChprioIInv, YieldIInv, SleepmsIInv
  DEF ProcessCall
<1>4. CASE RestOfCall
  BY <1>4, SignalnLoopIInv, SemdeleteLoopIInv, SemresetLoopIInv, SendLoopIInv,
     ReceiveRestIInv, KillsendLoopIInv, KillRestIInv, WakeupIInv, ClkhandlerRestIInv
  DEF RestOfCall
<1>5. CASE clkhandler
  BY <1>5, ClkhandlerIInv
<1>6. CASE UNCHANGED vars
  BY <1>6 DEF vars, proctab, pids, semtab, IInv, TypeOK, RunningOK, SemQueuesOK, FramesOK,
              Here, currpid, prstate
<1> QED
  BY <1>1, <1>2, <1>3, <1>4, <1>5, <1>6 DEF Next

THEOREM SpecIInv == Spec => []IInv
  BY InitIInv, NextIInv, PTL DEF Spec

(* Types; with them, that no dispatch finds the ready list empty and that  *)
(* the time slice of the running process never reaches zero.               *)
THEOREM SpecTypeOK == Spec => []TypeOK
<1>1. IInv => TypeOK
  BY DEF IInv
<1> QED
  BY <1>1, SpecIInv, PTL

(* Every process is on the queue its state names, once, and on no other.   *)
THEOREM SpecQueuesMatchStates == Spec => []QueuesMatchStates
<1>1. IInv => QueuesMatchStates
  <2> SUFFICES ASSUME IInv PROVE QueuesMatchStates
    OBVIOUS
  <2>1. \A p \in Pids : prstate[p] = "CURR" <=> p = currpid
    BY IInvFacts DEF SchedOK, Coherent, prstate, currpid
  <2> QED
    BY <2>1 DEF IInv, RunningOK, SchedOK, Coherent, SemQueuesOK, QueuesMatchStates,
                prstate, Delayed
<1> QED
  BY <1>1, SpecIInv, PTL

-----------------------------------------------------------------------------
(***************************************************************************)
(* Counts and queues of the semaphores: CountsMatchQueues holds in every   *)
(* state, for every size of the tables and every workload.  It is          *)
(* inductive over the invariant of XinuKernelProofs, which says that the   *)
(* semaphore a process waits on has it on its queue, and that a loop of    *)
(* releases keeps the CPU until its end.                                   *)
(***************************************************************************)

(* CountsMatchQueues in parts.                                             *)
Counted(s)   == Len(squeue[s]) = IF scount[s] < 0 THEN -scount[s] ELSE 0
Emptied(s)   == sstate[s] = "FREE" => squeue[s] = << >>
Resetting(s) == Here.at = "semreset" /\ Here.arg = s
Deleting(s)  == Here.at = "semdelete" /\ Here.arg = s

CountsOK == \A s \in Sems : (~Resetting(s) => Counted(s)) /\ (~Deleting(s) => Emptied(s))

LEMMA CountsInParts == CountsMatchQueues <=> CountsOK
  BY DEF CountsMatchQueues, CountsOK, Counted, Emptied, Resetting, Deleting

(* What the invariant says of one semaphore.                               *)
LEMMA SemFacts ==
  ASSUME IInv, NEW s \in Sems
  PROVE  /\ scount[s] \in Int /\ squeue[s] \in Seq(Pids) /\ IsInjective(squeue[s])
         /\ Len(squeue[s]) \in Nat /\ (Len(squeue[s]) = 0 <=> squeue[s] = << >>)
<1>1. scount[s] \in Int /\ squeue[s] \in Seq(Pids) /\ IsInjective(squeue[s])
  BY DEF IInv, TypeOK, SemQueuesOK
<1> QED
  BY <1>1, EmptySeq

(* Outside semreset and semdelete every semaphore is in order.             *)
Settled == \A s \in Sems : Counted(s) /\ Emptied(s)

LEMMA CountsSettled ==
  ASSUME CountsOK, Here.at \notin {"semreset", "semdelete"}
  PROVE  Settled
  BY DEF CountsOK, Resetting, Deleting, Settled

LEMMA SettledCounts ==
  ASSUME Settled'
  PROVE  CountsOK'
  BY DEF CountsOK, Settled

(* A step that leaves the semaphores alone.                                *)
LEMMA CountsStay ==
  ASSUME CountsOK, Here.at \notin {"semreset", "semdelete"},
         UNCHANGED <<sstate, scount, squeue>>
  PROVE  CountsOK'
<1>1. Settled
  BY CountsSettled
<1>2. Settled'
  BY <1>1 DEF Settled, Counted, Emptied
<1> QED
  BY <1>2, SettledCounts

(* In a call that begins the running process is at User.                   *)
LEMMA CallSettled ==
  ASSUME CountsOK, Here = User
  PROVE  Settled
<1>1. Here.at \notin {"semreset", "semdelete"}
  BY DEF User, At
<1> QED
  BY <1>1, CountsSettled

LEMMA CountsStayInCall ==
  ASSUME CountsOK, Here = User, UNCHANGED <<sstate, scount, squeue>>
  PROVE  CountsOK'
<1>1. Here.at \notin {"semreset", "semdelete"}
  BY DEF User, At
<1> QED
  BY <1>1, CountsStay

(* A step in a loop of releases that is not its last one leaves the        *)
(* running process where it is.                                            *)
LEMMA LoopKeepsCPU ==
  ASSUME IInv, IInv', pc'[currpid].at \in Looping
  PROVE  Here' = pc'[currpid] /\ currpid' = currpid
<1>1. currpid \in Pids
  BY IInvFacts
<1>2. currpid' = currpid
  BY <1>1 DEF IInv, FramesOK
<1> QED
  BY <1>2 DEF Here

(* release_one keeps a count that is right, and an empty queue empty.      *)
LEMMA ReleaseCounted ==
  ASSUME IInv, NEW s \in Sems, Counted(s), release_one(s)
  PROVE  /\ Counted(s)' /\ (squeue[s] = << >> => squeue'[s] = << >>)
         /\ \A t \in Sems \ {s} : scount'[t] = scount[t] /\ squeue'[t] = squeue[t]
<1>1. /\ scount[s] \in Int /\ squeue[s] \in Seq(Pids)
      /\ Len(squeue[s]) \in Nat /\ (Len(squeue[s]) = 0 <=> squeue[s] = << >>)
  BY SemFacts
<1>2. /\ scount' = [scount EXCEPT ![s] = @ + 1]
      /\ scount \in [Sems -> Int] /\ squeue \in [Sems -> Seq(Pids)]
  BY DEF release_one, IInv, TypeOK
<1>3. scount'[s] = scount[s] + 1 /\ \A t \in Sems \ {s} : scount'[t] = scount[t]
  BY <1>2
<1>4. CASE scount[s] < 0
  <2>1. squeue[s] # << >> /\ Len(squeue[s]) = -scount[s]
    BY <1>1, <1>4 DEF Counted
  <2>2. squeue' = [squeue EXCEPT ![s] = Tail(@)]
    BY <1>1, <1>4, <2>1 DEF release_one
  <2>3. squeue'[s] = Tail(squeue[s]) /\ \A t \in Sems \ {s} : squeue'[t] = squeue[t]
    BY <1>2, <2>2
  <2>4. Len(Tail(squeue[s])) = Len(squeue[s]) - 1
    BY <1>1, <2>1, HeadTailProperties
  <2>5. Counted(s)'
    BY <1>1, <1>3, <1>4, <2>1, <2>3, <2>4 DEF Counted
  <2> QED
    BY <1>3, <2>1, <2>3, <2>5
<1>5. CASE scount[s] >= 0
  <2>1. squeue' = squeue
    BY <1>1, <1>5 DEF release_one
  <2>2. Counted(s)'
    BY <1>1, <1>3, <1>5, <2>1 DEF Counted
  <2> QED
    BY <1>3, <2>1, <2>2
<1> QED
  BY <1>1, <1>4, <1>5

LEMMA ReleaseSettled ==
  ASSUME IInv, Settled, NEW s \in Sems, release_one(s), sstate' = sstate
  PROVE  Settled'
<1>1. /\ Counted(s)' /\ (squeue[s] = << >> => squeue'[s] = << >>)
      /\ \A t \in Sems \ {s} : scount'[t] = scount[t] /\ squeue'[t] = squeue[t]
  BY ReleaseCounted DEF Settled
<1>2. \A t \in Sems \ {s} : Counted(t)' /\ Emptied(t)'
  BY <1>1 DEF Settled, Counted, Emptied
<1>3. Emptied(s)'
  BY <1>1 DEF Settled, Emptied
<1> QED
  BY <1>1, <1>2, <1>3 DEF Settled

-----------------------------------------------------------------------------
(* The steps that change a semaphore.                                      *)

LEMMA SemcreateCounts ==
  ASSUME IInv, CountsOK, NEW count \in Counts, semcreate(count)
  PROVE  CountsOK'
<1>1. Settled
  BY CallSettled DEF semcreate, syscall
<1>2. PICK sem \in Sems :
        /\ sstate[sem] = "FREE" /\ sstate' = [sstate EXCEPT ![sem] = "USED"]
        /\ scount' = [scount EXCEPT ![sem] = count] /\ squeue' = squeue
  <2> DEFINE free == {s \in Sems : sstate[s] = "FREE"}
             sem  == next_free(nextsem, NSEM, free)
  <2>1. free \in SUBSET Sems /\ free # {}
    BY DEF semcreate
  <2>2. nextsem \in Sems
    BY <2>1, KernelAssumption DEF IInv, TypeOK, Sems
  <2>3. sem \in free
    <3> HIDE DEF free
    <3> QED
      BY <2>1, <2>2, NextFree, KernelAssumption DEF Sems
  <2>4. /\ sstate' = [sstate EXCEPT ![sem] = "USED"]
        /\ scount' = [scount EXCEPT ![sem] = count] /\ squeue' = squeue
    BY DEF semcreate
  <2> HIDE DEF sem
  <2> QED
    BY <2>3, <2>4
<1>3. squeue[sem] = << >> /\ Len(squeue[sem]) = 0
  BY <1>1, <1>2 DEF Settled, Emptied
<1>4. /\ scount'[sem] \in Nat /\ sstate'[sem] = "USED"
      /\ \A t \in Sems \ {sem} : scount'[t] = scount[t] /\ sstate'[t] = sstate[t]
  BY <1>2, KernelAssumption DEF IInv, TypeOK
<1>5. Counted(sem)' /\ Emptied(sem)'
  BY <1>2, <1>3, <1>4 DEF Counted, Emptied
<1>6. \A t \in Sems \ {sem} : Counted(t)' /\ Emptied(t)'
  BY <1>1, <1>2, <1>4 DEF Settled, Counted, Emptied
<1> QED
  BY <1>5, <1>6, SettledCounts DEF Settled

LEMMA WaitCounts ==
  ASSUME IInv, CountsOK, NEW s \in Sems, wait(s)
  PROVE  CountsOK'
<1>1. Settled
  BY CallSettled DEF wait, syscall
<1>2. /\ scount[s] \in Int /\ squeue[s] \in Seq(Pids)
      /\ Len(squeue[s]) \in Nat /\ (Len(squeue[s]) = 0 <=> squeue[s] = << >>)
      /\ currpid \in Pids
  BY SemFacts, IInvFacts
<1>3. /\ scount' = [scount EXCEPT ![s] = @ - 1] /\ sstate' = sstate
      /\ scount \in [Sems -> Int] /\ squeue \in [Sems -> Seq(Pids)]
      /\ sstate[s] = "USED"
  BY DEF wait, IInv, TypeOK
<1>4. scount'[s] = scount[s] - 1 /\ \A t \in Sems \ {s} : scount'[t] = scount[t]
  BY <1>3
<1>5. CASE scount[s] > 0
  <2>1. squeue' = squeue
    BY <1>2, <1>5 DEF wait
  <2>2. Counted(s)' /\ \A t \in Sems \ {s} : Counted(t)'
    BY <1>1, <1>2, <1>4, <1>5, <2>1 DEF Settled, Counted
  <2> QED
    BY <1>1, <1>3, <2>1, <2>2, SettledCounts DEF Settled, Emptied
<1>6. CASE scount[s] <= 0
  <2>1. squeue' = [squeue EXCEPT ![s] = Append(@, currpid)]
    BY <1>2, <1>6 DEF wait
  <2>2. /\ squeue'[s] = Append(squeue[s], currpid)
        /\ \A t \in Sems \ {s} : squeue'[t] = squeue[t]
    BY <1>3, <2>1
  <2>3. Len(squeue'[s]) = Len(squeue[s]) + 1
    BY <1>2, <2>2, AppendProperties
  <2>4. Counted(s)'
    BY <1>1, <1>2, <1>4, <1>6, <2>3 DEF Settled, Counted
  <2>5. \A t \in Sems \ {s} : Counted(t)' /\ Emptied(t)'
    BY <1>1, <1>3, <1>4, <2>2 DEF Settled, Counted, Emptied
  <2>6. Emptied(s)'
    BY <1>3 DEF Emptied
  <2> QED
    BY <2>4, <2>5, <2>6, SettledCounts DEF Settled
<1> QED
  BY <1>2, <1>5, <1>6

LEMMA SignalCounts ==
  ASSUME IInv, CountsOK, NEW s \in Sems, signal(s)
  PROVE  CountsOK'
<1>1. Settled
  BY CallSettled DEF signal, syscall
<1> QED
  BY <1>1, ReleaseSettled, SettledCounts DEF signal

(* signaln releases one at a time, with every semaphore in order.          *)
LEMMA SignalnLoopCounts ==
  ASSUME IInv, CountsOK, signaln_loop
  PROVE  CountsOK'
<1>1. Here.at = "signaln" /\ Here.arg \in Sems
  BY IInvFacts DEF signaln_loop, inside, FrameOK
<1>2. Settled
  BY <1>1, CountsSettled
<1>3. CASE release_one(Here.arg)
  BY <1>1, <1>2, <1>3, ReleaseSettled, SettledCounts DEF signaln_loop
<1>4. CASE UNCHANGED <<scount, squeue>>
  BY <1>1, <1>4, CountsStay DEF signaln_loop
<1> QED
  BY <1>3, <1>4 DEF signaln_loop

(* semdelete frees the semaphore first and empties its queue after.        *)
LEMMA SemdeleteCounts ==
  ASSUME IInv, IInv', CountsOK, NEW s \in Sems, semdelete(s)
  PROVE  CountsOK'
<1>1. Settled
  BY CallSettled DEF semdelete, syscall
<1>2. /\ sstate' = [sstate EXCEPT ![s] = "FREE"] /\ UNCHANGED <<scount, squeue>>
      /\ sstate \in [Sems -> {"FREE", "USED"}]
  BY DEF semdelete, IInv, TypeOK
<1>3. Here' = At("semdelete", s, 0)
  <2>1. pc'[currpid] = At("semdelete", s, 0)
    BY IInvFacts DEF semdelete, begin_loop, Goto, IInv, TypeOK
  <2>2. pc'[currpid].at \in Looping
    BY <2>1 DEF At, Looping
  <2> QED
    BY <2>1, <2>2, LoopKeepsCPU
<1>4. Deleting(s)'
  BY <1>3 DEF Deleting, At
<1>5. \A t \in Sems : Counted(t)'
  BY <1>1, <1>2 DEF Settled, Counted
<1>6. \A t \in Sems \ {s} : Emptied(t)'
  BY <1>1, <1>2 DEF Settled, Emptied
<1> QED
  BY <1>4, <1>5, <1>6 DEF CountsOK

LEMMA SemdeleteLoopCounts ==
  ASSUME IInv, IInv', CountsOK, semdelete_loop
  PROVE  CountsOK'
<1>1. PICK s \in Sems : s = Here.arg /\ Here.at = "semdelete" /\ sstate' = sstate
  BY IInvFacts DEF semdelete_loop, inside, FrameOK
<1>2. (\A t \in Sems : Counted(t)) /\ (\A t \in Sems \ {s} : Emptied(t))
  BY <1>1 DEF CountsOK, Resetting, Deleting
<1>3. CASE scount[s] < 0
  <2>1. release_one(s) /\ pc' = pc
    BY <1>1, <1>3, SemFacts DEF semdelete_loop
  <2>2. /\ Counted(s)'
        /\ \A t \in Sems \ {s} : scount'[t] = scount[t] /\ squeue'[t] = squeue[t]
    BY <1>1, <1>2, <2>1, ReleaseCounted
  <2>3. \A t \in Sems \ {s} : Counted(t)' /\ Emptied(t)'
    BY <1>1, <1>2, <2>2 DEF Counted, Emptied
  <2>4. Here' = Here
    BY <1>1, <2>1, LoopKeepsCPU DEF Here, Looping
  <2>5. Deleting(s)'
    BY <1>1, <2>4 DEF Deleting
  <2> QED
    BY <1>1, <2>2, <2>3, <2>5 DEF CountsOK
<1>4. CASE scount[s] >= 0
  <2>1. scount' = [scount EXCEPT ![s] = @ + 1] /\ squeue' = squeue
    BY <1>1, <1>4, SemFacts DEF semdelete_loop
  <2>2. /\ scount'[s] = scount[s] + 1 /\ scount[s] \in Int
        /\ \A t \in Sems \ {s} : scount'[t] = scount[t]
    BY <1>1, <2>1 DEF IInv, TypeOK
  <2>3. squeue[s] = << >> /\ Len(squeue[s]) = 0
    BY <1>1, <1>2, <1>4, <2>2, SemFacts DEF Counted
  <2>4. Counted(s)' /\ Emptied(s)'
    BY <1>4, <2>1, <2>2, <2>3 DEF Counted, Emptied
  <2>5. \A t \in Sems \ {s} : Counted(t)' /\ Emptied(t)'
    BY <1>1, <1>2, <2>1, <2>2 DEF Counted, Emptied
  <2> QED
    BY <2>4, <2>5, SettledCounts DEF Settled
<1> QED
  BY <1>1, <1>3, <1>4, SemFacts

(* semreset empties the queue while the count says it is not.              *)
LEMMA SemresetLoopCounts ==
  ASSUME IInv, IInv', CountsOK, semreset_loop
  PROVE  CountsOK'
<1>1. PICK s \in Sems :
        s = Here.arg /\ Here.at = "semreset" /\ sstate' = sstate /\ Here.n \in Nat
  BY IInvFacts DEF semreset_loop, inside, FrameOK, Frames
<1>2. (\A t \in Sems \ {s} : Counted(t)) /\ (\A t \in Sems : Emptied(t))
  BY <1>1 DEF CountsOK, Resetting, Deleting
<1>3. CASE squeue[s] # << >>
  <2>1. squeue' = [squeue EXCEPT ![s] = Tail(@)] /\ scount' = scount /\ pc' = pc
    BY <1>1, <1>3 DEF semreset_loop
  <2>2. \A t \in Sems \ {s} : squeue'[t] = squeue[t]
    BY <1>1, <2>1 DEF IInv, TypeOK
  <2>3. \A t \in Sems \ {s} : Counted(t)' /\ Emptied(t)'
    BY <1>1, <1>2, <2>1, <2>2 DEF Counted, Emptied
  <2>4. Here' = Here
    BY <1>1, <2>1, LoopKeepsCPU DEF Here, Looping
  <2>5. Resetting(s)' /\ Emptied(s)'
    BY <1>1, <1>2, <1>3, <2>4 DEF Resetting, Emptied
  <2> QED
    BY <2>3, <2>5 DEF CountsOK
<1>4. CASE squeue[s] = << >>
  <2>1. scount' = [scount EXCEPT ![s] = Here.n] /\ squeue' = squeue
    BY <1>1, <1>4 DEF semreset_loop
  <2>2. scount'[s] = Here.n /\ \A t \in Sems \ {s} : scount'[t] = scount[t]
    BY <1>1, <2>1 DEF IInv, TypeOK
  <2>3. Counted(s)' /\ Emptied(s)'
    BY <1>1, <1>4, <2>1, <2>2 DEF Counted, Emptied
  <2>4. \A t \in Sems \ {s} : Counted(t)' /\ Emptied(t)'
    BY <1>1, <1>2, <2>1, <2>2 DEF Counted, Emptied
  <2> QED
    BY <2>3, <2>4, SettledCounts DEF Settled
<1> QED
  BY <1>3, <1>4

(* kill of a waiting process takes it off the queue and counts up.         *)
LEMMA KillRestCounts ==
  ASSUME IInv, CountsOK, kill_rest
  PROVE  CountsOK'
<1>1. Here.at = "kill" /\ Here.arg \in Pids /\ sstate' = sstate
  BY IInvFacts DEF kill_rest, inside, FrameOK
<1>2. Settled
  BY <1>1, CountsSettled
<1>3. CASE UNCHANGED <<scount, squeue>>
  BY <1>1, <1>3, CountsStay
<1>4. CASE prstate[Here.arg] = "WAIT" /\ leave_semaphore(prsem[Here.arg], Here.arg)
  <2>1. PICK q \in Pids, s \in Sems : q \in ToSet(squeue[s]) /\ leave_semaphore(s, q)
    BY <1>1, <1>4 DEF IInv, SemQueuesOK
  <2>2. /\ scount[s] \in Int /\ squeue[s] \in Seq(Pids) /\ IsInjective(squeue[s])
        /\ Len(squeue[s]) \in Nat /\ (Len(squeue[s]) = 0 <=> squeue[s] = << >>)
    BY <2>1, SemFacts
  <2>3. squeue[s] # << >>
    BY <2>1 DEF ToSet
  <2>4. scount[s] < 0 /\ Len(squeue[s]) = -scount[s]
    BY <1>2, <2>1, <2>2, <2>3 DEF Settled, Counted
  <2>5. /\ scount' = [scount EXCEPT ![s] = @ + 1]
        /\ squeue' = [squeue EXCEPT ![s] = getitem(@, q)]
        /\ scount \in [Sems -> Int] /\ squeue \in [Sems -> Seq(Pids)]
    BY <2>1 DEF leave_semaphore, IInv, TypeOK
  <2>6. /\ scount'[s] = scount[s] + 1 /\ squeue'[s] = getitem(squeue[s], q)
        /\ \A t \in Sems \ {s} : scount'[t] = scount[t] /\ squeue'[t] = squeue[t]
    BY <2>1, <2>5
  <2>7. Len(getitem(squeue[s], q)) = Len(squeue[s]) - 1
    BY <2>1, <2>2, GetitemLeaves
  <2>8. Counted(s)'
    BY <2>2, <2>4, <2>6, <2>7 DEF Counted
  <2>9. sstate[s] # "FREE"
    BY <1>2, <2>1, <2>3 DEF Settled, Emptied
  <2>10. Emptied(s)'
    BY <1>1, <2>9 DEF Emptied
  <2>11. \A t \in Sems \ {s} : Counted(t)' /\ Emptied(t)'
    BY <1>1, <1>2, <2>6 DEF Settled, Counted, Emptied
  <2> QED
    BY <2>8, <2>10, <2>11, SettledCounts DEF Settled
<1> QED
  BY <1>3, <1>4 DEF kill_rest

-----------------------------------------------------------------------------
LEMMA InitCounts == Init => CountsOK
  BY DEF Init, CountsOK, Counted, Emptied

LEMMA NextCounts == IInv /\ IInv' /\ CountsOK /\ [Next]_vars => CountsOK'
<1> SUFFICES ASSUME IInv, IInv', CountsOK, [Next]_vars PROVE CountsOK'
  OBVIOUS
<1>1. CASE SemaphoreCall
  <2>1. ASSUME NEW s \in Sems, NEW c \in Counts, signaln(s, c) \/ semreset(s, c)
        PROVE  CountsOK'
    BY <2>1, CountsStayInCall DEF signaln, semreset, syscall, semtab
  <2> QED
    BY <1>1, <2>1, SemcreateCounts, WaitCounts, SignalCounts, SemdeleteCounts
    DEF SemaphoreCall
<1>2. CASE MessageCall
  <2>1. Here = User /\ UNCHANGED semtab
    BY <1>2 DEF MessageCall, send, receive, recvclr, recvtime, syscall
  <2> QED
    BY <2>1, CountsStayInCall DEF semtab
<1>3. CASE ProcessCall
  <2>1. Here = User /\ UNCHANGED semtab
    BY <1>3 DEF ProcessCall, create, suspend, resume, kill, chprio, yield, sleepms, syscall
  <2> QED
    BY <2>1, CountsStayInCall DEF semtab
<1>4. CASE RestOfCall
  <2>1. CASE send_loop \/ receive_rest \/ killsend_loop \/ wakeup \/ clkhandler_rest
    <3>1. Here.at \notin {"semreset", "semdelete"} /\ UNCHANGED semtab
      BY <2>1 DEF send_loop, receive_rest, killsend_loop, wakeup, clkhandler_rest, inside
    <3> QED
      BY <3>1, CountsStay DEF semtab
  <2> QED
    BY <1>4, <2>1, SignalnLoopCounts, SemdeleteLoopCounts, SemresetLoopCounts, KillRestCounts
    DEF RestOfCall
<1>5. CASE clkhandler
  BY <1>5, CountsStayInCall DEF clkhandler, semtab
<1>6. CASE UNCHANGED vars
  BY <1>6 DEF vars, semtab, CountsOK, Counted, Emptied, Resetting, Deleting, Here, currpid
<1> QED
  BY <1>1, <1>2, <1>3, <1>4, <1>5, <1>6 DEF Next

(* A negative count is the number of waiting processes in every state, and *)
(* a free semaphore has none: also between the releases of a loop, and     *)
(* after a process was killed while it waited.                             *)
THEOREM SpecCountsMatchQueues == Spec => []CountsMatchQueues
<1>1. IInv /\ CountsOK /\ [Next]_vars => (IInv /\ CountsOK)'
  BY NextIInv, NextCounts
<1>2. Init => IInv /\ CountsOK
  BY InitIInv, InitCounts
<1> QED
  BY <1>1, <1>2, CountsInParts, PTL DEF Spec

-----------------------------------------------------------------------------
(***************************************************************************)
(* receive returns with a message, for every size of the tables and every  *)
(* workload.  ReceiveHasMessage is inductive over IInv: only a message     *)
(* takes a process out of the wait in receive, or a kill that also ends    *)
(* the call; and only the process itself takes the message away, once it   *)
(* is in user code again or leaves the call.                               *)
(***************************************************************************)

Receiving(p) == pc[p].at = "receive"

(* No process comes into the wait in receive by the step, and none that    *)
(* stays there loses its message.                                          *)
NoneBegins  == \A p \in Pids : Receiving(p)' => Receiving(p)
MessagesStay == \A p \in Pids : Receiving(p)' /\ prhasmsg[p] => prhasmsg'[p]

(* A step that changes the states of the processes of P, and otherwise     *)
(* only whose turn it is, ends no wait of receive without a message.       *)
LEMMA ReceiversStay ==
  ASSUME ReceiveHasMessage, NoneBegins, MessagesStay,
         NEW S, S.prstate = sch.prstate, NEW P, Turns(P, S, sch'),
         \A p \in P : prstate[p] = "RECV" => prhasmsg'[p] \/ ~Receiving(p)'
  PROVE  ReceiveHasMessage'
<1> SUFFICES ASSUME NEW p \in Pids, Receiving(p)', sch'.prstate[p] # "RECV"
             PROVE  prhasmsg'[p]
  BY DEF ReceiveHasMessage, Receiving, prstate
<1>1. Receiving(p) /\ (prhasmsg[p] => prhasmsg'[p])
  BY DEF NoneBegins, MessagesStay
<1>2. CASE prstate[p] # "RECV"
  BY <1>1, <1>2 DEF ReceiveHasMessage, Receiving
<1>3. CASE prstate[p] = "RECV"
  <2>1. p \in P
    BY <1>3 DEF Turns, Eligible, prstate
  <2> QED
    BY <1>3, <2>1
<1> QED
  BY <1>2, <1>3

(* A step of the scheduler only, and one that gives a process of another   *)
(* state a new one.                                                        *)
LEMMA TurnsOnly ==
  ASSUME NEW S, NEW T, S.prstate = T.prstate
  PROVE  \A P : Turns(P, S, T)
  BY DEF Turns

LEMMA TurnsOfOne ==
  ASSUME NEW S, S.prstate \in [Pids -> PrStates], NEW T, NEW p \in Pids, NEW st,
         T.prstate = [S.prstate EXCEPT ![p] = st]
  PROVE  Turns({p}, S, T)
  BY DEF Turns

-----------------------------------------------------------------------------
(* Where the processes are, and their messages, after a step.              *)

LEMMA UserIsElsewhere ==
  /\ User.at # "receive"
  /\ \A c \in Points \ {"receive"} : \A a, n : At(c, a, n).at # "receive"
  BY DEF User, At

LEMMA PcStays ==
  ASSUME pc' = pc
  PROVE  NoneBegins
  BY DEF NoneBegins, Receiving

LEMMA PcMoves ==
  ASSUME IInv, NEW f, Goto(f), f.at # "receive"
  PROVE  NoneBegins /\ pc'[currpid].at # "receive"
<1>1. currpid \in Pids /\ pc \in [Pids -> Frames]
  BY IInvFacts DEF IInv, TypeOK
<1>2. \A p \in Pids : pc'[p] = IF p = currpid THEN f ELSE pc[p]
  BY <1>1 DEF Goto
<1>3. pc'[currpid] = f
  BY <1>1, <1>2
<1> QED
  BY <1>2, <1>3 DEF NoneBegins, Receiving

LEMMA FlagsStay ==
  ASSUME prhasmsg' = prhasmsg
  PROVE  MessagesStay
  BY DEF MessagesStay

(* The running process takes its message when it is not in receive, or     *)
(* leaves it.                                                              *)
LEMMA TakenOutside ==
  ASSUME IInv, take_message, pc'[currpid].at # "receive"
  PROVE  MessagesStay
<1>1. \A p \in Pids : p # currpid => prhasmsg'[p] = prhasmsg[p]
  BY DEF take_message, IInv, TypeOK
<1> QED
  BY <1>1 DEF MessagesStay, Receiving

(* A message that is left with q readies it if it waits in receive.        *)
LEMMA DeliverReceives ==
  ASSUME IInv, ReceiveHasMessage, NoneBegins, NEW q \in Pids, deliver(q)
  PROVE  ReceiveHasMessage'
<1>1. prhasmsg' = [prhasmsg EXCEPT ![q] = TRUE] /\ prhasmsg \in [Pids -> BOOLEAN]
  BY DEF deliver, IInv, TypeOK
<1>2. prhasmsg'[q] = TRUE /\ \A p \in Pids : p # q => prhasmsg'[p] = prhasmsg[p]
  BY <1>1
<1>3. MessagesStay
  BY <1>2 DEF MessagesStay
<1>4. PICK S : S.prstate = sch.prstate /\ Turns({q}, S, sch')
  <2>1. CASE prstate[q] = "RECV"
    <3>1. Parked(sch, q)
      BY <2>1, IInvFacts, IdleIsParked DEF prstate, Idle
    <3>2. sch' = ready(sch, q)
      BY <2>1 DEF deliver
    <3> QED
      BY <3>1, <3>2, ReadyOK
  <2>2. CASE prstate[q] = "RECTIM"
    <3> DEFINE S == unsleep(sch, q)
    <3>1. Parked(S, q) /\ S.prstate = sch.prstate
      BY <2>2, IInvFacts, UnsleepParks DEF prstate, Delayed
    <3>2. sch' = ready(S, q)
      BY <2>2 DEF deliver
    <3> HIDE DEF S
    <3> QED
      BY <3>1, <3>2, ReadyOK
  <2>3. CASE prstate[q] \notin {"RECV", "RECTIM"}
    <3>1. sch' = sch
      BY <2>3 DEF deliver
    <3> QED
      BY <3>1 DEF Turns
  <2> QED
    BY <2>1, <2>2, <2>3
<1> QED
  BY <1>2, <1>3, <1>4, ReceiversStay

-----------------------------------------------------------------------------
(* The steps calls share.                                                  *)

(* A step that leaves the messages alone and changes at most the state of  *)
(* a process that does not wait in receive.                                *)
LEMMA StepReceives ==
  ASSUME ReceiveHasMessage, NoneBegins, prhasmsg' = prhasmsg,
         NEW S, S.prstate = sch.prstate,
         \/ Turns({}, S, sch')
         \/ \E p \in Pids : prstate[p] # "RECV" /\ Turns({p}, S, sch')
  PROVE  ReceiveHasMessage'
<1>1. MessagesStay
  BY FlagsStay
<1>2. CASE Turns({}, S, sch')
  BY <1>1, <1>2, ReceiversStay
<1>3. ASSUME NEW p \in Pids, prstate[p] # "RECV", Turns({p}, S, sch')
      PROVE  ReceiveHasMessage'
  BY <1>1, <1>3, ReceiversStay
<1> QED
  BY <1>2, <1>3

LEMMA SameStatesReceive ==
  ASSUME ReceiveHasMessage, NoneBegins, MessagesStay, sch'.prstate = sch.prstate
  PROVE  ReceiveHasMessage'
<1>1. Turns({}, sch, sch')
  BY TurnsOnly
<1> QED
  BY <1>1, ReceiversStay

LEMMA ReschedReceives ==
  ASSUME IInv, ReceiveHasMessage, NoneBegins, prhasmsg' = prhasmsg, sch' = resched(sch)
  PROVE  ReceiveHasMessage'
<1>1. Turns({}, sch, sch')
  BY IInvFacts, ReschedOK DEF OnlyTurns
<1> QED
  BY <1>1, StepReceives

LEMMA BlockReceives ==
  ASSUME IInv, ReceiveHasMessage, NoneBegins, prhasmsg' = prhasmsg,
         sch.ndefers = 0, currpid # NULLPROC,
         \/ \E st \in {"SUSP", "WAIT", "FREE"} : sch' = block(sch, st)
         \/ \E st \in Delayed, d \in Delays : sch' = delay(sch, d, st)
  PROVE  ReceiveHasMessage'
<1>1. currpid \in Pids /\ prstate[currpid] # "RECV" /\ SchedOK(sch) /\ Running(sch)
  BY IInvFacts
<1>2. Turns({currpid}, sch, sch')
  BY <1>1, BlockOK, DelayOK DEF currpid
<1> QED
  BY <1>1, <1>2, StepReceives

(* ready of a process that waits for a semaphore, or for a time.           *)
LEMMA ReadyReceives ==
  ASSUME ReceiveHasMessage, NoneBegins, prhasmsg' = prhasmsg,
         NEW S, S.prstate = sch.prstate, NEW p \in Pids, Parked(S, p),
         prstate[p] # "RECV", sch' = ready(S, p)
  PROVE  ReceiveHasMessage'
<1>1. Turns({p}, S, sch')
  BY ReadyOK
<1> QED
  BY <1>1, StepReceives

LEMMA FirstReceives ==
  ASSUME IInv, ReceiveHasMessage, NoneBegins, prhasmsg' = prhasmsg,
         NEW s \in Sems, squeue[s] # << >>, sch' = ready(sch, Head(squeue[s]))
  PROVE  ReceiveHasMessage'
<1> DEFINE p == Head(squeue[s])
<1>1. squeue[s] \in Seq(Pids) /\ IsInjective(squeue[s])
  BY DEF IInv, TypeOK, SemQueuesOK
<1>2. p \in ToSet(squeue[s]) /\ p \in Pids
  BY <1>1, TailLeaves
<1>3. sch' = ready(sch, p)
  OBVIOUS
<1> HIDE DEF p
<1>4. prstate[p] = "WAIT"
  BY <1>2 DEF IInv, SemQueuesOK
<1>5. Parked(sch, p)
  BY <1>2, <1>4, IInvFacts, IdleIsParked DEF prstate, Idle
<1> QED
  BY <1>2, <1>3, <1>4, <1>5, ReadyReceives

LEMMA ReleaseReceives ==
  ASSUME IInv, ReceiveHasMessage, NoneBegins, prhasmsg' = prhasmsg,
         NEW s \in Sems, release_one(s)
  PROVE  ReceiveHasMessage'
<1>1. CASE squeue[s] # << >> /\ sch' = ready(sch, Head(squeue[s]))
  BY <1>1, FirstReceives
<1>2. CASE sch' = sch
  BY <1>2, FlagsStay, SameStatesReceive
<1> QED
  BY <1>1, <1>2 DEF release_one

LEMMA DeferReceives ==
  ASSUME IInv, ReceiveHasMessage, NoneBegins, prhasmsg' = prhasmsg,
         \/ sch.ndefers = 0 /\ sch' = defer_start(sch)
         \/ sch.ndefers = 1 /\ sch' = defer_stop(sch)
  PROVE  ReceiveHasMessage'
<1>1. CASE sch.ndefers = 0 /\ sch' = defer_start(sch)
  <2>1. sch'.prstate = sch.prstate
    BY <1>1, IInvFacts, DeferStartOK
  <2> QED
    BY <2>1, FlagsStay, SameStatesReceive
<1>2. CASE sch.ndefers = 1 /\ sch' = defer_stop(sch)
  <2>1. Turns({}, sch, sch')
    BY <1>2, IInvFacts, DeferStopOK
  <2> QED
    BY <2>1, StepReceives
<1> QED
  BY <1>1, <1>2

-----------------------------------------------------------------------------
(* The actions, by what they do.                                           *)

LEMMA CalledOutside ==
  ASSUME NEW c, syscall(c)
  PROVE  Here.at # "receive"
  BY UserIsElsewhere DEF syscall

LEMMA SemaphoreReceives ==
  ASSUME IInv, ReceiveHasMessage, SemaphoreCall
  PROVE  ReceiveHasMessage'
<1>1. prhasmsg' = prhasmsg
  BY DEF SemaphoreCall, semcreate, wait, signal, signaln, semdelete, semreset, proctab
<1>2. ASSUME NEW c, semcreate(c) PROVE ReceiveHasMessage'
  BY <1>2, <1>1, PcStays, FlagsStay, SameStatesReceive DEF semcreate
<1>3. ASSUME NEW s \in Sems, wait(s) PROVE ReceiveHasMessage'
  <2>1. pc' = pc /\ sch.ndefers = 0 /\ currpid # NULLPROC
    BY <1>3, Called DEF wait
  <2>2. CASE sch' = sch
    BY <2>1, <2>2, <1>1, PcStays, FlagsStay, SameStatesReceive
  <2>3. CASE sch' = block(sch, "WAIT")
    BY <2>1, <2>3, <1>1, PcStays, BlockReceives
  <2> QED
    BY <1>3, <2>2, <2>3 DEF wait
<1>4. ASSUME NEW s \in Sems, signal(s) PROVE ReceiveHasMessage'
  BY <1>4, <1>1, PcStays, ReleaseReceives DEF signal
<1>5. ASSUME NEW s \in Sems, NEW c,
             signaln(s, c) \/ semreset(s, c) \/ semdelete(s)
      PROVE  ReceiveHasMessage'
  <2>0. PICK k \in {"signaln", "semreset", "semdelete"} : \E n : begin_loop(At(k, s, n))
    BY <1>5 DEF signaln, semreset, semdelete
  <2>1. PICK n : begin_loop(At(k, s, n))
    BY <2>0
  <2>2. sch.ndefers = 0
    BY <1>5, Called DEF signaln, semreset, semdelete
  <2>3. At(k, s, n).at # "receive" /\ Goto(At(k, s, n)) /\ sch' = defer_start(sch)
    BY <2>1 DEF begin_loop, At
  <2>4. NoneBegins
    BY <2>3, PcMoves
  <2> QED
    BY <1>1, <2>2, <2>3, <2>4, DeferReceives
<1> QED
  BY <1>2, <1>3, <1>4, <1>5 DEF SemaphoreCall

LEMMA LoopReceives ==
  ASSUME IInv, ReceiveHasMessage, signaln_loop \/ semdelete_loop \/ semreset_loop
  PROVE  ReceiveHasMessage'
<1> DEFINE s == Here.arg
<1>1. /\ prhasmsg' = prhasmsg /\ sch.ndefers = 1 /\ s \in Sems
      /\ Here.at \in {"signaln", "semdelete", "semreset"}
  <2>1. Here.at \in {"signaln", "semdelete", "semreset"} /\ prhasmsg' = prhasmsg
    BY DEF signaln_loop, semdelete_loop, semreset_loop, inside, proctab
  <2>2. sch.ndefers = 1
    BY <2>1, Deferred DEF Looping
  <2> QED
    BY <2>1, <2>2, IInvFacts DEF FrameOK
<1>2. NoneBegins
  <2>1. CASE pc' = pc
    BY <2>1, PcStays
  <2>2. CASE Goto(User)
    BY <2>2, UserIsElsewhere, PcMoves
  <2>3. CASE Goto([Here EXCEPT !.n = @ - 1])
    <3>1. [Here EXCEPT !.n = @ - 1].at # "receive"
      BY <1>1, IInvFacts DEF Frames
    <3> QED
      BY <2>3, <3>1, PcMoves
  <2> QED
    BY <2>1, <2>2, <2>3 DEF signaln_loop, semdelete_loop, semreset_loop, end_loop
<1>3. CASE release_one(s)
  BY <1>1, <1>2, <1>3, ReleaseReceives
<1>4. CASE squeue[s] # << >> /\ sch' = ready(sch, Head(squeue[s]))
  BY <1>1, <1>2, <1>4, FirstReceives
<1>5. CASE sch' = defer_stop(sch)
  BY <1>1, <1>2, <1>5, DeferReceives
<1> QED
  BY <1>3, <1>4, <1>5 DEF signaln_loop, semdelete_loop, semreset_loop, end_loop

(* receive itself is the one that begins a wait.                           *)
LEMMA ReceiveReceives ==
  ASSUME IInv, ReceiveHasMessage, receive
  PROVE  ReceiveHasMessage'
<1>1. sch.ndefers = 0 /\ currpid # NULLPROC /\ Here.at # "receive"
  BY Called, CalledOutside DEF receive
<1>2. CASE take_message /\ UNCHANGED <<sch, pc>>
  <2>1. pc'[currpid].at # "receive"
    BY <1>1, <1>2 DEF Here
  <2> QED
    BY <1>2, <2>1, PcStays, TakenOutside, SameStatesReceive
<1>3. CASE sch' = block(sch, "RECV") /\ Goto(At("receive", 0, 0)) /\ prhasmsg' = prhasmsg
  <2>1. Turns({currpid}, sch, sch') /\ sch'.prstate[currpid] = "RECV" /\ currpid \in Pids
    BY <1>1, <1>3, IInvFacts, BlockOK DEF currpid
  <2>2. \A p \in Pids : p # currpid => pc'[p] = pc[p]
    BY <1>3 DEF Goto, IInv, TypeOK
  <2> SUFFICES ASSUME NEW p \in Pids, Receiving(p)', sch'.prstate[p] # "RECV"
               PROVE  prhasmsg'[p]
    BY DEF ReceiveHasMessage, Receiving, prstate
  <2>3. p # currpid /\ Receiving(p)
    BY <2>1, <2>2 DEF Receiving
  <2>4. prstate[p] # "RECV"
    BY <2>1, <2>3 DEF Turns, Eligible, prstate
  <2> QED
    BY <1>3, <2>3, <2>4 DEF ReceiveHasMessage, Receiving
<1> QED
  BY <1>2, <1>3 DEF receive

LEMMA MessageReceives ==
  ASSUME IInv, ReceiveHasMessage, MessageCall
  PROVE  ReceiveHasMessage'
<1>1. ASSUME NEW q \in Pids, send(q) PROVE ReceiveHasMessage'
  <2>1. CASE deliver(q) /\ pc' = pc
    BY <2>1, PcStays, DeliverReceives
  <2>2. CASE Goto(At("send", q, 0)) /\ UNCHANGED <<sch, prhasmsg>>
    <3>1. At("send", q, 0).at # "receive"
      BY DEF At
    <3> QED
      BY <2>2, <3>1, PcMoves, FlagsStay, SameStatesReceive
  <2> QED
    BY <1>1, <2>1, <2>2 DEF send
<1>2. ASSUME NEW d \in Delays, recvtime(d) PROVE ReceiveHasMessage'
  <2>1. sch.ndefers = 0 /\ currpid # NULLPROC /\ Here.at # "receive"
    BY <1>2, Called, CalledOutside DEF recvtime
  <2>2. CASE take_message /\ UNCHANGED <<sch, pc>>
    <3>1. pc'[currpid].at # "receive"
      BY <2>1, <2>2 DEF Here
    <3> QED
      BY <2>2, <3>1, PcStays, TakenOutside, SameStatesReceive
  <2>3. CASE /\ sch' = delay(sch, d, "RECTIM") /\ Goto(At("recvtime", 0, 0))
             /\ prhasmsg' = prhasmsg
    <3>1. At("recvtime", 0, 0).at # "receive" /\ "RECTIM" \in Delayed
      BY DEF At, Delayed
    <3>2. NoneBegins
      BY <2>3, <3>1, PcMoves
    <3> QED
      BY <2>1, <2>3, <3>1, <3>2, BlockReceives
  <2> QED
    BY <1>2, <2>2, <2>3 DEF recvtime
<1>3. CASE recvclr
  <2>1. Here.at # "receive" /\ take_message /\ UNCHANGED <<sch, pc>>
    BY <1>3, CalledOutside DEF recvclr
  <2>2. pc'[currpid].at # "receive"
    BY <2>1 DEF Here
  <2> QED
    BY <2>1, <2>2, PcStays, TakenOutside, SameStatesReceive
<1> QED
  BY <1>1, <1>2, <1>3, ReceiveReceives DEF MessageCall

(* The rest of receive and recvtime takes the message and leaves the call. *)
LEMMA RestReceives ==
  ASSUME IInv, ReceiveHasMessage, receive_rest
  PROVE  ReceiveHasMessage'
<1>1. take_message /\ Goto(User) /\ sch' = sch
  BY DEF receive_rest
<1>2. NoneBegins /\ pc'[currpid].at # "receive"
  BY <1>1, UserIsElsewhere, PcMoves
<1> QED
  BY <1>1, <1>2, TakenOutside, SameStatesReceive

LEMMA SendLoopReceives ==
  ASSUME IInv, ReceiveHasMessage, send_loop \/ killsend_loop
  PROVE  ReceiveHasMessage'
<1>1. /\ send_loop => Here.at = "send" /\ Here.arg \in Pids
      /\ killsend_loop => Here.at = "killsend" /\ Here.n \in Pids
  BY IInvFacts DEF send_loop, killsend_loop, inside, FrameOK
<1>2. CASE sch' = resched(sch) /\ UNCHANGED <<prhasmsg, pc>>
  BY <1>2, PcStays, ReschedReceives
<1>3. CASE \E q \in Pids : deliver(q) /\ (Goto(User) \/ Goto(At("kill", Here.arg, 0)))
  <2>1. At("kill", Here.arg, 0).at # "receive"
    BY DEF At
  <2>2. NoneBegins
    BY <1>3, <2>1, UserIsElsewhere, PcMoves
  <2> QED
    BY <1>3, <2>2, DeliverReceives
<1> QED
  BY <1>1, <1>2, <1>3 DEF send_loop, killsend_loop

(* A new process is in user code, whatever its entry was left with.        *)
LEMMA CreateReceives ==
  ASSUME IInv, ReceiveHasMessage, NEW pr \in Prios, create(pr)
  PROVE  ReceiveHasMessage'
<1> DEFINE pid == next_free(nextpid, NPROC, {p \in Pids : prstate[p] = "FREE"})
<1>1. CASE /\ sch'      = [sch EXCEPT !.prstate[pid] = "SUSP", !.prprio[pid] = pr]
           /\ prhasmsg' = [prhasmsg EXCEPT ![pid] = FALSE]
           /\ pc'       = [pc EXCEPT ![pid] = User]
  <2> HIDE DEF pid
  <2>1. /\ sch.prstate \in [Pids -> PrStates] /\ prhasmsg \in [Pids -> BOOLEAN]
        /\ pc \in [Pids -> Frames]
    BY IInvFacts DEF IInv, TypeOK, prstate
  <2>2. \A p \in Pids : IF p = pid THEN pc'[p] = User
                        ELSE /\ pc'[p] = pc[p] /\ prhasmsg'[p] = prhasmsg[p]
                             /\ sch'.prstate[p] = sch.prstate[p]
    BY <1>1, <2>1
  <2> QED
    BY <2>2, UserIsElsewhere DEF ReceiveHasMessage, prstate
<1>2. CASE UNCHANGED <<sch, proctab, pc>>
  BY <1>2, PcStays, FlagsStay, SameStatesReceive DEF proctab
<1> QED
  BY <1>1, <1>2 DEF create

LEMMA KillReceives ==
  ASSUME IInv, ReceiveHasMessage, NEW q \in Pids, kill(q)
  PROVE  ReceiveHasMessage'
<1>1. prparent[q] \in Pids
  BY DEF IInv, TypeOK
<1>2. CASE UNCHANGED <<sch, prhasmsg, pc>>
  BY <1>2, PcStays, FlagsStay, SameStatesReceive
<1>3. ASSUME NEW r, Goto(At("kill", q, 0)) \/ Goto(At("killsend", q, r))
      PROVE  NoneBegins
  <2>1. At("kill", q, 0).at # "receive" /\ At("killsend", q, r).at # "receive"
    BY DEF At
  <2> QED
    BY <1>3, <2>1, PcMoves
<1>4. CASE deliver(prparent[q]) /\ Goto(At("kill", q, 0))
  BY <1>1, <1>3, <1>4, DeliverReceives
<1>5. CASE /\ Goto(At("kill", q, 0)) \/ Goto(At("killsend", q, prparent[q]))
           /\ UNCHANGED <<sch, prhasmsg>>
  BY <1>3, <1>5, FlagsStay, SameStatesReceive
<1> QED
  BY <1>2, <1>4, <1>5 DEF kill

LEMMA ProcessReceives ==
  ASSUME IInv, ReceiveHasMessage, ProcessCall
  PROVE  ReceiveHasMessage'
<1>1. ASSUME NEW q \in Pids, suspend(q) PROVE ReceiveHasMessage'
  <2>1. /\ sch.ndefers = 0 /\ currpid # NULLPROC
        /\ pc' = pc /\ prhasmsg' = prhasmsg
    BY <1>1, Called DEF suspend, proctab
  <2>2. CASE /\ prstate[q] = "READY"
             /\ sch' = [sch EXCEPT !.readylist = getitem(@, q), !.prstate[q] = "SUSP"]
    <3>1. sch.prstate \in [Pids -> PrStates] /\ IsSched(sch)
      BY IInvFacts DEF IInv, TypeOK, prstate
    <3>2. sch'.prstate = [sch.prstate EXCEPT ![q] = "SUSP"]
      BY <2>2, <3>1 DEF IsSched
    <3>3. Turns({q}, sch, sch')
      BY <3>1, <3>2, TurnsOfOne
    <3> QED
      BY <2>1, <2>2, <3>3, PcStays, StepReceives
  <2>3. CASE sch' = block(sch, "SUSP")
    BY <2>1, <2>3, PcStays, BlockReceives
  <2> QED
    BY <1>1, <2>2, <2>3 DEF suspend
<1>2. ASSUME NEW q \in Pids, resume(q) PROVE ReceiveHasMessage'
  <2>1. prstate[q] = "SUSP" /\ sch' = ready(sch, q) /\ pc' = pc /\ prhasmsg' = prhasmsg
    BY <1>2 DEF resume, proctab
  <2>2. Parked(sch, q)
    BY <2>1, IInvFacts, IdleIsParked DEF prstate, Idle
  <2> QED
    BY <2>1, <2>2, PcStays, ReadyReceives
<1>3. ASSUME NEW q \in Pids, NEW pr \in Prios, chprio(q, pr) PROVE ReceiveHasMessage'
  <2>1. sch'.prstate = sch.prstate /\ pc' = pc /\ prhasmsg' = prhasmsg
    BY <1>3 DEF chprio, proctab
  <2> QED
    BY <2>1, PcStays, FlagsStay, SameStatesReceive
<1>4. CASE yield
  BY <1>4, PcStays, ReschedReceives DEF yield, proctab
<1>5. ASSUME NEW d \in Delays, sleepms(d) PROVE ReceiveHasMessage'
  <2>1. /\ sch.ndefers = 0 /\ currpid # NULLPROC /\ "SLEEP" \in Delayed
        /\ pc' = pc /\ prhasmsg' = prhasmsg /\ sch' = delay(sch, d, "SLEEP")
    BY <1>5, Called DEF sleepms, proctab, Delayed
  <2> QED
    BY <2>1, PcStays, BlockReceives
<1> QED
  BY <1>1, <1>2, <1>3, <1>4, <1>5, CreateReceives, KillReceives DEF ProcessCall

(* The victim of kill leaves receive with its life.                        *)
LEMMA KillRestReceives ==
  ASSUME IInv, ReceiveHasMessage, kill_rest
  PROVE  ReceiveHasMessage'
<1> DEFINE q == Here.arg
<1>1. q \in Pids /\ currpid \in Pids /\ q # NULLPROC /\ sch.ndefers = 0 /\ prhasmsg' = prhasmsg
  BY IInvFacts, NotDeferred DEF kill_rest, inside, FrameOK, Looping, proctab
<1>2. \A p \in Pids : pc'[p] = IF p \in {currpid, q} THEN User ELSE pc[p]
  <2>1. pc \in [Pids -> Frames] /\ pc' = [pc EXCEPT ![currpid] = User, ![q] = User]
    BY DEF IInv, TypeOK, kill_rest
  <2> QED
    BY <1>1, <2>1
<1>3. NoneBegins /\ pc'[q].at # "receive" /\ MessagesStay
  BY <1>1, <1>2, UserIsElsewhere, FlagsStay DEF NoneBegins, Receiving
<1>4. CASE prstate[q] = "CURR" /\ sch' = block(sch, "FREE")
  <2>1. currpid # NULLPROC
    BY <1>1, <1>4, IInvFacts DEF SchedOK, Coherent, prstate, currpid
  <2> QED
    BY <1>1, <1>3, <1>4, <2>1, BlockReceives
<1>5. CASE \E S : S.prstate = sch.prstate /\ sch' = [S EXCEPT !.prstate[q] = "FREE"]
  <2>1. PICK S : S.prstate = sch.prstate /\ sch' = [S EXCEPT !.prstate[q] = "FREE"]
    BY <1>5
  <2>2. sch'.prstate = [sch.prstate EXCEPT ![q] = "FREE"]
    BY <2>1
  <2>3. Turns({q}, sch, sch')
    BY <1>1, <2>2, IInvFacts, TurnsOfOne DEF prstate
  <2> QED
    BY <1>3, <2>3, ReceiversStay DEF Receiving
<1>6. unsleep(sch, q).prstate = sch.prstate
  BY DEF unsleep
<1>7. [sch EXCEPT !.readylist = getitem(@, q)].prstate = sch.prstate
  OBVIOUS
<1>8. \/ sch' = block(sch, "FREE") /\ prstate[q] = "CURR"
      \/ \E S : S.prstate = sch.prstate /\ sch' = [S EXCEPT !.prstate[q] = "FREE"]
  BY <1>6, <1>7 DEF kill_rest
<1> QED
  BY <1>4, <1>5, <1>8

LEMMA ClockReceives ==
  ASSUME IInv, ReceiveHasMessage, clkhandler \/ wakeup \/ clkhandler_rest
  PROVE  ReceiveHasMessage'
<1>1. prhasmsg' = prhasmsg
  BY DEF clkhandler, wakeup, clkhandler_rest, proctab
<1>2. NoneBegins
  <2>1. CASE pc' = pc
    BY <2>1, PcStays
  <2>2. ASSUME NEW f \in {User, At("wakeup", 0, 0), At("clock", 0, 0)}, Goto(f)
        PROVE  NoneBegins
    <3>1. f.at # "receive"
      BY DEF User, At
    <3> QED
      BY <2>2, <3>1, PcMoves
  <2> QED
    BY <2>1, <2>2 DEF clkhandler, wakeup, clkhandler_rest
<1>3. ASSUME NEW S, SchedOK(S), Running(S), S.ndefers = 0, S.prstate = sch.prstate,
             sch' = defer_start(S) \/ sch' = end_of_tick(S)
      PROVE  ReceiveHasMessage'
  <2>1. CASE sch' = defer_start(S)
    <3>1. sch'.prstate = sch.prstate
      BY <1>3, <2>1, DeferStartOK
    <3> QED
      BY <1>1, <1>2, <3>1, FlagsStay, SameStatesReceive
  <2>2. CASE sch' = end_of_tick(S)
    <3>1. Turns({}, S, sch')
      BY <1>3, <2>2, EndOfTickOK
    <3> QED
      BY <1>1, <1>2, <1>3, <3>1, StepReceives
  <2> QED
    BY <1>3, <2>1, <2>2
<1>4. CASE clkhandler
  <2> DEFINE T == [sch EXCEPT !.qkey[Head(sch.sleepq)] = @ - 1]
             S == IF sch.sleepq = << >> THEN sch ELSE T
  <2>1. sch' = defer_start(S) \/ sch' = end_of_tick(S)
    BY <1>4 DEF clkhandler
  <2>2. sch.ndefers = 0 /\ SchedOK(sch) /\ Running(sch)
    BY <1>4, UserFrame, NotDeferred, IInvFacts DEF clkhandler
  <2>3. CASE sch.sleepq # << >>
    <3>1. /\ SchedOK(T) /\ T.ndefers = sch.ndefers /\ T.prstate = sch.prstate
          /\ T.currpid = sch.currpid
      BY <2>2, <2>3, TickOK
    <3>2. S = T
      BY <2>3
    <3> HIDE DEF S, T
    <3> QED
      BY <1>3, <2>1, <2>2, <3>1, <3>2 DEF Running
  <2> QED
    BY <1>3, <2>1, <2>2, <2>3
<1>5. CASE wakeup
  <2>1. sch.ndefers = 1
    BY <1>5, Deferred DEF wakeup, inside, Looping
  <2>2. CASE sch' = defer_stop(sch)
    BY <1>1, <1>2, <2>1, <2>2, DeferReceives
  <2>3. CASE /\ sch.sleepq # << >>
             /\ sch' = ready([sch EXCEPT !.sleepq = Tail(@)], Head(sch.sleepq))
    <3> DEFINE S == [sch EXCEPT !.sleepq = Tail(sch.sleepq)]
               p == Head(sch.sleepq)
    <3>1. p \in Pids /\ sch.prstate[p] \in Delayed /\ Parked(S, p) /\ S.prstate = sch.prstate
      BY <2>3, IInvFacts, FirstParks
    <3>2. sch' = ready(S, p)
      BY <2>3
    <3> HIDE DEF S, p
    <3>3. prstate[p] # "RECV"
      BY <3>1 DEF Delayed, prstate
    <3> QED
      BY <1>1, <1>2, <3>1, <3>2, <3>3, ReadyReceives
  <2> QED
    BY <1>5, <2>2, <2>3 DEF wakeup
<1>6. CASE clkhandler_rest
  <2>1. sch.ndefers = 0 /\ sch' = end_of_tick(sch)
    BY <1>6, NotDeferred DEF clkhandler_rest, inside, Looping
  <2> QED
    BY <1>3, <2>1, IInvFacts
<1> QED
  BY <1>4, <1>5, <1>6

-----------------------------------------------------------------------------
LEMMA NextReceives == IInv /\ ReceiveHasMessage /\ [Next]_vars => ReceiveHasMessage'
<1> SUFFICES ASSUME IInv, ReceiveHasMessage, [Next]_vars PROVE ReceiveHasMessage'
  OBVIOUS
<1>1. CASE RestOfCall
  BY <1>1, LoopReceives, RestReceives, SendLoopReceives, KillRestReceives, ClockReceives
  DEF RestOfCall
<1>2. CASE UNCHANGED vars
  BY <1>2 DEF vars, proctab, ReceiveHasMessage, prstate
<1> QED
  BY <1>1, <1>2, SemaphoreReceives, MessageReceives, ProcessReceives, ClockReceives
  DEF Next

(* A process that comes back from its wait in receive finds a message,     *)
(* whatever happened while it waited: it was suspended, its mailbox was    *)
(* sent more, the clock and other calls switched in between.               *)
THEOREM SpecReceiveHasMessage == Spec => []ReceiveHasMessage
<1>1. Init => ReceiveHasMessage
  BY SchedAssumption, UserIsElsewhere DEF Init, ReceiveHasMessage
<1>2. Init => IInv
  BY InitIInv
<1>3. IInv /\ ReceiveHasMessage /\ [Next]_vars => (IInv /\ ReceiveHasMessage)'
  BY NextIInv, NextReceives
<1> QED
  BY <1>1, <1>2, <1>3, PTL DEF Spec

-----------------------------------------------------------------------------
(***************************************************************************)
(* HighestPriorityRuns for every size of the tables and every workload     *)
(* that does not call chprio.  The invariant that is inductive says that   *)
(* the ready list descends by priority and that its keys are still the     *)
(* priorities, which chprio would break; and that while rescheduling is    *)
(* deferred, either it has been asked for or there is no need.             *)
(***************************************************************************)

Ordered(S) ==
  /\ Descending(S.readylist, S.prprio)
  /\ \A p \in Pids : S.prstate[p] = "READY" => S.qkey[p] = S.prprio[p]

Highest(S) ==
  \A p \in Pids : S.prstate[p] = "READY" => S.prprio[p] <= S.prprio[S.currpid]

Ranked(S) == Ordered(S) /\ (S.ndefers = 0 \/ ~S.attempt => Highest(S))

(* The same processes are ready in S and T, in the same places.            *)
Kept(S, T) ==
  /\ T.readylist = S.readylist
  /\ \A p \in Pids : /\ T.prstate[p] = "READY" <=> S.prstate[p] = "READY"
                     /\ S.prstate[p] = "READY" => /\ T.qkey[p] = S.qkey[p]
                                                  /\ T.prprio[p] = S.prprio[p]

-----------------------------------------------------------------------------
(* The scheduler.                                                          *)

LEMMA KeptOrdered ==
  ASSUME NEW S, NEW T, Coherent(S), Ordered(S), Kept(S, T)
  PROVE  Ordered(T)
<1> DEFINE q == S.readylist
<1>a. q \in Seq(Pids)
  BY SchedFields DEF Coherent
<1>1. \A i \in 1 .. Len(q) : q[i] \in Pids /\ S.prstate[q[i]] = "READY"
  <2>1. \A i \in 1 .. Len(q) : q[i] \in Pids /\ q[i] \in ToSet(q)
    BY <1>a DEF ToSet
  <2> QED
    BY <2>1 DEF Coherent
<1>2. \A i \in 1 .. Len(q) : T.prprio[q[i]] = S.prprio[q[i]]
  BY <1>1 DEF Kept
<1>3. Descending(T.readylist, T.prprio)
  BY <1>2 DEF Ordered, Kept, Descending
<1> QED
  BY <1>3 DEF Ordered, Kept

(* A READY process is behind the head, or is it.                           *)
LEMMA HeadIsHighest ==
  ASSUME NEW S, Coherent(S), Ordered(S), S.readylist # << >>
  PROVE  LET h == Head(S.readylist) IN
         /\ h \in Pids /\ S.prstate[h] = "READY"
         /\ \A p \in Pids : S.prstate[p] = "READY" => S.prprio[p] <= S.prprio[h]
<1> DEFINE q == S.readylist
           h == Head(q)
<1>a. q \in Seq(Pids) /\ S.prprio \in [Pids -> Nat]
  BY SchedFields DEF Coherent
<1>1. h = q[1] /\ 1 \in 1 .. Len(q)
  BY <1>a
<1>2. h \in ToSet(q) /\ h \in Pids
  BY <1>a, <1>1 DEF ToSet
<1>3. ASSUME NEW p \in Pids, S.prstate[p] = "READY"
      PROVE  S.prprio[p] <= S.prprio[h]
  <2>1. PICK i \in 1 .. Len(q) : q[i] = p
    BY <1>a, <1>3 DEF Coherent, ToSet
  <2>2. CASE i = 1
    BY <1>a, <1>1, <1>2, <2>1, <2>2
  <2>3. CASE i > 1
    BY <1>1, <2>1, <2>3 DEF Ordered, Descending
  <2> QED
    BY <2>1, <2>2, <2>3
<1> QED
  BY <1>2, <1>3 DEF Coherent

LEMMA MakeReadyOrdered ==
  ASSUME NEW S, Coherent(S), Ordered(S), NEW p \in Pids, S.prstate[p] # "READY"
  PROVE  /\ Ordered(make_ready(S, p)) /\ make_ready(S, p).prprio = S.prprio
<1> DEFINE T == make_ready(S, p)
           q == S.readylist
<1>1. /\ q \in Seq(Pids) /\ S.prprio \in [Pids -> Nat]
      /\ S.prstate \in [Pids -> PrStates] /\ S.qkey = [r \in Pids |-> S.qkey[r]]
  BY SchedFields DEF Coherent
<1>2. /\ T.readylist = insert(q, S.qkey, p, S.prprio[p]) /\ T.prprio = S.prprio
      /\ T.prstate = [S.prstate EXCEPT ![p] = "READY"]
      /\ T.qkey = [S.qkey EXCEPT ![p] = S.prprio[p]]
  BY DEF make_ready, Coherent, IsSched, SchedRecords
<1>3. \A i \in 1 .. Len(q) : S.qkey[q[i]] = S.prprio[q[i]]
  <2>1. \A i \in 1 .. Len(q) : q[i] \in Pids /\ q[i] \in ToSet(q)
    BY <1>1 DEF ToSet
  <2> QED
    BY <2>1 DEF Ordered, Coherent
<1>4. Descending(T.readylist, T.prprio)
  <2>1. Descending(q, S.prprio)
    BY DEF Ordered
  <2> HIDE DEF q, T
  <2>2. Descending(insert(q, S.qkey, p, S.prprio[p]), S.prprio)
    BY <1>1, <1>3, <2>1, InsertDescends
  <2> QED
    BY <1>2, <2>2
<1>5. \A r \in Pids : T.prstate[r] = "READY" => T.qkey[r] = T.prprio[r]
  BY <1>1, <1>2 DEF Ordered
<1> QED
  BY <1>2, <1>4, <1>5 DEF Ordered

LEMMA DispatchRanked ==
  ASSUME NEW S, Coherent(S), Ordered(S), \A p \in Pids : S.prstate[p] # "CURR"
  PROVE  Ranked(dispatch(S))
<1> DEFINE T == dispatch(S)
           h == Head(S.readylist)
<1>1. /\ S.prstate \in [Pids -> PrStates] /\ S.readylist \in Seq(Pids)
  BY SchedFields DEF Coherent
<1>2. S.readylist # << >>
  <2>1. NULLPROC \in ToSet(S.readylist)
    BY NullIsAProcess DEF Coherent, Eligible
  <2> QED
    BY <2>1 DEF ToSet
<1>3. /\ h \in Pids
      /\ \A p \in Pids : S.prstate[p] = "READY" => S.prprio[p] <= S.prprio[h]
  BY <1>2, HeadIsHighest
<1>4. Descending(Tail(S.readylist), S.prprio)
  BY <1>1, <1>2, TailDescends DEF Ordered
<1> HIDE DEF h
<1>5. /\ T.prstate = [S.prstate EXCEPT ![h] = "CURR"] /\ T.currpid = h
      /\ T.readylist = Tail(S.readylist) /\ T.qkey = S.qkey /\ T.prprio = S.prprio
  BY DEF dispatch, Coherent, IsSched, SchedRecords, h
<1>6. \A p \in Pids : T.prstate[p] = "READY" => S.prstate[p] = "READY"
  BY <1>1, <1>3, <1>5
<1> QED
  BY <1>3, <1>4, <1>5, <1>6 DEF Ranked, Ordered, Highest

(* resched makes the highest process run, whichever ran before.            *)
LEMMA ReschedRanked ==
  ASSUME NEW S, Coherent(S), Ordered(S)
  PROVE  Ranked(resched(S))
<1> DEFINE T == resched(S)
<1>1. /\ S.ndefers \in {0, 1} /\ S.currpid \in Pids /\ S.readylist \in Seq(Pids)
      /\ S.prstate \in [Pids -> PrStates] /\ S.prprio \in [Pids -> Nat]
  BY SchedFields DEF Coherent
<1>2. CASE S.ndefers > 0
  <2>1. T = [S EXCEPT !.attempt = TRUE]
    BY <1>2 DEF resched
  <2>2. Kept(S, T) /\ T.ndefers = S.ndefers /\ T.attempt = TRUE
    BY <2>1 DEF Kept, Coherent, IsSched, SchedRecords
  <2> QED
    BY <1>1, <1>2, <2>2, KeptOrdered DEF Ranked
<1>3. CASE S.ndefers = 0 /\ keeps_cpu(S)
  <2>1. T = S
    BY <1>3 DEF resched
  <2>2. CASE S.readylist = << >>
    <3>1. \A p \in Pids : S.prstate[p] # "READY"
      BY <2>2 DEF Coherent, ToSet
    <3> QED
      BY <2>1, <3>1 DEF Ranked, Highest
  <2>3. CASE S.readylist # << >>
    <3> DEFINE h == Head(S.readylist)
    <3>1. /\ h \in Pids /\ S.prstate[h] = "READY"
          /\ \A p \in Pids : S.prstate[p] = "READY" => S.prprio[p] <= S.prprio[h]
      BY <2>3, HeadIsHighest
    <3>2. S.prprio[S.currpid] > S.qkey[h]
      BY <1>3, <2>3 DEF keeps_cpu
    <3> HIDE DEF h
    <3>3. S.prprio[h] < S.prprio[S.currpid]
      BY <3>1, <3>2 DEF Ordered
    <3>4. Highest(S)
      BY <1>1, <3>1, <3>3 DEF Highest
    <3> QED
      BY <2>1, <3>4 DEF Ranked
  <2> QED
    BY <2>2, <2>3
<1>4. CASE S.ndefers = 0 /\ ~keeps_cpu(S) /\ S.prstate[S.currpid] = "CURR"
  <2> DEFINE R == make_ready(S, S.currpid)
  <2>1. T = dispatch(R)
    BY <1>4 DEF resched
  <2>2. Coherent(R) /\ R.prstate = [S.prstate EXCEPT ![S.currpid] = "READY"]
    BY <1>1, <1>4, MakeReadyJoins
  <2>3. Ordered(R)
    BY <1>1, <1>4, MakeReadyOrdered
  <2>4. \A p \in Pids : R.prstate[p] # "CURR"
    BY <1>1, <2>2 DEF Coherent
  <2> QED
    BY <2>1, <2>2, <2>3, <2>4, DispatchRanked
<1>5. CASE S.ndefers = 0 /\ ~keeps_cpu(S) /\ S.prstate[S.currpid] # "CURR"
  <2>1. T = dispatch(S)
    BY <1>5 DEF resched
  <2>2. \A p \in Pids : S.prstate[p] # "CURR"
    BY <1>5 DEF Coherent
  <2> QED
    BY <2>1, <2>2, DispatchRanked
<1> QED
  BY <1>1, <1>2, <1>3, <1>4, <1>5

(* What the calls use.                                                     *)
LEMMA ReadyRanked ==
  ASSUME NEW S, NEW p \in Pids, Parked(S, p), Ordered(S)
  PROVE  Ranked(ready(S, p))
<1>1. Coherent(S) /\ S.prstate[p] # "READY"
  BY DEF Parked, Eligible
<1>2. Coherent(make_ready(S, p)) /\ Ordered(make_ready(S, p))
  BY <1>1, MakeReadyJoins, MakeReadyOrdered
<1> QED
  BY <1>2, ReschedRanked DEF ready

(* The current process gives up the CPU and R is the record resched gets.  *)
LEMMA GivenUpRanked ==
  ASSUME NEW S, SchedOK(S), Running(S), Ordered(S), NEW R, SchedOK(R), SameReady(S, R),
         NEW st, st # "READY", R.prstate = [S.prstate EXCEPT ![S.currpid] = st]
  PROVE  Ranked(resched(R))
<1>1. S.prstate \in [Pids -> PrStates] /\ S.currpid \in Pids
  BY SchedFields DEF SchedOK, Coherent
<1>2. \A p \in Pids : R.prstate[p] = "READY" <=> S.prstate[p] = "READY"
  BY <1>1 DEF Running
<1>3. Kept(S, R)
  BY <1>2 DEF Kept, SameReady
<1> QED
  BY <1>3, KeptOrdered, ReschedRanked DEF SchedOK

LEMMA BlockRanked ==
  ASSUME NEW S, SchedOK(S), Running(S), S.ndefers = 0, S.currpid # NULLPROC,
         Ordered(S), NEW st \in {"RECV", "SUSP", "WAIT", "FREE"}
  PROVE  Ranked(block(S, st))
<1> DEFINE R == [S EXCEPT !.prstate[S.currpid] = st]
<1>1. SchedOK(R) /\ SameReady(S, R) /\ R.prstate = [S.prstate EXCEPT ![S.currpid] = st]
  BY GivesUpOK
<1>2. block(S, st) = resched(R)
  BY DEF block
<1> HIDE DEF R
<1> QED
  BY <1>1, <1>2, GivenUpRanked

LEMMA DelayRanked ==
  ASSUME NEW S, SchedOK(S), Running(S), S.ndefers = 0, S.currpid # NULLPROC,
         Ordered(S), NEW d, NEW st \in Delayed
  PROVE  Ranked(delay(S, d, st))
<1>1. PICK R : /\ SchedOK(R) /\ SameReady(S, R)
               /\ R.prstate = [S.prstate EXCEPT ![S.currpid] = st]
               /\ delay(S, d, st) = resched(R)
  BY GoesToSleepOK
<1>2. st # "READY"
  BY DEF Delayed
<1> QED
  BY <1>1, <1>2, GivenUpRanked

(* A step that changes neither who is ready nor who runs.                  *)
LEMMA KeptRanked ==
  ASSUME NEW S, NEW T, Coherent(S), Kept(S, T), T.ndefers = S.ndefers,
         T.attempt = S.attempt, T.currpid = S.currpid,
         T.prprio[S.currpid] = S.prprio[S.currpid], Ranked(S)
  PROVE  Ranked(T)
<1>1. Ordered(T)
  BY KeptOrdered DEF Ranked
<1>2. Highest(S) => Highest(T)
  BY DEF Highest, Kept
<1> QED
  BY <1>1, <1>2 DEF Ranked

LEMMA DeferStartRanked ==
  ASSUME NEW S, SchedOK(S), S.ndefers = 0, Ranked(S)
  PROVE  Ranked(defer_start(S))
<1> DEFINE T == defer_start(S)
<1>1. Kept(S, T) /\ T.currpid = S.currpid /\ T.prprio = S.prprio
  BY DEF defer_start, Kept, SchedOK, Coherent, IsSched, SchedRecords
<1> HIDE DEF T
<1>2. Ordered(T)
  BY <1>1, KeptOrdered DEF Ranked, SchedOK
<1>3. Highest(T)
  BY <1>1 DEF Ranked, Highest, Kept
<1> QED
  BY <1>2, <1>3 DEF Ranked, T

LEMMA DeferStopRanked ==
  ASSUME NEW S, SchedOK(S), Running(S), S.ndefers = 1, Ranked(S)
  PROVE  Ranked(defer_stop(S))
<1> DEFINE R == [S EXCEPT !.ndefers = 0]
<1>1. /\ SchedOK(R) /\ SameReady(S, R) /\ R.attempt = S.attempt
      /\ R.prstate = S.prstate /\ R.currpid = S.currpid
      /\ defer_stop(S) = IF R.attempt THEN resched(R) ELSE R
  BY EndDeferralOK
<1> HIDE DEF R
<1>2. Kept(S, R) /\ R.prprio = S.prprio
  BY <1>1 DEF Kept, SameReady
<1>3. Coherent(S) /\ Coherent(R) /\ Ordered(R)
  BY <1>1, <1>2, KeptOrdered DEF Ranked, SchedOK
<1>4. CASE R.attempt
  BY <1>1, <1>3, <1>4, ReschedRanked
<1>5. CASE ~R.attempt
  <2>1. Highest(R)
    BY <1>1, <1>2, <1>5 DEF Ranked, Highest, Kept
  <2> QED
    BY <1>1, <1>3, <1>5, <2>1 DEF Ranked
<1> QED
  BY <1>4, <1>5

LEMMA EndOfTickRanked ==
  ASSUME NEW S, SchedOK(S), Running(S), S.ndefers = 0, Ranked(S)
  PROVE  Ranked(end_of_tick(S))
<1>1. PICK R : /\ SchedOK(R) /\ SameReady(S, R) /\ R.ndefers = 0
               /\ R.prstate = S.prstate /\ R.currpid = S.currpid
               /\ end_of_tick(S) \in {resched(R), R}
  BY SliceOK
<1>2. Kept(S, R) /\ R.prprio = S.prprio
  BY <1>1 DEF Kept, SameReady
<1>3. Coherent(R) /\ Ordered(R)
  BY <1>1, <1>2, KeptOrdered DEF Ranked, SchedOK
<1>4. Highest(R)
  BY <1>1, <1>2 DEF Ranked, Highest, Kept
<1>5. Ranked(R) /\ Ranked(resched(R))
  BY <1>3, <1>4, ReschedRanked DEF Ranked
<1> QED
  BY <1>1, <1>5

(* A tick is taken off the key of a process on the delta list.             *)
LEMMA TickRanked ==
  ASSUME NEW S, SchedOK(S), S.sleepq # << >>, Ranked(S)
  PROVE  Ranked([S EXCEPT !.qkey[Head(S.sleepq)] = @ - 1])
<1> DEFINE h == Head(S.sleepq)
           T == [S EXCEPT !.qkey[h] = @ - 1]
<1>1. h \in Pids /\ S.prstate[h] \in Delayed
  BY FirstParks
<1>2. S.prstate[h] # "READY"
  BY <1>1 DEF Delayed
<1> HIDE DEF h
<1>3. /\ T.readylist = S.readylist /\ T.prprio = S.prprio /\ T.prstate = S.prstate
      /\ T.currpid = S.currpid /\ T.ndefers = S.ndefers /\ T.attempt = S.attempt
      /\ T.qkey = [S.qkey EXCEPT ![h] = @ - 1]
  BY DEF SchedOK, Coherent, IsSched, SchedRecords
<1>4. S.qkey = [r \in Pids |-> S.qkey[r]]
  BY SchedFields DEF SchedOK, Coherent
<1>5. Kept(S, T)
  BY <1>2, <1>3, <1>4 DEF Kept
<1> QED
  BY <1>3, <1>5, KeptRanked DEF SchedOK, h

(* A process that is not the current one is given a state without a queue. *)
LEMMA IdleRanked ==
  ASSUME NEW S, NEW p \in Pids, Parked(S, p), NEW st \in Idle, Ranked(S)
  PROVE  Ranked([S EXCEPT !.prstate[p] = st])
<1> DEFINE T == [S EXCEPT !.prstate[p] = st]
<1>1. /\ S.prstate \in [Pids -> PrStates] /\ S.prstate[p] # "READY" /\ st # "READY"
      /\ Coherent(S)
  BY SchedFields DEF Parked, Coherent, Eligible, Idle
<1>2. /\ T.readylist = S.readylist /\ T.prprio = S.prprio /\ T.qkey = S.qkey
      /\ T.currpid = S.currpid /\ T.ndefers = S.ndefers /\ T.attempt = S.attempt
      /\ T.prstate = [S.prstate EXCEPT ![p] = st]
  BY DEF Parked, Coherent, IsSched, SchedRecords
<1>3. Kept(S, T)
  BY <1>1, <1>2 DEF Kept
<1> QED
  BY <1>1, <1>2, <1>3, KeptRanked

(* A READY process leaves the ready list.                                  *)
LEMMA LeaveReadyRanked ==
  ASSUME NEW S, SchedOK(S), NEW p \in Pids, S.prstate[p] = "READY", Ranked(S),
         NEW st \in Idle
  PROVE  Ranked([S EXCEPT !.readylist = getitem(S.readylist, p),
                          !.prstate   = [S.prstate EXCEPT ![p] = st]])
<1> DEFINE q == getitem(S.readylist, p)
           T == [S EXCEPT !.readylist = q, !.prstate = [S.prstate EXCEPT ![p] = st]]
<1>1. /\ S.prstate \in [Pids -> PrStates] /\ S.readylist \in Seq(Pids)
      /\ p \in ToSet(S.readylist) /\ st # "READY"
  BY SchedFields DEF SchedOK, Coherent, Idle
<1>2. Descending(q, S.prprio)
  BY <1>1, GetitemDescends DEF Ranked, Ordered
<1> HIDE DEF q
<1>3. /\ T.readylist = q /\ T.prprio = S.prprio /\ T.qkey = S.qkey
      /\ T.currpid = S.currpid /\ T.ndefers = S.ndefers /\ T.attempt = S.attempt
      /\ T.prstate = [S.prstate EXCEPT ![p] = st]
  BY DEF SchedOK, Coherent, IsSched, SchedRecords
<1>4. \A r \in Pids : T.prstate[r] = "READY" => S.prstate[r] = "READY"
  BY <1>1, <1>3
<1> HIDE DEF T
<1>5. Ordered(T) /\ (Highest(S) => Highest(T))
  BY <1>2, <1>3, <1>4 DEF Ranked, Ordered, Highest
<1> QED
  BY <1>3, <1>5 DEF Ranked, T, q

(* A delayed process leaves the delta list, called for or when it is due.  *)
LEMMA UnsleepRanked ==
  ASSUME NEW S, SchedOK(S), NEW p \in Pids, S.prstate[p] \in Delayed, Ranked(S)
  PROVE  Ranked(unsleep(S, p))
<1> DEFINE T == unsleep(S, p)
<1>1. /\ T.prstate = S.prstate /\ T.currpid = S.currpid /\ T.ndefers = S.ndefers
      /\ SameReady(S, T)
  BY UnsleepParks
<1>2. T.attempt = S.attempt
  BY DEF unsleep, SchedOK, Coherent, IsSched, SchedRecords
<1> HIDE DEF T
<1>3. Kept(S, T) /\ T.prprio = S.prprio
  BY <1>1 DEF Kept, SameReady
<1>4. Ranked(T)
  BY <1>1, <1>2, <1>3, KeptRanked DEF SchedOK
<1> QED
  BY <1>4 DEF T

LEMMA FirstRanked ==
  ASSUME NEW S, SchedOK(S), S.sleepq # << >>, Ranked(S)
  PROVE  Ranked(ready([S EXCEPT !.sleepq = Tail(S.sleepq)], Head(S.sleepq)))
<1> DEFINE T == [S EXCEPT !.sleepq = Tail(S.sleepq)]
           p == Head(S.sleepq)
<1>1. p \in Pids /\ Parked(T, p)
  BY FirstParks
<1>2. Kept(S, T)
  BY DEF Kept, SchedOK, Coherent, IsSched, SchedRecords
<1> HIDE DEF T, p
<1>3. Ordered(T)
  BY <1>2, KeptOrdered DEF Ranked, SchedOK
<1>4. Ranked(ready(T, p))
  BY <1>1, <1>3, ReadyRanked
<1> QED
  BY <1>4 DEF T, p

-----------------------------------------------------------------------------
(* The kernel.  Whatever a step does, its scheduler calls start from sch.  *)

LEMMA NowRanked ==
  ASSUME IInv, Ranked(sch)
  PROVE  /\ SchedOK(sch) /\ Coherent(sch) /\ Running(sch) /\ Ordered(sch)
         /\ sch.currpid = currpid /\ Ranked(resched(sch))
<1>1. SchedOK(sch) /\ Coherent(sch) /\ Running(sch) /\ Ordered(sch)
  BY IInvFacts DEF SchedOK, Ranked
<1> QED
  BY <1>1, ReschedRanked DEF currpid

LEMMA WaiterRanked ==
  ASSUME IInv, Ranked(sch), NEW s \in Sems, squeue[s] # << >>,
         sch' = ready(sch, Head(squeue[s]))
  PROVE  Ranked(sch')
<1> DEFINE p == Head(squeue[s])
<1>1. squeue[s] \in Seq(Pids) /\ IsInjective(squeue[s])
  BY DEF IInv, TypeOK, SemQueuesOK
<1>2. p \in ToSet(squeue[s]) /\ p \in Pids
  BY <1>1, TailLeaves
<1>3. sch' = ready(sch, p)
  OBVIOUS
<1> HIDE DEF p
<1>4. prstate[p] = "WAIT"
  BY <1>2 DEF IInv, SemQueuesOK
<1>5. Parked(sch, p)
  BY <1>2, <1>4, IInvFacts, IdleIsParked DEF prstate, Idle
<1> QED
  BY <1>2, <1>3, <1>5, NowRanked, ReadyRanked

LEMMA ReleaseRanked ==
  ASSUME IInv, Ranked(sch), NEW s \in Sems, release_one(s)
  PROVE  Ranked(sch')
<1>1. CASE squeue[s] # << >> /\ sch' = ready(sch, Head(squeue[s]))
  BY <1>1, WaiterRanked
<1> QED
  BY <1>1 DEF release_one

LEMMA DeliverRanked ==
  ASSUME IInv, Ranked(sch), NEW q \in Pids, deliver(q)
  PROVE  Ranked(sch')
<1>1. CASE prstate[q] = "RECV"
  <2>1. sch' = ready(sch, q) /\ Parked(sch, q)
    BY <1>1, IInvFacts, IdleIsParked DEF deliver, prstate, Idle
  <2> QED
    BY <2>1, NowRanked, ReadyRanked
<1>2. CASE prstate[q] = "RECTIM"
  <2>1. sch' = ready(unsleep(sch, q), q) /\ sch.prstate[q] \in Delayed
    BY <1>2 DEF deliver, prstate, Delayed
  <2>2. Parked(unsleep(sch, q), q) /\ Ranked(unsleep(sch, q))
    BY <2>1, IInvFacts, UnsleepParks, UnsleepRanked
  <2> QED
    BY <2>1, <2>2, ReadyRanked DEF Ranked
<1>3. CASE prstate[q] \notin {"RECV", "RECTIM"}
  <2>1. sch' = sch
    BY <1>3 DEF deliver
  <2> QED
    BY <2>1
<1> QED
  BY <1>1, <1>2, <1>3

LEMMA SemaphoreRanked ==
  ASSUME IInv, Ranked(sch), SemaphoreCall
  PROVE  Ranked(sch')
<1>1. ASSUME NEW c, semcreate(c) PROVE Ranked(sch')
  BY <1>1 DEF semcreate
<1>2. ASSUME NEW s \in Sems, wait(s) PROVE Ranked(sch')
  <2>1. sch.ndefers = 0 /\ currpid # NULLPROC
    BY <1>2, Called DEF wait
  <2>2. CASE sch' = block(sch, "WAIT")
    BY <2>1, <2>2, NowRanked, BlockRanked
  <2> QED
    BY <1>2, <2>2 DEF wait
<1>3. ASSUME NEW s \in Sems, signal(s) PROVE Ranked(sch')
  BY <1>3, ReleaseRanked DEF signal
<1>4. ASSUME NEW s \in Sems, NEW c,
             signaln(s, c) \/ semreset(s, c) \/ semdelete(s)
      PROVE  Ranked(sch')
  <2>1. sch.ndefers = 0 /\ sch' = defer_start(sch)
    BY <1>4, Called DEF signaln, semreset, semdelete, begin_loop
  <2> QED
    BY <2>1, NowRanked, DeferStartRanked
<1> QED
  BY <1>1, <1>2, <1>3, <1>4 DEF SemaphoreCall

LEMMA LoopRanked ==
  ASSUME IInv, Ranked(sch), signaln_loop \/ semdelete_loop \/ semreset_loop
  PROVE  Ranked(sch')
<1> DEFINE s == Here.arg
<1>1. Here.at \in {"signaln", "semdelete", "semreset"}
  BY DEF signaln_loop, semdelete_loop, semreset_loop, inside
<1>2. sch.ndefers = 1 /\ s \in Sems
  BY <1>1, Deferred, IInvFacts DEF Looping, FrameOK
<1>3. CASE release_one(s)
  BY <1>2, <1>3, ReleaseRanked
<1>4. CASE squeue[s] # << >> /\ sch' = ready(sch, Head(squeue[s]))
  BY <1>2, <1>4, WaiterRanked
<1>5. CASE sch' = defer_stop(sch)
  BY <1>2, <1>5, NowRanked, DeferStopRanked
<1> QED
  BY <1>3, <1>4, <1>5 DEF signaln_loop, semdelete_loop, semreset_loop, end_loop

LEMMA MessageRanked ==
  ASSUME IInv, Ranked(sch), MessageCall \/ send_loop \/ receive_rest \/ killsend_loop
  PROVE  Ranked(sch')
<1>1. ASSUME NEW q \in Pids, send(q) PROVE Ranked(sch')
  BY <1>1, DeliverRanked DEF send
<1>2. CASE receive
  <2>1. sch.ndefers = 0 /\ currpid # NULLPROC
    BY <1>2, Called DEF receive
  <2>2. CASE sch' = block(sch, "RECV")
    BY <2>1, <2>2, NowRanked, BlockRanked
  <2> QED
    BY <1>2, <2>2 DEF receive
<1>3. ASSUME NEW d, recvtime(d) PROVE Ranked(sch')
  <2>1. sch.ndefers = 0 /\ currpid # NULLPROC /\ "RECTIM" \in Delayed
    BY <1>3, Called DEF recvtime, Delayed
  <2>2. CASE sch' = delay(sch, d, "RECTIM")
    BY <2>1, <2>2, NowRanked, DelayRanked
  <2> QED
    BY <1>3, <2>2 DEF recvtime
<1>4. CASE recvclr \/ receive_rest
  BY <1>4 DEF recvclr, receive_rest
<1>5. CASE send_loop \/ killsend_loop
  <2>1. /\ send_loop => Here.arg \in Pids
        /\ killsend_loop => Here.n \in Pids
    BY IInvFacts DEF send_loop, killsend_loop, inside, FrameOK
  <2>2. CASE sch' = resched(sch)
    BY <2>2, NowRanked
  <2>3. ASSUME NEW q \in Pids, deliver(q) PROVE Ranked(sch')
    BY <2>3, DeliverRanked
  <2> QED
    BY <1>5, <2>1, <2>2, <2>3 DEF send_loop, killsend_loop
<1> QED
  BY <1>1, <1>2, <1>3, <1>4, <1>5 DEF MessageCall

(* create writes the priority of an entry that is FREE.                    *)
LEMMA CreateRanked ==
  ASSUME IInv, Ranked(sch), NEW pr \in Prios, create(pr)
  PROVE  Ranked(sch')
<1> DEFINE free == {p \in Pids : prstate[p] = "FREE"}
           pid  == next_free(nextpid, NPROC, free)
<1>1. pid \in Pids /\ prstate[pid] = "FREE"
  <2>1. free \in SUBSET Pids /\ free # {} /\ nextpid \in Pids /\ NPROC \in Nat
    BY SchedAssumption DEF create, IInv, TypeOK
  <2>2. pid \in free
    <3> HIDE DEF free
    <3> QED
      BY <2>1, NextFree DEF Pids
  <2> QED
    BY <2>2
<1>2. CASE sch' = [sch EXCEPT !.prstate[pid] = "SUSP", !.prprio[pid] = pr]
  <2> HIDE DEF pid
  <2>1. /\ sch.prstate \in [Pids -> PrStates] /\ sch.prprio \in [Pids -> Nat]
        /\ sch.prstate[currpid] = "CURR" /\ sch.prstate[pid] = "FREE"
    BY <1>1, IInvFacts DEF prstate
  <2>2. /\ sch'.readylist = sch.readylist /\ sch'.qkey = sch.qkey
        /\ sch'.currpid = sch.currpid /\ sch'.ndefers = sch.ndefers
        /\ sch'.attempt = sch.attempt
        /\ sch'.prstate = [sch.prstate EXCEPT ![pid] = "SUSP"]
        /\ sch'.prprio = [sch.prprio EXCEPT ![pid] = pr]
    BY <1>2, NowRanked DEF Coherent, IsSched, SchedRecords
  <2>3. Kept(sch, sch') /\ sch'.prprio[sch.currpid] = sch.prprio[sch.currpid]
    BY <1>1, <2>1, <2>2 DEF Kept, currpid
  <2> QED
    BY <2>2, <2>3, NowRanked, KeptRanked
<1>3. CASE sch' = sch
  BY <1>3
<1> QED
  BY <1>2, <1>3 DEF create

LEMMA ProcessRanked ==
  ASSUME IInv, Ranked(sch), "chprio" \notin Calls, ProcessCall
  PROVE  Ranked(sch')
<1>1. ASSUME NEW q \in Pids, suspend(q) PROVE Ranked(sch')
  <2>1. sch.ndefers = 0 /\ currpid # NULLPROC
    BY <1>1, Called DEF suspend
  <2>2. CASE /\ prstate[q] = "READY"
             /\ sch' = [sch EXCEPT !.readylist = getitem(@, q), !.prstate[q] = "SUSP"]
    <3>1. sch' = [sch EXCEPT !.readylist = getitem(sch.readylist, q),
                             !.prstate   = [sch.prstate EXCEPT ![q] = "SUSP"]]
      BY <2>2
    <3>2. sch.prstate[q] = "READY" /\ "SUSP" \in Idle
      BY <2>2 DEF prstate, Idle
    <3> QED
      BY <3>1, <3>2, NowRanked, LeaveReadyRanked
  <2>3. CASE sch' = block(sch, "SUSP")
    BY <2>1, <2>3, NowRanked, BlockRanked
  <2> QED
    BY <1>1, <2>2, <2>3 DEF suspend
<1>2. ASSUME NEW q \in Pids, resume(q) PROVE Ranked(sch')
  <2>1. sch' = ready(sch, q) /\ Parked(sch, q)
    BY <1>2, IInvFacts, IdleIsParked DEF resume, prstate, Idle
  <2> QED
    BY <2>1, NowRanked, ReadyRanked
<1>3. ASSUME NEW q \in Pids, kill(q) PROVE Ranked(sch')
  <2>1. prparent[q] \in Pids
    BY DEF IInv, TypeOK
  <2> QED
    BY <1>3, <2>1, DeliverRanked DEF kill
<1>4. ASSUME NEW q, NEW pr, chprio(q, pr) PROVE FALSE
  BY <1>4 DEF chprio, syscall
<1>5. CASE yield
  BY <1>5, NowRanked DEF yield
<1>6. ASSUME NEW d, sleepms(d) PROVE Ranked(sch')
  <2>1. /\ sch.ndefers = 0 /\ currpid # NULLPROC /\ "SLEEP" \in Delayed
        /\ sch' = delay(sch, d, "SLEEP")
    BY <1>6, Called DEF sleepms, Delayed
  <2> QED
    BY <2>1, NowRanked, DelayRanked
<1> QED
  BY <1>1, <1>2, <1>3, <1>4, <1>5, <1>6, CreateRanked DEF ProcessCall

LEMMA KillRestRanked ==
  ASSUME IInv, Ranked(sch), kill_rest
  PROVE  Ranked(sch')
<1> DEFINE q == Here.arg
<1>1. q \in Pids /\ q # NULLPROC /\ sch.ndefers = 0
  BY IInvFacts, NotDeferred DEF kill_rest, inside, FrameOK, Looping
<1>2. "FREE" \in Idle
  BY DEF Idle
<1> HIDE DEF q
<1>3. CASE prstate[q] = "CURR" /\ sch' = block(sch, "FREE")
  <2>1. currpid # NULLPROC
    BY <1>1, <1>3, IInvFacts DEF SchedOK, Coherent, prstate, currpid
  <2> QED
    BY <1>1, <1>3, <2>1, NowRanked, BlockRanked
<1>4. CASE prstate[q] \in Delayed /\ sch' = [unsleep(sch, q) EXCEPT !.prstate[q] = "FREE"]
  <2>1. Parked(unsleep(sch, q), q) /\ Ranked(unsleep(sch, q))
    BY <1>1, <1>4, IInvFacts, UnsleepParks, UnsleepRanked DEF prstate
  <2> QED
    BY <1>1, <1>2, <1>4, <2>1, IdleRanked
<1>5. CASE prstate[q] \in Idle /\ sch' = [sch EXCEPT !.prstate[q] = "FREE"]
  <2>1. Parked(sch, q)
    BY <1>1, <1>5, IInvFacts, IdleIsParked DEF prstate
  <2> QED
    BY <1>1, <1>2, <1>5, <2>1, IdleRanked
<1>6. CASE /\ prstate[q] = "READY"
           /\ sch' = [[sch EXCEPT !.readylist = getitem(@, q)] EXCEPT !.prstate[q] = "FREE"]
  <2>1. sch' = [sch EXCEPT !.readylist = getitem(sch.readylist, q),
                           !.prstate   = [sch.prstate EXCEPT ![q] = "FREE"]]
    BY <1>6, NowRanked DEF Coherent, IsSched, SchedRecords
  <2>2. sch.prstate[q] = "READY"
    BY <1>6 DEF prstate
  <2> QED
    BY <1>1, <1>2, <2>1, <2>2, NowRanked, LeaveReadyRanked
<1> QED
  BY <1>3, <1>4, <1>5, <1>6 DEF kill_rest, Idle, q

LEMMA ClockRanked ==
  ASSUME IInv, Ranked(sch), clkhandler \/ wakeup \/ clkhandler_rest
  PROVE  Ranked(sch')
<1>1. ASSUME NEW S, SchedOK(S), Running(S), S.ndefers = 0, Ranked(S),
             sch' = defer_start(S) \/ sch' = end_of_tick(S)
      PROVE  Ranked(sch')
  BY <1>1, DeferStartRanked, EndOfTickRanked
<1>2. CASE clkhandler
  <2> DEFINE T == [sch EXCEPT !.qkey[Head(sch.sleepq)] = @ - 1]
             S == IF sch.sleepq = << >> THEN sch ELSE T
  <2>1. sch' = defer_start(S) \/ sch' = end_of_tick(S)
    BY <1>2 DEF clkhandler
  <2>2. sch.ndefers = 0
    BY <1>2, UserFrame, NotDeferred DEF clkhandler
  <2>3. CASE sch.sleepq # << >>
    <3>1. /\ SchedOK(T) /\ T.ndefers = sch.ndefers /\ T.prstate = sch.prstate
          /\ T.currpid = sch.currpid /\ Ranked(T)
      BY <2>3, NowRanked, TickOK, TickRanked
    <3>2. S = T
      BY <2>3
    <3> HIDE DEF S, T
    <3> QED
      BY <1>1, <2>1, <2>2, <3>1, <3>2, NowRanked DEF Running
  <2>4. CASE sch.sleepq = << >>
    <3>1. S = sch
      BY <2>4
    <3> HIDE DEF S
    <3> QED
      BY <1>1, <2>1, <2>2, <3>1, NowRanked
  <2> QED
    BY <2>3, <2>4
<1>3. CASE wakeup
  <2>1. sch.ndefers = 1
    BY <1>3, Deferred DEF wakeup, inside, Looping
  <2>2. CASE sch' = defer_stop(sch)
    BY <2>1, <2>2, NowRanked, DeferStopRanked
  <2>3. CASE /\ sch.sleepq # << >>
             /\ sch' = ready([sch EXCEPT !.sleepq = Tail(@)], Head(sch.sleepq))
    BY <2>3, NowRanked, FirstRanked
  <2> QED
    BY <1>3, <2>2, <2>3 DEF wakeup
<1>4. CASE clkhandler_rest
  <2>1. sch.ndefers = 0 /\ sch' = end_of_tick(sch)
    BY <1>4, NotDeferred DEF clkhandler_rest, inside, Looping
  <2> QED
    BY <1>1, <2>1, NowRanked
<1> QED
  BY <1>2, <1>3, <1>4

-----------------------------------------------------------------------------
LEMMA InitRanked == Init => Ranked(sch)
<1> SUFFICES ASSUME Init PROVE Ranked(sch)
  OBVIOUS
<1>1. MAIN \in Pids /\ NULLPROC \in Pids /\ NULLPROC \notin {STARTUP, MAIN}
  BY SchedAssumption, KernelAssumption DEF Pids, NULLPROC, MAIN, STARTUP
<1>2. PICK pr \in Prios :
        /\ sch.prstate = [p \in Pids |-> CASE p = NULLPROC -> "READY"
                                            [] p = MAIN -> "CURR"
                                            [] OTHER -> "FREE"]
        /\ sch.prprio = [p \in Pids |-> IF p \in {STARTUP, MAIN} THEN pr ELSE 0]
        /\ sch.qkey = [p \in Pids |-> IF p \in {STARTUP, MAIN} THEN pr ELSE 0]
        /\ sch.readylist = <<NULLPROC>> /\ sch.currpid = MAIN
  BY DEF Init
<1>3. \A p \in Pids : sch.prstate[p] = "READY" => p = NULLPROC
  BY <1>1, <1>2
<1>4. sch.prprio[MAIN] \in Nat /\ sch.prprio[NULLPROC] = 0 /\ sch.qkey[NULLPROC] = 0
  BY <1>1, <1>2, KernelAssumption
<1>5. Descending(sch.readylist, sch.prprio)
  BY <1>2 DEF Descending
<1> QED
  BY <1>2, <1>3, <1>4, <1>5 DEF Ranked, Ordered, Highest

LEMMA NextRanked ==
  ASSUME "chprio" \notin Calls
  PROVE  IInv /\ Ranked(sch) /\ [Next]_vars => Ranked(sch')
<1> SUFFICES ASSUME IInv, Ranked(sch), [Next]_vars PROVE Ranked(sch')
  OBVIOUS
<1>1. CASE RestOfCall
  BY <1>1, LoopRanked, MessageRanked, KillRestRanked, ClockRanked DEF RestOfCall
<1>2. CASE UNCHANGED vars
  BY <1>2 DEF vars
<1> QED
  BY <1>1, <1>2, SemaphoreRanked, MessageRanked, ProcessRanked, ClockRanked DEF Next

(* With rescheduling not deferred, no process that is ready has a higher   *)
(* priority than the one that runs, as long as no one calls chprio, which  *)
(* changes a priority and leaves the ready list as it is.                  *)
THEOREM SpecHighestPriorityRuns == "chprio" \notin Calls => (Spec => []HighestPriorityRuns)
<1> SUFFICES ASSUME "chprio" \notin Calls PROVE Spec => []HighestPriorityRuns
  OBVIOUS
<1>1. Init => IInv /\ Ranked(sch)
  BY InitIInv, InitRanked
<1>2. IInv /\ Ranked(sch) /\ [Next]_vars => (IInv /\ Ranked(sch))'
  BY NextIInv, NextRanked
<1>3. Ranked(sch) => HighestPriorityRuns
  BY DEF Ranked, Highest, HighestPriorityRuns, prstate, currpid
<1> QED
  BY <1>1, <1>2, <1>3, PTL DEF Spec
=============================================================================
