--------------------------- MODULE XinuSyncProofs ----------------------------
(***************************************************************************)
(* The other locks of the synchronization extensions: the spin lock, the   *)
(* active lock and the priority inheritance lock, for any number of        *)
(* processes and locks.                                                    *)
(***************************************************************************)
EXTENDS XinuSpinLock, XinuActiveLock, XinuPiLock, XinuQueueProofs, FiniteSetTheorems

-----------------------------------------------------------------------------
(***************************************************************************)
(* The spin lock excludes, for any number of processes.  SpinExclusion is  *)
(* not inductive by itself: that sl_unlock lets through only the process   *)
(* that holds the lock needs to be known of every point of its code, the   *)
(* late clearing of the name included.                                     *)
(***************************************************************************)

SpinPoints == {"idle", "test_and_set", "set_owner", "held", "clear_flag", "clear_owner"}

SpinTypeOK ==
  spin \in [flag : {0, 1}, owner : Spinners \cup {SL_AVAILABLE}, at : [Spinners -> SpinPoints]]

(* The name is that of a process that has it still, or is still to clear   *)
(* it: never of one that could be waiting for another's lock.              *)
OwnerIsPast ==
  \A p \in Spinners : spin.owner = p => spin.at[p] \in {"held", "clear_flag", "clear_owner"}

SpinIInv == SpinTypeOK /\ SpinExclusion /\ OwnerIsPast

LEMMA SpinInitially == SpinInit => SpinIInv
  <1> SUFFICES ASSUME SpinInit PROVE SpinIInv
    OBVIOUS
  <1>1. \A p \in Spinners : p # SL_AVAILABLE
    BY SpinAssumption DEF SL_AVAILABLE
  <1>2. SpinTypeOK
    BY DEF SpinInit, SpinTypeOK, SpinPoints
  <1>3. SpinExclusion /\ OwnerIsPast
    BY <1>1 DEF SpinInit, SpinExclusion, OwnerIsPast, has_lock, spin_at
  <1> QED
    BY <1>2, <1>3 DEF SpinIInv

(* A step of one process changes where it is, and perhaps flag and name.   *)
LEMMA SpinStepTo ==
  ASSUME SpinTypeOK, NEW p \in Spinners, NEW f \in {0, 1},
         NEW o \in Spinners \cup {SL_AVAILABLE}, NEW point \in SpinPoints,
         spin' = [spin EXCEPT !.flag = f, !.owner = o, !.at[p] = point]
  PROVE  /\ SpinTypeOK'
         /\ spin.flag \in {0, 1} /\ spin'.flag = f /\ spin'.owner = o
         /\ \A q \in Spinners : spin'.at[q] = IF q = p THEN point ELSE spin.at[q]
  BY DEF SpinTypeOK

LEMMA SpinStep == SpinIInv /\ [SpinNext]_spin => SpinIInv'
  <1> SUFFICES ASSUME SpinIInv, [SpinNext]_spin PROVE SpinIInv'
    OBVIOUS
  <1>a. /\ SpinTypeOK /\ SpinExclusion /\ OwnerIsPast /\ SL_AVAILABLE \notin Spinners
        /\ spin.flag \in {0, 1} /\ spin.owner \in Spinners \cup {SL_AVAILABLE}
    BY SpinAssumption DEF SpinIInv, SpinTypeOK, SL_AVAILABLE
  <1>1. ASSUME NEW p \in Spinners, sl_lock(p) PROVE SpinIInv'
    <2>1. spin' = [spin EXCEPT !.flag = spin.flag, !.owner = spin.owner, !.at[p] = "test_and_set"]
      BY <1>1, <1>a DEF sl_lock, SpinTypeOK, spin_at
    <2>2. /\ SpinTypeOK' /\ spin'.flag = spin.flag /\ spin'.owner = spin.owner
          /\ \A q \in Spinners : spin'.at[q] = IF q = p THEN "test_and_set" ELSE spin.at[q]
      BY <1>a, <2>1, SpinStepTo DEF SpinPoints
    <2> QED
      BY <1>1, <1>a, <2>2
      DEF SpinIInv, SpinExclusion, OwnerIsPast, has_lock, spin_at, sl_lock
  <1>2. ASSUME NEW p \in Spinners, sl_test_and_set(p) PROVE SpinIInv'
    <2>1. spin' = [spin EXCEPT !.flag = 1, !.owner = spin.owner, !.at[p] = "set_owner"]
      BY <1>2, <1>a DEF sl_test_and_set, SpinTypeOK, spin_at
    <2>2. /\ SpinTypeOK' /\ spin'.flag = 1 /\ spin'.owner = spin.owner
          /\ \A q \in Spinners : spin'.at[q] = IF q = p THEN "set_owner" ELSE spin.at[q]
      BY <1>a, <2>1, SpinStepTo DEF SpinPoints
    <2> QED
      BY <1>2, <1>a, <2>2
      DEF SpinIInv, SpinExclusion, OwnerIsPast, has_lock, spin_at, sl_test_and_set
  <1>3. ASSUME NEW p \in Spinners, sl_set_owner(p) PROVE SpinIInv'
    <2>1. spin' = [spin EXCEPT !.flag = spin.flag, !.owner = p, !.at[p] = "held"]
      BY <1>3, <1>a DEF sl_set_owner, SpinTypeOK, spin_at
    <2>2. /\ SpinTypeOK' /\ spin'.flag = spin.flag /\ spin'.owner = p
          /\ \A q \in Spinners : spin'.at[q] = IF q = p THEN "held" ELSE spin.at[q]
      BY <1>a, <2>1, SpinStepTo DEF SpinPoints
    <2> QED
      BY <1>3, <1>a, <2>2
      DEF SpinIInv, SpinExclusion, OwnerIsPast, has_lock, spin_at, sl_set_owner
  <1>4. ASSUME NEW p \in Spinners, sl_unlock(p) PROVE SpinIInv'
    <2>1. CASE spin.owner # p
      BY <1>4, <1>a, <2>1
      DEF SpinIInv, SpinTypeOK, SpinExclusion, OwnerIsPast, has_lock, spin_at, sl_unlock
    <2>2. CASE spin.owner = p
      <3>1. spin' = [spin EXCEPT !.flag = spin.flag, !.owner = spin.owner, !.at[p] = "clear_flag"]
        BY <1>4, <1>a, <2>2 DEF sl_unlock, SpinTypeOK
      <3>2. /\ SpinTypeOK' /\ spin'.flag = spin.flag /\ spin'.owner = spin.owner
            /\ \A q \in Spinners : spin'.at[q] = IF q = p THEN "clear_flag" ELSE spin.at[q]
        BY <1>a, <3>1, SpinStepTo DEF SpinPoints
      <3> QED
        BY <1>4, <1>a, <2>2, <3>2
        DEF SpinIInv, SpinExclusion, OwnerIsPast, has_lock, spin_at, sl_unlock
    <2> QED
      BY <2>1, <2>2
  <1>5. ASSUME NEW p \in Spinners, sl_clear_flag(p) PROVE SpinIInv'
    <2>1. spin' = [spin EXCEPT !.flag = 0, !.owner = spin.owner, !.at[p] = "clear_owner"]
      BY <1>5, <1>a DEF sl_clear_flag, SpinTypeOK, spin_at
    <2>2. /\ SpinTypeOK' /\ spin'.flag = 0 /\ spin'.owner = spin.owner
          /\ \A q \in Spinners : spin'.at[q] = IF q = p THEN "clear_owner" ELSE spin.at[q]
      BY <1>a, <2>1, SpinStepTo DEF SpinPoints
    <2> QED
      BY <1>5, <1>a, <2>2
      DEF SpinIInv, SpinExclusion, OwnerIsPast, has_lock, spin_at, sl_clear_flag
  <1>6. ASSUME NEW p \in Spinners, sl_clear_owner(p) PROVE SpinIInv'
    <2>1. spin' = [spin EXCEPT !.flag = spin.flag, !.owner = SL_AVAILABLE, !.at[p] = "idle"]
      BY <1>6, <1>a DEF sl_clear_owner, SpinTypeOK, spin_at
    <2>2. /\ SpinTypeOK' /\ spin'.flag = spin.flag /\ spin'.owner = SL_AVAILABLE
          /\ \A q \in Spinners : spin'.at[q] = IF q = p THEN "idle" ELSE spin.at[q]
      BY <1>a, <2>1, SpinStepTo DEF SpinPoints
    <2> QED
      BY <1>6, <1>a, <2>2
      DEF SpinIInv, SpinExclusion, OwnerIsPast, has_lock, spin_at, sl_clear_owner
  <1>7. CASE UNCHANGED spin
    BY <1>7, <1>a DEF SpinIInv, SpinTypeOK, SpinExclusion, OwnerIsPast, has_lock, spin_at
  <1> QED
    BY <1>1, <1>2, <1>3, <1>4, <1>5, <1>6, <1>7 DEF SpinNext

(* Whoever calls sl_lock and sl_unlock, in whatever order and interleaved  *)
(* at every access, at most one process is between the exchange and the    *)
(* clearing of the flag (system/spinlock.c).                               *)
THEOREM SpinLockExcludes == SpinSpec => []SpinExclusion
  <1>1. SpinInit => SpinIInv
    BY SpinInitially
  <1>2. SpinIInv /\ [SpinNext]_spin => SpinIInv'
    BY SpinStep
  <1>3. SpinIInv => SpinExclusion
    BY DEF SpinIInv
  <1> QED
    BY <1>1, <1>2, <1>3, PTL DEF SpinSpec

-----------------------------------------------------------------------------
(***************************************************************************)
(* The active lock implements QueueLock, for any number of processes and   *)
(* locks.  The invariant says of each lock that one process has it while   *)
(* its flag is set, that nobody has it or waits for it while the flag is   *)
(* clear, and that those on its queue are parked there; of each process,   *)
(* that it works on a lock alone, behind the guard or in al_trylock, which *)
(* the bound PreemptTry makes as good as a guard; and that what it has     *)
(* tested is still so when it acts on it.  Who is the owner by name does   *)
(* not matter.                                                             *)
(***************************************************************************)

(* Between taking the guard and giving it back.                            *)
GuardPoints == {"test_flag", "set_flag", "set_owner", "wait_on", "detect", "looping", "wait",
                "test_owner", "clear_flag", "clear_owner", "unmark", "hand_over", "leave"}

(* active is a record, and its fields are functions.                       *)
IsActive(a) ==
  /\ a \in [flag : {a.flag}, guard : {a.guard}, owner : {a.owner}, lqueue : {a.lqueue},
            waiton : {a.waiton}, at : {a.at}, l : {a.l}, holds : {a.holds},
            reported : {a.reported}]
  /\ a.flag \in [AlLocks -> {0, 1}] /\ a.guard \in [AlLocks -> {0, 1}]
  /\ a.lqueue \in [AlLocks -> Seq(AlUsers)]
  /\ a.holds \in [AlUsers -> SUBSET AlLocks]
  /\ a.at = [p \in AlUsers |-> a.at[p]] /\ a.l = [p \in AlUsers |-> a.l[p]]

Working(a, p) == a.at[p] \in GuardPoints \cup TryPoints

(* The guard is taken by the one behind it, and by nobody in al_trylock.   *)
AloneOnLocks(a) ==
  /\ \A p \in AlUsers :
       /\ Working(a, p) \/ a.at[p] \in {"try_guard", "parked"} => a.l[p] \in AlLocks
       /\ a.at[p] \in GuardPoints => a.guard[a.l[p]] = 1
       /\ a.at[p] \in TryPoints => a.guard[a.l[p]] = 0
  /\ \A p, q \in AlUsers : Working(a, p) /\ Working(a, q) /\ a.l[p] = a.l[q] => p = q

(* What p has tested still holds where it acts on it.                      *)
TestsHold(a, p) ==
  LET k == a.l[p] IN
  /\ a.at[p] \in {"try_guard", "test_flag", "wait_on", "detect", "looping", "wait", "parked"}
     \cup {"try_test", "set_flag", "try_flag"} => k \notin a.holds[p]
  /\ a.at[p] \in {"set_flag", "try_flag"} => a.flag[k] = 0
  /\ a.at[p] \in {"wait_on", "detect", "looping", "wait"} => a.flag[k] = 1
  /\ a.at[p] \in {"test_owner", "clear_flag", "unmark", "hand_over"} => k \in a.holds[p]
  /\ a.at[p] = "clear_flag" => a.lqueue[k] = << >>
  /\ a.at[p] \in {"unmark", "hand_over"} => a.lqueue[k] # << >>

LockKept(a, k) ==
  /\ \A p, q \in AlUsers : k \in a.holds[p] /\ k \in a.holds[q] => p = q
  /\ a.flag[k] = 1 <=> \E p \in AlUsers : k \in a.holds[p]
  /\ a.flag[k] = 0 => a.lqueue[k] = << >>
  /\ IsInjective(a.lqueue[k])
  /\ \A q \in ToSet(a.lqueue[k]) : a.at[q] = "parked" /\ a.l[q] = k

Kept(a) ==
  /\ IsActive(a) /\ AloneOnLocks(a)
  /\ \A p \in AlUsers : TestsHold(a, p)
  /\ \A k \in AlLocks : LockKept(a, k)

ActiveIInv == Kept(active)
-----------------------------------------------------------------------------
(* A step of the processes P with lock k, on which no one else works.      *)
LEMMA StepKeeps ==
  ASSUME NEW a, Kept(a), NEW b, IsActive(b), NEW k \in AlLocks, NEW P \in SUBSET AlUsers,
         \A q \in AlUsers \ P : /\ b.at[q] = a.at[q] /\ b.l[q] = a.l[q]
                                /\ b.holds[q] = a.holds[q]
                                /\ Working(a, q) => a.l[q] # k,
         \A m \in AlLocks \ {k} : /\ b.flag[m] = a.flag[m] /\ b.guard[m] = a.guard[m]
                                  /\ b.lqueue[m] = a.lqueue[m]
                                  /\ \A r \in P : m \in b.holds[r] <=> m \in a.holds[r],
         \A r \in P : /\ b.at[r] # "idle" => b.l[r] = k
                      /\ a.at[r] = "parked" => a.l[r] = k
                      /\ b.at[r] \in GuardPoints => b.guard[k] = 1
                      /\ b.at[r] \in TryPoints => b.guard[k] = 0
                      /\ TestsHold(b, r),
         \A r, t \in P : Working(b, r) /\ Working(b, t) => r = t,
         LockKept(b, k)
  PROVE  Kept(b)
<1> USE DEF Working
<1>1. AloneOnLocks(b)
  <2>1. ASSUME NEW q \in AlUsers
        PROVE  /\ Working(b, q) \/ b.at[q] \in {"try_guard", "parked"} => b.l[q] \in AlLocks
               /\ b.at[q] \in GuardPoints => b.guard[b.l[q]] = 1
               /\ b.at[q] \in TryPoints => b.guard[b.l[q]] = 0
    <3>1. CASE q \in P
      <4>1. "idle" \notin GuardPoints \cup TryPoints
        BY DEF GuardPoints, TryPoints
      <4> QED
        BY <3>1, <4>1
    <3>2. CASE q \notin P
      BY <3>2 DEF Kept, AloneOnLocks
    <3> QED
      BY <3>1, <3>2
  <2>2. ASSUME NEW q \in AlUsers, NEW r \in AlUsers,
               Working(b, q), Working(b, r), b.l[q] = b.l[r]
        PROVE  q = r
    <3>1. "idle" \notin GuardPoints \cup TryPoints
      BY DEF GuardPoints, TryPoints
    <3>2. CASE q \in P /\ r \in P
      BY <2>2, <3>2
    <3>3. CASE q \notin P /\ r \notin P
      BY <2>2, <3>3 DEF Kept, AloneOnLocks
    <3>4. CASE q \in P /\ r \notin P
      BY <2>2, <3>1, <3>4
    <3>5. CASE q \notin P /\ r \in P
      BY <2>2, <3>1, <3>5
    <3> QED
      BY <3>2, <3>3, <3>4, <3>5
  <2> QED
    BY <2>1, <2>2 DEF AloneOnLocks
<1>2. ASSUME NEW q \in AlUsers PROVE TestsHold(b, q)
  <2>1. CASE q \in P
    BY <2>1
  <2>2. CASE q \notin P
    <3>1. TestsHold(a, q) /\ (Working(a, q) => a.l[q] \in AlLocks \ {k})
      BY <2>2 DEF Kept, AloneOnLocks
    <3>2. CASE Working(a, q)
      BY <2>2, <3>1, <3>2 DEF TestsHold
    <3>3. CASE ~Working(a, q)
      BY <2>2, <3>1, <3>3 DEF TestsHold, GuardPoints, TryPoints
    <3> QED
      BY <3>2, <3>3
  <2> QED
    BY <2>1, <2>2
<1>3. ASSUME NEW m \in AlLocks PROVE LockKept(b, m)
  <2>1. CASE m = k
    BY <2>1
  <2>2. CASE m # k
    <3>1. LockKept(a, m)
      BY DEF Kept
    <3>2. b.flag[m] = a.flag[m] /\ b.lqueue[m] = a.lqueue[m]
      BY <2>2
    <3>3. \A q \in AlUsers : m \in b.holds[q] <=> m \in a.holds[q]
      BY <2>2
    <3>4. ToSet(a.lqueue[m]) \subseteq AlUsers
      BY DEF Kept, IsActive, ToSet
    <3>5. \A q \in ToSet(a.lqueue[m]) : b.at[q] = "parked" /\ b.l[q] = m
      BY <2>2, <3>1, <3>4 DEF LockKept
    <3> QED
      BY <3>1, <3>2, <3>3, <3>5 DEF LockKept
  <2> QED
    BY <2>1, <2>2
<1> QED
  BY <1>1, <1>2, <1>3 DEF Kept

(* A step of one process that works on lock k.                             *)
LEMMA WorkKeeps ==
  ASSUME NEW a, Kept(a), NEW b, IsActive(b), NEW p \in AlUsers, Working(a, p),
         NEW k, k = a.l[p],
         \A q \in AlUsers \ {p} : /\ b.at[q] = a.at[q] /\ b.l[q] = a.l[q]
                                  /\ b.holds[q] = a.holds[q],
         \A m \in AlLocks \ {k} : /\ b.flag[m] = a.flag[m] /\ b.guard[m] = a.guard[m]
                                  /\ b.lqueue[m] = a.lqueue[m]
                                  /\ m \in b.holds[p] <=> m \in a.holds[p],
         b.at[p] # "idle" => b.l[p] = k,
         b.at[p] \in GuardPoints => b.guard[k] = 1,
         b.at[p] \in TryPoints => b.guard[k] = 0,
         TestsHold(b, p), LockKept(b, k)
  PROVE  Kept(b)
<1>1. k \in AlLocks /\ \A q \in AlUsers \ {p} : Working(a, q) => a.l[q] # k
  BY DEF Kept, AloneOnLocks
<1>2. a.at[p] # "parked"
  BY DEF Working, GuardPoints, TryPoints
<1> DEFINE P == {p}
<1>3. P \in SUBSET AlUsers /\ \A r \in P : r = p
  OBVIOUS
<1> HIDE DEF P
<1>4. p \in P
  BY DEF P
<1> QED
  BY <1>1, <1>2, <1>3, <1>4, StepKeeps

(* A step of a process that works on a lock, to another of its points.     *)
LEMMA MoveKeeps ==
  ASSUME NEW a, Kept(a), NEW b, IsActive(b), NEW p \in AlUsers,
         b.flag = a.flag, b.guard = a.guard, b.lqueue = a.lqueue, b.holds = a.holds, b.l = a.l,
         \A q \in AlUsers \ {p} : b.at[q] = a.at[q],
         \/ a.at[p] \in GuardPoints /\ b.at[p] \in GuardPoints
         \/ a.at[p] \in TryPoints /\ b.at[p] \in TryPoints,
         TestsHold(b, p)
  PROVE  Kept(b)
<1> DEFINE k == a.l[p]
<1>1. Working(a, p)
  BY DEF Working
<1>2. k \in AlLocks /\ LockKept(a, k) /\ ToSet(a.lqueue[k]) \subseteq AlUsers
  BY <1>1 DEF Kept, AloneOnLocks, IsActive, ToSet
<1>3. \A q \in ToSet(a.lqueue[k]) : b.at[q] = "parked"
  BY <1>1, <1>2 DEF LockKept, Working, GuardPoints, TryPoints
<1>4. LockKept(b, k)
  BY <1>2, <1>3 DEF LockKept
<1>5. (b.at[p] \in GuardPoints => b.guard[k] = 1) /\ (b.at[p] \in TryPoints => b.guard[k] = 0)
  <2>1. GuardPoints \cap TryPoints = {}
    BY DEF GuardPoints, TryPoints
  <2> QED
    BY <2>1 DEF Kept, AloneOnLocks
<1> HIDE DEF k
<1>6. k = a.l[p]
  BY DEF k
<1> QED
  BY <1>1, <1>4, <1>5, <1>6, WorkKeeps
-----------------------------------------------------------------------------
(* Nothing that QueueLock is about changes.                                *)
Unseen == active'.holds = active.holds /\ active'.lqueue = active.lqueue

LEMMA ActiveInitOK ==
  ASSUME ActiveInit
  PROVE  ActiveIInv
<1> USE DEF ActiveInit
<1>1. IsActive(active)
  BY DEF IsActive
<1>2. \A p \in AlUsers : active.at[p] = "idle" /\ active.holds[p] = {}
  OBVIOUS
<1>3. AloneOnLocks(active) /\ \A p \in AlUsers : TestsHold(active, p)
  BY <1>2 DEF AloneOnLocks, TestsHold, Working, GuardPoints, TryPoints
<1>4. ASSUME NEW k \in AlLocks PROVE LockKept(active, k)
  <2>1. active.flag[k] = 0 /\ active.lqueue[k] = << >>
    OBVIOUS
  <2>2. IsInjective(<< >>) /\ ToSet(<< >>) = {}
    BY DEF IsInjective, ToSet
  <2> HIDE DEF ActiveInit
  <2> QED
    BY <1>2, <2>1, <2>2 DEF LockKept
<1> QED
  BY <1>1, <1>3, <1>4 DEF ActiveIInv, Kept

LEMMA TestFlagKeeps ==
  ASSUME ActiveIInv, NEW p \in AlUsers, al_test_flag(p)
  PROVE  Kept(active') /\ Unseen
<1>1. /\ Kept(active) /\ TestsHold(active, p) /\ MyLock(p) = active.l[p]
      /\ (Working(active, p) => MyLock(p) \in AlLocks)
  BY DEF ActiveIInv, Kept, MyLock, AloneOnLocks
<1>2. /\ IsActive(active')
      /\ active'.flag = active.flag /\ active'.guard = active.guard
      /\ active'.lqueue = active.lqueue /\ active'.holds = active.holds /\ active'.l = active.l
      /\ \A q \in AlUsers \ {p} : active'.at[q] = active.at[q]
  BY <1>1 DEF al_test_flag, Kept, IsActive
<1>3. /\ \/ active.at[p] \in GuardPoints /\ active'.at[p] \in GuardPoints
         \/ active.at[p] \in TryPoints /\ active'.at[p] \in TryPoints
      /\ TestsHold(active', p)
  BY <1>1 DEF al_test_flag, al_at, Kept, IsActive, Working, GuardPoints, TryPoints,
           TestsHold
<1> QED
  BY <1>1, <1>2, <1>3, MoveKeeps DEF Unseen

LEMMA SetOwnerKeeps ==
  ASSUME ActiveIInv, NEW p \in AlUsers, NEW from, NEW to, al_set_owner(p, from, to),
         \/ from \in GuardPoints /\ to = "leave"
         \/ from \in TryPoints /\ to = "try_leave"
  PROVE  Kept(active') /\ Unseen
<1>1. /\ Kept(active) /\ TestsHold(active, p) /\ MyLock(p) = active.l[p]
      /\ (Working(active, p) => MyLock(p) \in AlLocks)
  BY DEF ActiveIInv, Kept, MyLock, AloneOnLocks
<1>2. /\ IsActive(active')
      /\ active'.flag = active.flag /\ active'.guard = active.guard
      /\ active'.lqueue = active.lqueue /\ active'.holds = active.holds /\ active'.l = active.l
      /\ \A q \in AlUsers \ {p} : active'.at[q] = active.at[q]
  BY <1>1 DEF al_set_owner, Kept, IsActive
<1>3. /\ \/ active.at[p] \in GuardPoints /\ active'.at[p] \in GuardPoints
         \/ active.at[p] \in TryPoints /\ active'.at[p] \in TryPoints
      /\ TestsHold(active', p)
  BY <1>1 DEF al_set_owner, al_at, Kept, IsActive, GuardPoints, TryPoints, TestsHold
<1> QED
  BY <1>1, <1>2, <1>3, MoveKeeps DEF Unseen

LEMMA WaitOnKeeps ==
  ASSUME ActiveIInv, NEW p \in AlUsers, al_wait_on(p)
  PROVE  Kept(active') /\ Unseen
<1>1. /\ Kept(active) /\ TestsHold(active, p) /\ MyLock(p) = active.l[p]
      /\ (Working(active, p) => MyLock(p) \in AlLocks)
  BY DEF ActiveIInv, Kept, MyLock, AloneOnLocks
<1>2. /\ IsActive(active')
      /\ active'.flag = active.flag /\ active'.guard = active.guard
      /\ active'.lqueue = active.lqueue /\ active'.holds = active.holds /\ active'.l = active.l
      /\ \A q \in AlUsers \ {p} : active'.at[q] = active.at[q]
  BY <1>1 DEF al_wait_on, Kept, IsActive
<1>3. /\ \/ active.at[p] \in GuardPoints /\ active'.at[p] \in GuardPoints
         \/ active.at[p] \in TryPoints /\ active'.at[p] \in TryPoints
      /\ TestsHold(active', p)
  BY <1>1 DEF al_wait_on, al_at, Kept, IsActive, GuardPoints, TryPoints, TestsHold
<1> QED
  BY <1>1, <1>2, <1>3, MoveKeeps DEF Unseen

LEMMA DetectKeeps ==
  ASSUME ActiveIInv, NEW p \in AlUsers, detect_deadlock(p)
  PROVE  Kept(active') /\ Unseen
<1>1. /\ Kept(active) /\ TestsHold(active, p) /\ MyLock(p) = active.l[p]
      /\ (Working(active, p) => MyLock(p) \in AlLocks)
  BY DEF ActiveIInv, Kept, MyLock, AloneOnLocks
<1>2. /\ IsActive(active')
      /\ active'.flag = active.flag /\ active'.guard = active.guard
      /\ active'.lqueue = active.lqueue /\ active'.holds = active.holds /\ active'.l = active.l
      /\ \A q \in AlUsers \ {p} : active'.at[q] = active.at[q]
  BY <1>1 DEF detect_deadlock, Kept, IsActive
<1>3. /\ \/ active.at[p] \in GuardPoints /\ active'.at[p] \in GuardPoints
         \/ active.at[p] \in TryPoints /\ active'.at[p] \in TryPoints
      /\ TestsHold(active', p)
  BY <1>1 DEF detect_deadlock, al_at, Kept, IsActive, GuardPoints, TryPoints, TestsHold
<1> QED
  BY <1>1, <1>2, <1>3, MoveKeeps DEF Unseen

LEMMA TestOwnerKeeps ==
  ASSUME ActiveIInv, NEW p \in AlUsers, al_test_owner(p)
  PROVE  Kept(active') /\ Unseen
<1>1. /\ Kept(active) /\ TestsHold(active, p) /\ MyLock(p) = active.l[p]
      /\ (Working(active, p) => MyLock(p) \in AlLocks)
  BY DEF ActiveIInv, Kept, MyLock, AloneOnLocks
<1>2. /\ IsActive(active')
      /\ active'.flag = active.flag /\ active'.guard = active.guard
      /\ active'.lqueue = active.lqueue /\ active'.holds = active.holds /\ active'.l = active.l
      /\ \A q \in AlUsers \ {p} : active'.at[q] = active.at[q]
  BY <1>1 DEF al_test_owner, Kept, IsActive
<1>3. /\ \/ active.at[p] \in GuardPoints /\ active'.at[p] \in GuardPoints
         \/ active.at[p] \in TryPoints /\ active'.at[p] \in TryPoints
      /\ TestsHold(active', p)
  BY <1>1 DEF al_test_owner, al_at, Kept, IsActive, GuardPoints, TryPoints, TestsHold
<1> QED
  BY <1>1, <1>2, <1>3, MoveKeeps DEF Unseen

LEMMA ClearOwnerKeeps ==
  ASSUME ActiveIInv, NEW p \in AlUsers, al_clear_owner(p)
  PROVE  Kept(active') /\ Unseen
<1>1. /\ Kept(active) /\ TestsHold(active, p) /\ MyLock(p) = active.l[p]
      /\ (Working(active, p) => MyLock(p) \in AlLocks)
  BY DEF ActiveIInv, Kept, MyLock, AloneOnLocks
<1>2. /\ IsActive(active')
      /\ active'.flag = active.flag /\ active'.guard = active.guard
      /\ active'.lqueue = active.lqueue /\ active'.holds = active.holds /\ active'.l = active.l
      /\ \A q \in AlUsers \ {p} : active'.at[q] = active.at[q]
  BY <1>1 DEF al_clear_owner, Kept, IsActive
<1>3. /\ \/ active.at[p] \in GuardPoints /\ active'.at[p] \in GuardPoints
         \/ active.at[p] \in TryPoints /\ active'.at[p] \in TryPoints
      /\ TestsHold(active', p)
  BY <1>1 DEF al_clear_owner, al_at, Kept, IsActive, GuardPoints, TryPoints, TestsHold
<1> QED
  BY <1>1, <1>2, <1>3, MoveKeeps DEF Unseen

LEMMA UnmarkKeeps ==
  ASSUME ActiveIInv, NEW p \in AlUsers, al_unmark(p)
  PROVE  Kept(active') /\ Unseen
<1>1. /\ Kept(active) /\ TestsHold(active, p) /\ MyLock(p) = active.l[p]
      /\ (Working(active, p) => MyLock(p) \in AlLocks)
  BY DEF ActiveIInv, Kept, MyLock, AloneOnLocks
<1>2. /\ IsActive(active')
      /\ active'.flag = active.flag /\ active'.guard = active.guard
      /\ active'.lqueue = active.lqueue /\ active'.holds = active.holds /\ active'.l = active.l
      /\ \A q \in AlUsers \ {p} : active'.at[q] = active.at[q]
  BY <1>1 DEF al_unmark, Kept, IsActive
<1>3. /\ \/ active.at[p] \in GuardPoints /\ active'.at[p] \in GuardPoints
         \/ active.at[p] \in TryPoints /\ active'.at[p] \in TryPoints
      /\ TestsHold(active', p)
  BY <1>1 DEF al_unmark, al_at, Kept, IsActive, GuardPoints, TryPoints, TestsHold
<1> QED
  BY <1>1, <1>2, <1>3, MoveKeeps DEF Unseen

LEMMA TryTestKeeps ==
  ASSUME ActiveIInv, NEW p \in AlUsers, al_try_test(p)
  PROVE  Kept(active') /\ Unseen
<1>1. /\ Kept(active) /\ TestsHold(active, p) /\ MyLock(p) = active.l[p]
      /\ (Working(active, p) => MyLock(p) \in AlLocks)
  BY DEF ActiveIInv, Kept, MyLock, AloneOnLocks
<1>2. /\ IsActive(active')
      /\ active'.flag = active.flag /\ active'.guard = active.guard
      /\ active'.lqueue = active.lqueue /\ active'.holds = active.holds /\ active'.l = active.l
      /\ \A q \in AlUsers \ {p} : active'.at[q] = active.at[q]
  BY <1>1 DEF al_try_test, Kept, IsActive
<1>3. /\ \/ active.at[p] \in GuardPoints /\ active'.at[p] \in GuardPoints
         \/ active.at[p] \in TryPoints /\ active'.at[p] \in TryPoints
      /\ TestsHold(active', p)
  BY <1>1 DEF al_try_test, al_at, Kept, IsActive, GuardPoints, TryPoints, TestsHold
<1> QED
  BY <1>1, <1>2, <1>3, MoveKeeps DEF Unseen


-----------------------------------------------------------------------------
(* A process takes the guard of a lock on which nobody works.              *)
LEMMA GuardKeeps ==
  ASSUME ActiveIInv, ~PreemptTry, NEW p \in AlUsers, NEW k \in AlLocks, NEW point,
         al_guard(p, k, point),
         \/ point = "test_flag" /\ k \notin active.holds[p]
         \/ point = "test_owner" /\ k \in active.holds[p]
  PROVE  Kept(active') /\ Unseen
<1>1. Kept(active) /\ active.at[p] = "idle" /\ active.guard[k] = 0
  BY DEF ActiveIInv, al_guard, al_at
<1>2. /\ IsActive(active')
      /\ active'.flag = active.flag /\ active'.lqueue = active.lqueue
      /\ active'.holds = active.holds
      /\ active'.guard[k] = 1 /\ active'.at[p] = point /\ active'.l[p] = k
      /\ \A m \in AlLocks \ {k} : active'.guard[m] = active.guard[m]
      /\ \A q \in AlUsers \ {p} : active'.at[q] = active.at[q] /\ active'.l[q] = active.l[q]
  BY <1>1 DEF al_guard, Kept, IsActive
<1>3. \A q \in AlUsers \ {p} : Working(active, q) => active.l[q] # k
  BY <1>1 DEF al_guard, al_at, Kept, AloneOnLocks, Working
<1>4. point \in GuardPoints /\ point \notin TryPoints /\ point # "idle"
  BY DEF GuardPoints, TryPoints
<1>5. TestsHold(active', p)
  BY <1>2 DEF TestsHold
<1>6. LockKept(active', k)
  <2>1. LockKept(active, k) /\ ToSet(active.lqueue[k]) \subseteq AlUsers
    BY <1>1 DEF Kept, IsActive, ToSet
  <2>2. p \notin ToSet(active.lqueue[k])
    BY <1>1, <2>1 DEF LockKept
  <2> QED
    BY <1>2, <2>1, <2>2 DEF LockKept
<1> DEFINE P == {p}
<1>7. P \in SUBSET AlUsers /\ p \in P /\ \A r \in P : r = p
  OBVIOUS
<1> HIDE DEF P
<1> QED
  BY <1>1, <1>2, <1>3, <1>4, <1>5, <1>6, <1>7, StepKeeps DEF Unseen

LEMMA LeaveKeeps ==
  ASSUME ActiveIInv, NEW p \in AlUsers, NEW from \in {"leave", "try_leave"}, al_leave(p, from)
  PROVE  Kept(active') /\ Unseen
<1> DEFINE k == MyLock(p)
<1>1. /\ Kept(active) /\ k = active.l[p] /\ active.at[p] = from
      /\ Working(active, p) /\ k \in AlLocks
  BY DEF ActiveIInv, Kept, AloneOnLocks, MyLock, al_leave, al_at, Working, GuardPoints, TryPoints
<1>2. /\ IsActive(active')
      /\ active'.flag = active.flag /\ active'.lqueue = active.lqueue
      /\ active'.holds = active.holds /\ active'.at[p] = "idle"
      /\ \A m \in AlLocks \ {k} : active'.guard[m] = active.guard[m]
      /\ \A q \in AlUsers \ {p} : active'.at[q] = active.at[q] /\ active'.l[q] = active.l[q]
  BY <1>1 DEF al_leave, Kept, IsActive
<1>3. TestsHold(active', p) /\ "idle" \notin GuardPoints \cup TryPoints
  BY <1>2 DEF TestsHold, GuardPoints, TryPoints
<1>4. LockKept(active', k)
  <2>1. LockKept(active, k) /\ ToSet(active.lqueue[k]) \subseteq AlUsers
    BY <1>1 DEF Kept, IsActive, ToSet
  <2>2. p \notin ToSet(active.lqueue[k])
    BY <1>1, <2>1 DEF LockKept
  <2> HIDE DEF k
  <2> QED
    BY <1>2, <2>1, <2>2 DEF LockKept
<1> HIDE DEF k
<1> QED
  BY <1>1, <1>2, <1>3, <1>4, WorkKeeps DEF Unseen

(* The flag is found clear and set: then nobody had the lock.              *)
LEMMA SetFlagKeeps ==
  ASSUME ActiveIInv, NEW p \in AlUsers, NEW from, NEW to, al_set_flag(p, from, to),
         \/ from = "set_flag" /\ to = "set_owner"
         \/ from = "try_flag" /\ to = "try_owner"
  PROVE  /\ Kept(active') /\ MyLock(p) \in AlLocks /\ Holders(MyLock(p)) = {}
         /\ \A q \in AlUsers : active'.holds[q] =
              IF q = p THEN active.holds[q] \cup {MyLock(p)} ELSE active.holds[q]
         /\ active'.lqueue = active.lqueue /\ active.lqueue[MyLock(p)] = << >>
<1> DEFINE k == MyLock(p)
<1>1. /\ Kept(active) /\ k = active.l[p] /\ active.at[p] = from /\ TestsHold(active, p)
      /\ Working(active, p) /\ k \in AlLocks
  BY DEF ActiveIInv, Kept, AloneOnLocks, MyLock, al_set_flag, al_at, Working, GuardPoints, TryPoints
<1>2. /\ IsActive(active')
      /\ active'.guard = active.guard /\ active'.lqueue = active.lqueue
      /\ active'.l = active.l /\ active'.at[p] = to /\ active'.flag[k] = 1
      /\ active'.holds[p] = active.holds[p] \cup {k}
      /\ \A m \in AlLocks \ {k} : active'.flag[m] = active.flag[m]
      /\ \A q \in AlUsers \ {p} : active'.at[q] = active.at[q] /\ active'.holds[q] = active.holds[q]
  BY <1>1 DEF al_set_flag, Kept, IsActive
<1>3. LockKept(active, k) /\ active.flag[k] = 0
  BY <1>1 DEF Kept, TestsHold
<1>4. /\ active.lqueue[k] = << >> /\ ToSet(<< >>) = {}
      /\ \A q \in AlUsers : k \notin active.holds[q]
  BY <1>3 DEF LockKept, ToSet
<1> HIDE DEF k
<1>5. LockKept(active', k)
  BY <1>2, <1>3, <1>4 DEF LockKept
<1>6. /\ TestsHold(active', p) /\ to # "idle"
      /\ to \in GuardPoints => active'.guard[k] = 1
      /\ to \in TryPoints => active'.guard[k] = 0
  BY <1>1, <1>2 DEF TestsHold, GuardPoints, TryPoints, Kept, AloneOnLocks
<1>7. Kept(active')
  BY <1>1, <1>2, <1>5, <1>6, WorkKeeps
<1> QED
  BY <1>1, <1>2, <1>4, <1>7 DEF Holders, k

(* The lock is another's, and p joins its queue.                           *)
LEMMA WaitKeeps ==
  ASSUME ActiveIInv, NEW p \in AlUsers, al_wait(p), NEW k, k = MyLock(p)
  PROVE  /\ Kept(active') /\ k \in AlLocks
         /\ \E h \in AlUsers \ {p} : k \in active.holds[h]
         /\ active'.holds = active.holds
         /\ active'.lqueue = [active.lqueue EXCEPT ![k] = Append(@, p)]
<1>1. /\ Kept(active) /\ k = active.l[p] /\ active.at[p] = "wait" /\ TestsHold(active, p)
      /\ Working(active, p) /\ k \in AlLocks
  BY DEF ActiveIInv, Kept, AloneOnLocks, MyLock, al_wait, al_at, Working, GuardPoints, TryPoints
<1>2. LockKept(active, k) /\ active.flag[k] = 1 /\ k \notin active.holds[p]
  BY <1>1 DEF Kept, TestsHold
<1>3. \E h \in AlUsers \ {p} : k \in active.holds[h]
  BY <1>2 DEF LockKept
<1>4. /\ active.lqueue[k] \in Seq(AlUsers) /\ p \notin ToSet(active.lqueue[k])
      /\ IsInjective(active.lqueue[k])
  BY <1>1, <1>2 DEF LockKept, Kept, IsActive
<1> DEFINE r == Append(active.lqueue[k], p)
<1>5. r \in Seq(AlUsers) /\ IsInjective(r) /\ ToSet(r) = ToSet(active.lqueue[k]) \cup {p}
  BY <1>4, AppendJoins
<1>6. /\ active'.flag = active.flag /\ active'.holds = active.holds
      /\ active'.lqueue = [active.lqueue EXCEPT ![k] = r]
      /\ active'.l = active.l /\ active'.at[p] = "parked"
      /\ \A m \in AlLocks \ {k} : active'.guard[m] = active.guard[m]
      /\ \A q \in AlUsers \ {p} : active'.at[q] = active.at[q]
  BY <1>1 DEF al_wait, Kept, IsActive
<1>7. IsActive(active')
  <2> HIDE DEF r
  <2>1. /\ active'.lqueue \in [AlLocks -> Seq(AlUsers)]
    BY <1>1, <1>5, <1>6 DEF Kept, IsActive
  <2> QED
    BY <1>1, <2>1 DEF al_wait, Kept, IsActive
<1>8. active'.lqueue[k] = r /\ \A m \in AlLocks \ {k} : active'.lqueue[m] = active.lqueue[m]
  BY <1>1, <1>6 DEF Kept, IsActive
<1>9. LockKept(active', k)
  <2>1. \A q \in ToSet(r) : active'.at[q] = "parked" /\ active'.l[q] = k
    <3> HIDE DEF r
    <3>1. ToSet(active.lqueue[k]) \subseteq AlUsers
      BY <1>4 DEF ToSet
    <3> QED
      BY <1>1, <1>2, <1>5, <1>6, <3>1 DEF LockKept
  <2> HIDE DEF r
  <2> QED
    BY <1>2, <1>5, <1>6, <1>8, <2>1 DEF LockKept
<1>10. /\ TestsHold(active', p) /\ "parked" \notin GuardPoints \cup TryPoints
  BY <1>1, <1>6 DEF TestsHold, GuardPoints, TryPoints
<1> HIDE DEF r
<1>11. /\ \A q \in AlUsers \ {p} : /\ active'.at[q] = active.at[q] /\ active'.l[q] = active.l[q]
                                   /\ active'.holds[q] = active.holds[q]
       /\ \A m \in AlLocks \ {k} : /\ active'.flag[m] = active.flag[m]
                                   /\ active'.guard[m] = active.guard[m]
                                   /\ active'.lqueue[m] = active.lqueue[m]
                                   /\ m \in active'.holds[p] <=> m \in active.holds[p]
       /\ active'.at[p] # "idle" => active'.l[p] = k
       /\ active'.at[p] \notin GuardPoints /\ active'.at[p] \notin TryPoints
  BY <1>1, <1>6, <1>8, <1>10
<1>12. Kept(active')
  BY <1>1, <1>7, <1>9, <1>10, <1>11, WorkKeeps
<1> QED
  BY <1>1, <1>3, <1>6, <1>12 DEF r

(* Nobody waits, and the holder frees the lock.                            *)
LEMMA ClearFlagKeeps ==
  ASSUME ActiveIInv, NEW p \in AlUsers, al_clear_flag(p)
  PROVE  /\ Kept(active') /\ MyLock(p) \in active.holds[p]
         /\ \A q \in AlUsers : active'.holds[q] =
              IF q = p THEN active.holds[q] \ {MyLock(p)} ELSE active.holds[q]
         /\ active'.lqueue = active.lqueue /\ active.lqueue[MyLock(p)] = << >>
<1> DEFINE k == MyLock(p)
<1>1. /\ Kept(active) /\ k = active.l[p] /\ active.at[p] = "clear_flag" /\ TestsHold(active, p)
      /\ Working(active, p) /\ k \in AlLocks
  BY DEF ActiveIInv, Kept, AloneOnLocks, MyLock, al_clear_flag, al_at, Working, GuardPoints, TryPoints
<1>2. /\ IsActive(active')
      /\ active'.guard = active.guard /\ active'.lqueue = active.lqueue
      /\ active'.l = active.l /\ active'.at[p] = "clear_owner" /\ active'.flag[k] = 0
      /\ active'.holds[p] = active.holds[p] \ {k}
      /\ \A m \in AlLocks \ {k} : active'.flag[m] = active.flag[m]
      /\ \A q \in AlUsers \ {p} : active'.at[q] = active.at[q] /\ active'.holds[q] = active.holds[q]
  BY <1>1 DEF al_clear_flag, Kept, IsActive
<1>3. LockKept(active, k) /\ k \in active.holds[p] /\ active.lqueue[k] = << >> /\ ToSet(<< >>) = {}
  BY <1>1 DEF Kept, TestsHold, ToSet
<1> HIDE DEF k
<1>4. LockKept(active', k)
  BY <1>2, <1>3 DEF LockKept
<1>5. /\ TestsHold(active', p)
      /\ "clear_owner" \in GuardPoints /\ "clear_owner" \notin TryPoints /\ active'.guard[k] = 1
  BY <1>1, <1>2 DEF TestsHold, GuardPoints, TryPoints, Kept, AloneOnLocks
<1>6. Kept(active')
  BY <1>1, <1>2, <1>4, <1>5, WorkKeeps
<1> QED
  BY <1>1, <1>2, <1>3, <1>6 DEF k

(* The holder hands the lock to the head of the queue.                     *)
Heir(k) == Head(active.lqueue[k])

HandsOver(p, k, h) ==
  /\ k \in active.holds[p] /\ h \in AlUsers /\ h # p
  /\ \A q \in AlUsers : active'.holds[q] =
       IF q = h THEN active.holds[q] \cup {k}
       ELSE IF q = p THEN active.holds[q] \ {k} ELSE active.holds[q]
  /\ active.lqueue[k] # << >>
  /\ active'.lqueue = [active.lqueue EXCEPT ![k] = Tail(@)]

LEMMA UnparkKeeps ==
  ASSUME ActiveIInv, NEW p \in AlUsers, al_unpark(p), NEW k, k = MyLock(p),
         NEW h, h = Heir(k)
  PROVE  Kept(active') /\ HandsOver(p, k, h)
<1>1. /\ Kept(active) /\ k = active.l[p] /\ active.at[p] = "hand_over" /\ TestsHold(active, p)
      /\ Working(active, p) /\ k \in AlLocks
  BY DEF ActiveIInv, Kept, AloneOnLocks, MyLock, al_unpark, al_at, Working, GuardPoints, TryPoints
<1>2. LockKept(active, k) /\ k \in active.holds[p] /\ active.lqueue[k] # << >>
  BY <1>1 DEF Kept, TestsHold
<1>3. active.lqueue[k] \in Seq(AlUsers) /\ IsInjective(active.lqueue[k])
  BY <1>1, <1>2 DEF Kept, IsActive, LockKept
<1> DEFINE r == Tail(active.lqueue[k])
<1>4. /\ h \in ToSet(active.lqueue[k]) /\ h \in AlUsers
      /\ r \in Seq(AlUsers) /\ IsInjective(r) /\ ToSet(r) = ToSet(active.lqueue[k]) \ {h}
  BY <1>2, <1>3, TailLeaves DEF Heir
<1>5. active.at[h] = "parked" /\ active.l[h] = k /\ h # p /\ k \notin active.holds[h]
  BY <1>1, <1>2, <1>4 DEF LockKept
<1>6. /\ active'.flag = active.flag /\ active'.guard = active.guard
      /\ active'.lqueue = [active.lqueue EXCEPT ![k] = r]
      /\ active'.at[p] = "leave" /\ active'.l[p] = k /\ active'.at[h] = "idle"
      /\ active'.holds[p] = active.holds[p] \ {k} /\ active'.holds[h] = active.holds[h] \cup {k}
      /\ \A q \in AlUsers \ {p, h} : /\ active'.at[q] = active.at[q] /\ active'.l[q] = active.l[q]
                                     /\ active'.holds[q] = active.holds[q]
  BY <1>1, <1>4, <1>5 DEF al_unpark, Heir, Kept, IsActive
<1>7. IsActive(active')
  <2> HIDE DEF r
  <2>1. active'.lqueue \in [AlLocks -> Seq(AlUsers)]
    BY <1>1, <1>4, <1>6 DEF Kept, IsActive
  <2>2. active'.holds \in [AlUsers -> SUBSET AlLocks]
    <3> DEFINE less == [active.holds EXCEPT ![p] = @ \ {k}]
    <3>1. active'.holds = [less EXCEPT ![h] = @ \cup {k}]
      BY <1>1 DEF al_unpark, Heir, Kept, IsActive
    <3>2. active.holds \in [AlUsers -> SUBSET AlLocks]
      BY <1>1 DEF Kept, IsActive
    <3>3. less \in [AlUsers -> SUBSET AlLocks]
      BY <3>2
    <3> HIDE DEF less
    <3>4. less[h] \cup {k} \in SUBSET AlLocks
      BY <1>1, <1>4, <3>3
    <3> QED
      BY <3>1, <3>3, <3>4
  <2>3. /\ active'.at = [q \in AlUsers |-> active'.at[q]]
        /\ active'.l = [q \in AlUsers |-> active'.l[q]]
    BY <1>1, <1>4 DEF al_unpark, Heir, Kept, IsActive
  <2>4. active' \in [flag : {active'.flag}, guard : {active'.guard}, owner : {active'.owner},
                     lqueue : {active'.lqueue}, waiton : {active'.waiton}, at : {active'.at},
                     l : {active'.l}, holds : {active'.holds}, reported : {active'.reported}]
    BY <1>1 DEF al_unpark, Heir, Kept, IsActive
  <2> QED
    BY <1>1, <1>6, <2>1, <2>2, <2>3, <2>4 DEF Kept, IsActive
<1>8. active'.lqueue[k] = r /\ \A m \in AlLocks \ {k} : active'.lqueue[m] = active.lqueue[m]
  BY <1>1, <1>6 DEF Kept, IsActive
<1> HIDE DEF r
<1>9. LockKept(active', k)
  <2>1. ToSet(active.lqueue[k]) \subseteq AlUsers /\ p \notin ToSet(active.lqueue[k])
    BY <1>1, <1>2, <1>3 DEF ToSet, LockKept
  <2>2. \A q \in ToSet(r) : active'.at[q] = "parked" /\ active'.l[q] = k
    BY <1>2, <1>4, <1>6, <2>1 DEF LockKept
  <2>3. \A q \in AlUsers : k \in active'.holds[q] <=> q = h
    BY <1>2, <1>4, <1>5, <1>6 DEF LockKept
  <2>4. active'.flag[k] = 1
    BY <1>2, <1>6 DEF LockKept
  <2> QED
    BY <1>4, <1>8, <2>2, <2>3, <2>4 DEF LockKept
<1>10. /\ TestsHold(active', p) /\ TestsHold(active', h)
       /\ "leave" \in GuardPoints /\ "leave" \notin TryPoints
       /\ "idle" \notin GuardPoints /\ "idle" \notin TryPoints /\ active'.guard[k] = 1
  BY <1>1, <1>6 DEF TestsHold, GuardPoints, TryPoints, Kept, AloneOnLocks
<1>11. Kept(active')
  <2> DEFINE P == {p, h}
  <2>1. P \in SUBSET AlUsers /\ \A q \in AlUsers \ P : q # p /\ q # h
    BY <1>4
  <2>2. \A q \in P : q = p \/ q = h
    OBVIOUS
  <2> HIDE DEF P
  <2>3. \A q \in AlUsers \ P : /\ active'.at[q] = active.at[q] /\ active'.l[q] = active.l[q]
                               /\ active'.holds[q] = active.holds[q]
                               /\ Working(active, q) => active.l[q] # k
    BY <1>1, <1>6, <2>1 DEF Kept, AloneOnLocks
  <2>4. \A m \in AlLocks \ {k} : /\ active'.flag[m] = active.flag[m]
                                 /\ active'.guard[m] = active.guard[m]
                                 /\ active'.lqueue[m] = active.lqueue[m]
                                 /\ \A q \in P : m \in active'.holds[q] <=> m \in active.holds[q]
    BY <1>6, <1>8, <2>2
  <2>5. \A q \in P : /\ active'.at[q] # "idle" => active'.l[q] = k
                     /\ active.at[q] = "parked" => active.l[q] = k
                     /\ active'.at[q] \in GuardPoints => active'.guard[k] = 1
                     /\ active'.at[q] \in TryPoints => active'.guard[k] = 0
                     /\ TestsHold(active', q)
    BY <1>1, <1>5, <1>6, <1>10, <2>2
  <2>6. \A q, t \in P : Working(active', q) /\ Working(active', t) => q = t
    BY <1>6, <1>10, <2>2 DEF Working
  <2> QED
    BY <1>1, <1>7, <1>9, <2>1, <2>3, <2>4, <2>5, <2>6, StepKeeps, SMTT(30)
<1> QED
  BY <1>2, <1>4, <1>5, <1>6, <1>11 DEF r, HandsOver

(* al_trylock is not behind the guard yet, and may begin beside others.    *)
LEMMA TrylockKeeps ==
  ASSUME ActiveIInv, NEW p \in AlUsers, NEW k \in AlLocks, al_trylock(p, k)
  PROVE  Kept(active') /\ Unseen
<1>1. Kept(active) /\ active.at[p] = "idle" /\ k \notin active.holds[p]
  BY DEF ActiveIInv, al_trylock, al_at
<1>2. /\ IsActive(active')
      /\ active'.flag = active.flag /\ active'.guard = active.guard
      /\ active'.lqueue = active.lqueue /\ active'.holds = active.holds
      /\ active'.at[p] = "try_guard" /\ active'.l[p] = k
      /\ \A q \in AlUsers \ {p} : active'.at[q] = active.at[q] /\ active'.l[q] = active.l[q]
  BY <1>1 DEF al_trylock, Kept, IsActive
<1>3. "try_guard" \notin GuardPoints \cup TryPoints
  BY DEF GuardPoints, TryPoints
<1>4. AloneOnLocks(active')
  BY <1>1, <1>2, <1>3 DEF Kept, AloneOnLocks, Working
<1>5. ASSUME NEW q \in AlUsers PROVE TestsHold(active', q)
  <2>1. CASE q = p
    BY <1>1, <1>2, <2>1 DEF TestsHold
  <2>2. CASE q # p
    BY <1>1, <1>2, <2>2 DEF Kept, TestsHold
  <2> QED
    BY <2>1, <2>2
<1>6. ASSUME NEW m \in AlLocks PROVE LockKept(active', m)
  <2>1. LockKept(active, m) /\ ToSet(active.lqueue[m]) \subseteq AlUsers
    BY <1>1 DEF Kept, IsActive, ToSet
  <2>2. p \notin ToSet(active.lqueue[m])
    BY <1>1, <2>1 DEF LockKept
  <2> QED
    BY <1>2, <2>1, <2>2 DEF LockKept
<1> QED
  BY <1>2, <1>4, <1>5, <1>6 DEF Kept, Unseen

(* The guard is free, and nobody else is in al_trylock.                    *)
LEMMA TryGuardKeeps ==
  ASSUME ActiveIInv, ~PreemptTry, NEW p \in AlUsers, al_try_guard(p)
  PROVE  Kept(active') /\ Unseen
<1> DEFINE k == MyLock(p)
<1>1. /\ Kept(active) /\ k = active.l[p] /\ active.at[p] = "try_guard" /\ active.guard[k] = 0
      /\ k \in AlLocks /\ TestsHold(active, p)
  BY DEF ActiveIInv, Kept, AloneOnLocks, MyLock, al_try_guard, al_at
<1>2. /\ IsActive(active')
      /\ active'.flag = active.flag /\ active'.guard = active.guard
      /\ active'.lqueue = active.lqueue /\ active'.holds = active.holds /\ active'.l = active.l
      /\ active'.at[p] = "try_test"
      /\ \A q \in AlUsers \ {p} : active'.at[q] = active.at[q]
  BY <1>1 DEF al_try_guard, Kept, IsActive
<1>3. \A q \in AlUsers \ {p} : Working(active, q) => active.l[q] # k
  BY <1>1 DEF al_try_guard, al_at, Kept, AloneOnLocks, Working
<1>4. "try_test" \in TryPoints /\ "try_test" \notin GuardPoints /\ TestsHold(active', p)
  BY <1>1, <1>2 DEF TestsHold, GuardPoints, TryPoints
<1> HIDE DEF k
<1>5. LockKept(active', k)
  <2>1. LockKept(active, k) /\ ToSet(active.lqueue[k]) \subseteq AlUsers
    BY <1>1 DEF Kept, IsActive, ToSet
  <2>2. p \notin ToSet(active.lqueue[k])
    BY <1>1, <2>1 DEF LockKept
  <2> QED
    BY <1>2, <2>1, <2>2 DEF LockKept
<1> DEFINE P == {p}
<1>6. P \in SUBSET AlUsers /\ p \in P /\ \A q \in P : q = p
  OBVIOUS
<1> HIDE DEF P
<1> QED
  BY <1>1, <1>2, <1>3, <1>4, <1>5, <1>6, StepKeeps DEF Unseen

-----------------------------------------------------------------------------
(* A step keeps the invariant, and is one of four that QueueLock is about  *)
(* or changes nothing of it.                                               *)
Seen(p) ==
  \/ al_set_flag(p, "set_flag", "set_owner") \/ al_set_flag(p, "try_flag", "try_owner")
  \/ al_wait(p) \/ al_clear_flag(p) \/ al_unpark(p)

LEMMA ActiveStepOK ==
  ASSUME ActiveIInv, ~PreemptTry, ActiveNext
  PROVE  ActiveIInv' /\ (Unseen \/ \E p \in AlUsers : Seen(p))
<1> SUFFICES Kept(active') /\ (Unseen \/ \E p \in AlUsers : Seen(p))
  BY DEF ActiveIInv
<1>1. ASSUME NEW p \in AlUsers, NEW l \in AlLocks,
             al_lock(p, l) \/ al_unlock(p, l) \/ al_trylock(p, l)
      PROVE  Kept(active') /\ Unseen
  BY <1>1, GuardKeeps, TrylockKeeps DEF al_lock, al_unlock
<1>2. ASSUME NEW p \in AlUsers,
             \/ al_test_flag(p) \/ al_wait_on(p) \/ detect_deadlock(p) \/ al_test_owner(p)
             \/ al_clear_owner(p) \/ al_unmark(p) \/ al_try_test(p)
      PROVE  Kept(active') /\ Unseen
  BY <1>2, TestFlagKeeps, WaitOnKeeps, DetectKeeps, TestOwnerKeeps, ClearOwnerKeeps,
     UnmarkKeeps, TryTestKeeps
<1>3. ASSUME NEW p \in AlUsers,
             al_set_owner(p, "set_owner", "leave") \/ al_set_owner(p, "try_owner", "try_leave")
      PROVE  Kept(active') /\ Unseen
  <2>1. "set_owner" \in GuardPoints /\ "try_owner" \in TryPoints
    BY DEF GuardPoints, TryPoints
  <2> QED
    BY <1>3, <2>1, SetOwnerKeeps
<1>4. ASSUME NEW p \in AlUsers, Seen(p)
      PROVE  Kept(active')
  BY <1>4, SetFlagKeeps, WaitKeeps, ClearFlagKeeps, UnparkKeeps DEF Seen
<1>5. ASSUME NEW p \in AlUsers,
             al_try_guard(p) \/ al_leave(p, "leave") \/ al_leave(p, "try_leave")
      PROVE  Kept(active') /\ Unseen
  BY <1>5, TryGuardKeeps, LeaveKeeps
<1> QED
  BY <1>1, <1>2, <1>3, <1>4, <1>5 DEF ActiveNext, Seen

-----------------------------------------------------------------------------
(* Who has the lock, before and after a step.                              *)
LEMMA HolderOf ==
  ASSUME NEW k
  PROVE  /\ Holders(k) = {} => holder_of(k) = AL_AVAILABLE
         /\ \A p \in AlUsers : Holders(k) = {p} => holder_of(k) = p
  BY DEF holder_of

LEMMA HolderOfNext ==
  ASSUME NEW k
  PROVE  /\ Holders(k)' = {} => holder_of(k)' = AL_AVAILABLE
         /\ \A p \in AlUsers : Holders(k)' = {p} => holder_of(k)' = p
         /\ Holders(k)' = Holders(k) => holder_of(k)' = holder_of(k)
  BY DEF holder_of

LEMMA OneHolder ==
  ASSUME ActiveIInv, NEW k \in AlLocks, NEW p \in AlUsers, k \in active.holds[p]
  PROVE  Holders(k) = {p}
  BY DEF ActiveIInv, Kept, LockKept, Holders

(* Each step of the active lock is a step of QueueLock or none.            *)
LEMMA ActiveStepMaps ==
  ASSUME ActiveIInv, ~PreemptTry, ALock \in AlLocks, [ActiveNext]_active
  PROVE  [ActiveQueue!Next]_<<holder_of(ALock), active.lqueue[ALock]>>
<1> DEFINE Stays == UNCHANGED <<holder_of(ALock), active.lqueue[ALock]>>
<1>1. ASSUME Unseen \/ UNCHANGED active PROVE Stays
  BY <1>1, HolderOfNext DEF Unseen, Holders
<1>2. ASSUME NEW p \in AlUsers,
             \/ al_set_flag(p, "set_flag", "set_owner")
             \/ al_set_flag(p, "try_flag", "try_owner")
      PROVE  ActiveQueue!Acquire(p) \/ Stays
  <2>1. /\ MyLock(p) \in AlLocks /\ Holders(MyLock(p)) = {}
        /\ \A q \in AlUsers : active'.holds[q] =
             IF q = p THEN active.holds[q] \cup {MyLock(p)} ELSE active.holds[q]
        /\ active'.lqueue = active.lqueue /\ active.lqueue[MyLock(p)] = << >>
    BY <1>2, SetFlagKeeps
  <2>2. CASE MyLock(p) = ALock
    <3>1. Holders(ALock) = {} /\ Holders(ALock)' = {p}
      BY <2>1, <2>2 DEF Holders
    <3> QED
      BY <2>1, <2>2, <3>1, HolderOf, HolderOfNext DEF ActiveQueue!Acquire
  <2>3. CASE MyLock(p) # ALock
    <3>1. Holders(ALock)' = Holders(ALock)
      BY <2>1, <2>3 DEF Holders
    <3> QED
      BY <2>1, <3>1, HolderOfNext
  <2> QED
    BY <2>2, <2>3
<1>3. ASSUME NEW p \in AlUsers, al_wait(p) PROVE ActiveQueue!Wait(p) \/ Stays
  <2> DEFINE k == MyLock(p)
  <2>1. /\ k \in AlLocks /\ active'.holds = active.holds
        /\ active'.lqueue = [active.lqueue EXCEPT ![k] = Append(@, p)]
        /\ \E h \in AlUsers \ {p} : k \in active.holds[h]
    BY <1>3, WaitKeeps
  <2>2. Holders(ALock)' = Holders(ALock) /\ active.lqueue \in [AlLocks -> Seq(AlUsers)]
    BY <2>1 DEF Holders, ActiveIInv, Kept, IsActive
  <2> HIDE DEF k
  <2>3. CASE k = ALock
    <3>1. PICK h \in AlUsers \ {p} : k \in active.holds[h]
      BY <2>1
    <3>2. holder_of(ALock) = h
      BY <2>3, <3>1, OneHolder, HolderOf
    <3>3. h # AL_AVAILABLE
      BY AlAssumption
    <3> QED
      BY <2>1, <2>2, <2>3, <3>2, <3>3, HolderOfNext DEF ActiveQueue!Wait
  <2>4. CASE k # ALock
    BY <2>1, <2>2, <2>4, HolderOfNext
  <2> QED
    BY <2>3, <2>4
<1>4. ASSUME NEW p \in AlUsers, al_clear_flag(p) PROVE ActiveQueue!Release \/ Stays
  <2>1. /\ MyLock(p) \in active.holds[p]
        /\ \A q \in AlUsers : active'.holds[q] =
             IF q = p THEN active.holds[q] \ {MyLock(p)} ELSE active.holds[q]
        /\ active'.lqueue = active.lqueue /\ active.lqueue[MyLock(p)] = << >>
    BY <1>4, ClearFlagKeeps
  <2>2. CASE MyLock(p) = ALock
    <3>1. Holders(ALock) = {p}
      BY <2>1, <2>2, OneHolder
    <3>2. Holders(ALock)' = {}
      BY <2>1, <2>2, <3>1 DEF Holders
    <3>3. p # AL_AVAILABLE
      BY AlAssumption
    <3> QED
      BY <2>1, <2>2, <3>1, <3>2, <3>3, HolderOf, HolderOfNext DEF ActiveQueue!Release
  <2>3. CASE MyLock(p) # ALock
    <3>1. Holders(ALock)' = Holders(ALock)
      BY <2>1, <2>3 DEF Holders
    <3> QED
      BY <2>1, <3>1, HolderOfNext
  <2> QED
    BY <2>2, <2>3
<1>5. ASSUME NEW p \in AlUsers, al_unpark(p) PROVE ActiveQueue!HandOver \/ Stays
  <2>0. PICK k, h : k = MyLock(p) /\ h = Heir(k)
    OBVIOUS
  <2>1. HandsOver(p, k, h)
    BY <1>5, <2>0, UnparkKeeps
  <2>2. active.lqueue \in [AlLocks -> Seq(AlUsers)]
    BY DEF ActiveIInv, Kept, IsActive
  <2>3. CASE k = ALock
    <3>1. Holders(ALock) = {p}
      BY <2>1, <2>3, OneHolder DEF HandsOver
    <3>2. Holders(ALock)' = {h}
      BY <2>1, <2>3, <3>1 DEF Holders, HandsOver
    <3>3. p # AL_AVAILABLE
      BY AlAssumption
    <3> QED
      BY <2>0, <2>1, <2>2, <2>3, <3>1, <3>2, <3>3, HolderOf, HolderOfNext
        , SMTT(30) DEF Heir, HandsOver, ActiveQueue!HandOver
  <2>4. CASE k # ALock
    <3>1. Holders(ALock)' = Holders(ALock)
      BY <2>1, <2>4 DEF Holders, HandsOver
    <3> QED
      BY <2>1, <2>2, <2>4, <3>1, HolderOfNext DEF HandsOver
  <2> QED
    BY <2>3, <2>4
<1> QED
  <2>1. CASE UNCHANGED active
    BY <1>1, <2>1
  <2>2. CASE ActiveNext
    <3>1. Unseen \/ \E p \in AlUsers : Seen(p)
      BY <2>2, ActiveStepOK
    <3> HIDE DEF Stays
    <3>2. Stays \/ ActiveQueue!Next
      BY <1>1, <1>2, <1>3, <1>4, <1>5, <3>1 DEF Seen, ActiveQueue!Next
    <3> QED
      BY <3>2 DEF Stays
  <2> QED
    BY <2>1, <2>2

(* For any number of processes and locks, the active lock implements       *)
(* QueueLock if nobody runs in the middle of al_trylock: one process has   *)
(* the lock at a time, al_lock waits behind those that wait and al_unlock  *)
(* hands over to the first, though a process that was handed the lock is   *)
(* not its owner by name.                                                  *)
THEOREM ActiveImplementsQueueLock ==
  ASSUME ~PreemptTry, AlLocks # {}
  PROVE  ActiveSpec => ActiveIsQueueLock
<1>1. ALock \in AlLocks
  BY DEF ALock
<1>2. ActiveInit => ActiveIInv
  BY ActiveInitOK
<1>3. ActiveInit => ActiveQueue!Init
  <2> SUFFICES ASSUME ActiveInit PROVE ActiveQueue!Init
    OBVIOUS
  <2>1. Holders(ALock) = {} /\ active.lqueue[ALock] = << >>
    BY <1>1 DEF ActiveInit, Holders
  <2> QED
    BY <2>1, HolderOf DEF ActiveQueue!Init
<1>4. ActiveIInv /\ [ActiveNext]_active => ActiveIInv'
  <2>1. ActiveIInv /\ UNCHANGED active => ActiveIInv'
    BY DEF ActiveIInv
  <2> QED
    BY <2>1, ActiveStepOK
<1>5. ActiveIInv /\ [ActiveNext]_active
        => [ActiveQueue!Next]_<<holder_of(ALock), active.lqueue[ALock]>>
  BY <1>1, ActiveStepMaps
<1> QED
  BY <1>2, <1>3, <1>4, <1>5, PTL DEF ActiveSpec, ActiveIsQueueLock, ActiveQueue!Spec

-----------------------------------------------------------------------------
(***************************************************************************)
(* The priority inheritance lock excludes, if nobody runs while pi_unlock  *)
(* works without the guard, and lends its owner the priorities of those    *)
(* that wait, if besides no process has two locks at a time.  The          *)
(* invariant is that of the active lock; PiLent adds to it that the        *)
(* highest priority noted in a lock is at least that of each process on    *)
(* its queue, and that a process that has the lock and has left the call   *)
(* is the owner and runs at that of each of them.                          *)
(***************************************************************************)

(* The priority inheritance lock.  Between taking the guard and giving it  *)
(* back, in pi_lock and in pi_unlock.                                      *)
Guarded == {"test_flag", "set_flag", "set_owner", "leave_lock", "wait", "other_locks"}

PiWorking(a, p) == a.at[p] \in Guarded \cup Unguarded

(* pi is a record, and its fields are functions.                           *)
IsPi(a) ==
  /\ a \in [flag : {a.flag}, guard : {a.guard}, owner : {a.owner}, lqueue : {a.lqueue},
            owners_pid : {a.owners_pid}, highest : {a.highest}, prprio : {a.prprio},
            at : {a.at}, l : {a.l}, holds : {a.holds}]
  /\ a.flag \in [PiLocks -> {0, 1}] /\ a.guard \in [PiLocks -> {0, 1}]
  /\ a.lqueue \in [PiLocks -> Seq(PiUsers)]
  /\ a.holds \in [PiUsers -> SUBSET PiLocks]
  /\ a.highest \in [PiLocks -> Nat] /\ a.prprio \in [PiUsers -> Nat]
  /\ a.owner = [k \in PiLocks |-> a.owner[k]] /\ a.owners_pid = [k \in PiLocks |-> a.owners_pid[k]]
  /\ a.at = [p \in PiUsers |-> a.at[p]] /\ a.l = [p \in PiUsers |-> a.l[p]]

(* The guard keeps the others from a lock in pi_lock and at the start of   *)
(* pi_unlock; in the rest the bound PreemptUnlock does.                    *)
PiAlone(a) ==
  /\ \A p \in PiUsers :
       /\ a.at[p] # "idle" => a.l[p] \in PiLocks
       /\ a.at[p] \in Guarded => a.guard[a.l[p]] = 1
       /\ a.at[p] \in Unguarded => a.guard[a.l[p]] = 0
  /\ \A p, q \in PiUsers :
       /\ PiWorking(a, p) /\ PiWorking(a, q) /\ a.l[p] = a.l[q] => p = q
       /\ a.at[p] \in Unguarded /\ a.at[q] \in Unguarded => p = q

(* What p has tested still holds where it acts on it.                      *)
PiTestsHold(a, p) ==
  LET k == a.l[p] IN
  /\ a.at[p] \in {"test_flag", "set_flag", "wait", "parked"} => k \notin a.holds[p]
  /\ a.at[p] \in {"set_flag", "clear_owner"} => a.flag[k] = 0
  /\ a.at[p] = "wait" => a.flag[k] = 1
  /\ a.at[p] \in {"set_owner", "leave_lock", "own", "inherit", "other_locks", "restore",
                  "test_owner", "clear_flag", "hand_over"} => k \in a.holds[p]
  /\ a.at[p] = "clear_flag" => a.lqueue[k] = << >>
  /\ a.at[p] = "hand_over" => a.lqueue[k] # << >>

PiLockKept(a, k) ==
  /\ \A p, q \in PiUsers : k \in a.holds[p] /\ k \in a.holds[q] => p = q
  /\ a.flag[k] = 1 <=> \E p \in PiUsers : k \in a.holds[p]
  /\ a.flag[k] = 0 => a.lqueue[k] = << >>
  /\ IsInjective(a.lqueue[k])
  /\ \A q \in ToSet(a.lqueue[k]) : a.at[q] = "parked" /\ a.l[q] = k

PiKept(a) ==
  /\ IsPi(a) /\ PiAlone(a)
  /\ \A p \in PiUsers : PiTestsHold(a, p)
  /\ \A k \in PiLocks : PiLockKept(a, k)

PiIInv == PiKept(pi)

(* Without Nested.  A process has one lock at a time: that of its call, in *)
(* the middle of one, and none while it waits.  Who has just taken a lock  *)
(* finds no one waiting.                                                   *)
HasNone == {"test_flag", "set_flag", "wait", "parked", "clear_owner", "leave_unlock"}

PiOne(a, p) ==
  /\ a.at[p] \in HasNone => a.holds[p] = {}
  /\ a.at[p] \notin HasNone \cup {"idle"} => a.holds[p] = {a.l[p]}
  /\ \A k, m \in a.holds[p] : k = m
  /\ a.at[p] \in {"set_owner", "leave_lock"} => a.lqueue[a.l[p]] = << >>
  /\ a.prprio[p] >= PiPrio[p]

(* The one that has the lock is its owner, or about to be: who waits then  *)
(* lends it priority, and what was lent before is in highest.              *)
PiLentTo(a, k) ==
  /\ \A p \in PiUsers :
       k \in a.holds[p] /\ a.at[p] \notin {"set_owner", "own"} => a.owner[k] = p
  /\ \A q \in ToSet(a.lqueue[k]) : a.highest[k] >= PiPrio[q]
  /\ \A p \in PiUsers : k \in a.holds[p] /\ a.at[p] = "idle" =>
       \A q \in ToSet(a.lqueue[k]) : a.prprio[p] >= PiPrio[q]

PiLent(a) == (\A p \in PiUsers : PiOne(a, p)) /\ (\A k \in PiLocks : PiLentTo(a, k))

PiLentStays == ~Nested /\ PiLent(pi) => PiLent(pi')
-----------------------------------------------------------------------------
(* A step of the processes P with lock k, on which no one else works, and  *)
(* while nobody else is in the unguarded part of pi_unlock.                *)
LEMMA PiStepKeeps ==
  ASSUME NEW a, PiKept(a), NEW b, IsPi(b), NEW k \in PiLocks, NEW P \in SUBSET PiUsers,
         \A q \in PiUsers \ P : /\ b.at[q] = a.at[q] /\ b.l[q] = a.l[q]
                                /\ b.holds[q] = a.holds[q]
                                /\ PiWorking(a, q) => a.l[q] # k
                                /\ a.at[q] \notin Unguarded,
         \A m \in PiLocks \ {k} : /\ b.flag[m] = a.flag[m] /\ b.guard[m] = a.guard[m]
                                  /\ b.lqueue[m] = a.lqueue[m]
                                  /\ \A r \in P : m \in b.holds[r] <=> m \in a.holds[r],
         \A r \in P : /\ b.at[r] # "idle" => b.l[r] = k
                      /\ a.at[r] = "parked" => a.l[r] = k
                      /\ b.at[r] \in Guarded => b.guard[k] = 1
                      /\ b.at[r] \in Unguarded => b.guard[k] = 0
                      /\ PiTestsHold(b, r),
         \A r, t \in P : PiWorking(b, r) /\ PiWorking(b, t) => r = t,
         PiLockKept(b, k)
  PROVE  PiKept(b)
<1> USE DEF PiWorking
<1>0. "idle" \notin Guarded \cup Unguarded
  BY DEF Guarded, Unguarded
<1>1. PiAlone(b)
  <2>1. ASSUME NEW q \in PiUsers
        PROVE  /\ b.at[q] # "idle" => b.l[q] \in PiLocks
               /\ b.at[q] \in Guarded => b.guard[b.l[q]] = 1
               /\ b.at[q] \in Unguarded => b.guard[b.l[q]] = 0
    <3>1. CASE q \in P
      BY <1>0, <3>1
    <3>2. CASE q \notin P
      BY <1>0, <3>2 DEF PiKept, PiAlone
    <3> QED
      BY <3>1, <3>2
  <2>2. ASSUME NEW q \in PiUsers, NEW r \in PiUsers, PiWorking(b, q), PiWorking(b, r),
               \/ b.l[q] = b.l[r]
               \/ b.at[q] \in Unguarded /\ b.at[r] \in Unguarded
        PROVE  q = r
    <3>1. CASE q \in P /\ r \in P
      BY <2>2, <3>1
    <3>2. CASE q \notin P /\ r \notin P
      BY <2>2, <3>2 DEF PiKept, PiAlone
    <3>3. CASE q \in P /\ r \notin P
      BY <1>0, <2>2, <3>3
    <3>4. CASE q \notin P /\ r \in P
      BY <1>0, <2>2, <3>4
    <3> QED
      BY <3>1, <3>2, <3>3, <3>4
  <2> QED
    BY <2>1, <2>2 DEF PiAlone
<1>2. ASSUME NEW q \in PiUsers PROVE PiTestsHold(b, q)
  <2>1. CASE q \in P
    BY <2>1
  <2>2. CASE q \notin P
    <3>1. PiTestsHold(a, q) /\ (a.at[q] # "idle" => a.l[q] \in PiLocks)
      BY DEF PiKept, PiAlone
    <3>2. CASE PiWorking(a, q)
      BY <1>0, <2>2, <3>1, <3>2 DEF PiTestsHold
    <3>3. CASE ~PiWorking(a, q)
      BY <2>2, <3>1, <3>3 DEF PiTestsHold, Guarded, Unguarded
    <3> QED
      BY <3>2, <3>3
  <2> QED
    BY <2>1, <2>2
<1>3. ASSUME NEW m \in PiLocks PROVE PiLockKept(b, m)
  <2>1. CASE m = k
    BY <2>1
  <2>2. CASE m # k
    <3>1. PiLockKept(a, m)
      BY DEF PiKept
    <3>2. b.flag[m] = a.flag[m] /\ b.lqueue[m] = a.lqueue[m]
      BY <2>2
    <3>3. \A q \in PiUsers : m \in b.holds[q] <=> m \in a.holds[q]
      BY <2>2
    <3>4. ToSet(a.lqueue[m]) \subseteq PiUsers
      BY DEF PiKept, IsPi, ToSet
    <3>5. \A q \in ToSet(a.lqueue[m]) : b.at[q] = "parked" /\ b.l[q] = m
      BY <2>2, <3>1, <3>4 DEF PiLockKept
    <3> QED
      BY <3>1, <3>2, <3>3, <3>5 DEF PiLockKept
  <2> QED
    BY <2>1, <2>2
<1> QED
  BY <1>1, <1>2, <1>3 DEF PiKept

(* A step of one process that is in a call with lock k.                    *)
LEMMA PiWorkKeeps ==
  ASSUME NEW a, PiKept(a), NEW b, IsPi(b), NEW p \in PiUsers, PiWorking(a, p),
         NEW k, k = a.l[p],
         \A q \in PiUsers \ {p} : /\ b.at[q] = a.at[q] /\ b.l[q] = a.l[q]
                                  /\ b.holds[q] = a.holds[q] /\ a.at[q] \notin Unguarded,
         \A m \in PiLocks \ {k} : /\ b.flag[m] = a.flag[m] /\ b.guard[m] = a.guard[m]
                                  /\ b.lqueue[m] = a.lqueue[m]
                                  /\ m \in b.holds[p] <=> m \in a.holds[p],
         b.at[p] # "idle" => b.l[p] = k,
         b.at[p] \in Guarded => b.guard[k] = 1,
         b.at[p] \in Unguarded => b.guard[k] = 0,
         PiTestsHold(b, p), PiLockKept(b, k)
  PROVE  PiKept(b)
<1>1. k \in PiLocks /\ \A q \in PiUsers \ {p} : PiWorking(a, q) => a.l[q] # k
  BY DEF PiKept, PiAlone, PiWorking, Guarded, Unguarded
<1>2. a.at[p] # "parked"
  BY DEF PiWorking, Guarded, Unguarded
<1> DEFINE P == {p}
<1>3. P \in SUBSET PiUsers /\ \A r \in P : r = p
  OBVIOUS
<1> HIDE DEF P
<1>4. p \in P
  BY DEF P
<1> QED
  BY <1>1, <1>2, <1>3, <1>4, PiStepKeeps

(* A step of a process in a call, to another of its points.                *)
LEMMA PiMoveKeeps ==
  ASSUME NEW a, PiKept(a), NEW b, IsPi(b), NEW p \in PiUsers,
         b.flag = a.flag, b.guard = a.guard, b.lqueue = a.lqueue, b.holds = a.holds, b.l = a.l,
         \A q \in PiUsers \ {p} : b.at[q] = a.at[q] /\ a.at[q] \notin Unguarded,
         \/ a.at[p] \in Guarded /\ b.at[p] \in Guarded
         \/ a.at[p] \in Unguarded /\ b.at[p] \in Unguarded,
         PiTestsHold(b, p)
  PROVE  PiKept(b)
<1> DEFINE k == a.l[p]
<1>1. PiWorking(a, p)
  BY DEF PiWorking
<1>2. k \in PiLocks /\ PiLockKept(a, k) /\ ToSet(a.lqueue[k]) \subseteq PiUsers
  BY <1>1 DEF PiKept, PiAlone, IsPi, ToSet, PiWorking, Guarded, Unguarded
<1>3. \A q \in ToSet(a.lqueue[k]) : b.at[q] = "parked"
  BY <1>1, <1>2 DEF PiLockKept, PiWorking, Guarded, Unguarded
<1>4. PiLockKept(b, k)
  BY <1>2, <1>3 DEF PiLockKept
<1>5. (b.at[p] \in Guarded => b.guard[k] = 1) /\ (b.at[p] \in Unguarded => b.guard[k] = 0)
  <2>1. Guarded \cap Unguarded = {}
    BY DEF Guarded, Unguarded
  <2> QED
    BY <2>1 DEF PiKept, PiAlone
<1> HIDE DEF k
<1>6. k = a.l[p]
  BY DEF k
<1> QED
  BY <1>1, <1>4, <1>5, <1>6, PiWorkKeeps
-----------------------------------------------------------------------------
LEMMA PiInitOK ==
  ASSUME PiInit
  PROVE  PiIInv /\ PiLent(pi)
<1> USE DEF PiInit
<1>1. IsPi(pi)
  BY PiAssumption DEF IsPi
<1>2. \A p \in PiUsers : /\ pi.at[p] = "idle" /\ pi.holds[p] = {} /\ pi.prprio[p] = PiPrio[p]
                         /\ PiPrio[p] \in Nat
  BY PiAssumption
<1>3. \A k \in PiLocks : pi.flag[k] = 0 /\ pi.lqueue[k] = << >>
  OBVIOUS
<1>4. IsInjective(<< >>) /\ ToSet(<< >>) = {}
  BY DEF IsInjective, ToSet
<1> HIDE DEF PiInit
<1>5. PiAlone(pi) /\ \A p \in PiUsers : PiTestsHold(pi, p)
  BY <1>2 DEF PiAlone, PiTestsHold, PiWorking, Guarded, Unguarded
<1>6. \A k \in PiLocks : PiLockKept(pi, k)
  BY <1>2, <1>3, <1>4 DEF PiLockKept
<1>7. PiLent(pi)
  BY <1>2, <1>3, <1>4 DEF PiLent, PiOne, PiLentTo, HasNone
<1> QED
  BY <1>1, <1>5, <1>6, <1>7 DEF PiIInv, PiKept

(* While p makes a step nobody else is in the unguarded part.              *)
LEMMA PiAtAlone ==
  ASSUME ~PreemptUnlock, NEW p \in PiUsers, NEW point, pi_at(p, point)
  PROVE  pi.at[p] = point /\ \A q \in PiUsers \ {p} : pi.at[q] \notin Unguarded
  BY DEF pi_at

(* A step that moves p and changes nothing of the locks.                   *)
LEMMA PiMoveLends ==
  ASSUME PiIInv, NEW p \in PiUsers,
         pi'.lqueue = pi.lqueue, pi'.holds = pi.holds, pi'.l = pi.l,
         pi'.owner = pi.owner, pi'.highest = pi.highest, pi'.prprio = pi.prprio,
         \A q \in PiUsers \ {p} : pi'.at[q] = pi.at[q],
         pi'.at[p] # "idle", pi.at[p] \notin {"set_owner", "own"},
         PiLent(pi) => PiOne(pi', p)
  PROVE  PiLentStays
<1> SUFFICES ASSUME PiLent(pi) PROVE PiLent(pi')
  BY DEF PiLentStays
<1>1. ASSUME NEW q \in PiUsers \ {p} PROVE PiOne(pi', q)
  BY <1>1 DEF PiLent, PiOne
<1>2. ASSUME NEW k \in PiLocks PROVE PiLentTo(pi', k)
  BY <1>2 DEF PiLent, PiLentTo
<1> QED
  BY <1>1, <1>2 DEF PiLent

LEMMA PiTestFlagKeeps ==
  ASSUME PiIInv, ~PreemptUnlock, NEW p \in PiUsers, pi_test_flag(p)
  PROVE  PiKept(pi') /\ PiLentStays
<1>1. /\ PiKept(pi) /\ PiTestsHold(pi, p) /\ PiL(p) = pi.l[p]
      /\ \A q \in PiUsers \ {p} : pi.at[q] \notin Unguarded
  BY PiAtAlone DEF PiIInv, PiKept, PiL, pi_test_flag
<1>2. /\ IsPi(pi')
      /\ pi'.flag = pi.flag /\ pi'.guard = pi.guard /\ pi'.lqueue = pi.lqueue
      /\ pi'.holds = pi.holds /\ pi'.l = pi.l /\ pi'.highest = pi.highest
      /\ pi'.prprio = pi.prprio /\ pi'.owner = pi.owner
      /\ \A q \in PiUsers \ {p} : pi'.at[q] = pi.at[q]
  BY <1>1 DEF pi_test_flag, PiKept, IsPi
<1>3. /\ \/ pi.at[p] \in Guarded /\ pi'.at[p] \in Guarded
         \/ pi.at[p] \in Unguarded /\ pi'.at[p] \in Unguarded
      /\ PiTestsHold(pi', p)
  BY <1>1 DEF pi_test_flag, pi_at, PiKept, IsPi, PiAlone, Guarded, Unguarded, PiTestsHold
<1>4. PiKept(pi')
  BY <1>1, <1>2, <1>3, PiMoveKeeps
<1>5. PiLent(pi) => PiOne(pi', p)
  BY <1>1, <1>2 DEF pi_test_flag, pi_at, PiKept, IsPi, PiLent, PiOne, HasNone, PiTestsHold
<1>6. pi'.at[p] # "idle" /\ pi.at[p] \notin {"set_owner", "own"}
  BY <1>3 DEF pi_test_flag, pi_at, Guarded, Unguarded
<1> QED
  BY <1>2, <1>4, <1>5, <1>6, PiMoveLends

LEMMA PiTestOwnerKeeps ==
  ASSUME PiIInv, ~PreemptUnlock, NEW p \in PiUsers, pi_test_owner(p)
  PROVE  PiKept(pi') /\ PiLentStays
<1>1. /\ PiKept(pi) /\ PiTestsHold(pi, p) /\ PiL(p) = pi.l[p]
      /\ \A q \in PiUsers \ {p} : pi.at[q] \notin Unguarded
  BY PiAtAlone DEF PiIInv, PiKept, PiL, pi_test_owner
<1>2. /\ IsPi(pi')
      /\ pi'.flag = pi.flag /\ pi'.guard = pi.guard /\ pi'.lqueue = pi.lqueue
      /\ pi'.holds = pi.holds /\ pi'.l = pi.l /\ pi'.highest = pi.highest
      /\ pi'.prprio = pi.prprio /\ pi'.owner = pi.owner
      /\ \A q \in PiUsers \ {p} : pi'.at[q] = pi.at[q]
  BY <1>1 DEF pi_test_owner, PiKept, IsPi
<1>3. /\ \/ pi.at[p] \in Guarded /\ pi'.at[p] \in Guarded
         \/ pi.at[p] \in Unguarded /\ pi'.at[p] \in Unguarded
      /\ PiTestsHold(pi', p)
  BY <1>1 DEF pi_test_owner, pi_at, PiKept, IsPi, PiAlone, Guarded, Unguarded, PiTestsHold
<1>4. PiKept(pi')
  BY <1>1, <1>2, <1>3, PiMoveKeeps
<1>5. PiLent(pi) => PiOne(pi', p)
  <2> SUFFICES ASSUME PiLent(pi) PROVE PiOne(pi', p)
    OBVIOUS
  <2>1. pi.at[p] = "test_owner" /\ PiL(p) \in pi.holds[p] /\ PiL(p) \in PiLocks
    BY <1>1 DEF pi_test_owner, pi_at, PiKept, IsPi, PiTestsHold
  <2>2. pi.owner[PiL(p)] = p
    BY <2>1 DEF PiLent, PiLentTo
  <2>3. pi'.at[p] \in {"clear_flag", "hand_over"}
    BY <1>1, <2>2 DEF pi_test_owner, PiKept, IsPi
  <2> QED
    BY <1>1, <1>2, <2>1, <2>3 DEF PiLent, PiOne, HasNone
<1>6. pi'.at[p] # "idle" /\ pi.at[p] \notin {"set_owner", "own"}
  BY <1>3 DEF pi_test_owner, pi_at, Guarded, Unguarded
<1> QED
  BY <1>2, <1>4, <1>5, <1>6, PiMoveLends

(* The guard is taken, of a lock on which nobody works.                    *)
LEMMA PiGuardKeeps ==
  ASSUME PiIInv, ~PreemptUnlock, NEW p \in PiUsers, NEW k \in PiLocks, NEW point,
         pi_guard(p, k, point),
         \/ point = "test_flag" /\ k \notin pi.holds[p] /\ (Nested \/ pi.holds[p] = {})
         \/ point = "other_locks" /\ k \in pi.holds[p]
  PROVE  PiKept(pi') /\ PiLentStays
<1>1. /\ PiKept(pi) /\ pi.at[p] = "idle" /\ pi.guard[k] = 0
      /\ \A q \in PiUsers \ {p} : pi.at[q] \notin Unguarded
  BY PiAtAlone DEF PiIInv, pi_guard
<1>2. /\ IsPi(pi')
      /\ pi'.flag = pi.flag /\ pi'.lqueue = pi.lqueue /\ pi'.holds = pi.holds
      /\ pi'.highest = pi.highest /\ pi'.prprio = pi.prprio /\ pi'.owner = pi.owner
      /\ pi'.guard[k] = 1 /\ pi'.at[p] = point /\ pi'.l[p] = k
      /\ \A m \in PiLocks \ {k} : pi'.guard[m] = pi.guard[m]
      /\ \A q \in PiUsers \ {p} : pi'.at[q] = pi.at[q] /\ pi'.l[q] = pi.l[q]
  BY <1>1 DEF pi_guard, PiKept, IsPi
<1>3. \A q \in PiUsers \ {p} : PiWorking(pi, q) => pi.l[q] # k
  BY <1>1 DEF PiKept, PiAlone, PiWorking
<1>4. point \in Guarded /\ point \notin Unguarded /\ point # "idle"
  BY DEF Guarded, Unguarded
<1>5. PiTestsHold(pi', p)
  BY <1>2 DEF PiTestsHold
<1>6. PiLockKept(pi', k)
  <2>1. PiLockKept(pi, k) /\ ToSet(pi.lqueue[k]) \subseteq PiUsers
    BY <1>1 DEF PiKept, IsPi, ToSet
  <2>2. p \notin ToSet(pi.lqueue[k])
    BY <1>1, <2>1 DEF PiLockKept
  <2> QED
    BY <1>2, <2>1, <2>2 DEF PiLockKept
<1> DEFINE P == {p}
<1>7. P \in SUBSET PiUsers /\ p \in P /\ \A r \in P : r = p
  OBVIOUS
<1> HIDE DEF P
<1>8. PiKept(pi')
  BY <1>1, <1>2, <1>3, <1>4, <1>5, <1>6, <1>7, PiStepKeeps
<1>9. PiLentStays
  <2> SUFFICES ASSUME ~Nested, PiLent(pi) PROVE PiLent(pi')
    BY DEF PiLentStays
  <2>1. ASSUME NEW q \in PiUsers \ {p} PROVE PiOne(pi', q)
    BY <1>2, <2>1 DEF PiLent, PiOne
  <2>2. PiOne(pi', p)
    BY <1>1, <1>2 DEF PiLent, PiOne, HasNone
  <2>3. ASSUME NEW m \in PiLocks PROVE PiLentTo(pi', m)
    BY <1>1, <1>2, <1>4, <2>3 DEF PiLent, PiLentTo
  <2> QED
    BY <2>1, <2>2, <2>3 DEF PiLent
<1> QED
  BY <1>8, <1>9

(* The guard is given back: who has just taken the lock found no one       *)
(* waiting, and who has unlocked it has none.                              *)
LEMMA PiLeaveKeeps ==
  ASSUME PiIInv, ~PreemptUnlock, NEW p \in PiUsers, pi_leave_lock(p) \/ pi_leave_unlock(p)
  PROVE  PiKept(pi') /\ PiLentStays
<1> DEFINE k == PiL(p)
<1>1. /\ PiKept(pi) /\ k = pi.l[p] /\ pi.at[p] \in {"leave_lock", "leave_unlock"}
      /\ PiWorking(pi, p) /\ k \in PiLocks
      /\ \A q \in PiUsers \ {p} : pi.at[q] \notin Unguarded
  BY PiAtAlone
     DEF PiIInv, PiKept, PiAlone, PiL, pi_leave_lock, pi_leave_unlock, PiWorking, Guarded, Unguarded
<1>2. /\ IsPi(pi')
      /\ pi'.flag = pi.flag /\ pi'.lqueue = pi.lqueue /\ pi'.holds = pi.holds
      /\ pi'.highest = pi.highest /\ pi'.prprio = pi.prprio /\ pi'.owner = pi.owner
      /\ pi'.at[p] = "idle"
      /\ \A m \in PiLocks \ {k} : pi'.guard[m] = pi.guard[m]
      /\ \A q \in PiUsers \ {p} : pi'.at[q] = pi.at[q] /\ pi'.l[q] = pi.l[q]
  <2>1. pi' = [pi EXCEPT !.guard[k] = 0, !.at[p] = "idle", !.l[p] = PI_AVAILABLE]
    BY DEF pi_leave_lock, pi_leave_unlock
  <2> QED
    BY <1>1, <2>1 DEF PiKept, IsPi
<1>3. PiTestsHold(pi', p) /\ "idle" \notin Guarded \cup Unguarded
  BY <1>2 DEF PiTestsHold, Guarded, Unguarded
<1>4. PiLockKept(pi', k)
  <2>1. PiLockKept(pi, k) /\ ToSet(pi.lqueue[k]) \subseteq PiUsers
    BY <1>1 DEF PiKept, IsPi, ToSet
  <2>2. p \notin ToSet(pi.lqueue[k])
    BY <1>1, <2>1 DEF PiLockKept
  <2> HIDE DEF k
  <2> QED
    BY <1>2, <2>1, <2>2 DEF PiLockKept
<1> HIDE DEF k
<1>5. PiKept(pi')
  BY <1>1, <1>2, <1>3, <1>4, PiWorkKeeps
<1>6. PiLentStays
  <2> SUFFICES ASSUME PiLent(pi) PROVE PiLent(pi')
    BY DEF PiLentStays
  <2>1. ASSUME NEW q \in PiUsers \ {p} PROVE PiOne(pi', q)
    BY <1>2, <2>1 DEF PiLent, PiOne
  <2>2. PiOne(pi, p)
    BY DEF PiLent
  <2>3. PiOne(pi', p)
    BY <1>2, <2>2 DEF PiOne, HasNone
  <2>4. \A m \in pi.holds[p] : pi.lqueue[m] = << >>
    BY <1>1, <2>2 DEF PiOne, HasNone
  <2>5. ASSUME NEW m \in PiLocks PROVE PiLentTo(pi', m)
    <3>1. PiLentTo(pi, m) /\ ToSet(<< >>) = {}
      BY DEF PiLent, ToSet
    <3> QED
      BY <1>1, <1>2, <2>4, <3>1 DEF PiLentTo
  <2> QED
    BY <2>1, <2>3, <2>5 DEF PiLent
<1> QED
  BY <1>5, <1>6

(* The flag is found clear and set: then nobody had the lock.              *)
LEMMA PiSetFlagKeeps ==
  ASSUME PiIInv, ~PreemptUnlock, NEW p \in PiUsers, pi_set_flag(p)
  PROVE  PiKept(pi') /\ PiLentStays
<1> DEFINE k == PiL(p)
<1>1. /\ PiKept(pi) /\ k = pi.l[p] /\ pi.at[p] = "set_flag" /\ PiTestsHold(pi, p)
      /\ PiWorking(pi, p) /\ k \in PiLocks /\ pi.guard[k] = 1
      /\ \A q \in PiUsers \ {p} : pi.at[q] \notin Unguarded
  BY PiAtAlone DEF PiIInv, PiKept, PiAlone, PiL, pi_set_flag, PiWorking, Guarded, Unguarded
<1>2. /\ IsPi(pi')
      /\ pi'.guard = pi.guard /\ pi'.lqueue = pi.lqueue /\ pi'.highest = pi.highest
      /\ pi'.prprio = pi.prprio /\ pi'.owner = pi.owner
      /\ pi'.l = pi.l /\ pi'.at[p] = "set_owner" /\ pi'.flag[k] = 1
      /\ pi'.holds[p] = pi.holds[p] \cup {k}
      /\ \A m \in PiLocks \ {k} : pi'.flag[m] = pi.flag[m]
      /\ \A q \in PiUsers \ {p} : pi'.at[q] = pi.at[q] /\ pi'.holds[q] = pi.holds[q]
  BY <1>1 DEF pi_set_flag, PiKept, IsPi
<1>3. PiLockKept(pi, k) /\ pi.flag[k] = 0
  BY <1>1 DEF PiKept, PiTestsHold
<1>4. /\ pi.lqueue[k] = << >> /\ ToSet(<< >>) = {}
      /\ \A q \in PiUsers : k \notin pi.holds[q]
  BY <1>3 DEF PiLockKept, ToSet
<1> HIDE DEF k
<1>5. PiLockKept(pi', k)
  BY <1>2, <1>3, <1>4 DEF PiLockKept
<1>6. PiTestsHold(pi', p) /\ "set_owner" \notin Unguarded
  BY <1>1, <1>2 DEF PiTestsHold, Unguarded
<1>7. PiKept(pi')
  BY <1>1, <1>2, <1>5, <1>6, PiWorkKeeps
<1>8. PiLentStays
  <2> SUFFICES ASSUME PiLent(pi) PROVE PiLent(pi')
    BY DEF PiLentStays
  <2>1. ASSUME NEW q \in PiUsers \ {p} PROVE PiOne(pi', q)
    BY <1>2, <2>1 DEF PiLent, PiOne
  <2>2. PiOne(pi, p)
    BY DEF PiLent
  <2>3. PiOne(pi', p)
    BY <1>1, <1>2, <1>4, <2>2 DEF PiOne, HasNone
  <2>4. ASSUME NEW m \in PiLocks PROVE PiLentTo(pi', m)
    <3>1. PiLentTo(pi, m)
      BY DEF PiLent
    <3> QED
      BY <1>1, <1>2, <1>4, <2>2, <3>1 DEF PiLentTo, PiOne, HasNone
  <2> QED
    BY <2>1, <2>3, <2>4 DEF PiLent
<1> QED
  BY <1>7, <1>8

LEMMA PiSetOwnerKeeps ==
  ASSUME PiIInv, ~PreemptUnlock, NEW p \in PiUsers, pi_set_owner(p)
  PROVE  PiKept(pi') /\ PiLentStays
<1> DEFINE k == PiL(p)
<1>1. /\ PiKept(pi) /\ k = pi.l[p] /\ pi.at[p] = "set_owner" /\ PiTestsHold(pi, p)
      /\ PiWorking(pi, p) /\ k \in PiLocks
      /\ \A q \in PiUsers \ {p} : pi.at[q] \notin Unguarded
  BY PiAtAlone DEF PiIInv, PiKept, PiAlone, PiL, pi_set_owner, PiWorking, Guarded, Unguarded
<1>2. /\ IsPi(pi')
      /\ pi'.flag = pi.flag /\ pi'.guard = pi.guard /\ pi'.lqueue = pi.lqueue
      /\ pi'.holds = pi.holds /\ pi'.prprio = pi.prprio /\ pi'.l = pi.l
      /\ pi'.owner[k] = p /\ pi'.at[p] = "leave_lock"
      /\ \A m \in PiLocks \ {k} : pi'.owner[m] = pi.owner[m] /\ pi'.highest[m] = pi.highest[m]
      /\ \A q \in PiUsers \ {p} : pi'.at[q] = pi.at[q]
  BY <1>1 DEF pi_set_owner, PiKept, IsPi
<1>3. PiTestsHold(pi', p) /\ "set_owner" \in Guarded /\ "leave_lock" \in Guarded
  BY <1>1, <1>2 DEF PiTestsHold, Guarded
<1>4. PiKept(pi')
  BY <1>1, <1>2, <1>3, PiMoveKeeps
<1> HIDE DEF k
<1>5. PiLentStays
  <2> SUFFICES ASSUME PiLent(pi) PROVE PiLent(pi')
    BY DEF PiLentStays
  <2>1. PiLockKept(pi, k) /\ k \in pi.holds[p]
    BY <1>1 DEF PiKept, PiTestsHold
  <2>2. PiOne(pi, p) /\ \A m \in PiLocks : PiLentTo(pi, m)
    BY DEF PiLent
  <2>3. /\ pi.lqueue[k] = << >> /\ ToSet(<< >>) = {}
        /\ \A m \in pi.holds[p] : m = k
    BY <1>1, <2>1, <2>2 DEF PiOne, ToSet
  <2>4. ASSUME NEW q \in PiUsers PROVE PiOne(pi', q)
    BY <1>1, <1>2, <2>4 DEF PiLent, PiOne, HasNone
  <2>5. PiLentTo(pi', k)
    BY <1>2, <2>1, <2>3 DEF PiLentTo, PiLockKept
  <2>6. ASSUME NEW m \in PiLocks \ {k} PROVE PiLentTo(pi', m)
    BY <1>2, <2>2, <2>3 DEF PiLentTo
  <2> QED
    BY <2>4, <2>5, <2>6 DEF PiLent
<1> QED
  BY <1>4, <1>5

(* The lock is another's: p joins its queue and lends that its priority.   *)
LEMMA PiWaitKeeps ==
  ASSUME PiIInv, ~PreemptUnlock, NEW p \in PiUsers, pi_wait(p)
  PROVE  PiKept(pi') /\ PiLentStays
<1>0. PICK k, o : k = PiL(p) /\ o = pi.owner[k]
  OBVIOUS
<1>1. /\ PiKept(pi) /\ k = pi.l[p] /\ pi.at[p] = "wait" /\ PiTestsHold(pi, p)
      /\ PiWorking(pi, p) /\ k \in PiLocks
      /\ \A q \in PiUsers \ {p} : pi.at[q] \notin Unguarded
  BY <1>0, PiAtAlone DEF PiIInv, PiKept, PiAlone, PiL, pi_wait, PiWorking, Guarded, Unguarded
<1>2. PiLockKept(pi, k) /\ pi.flag[k] = 1 /\ k \notin pi.holds[p]
  BY <1>1 DEF PiKept, PiTestsHold
<1>3. PICK h \in PiUsers \ {p} : k \in pi.holds[h]
  BY <1>2 DEF PiLockKept
<1>4. /\ pi.lqueue[k] \in Seq(PiUsers) /\ p \notin ToSet(pi.lqueue[k])
      /\ IsInjective(pi.lqueue[k]) /\ \A m \in PiLocks : ToSet(pi.lqueue[m]) \subseteq PiUsers
  <2>1. \A m \in PiLocks : ToSet(pi.lqueue[m]) \subseteq PiUsers
    BY <1>1 DEF PiKept, IsPi, ToSet
  <2> QED
    BY <1>1, <1>2, <2>1 DEF PiLockKept, PiKept, IsPi
<1>5. PICK r : r = Append(pi.lqueue[k], p)
  OBVIOUS
<1>6. r \in Seq(PiUsers) /\ IsInjective(r) /\ ToSet(r) = ToSet(pi.lqueue[k]) \cup {p}
  BY <1>4, <1>5, AppendJoins
<1>7. pi' = [pi EXCEPT !.lqueue[k] = r, !.guard[k] = 0, !.at[p] = "parked",
                       !.prprio[o]  = raise(@, pi.prprio[p]),
                       !.highest[k] = raise(@, pi.prprio[p])]
  BY <1>0, <1>5 DEF pi_wait
<1>8. /\ \A m, n \in Nat : raise(m, n) \in Nat /\ raise(m, n) >= m /\ raise(m, n) >= n
      /\ pi.prprio[p] \in Nat
  BY <1>1 DEF raise, PiKept, IsPi
<1>9. IsPi(pi')
  <2>1. [pi.lqueue EXCEPT ![k] = r] \in [PiLocks -> Seq(PiUsers)]
    BY <1>1, <1>6 DEF PiKept, IsPi
  <2>2. /\ [pi.prprio EXCEPT ![o] = raise(@, pi.prprio[p])] \in [PiUsers -> Nat]
        /\ [pi.highest EXCEPT ![k] = raise(@, pi.prprio[p])] \in [PiLocks -> Nat]
    BY <1>1, <1>8 DEF PiKept, IsPi
  <2>3. /\ [pi.guard EXCEPT ![k] = 0] \in [PiLocks -> {0, 1}]
        /\ [pi.at EXCEPT ![p] = "parked"] = [q \in PiUsers |-> [pi.at EXCEPT ![p] = "parked"][q]]
    BY <1>1 DEF PiKept, IsPi
  <2>4. PICK lq, pr, hi, gu, at :
          /\ lq = [pi.lqueue EXCEPT ![k] = r]
          /\ pr = [pi.prprio EXCEPT ![o] = raise(@, pi.prprio[p])]
          /\ hi = [pi.highest EXCEPT ![k] = raise(@, pi.prprio[p])]
          /\ gu = [pi.guard EXCEPT ![k] = 0]
          /\ at = [pi.at EXCEPT ![p] = "parked"]
    OBVIOUS
  <2>5. pi' = [pi EXCEPT !.lqueue = lq, !.guard = gu, !.at = at, !.prprio = pr, !.highest = hi]
    BY <1>1, <1>7, <2>4 DEF PiKept, IsPi
  <2> QED
    BY <1>1, <2>1, <2>2, <2>3, <2>4, <2>5 DEF PiKept, IsPi
<1>10. /\ pi'.flag = pi.flag /\ pi'.holds = pi.holds /\ pi'.owner = pi.owner
       /\ pi'.l = pi.l /\ pi'.at[p] = "parked" /\ pi'.lqueue[k] = r
       /\ \A m \in PiLocks \ {k} : /\ pi'.guard[m] = pi.guard[m] /\ pi'.lqueue[m] = pi.lqueue[m]
                                  /\ pi'.highest[m] = pi.highest[m]
       /\ \A q \in PiUsers \ {p} : pi'.at[q] = pi.at[q]
  BY <1>1, <1>7 DEF PiKept, IsPi
<1>11. /\ pi'.highest[k] = raise(pi.highest[k], pi.prprio[p])
       /\ pi'.prprio = [pi.prprio EXCEPT ![o] = raise(@, pi.prprio[p])]
  BY <1>1, <1>7 DEF PiKept, IsPi
<1>12. PiLockKept(pi', k)
  <2>1. \A q \in ToSet(r) : pi'.at[q] = "parked" /\ pi'.l[q] = k
    BY <1>1, <1>2, <1>4, <1>6, <1>10 DEF PiLockKept
  <2> QED
    BY <1>2, <1>6, <1>10, <2>1 DEF PiLockKept
<1>13. PiTestsHold(pi', p) /\ "parked" \notin Guarded \cup Unguarded
  BY <1>1, <1>10 DEF PiTestsHold, Guarded, Unguarded
<1>14. PiKept(pi')
  BY <1>1, <1>9, <1>10, <1>12, <1>13, PiWorkKeeps
<1>15. PiLentStays
  <2> SUFFICES ASSUME PiLent(pi) PROVE PiLent(pi')
    BY DEF PiLentStays
  <2>1. \A q \in PiUsers : /\ pi.prprio[q] \in Nat /\ PiPrio[q] \in Nat
                          /\ pi'.prprio[q] \in Nat /\ pi'.prprio[q] >= pi.prprio[q]
    BY <1>1, <1>8, <1>9, <1>11, PiAssumption, SMTT(30) DEF PiKept, IsPi
  <2>2. /\ \A q \in PiUsers : PiOne(pi, q)
        /\ \A m \in PiLocks : PiLentTo(pi, m) /\ pi.highest[m] \in Nat
    BY <1>1 DEF PiLent, PiKept, IsPi
  <2>3. pi.prprio[p] >= PiPrio[p]
    BY <2>2 DEF PiOne
  <2>4. ASSUME NEW q \in PiUsers PROVE PiOne(pi', q)
    <3>1. pi'.prprio[q] >= PiPrio[q]
      BY <2>1, <2>2 DEF PiOne
    <3>2. CASE q = p
      BY <1>1, <1>10, <2>2, <3>1, <3>2 DEF PiOne, HasNone
    <3>3. CASE q # p
      <4>1. pi.at[q] \in {"set_owner", "leave_lock"} => pi.l[q] \in PiLocks \ {k}
        BY <1>1, <3>3 DEF PiKept, PiAlone, PiWorking, Guarded
      <4> QED
        BY <1>10, <2>2, <3>1, <3>3, <4>1 DEF PiOne
    <3> QED
      BY <3>2, <3>3
  <2>5. ASSUME NEW m \in PiLocks \ {k} PROVE PiLentTo(pi', m)
    <3>1. /\ \A q \in PiUsers : m \in pi'.holds[q] /\ pi'.at[q] \notin {"set_owner", "own"} => pi'.owner[m] = q
          /\ \A q \in ToSet(pi'.lqueue[m]) : pi'.highest[m] >= PiPrio[q]
      BY <1>1, <1>10, <2>2 DEF PiLentTo
    <3>2. ASSUME NEW q \in PiUsers, m \in pi'.holds[q], pi'.at[q] = "idle",
                 NEW t \in ToSet(pi'.lqueue[m])
          PROVE  pi'.prprio[q] >= PiPrio[t]
      <4>1. t \in PiUsers /\ t \in ToSet(pi.lqueue[m]) /\ m \in pi.holds[q] /\ pi.at[q] = "idle"
        BY <1>1, <1>4, <1>10, <3>2
      <4>2. pi.prprio[q] >= PiPrio[t]
        BY <2>2, <4>1 DEF PiLentTo
      <4> QED
        BY <2>1, <4>1, <4>2
    <3> QED
      BY <3>1, <3>2 DEF PiLentTo
  <2>6. PiLentTo(pi', k)
    <3>1. ASSUME NEW q \in PiUsers, k \in pi'.holds[q], pi'.at[q] \notin {"set_owner", "own"}
          PROVE  pi'.owner[k] = q
      BY <1>1, <1>2, <1>10, <2>2, <3>1 DEF PiLentTo
    <3>0. PICK old, new, mine : old = pi.highest[k] /\ new = pi'.highest[k] /\ mine = pi.prprio[p]
      OBVIOUS
    <3>9. old \in Nat /\ new \in Nat /\ mine \in Nat /\ new >= old /\ new >= mine
      <4>1. old \in Nat /\ mine \in Nat /\ new = raise(old, mine)
        BY <1>1, <1>8, <1>11, <2>2, <3>0
      <4> QED
        BY <4>1 DEF raise
    <3>2. ASSUME NEW q \in ToSet(r) PROVE pi'.highest[k] >= PiPrio[q]
      <4>1. CASE q = p
        BY <2>1, <2>3, <3>0, <3>9, <4>1
      <4>2. CASE q # p
        <5>1. q \in ToSet(pi.lqueue[k]) /\ q \in PiUsers
          BY <1>1, <1>4, <1>6, <3>2, <4>2
        <5>2. pi.highest[k] >= PiPrio[q]
          BY <1>1, <2>2, <5>1 DEF PiLentTo
        <5> QED
          BY <2>1, <3>0, <3>9, <5>1, <5>2
      <4> QED
        BY <4>1, <4>2
    <3>3. ASSUME NEW q \in PiUsers, k \in pi'.holds[q], pi'.at[q] = "idle", NEW t \in ToSet(r)
          PROVE  pi'.prprio[q] >= PiPrio[t]
      <4>1. q # p /\ k \in pi.holds[q] /\ pi.at[q] = "idle"
        BY <1>2, <1>10, <3>3
      <4>2. q = o
        BY <1>0, <1>1, <2>2, <4>1 DEF PiLentTo
      <4>3. CASE t = p
        BY <1>8, <1>9, <1>11, <2>1, <2>3, <4>2, <4>3, PiAssumption DEF IsPi
      <4>4. CASE t # p
        <5>1. t \in ToSet(pi.lqueue[k]) /\ t \in PiUsers
          BY <1>1, <1>4, <1>6, <3>3, <4>4
        <5>2. pi.prprio[q] >= PiPrio[t]
          BY <1>1, <2>2, <4>1, <5>1 DEF PiLentTo
        <5> QED
          BY <2>1, <5>1, <5>2
      <4> QED
        BY <4>3, <4>4
    <3> QED
      BY <1>10, <3>1, <3>2, <3>3 DEF PiLentTo
  <2> QED
    BY <2>4, <2>5, <2>6 DEF PiLent
<1> QED
  BY <1>14, <1>15

(* The new holder has run: it is the owner.                                *)
LEMMA PiOwnKeeps ==
  ASSUME PiIInv, ~PreemptUnlock, NEW p \in PiUsers, pi_own(p)
  PROVE  PiKept(pi') /\ PiLentStays
<1>1. /\ PiKept(pi) /\ PiL(p) = pi.l[p] /\ pi.at[p] = "own" /\ PiTestsHold(pi, p)
      /\ PiL(p) \in PiLocks
  BY PiAtAlone DEF PiIInv, PiKept, PiAlone, PiL, pi_own
<1>2. /\ IsPi(pi')
      /\ pi'.flag = pi.flag /\ pi'.guard = pi.guard /\ pi'.lqueue = pi.lqueue
      /\ pi'.holds = pi.holds /\ pi'.prprio = pi.prprio /\ pi'.l = pi.l
      /\ pi'.highest = pi.highest /\ pi'.owner[PiL(p)] = p /\ pi'.at[p] = "inherit"
      /\ \A m \in PiLocks \ {PiL(p)} : pi'.owner[m] = pi.owner[m]
      /\ \A q \in PiUsers \ {p} : pi'.at[q] = pi.at[q]
  BY <1>1 DEF pi_own, PiKept, IsPi
<1>3. PiAlone(pi') /\ \A q \in PiUsers : PiTestsHold(pi', q)
  <2>1. "inherit" \notin Guarded \cup Unguarded
    BY DEF Guarded, Unguarded
  <2>2. PiAlone(pi')
    BY <1>1, <1>2, <2>1 DEF PiKept, PiAlone, PiWorking
  <2>3. PiTestsHold(pi', p)
    BY <1>1, <1>2 DEF PiTestsHold
  <2>4. ASSUME NEW q \in PiUsers \ {p} PROVE PiTestsHold(pi', q)
    BY <1>1, <1>2, <2>4 DEF PiKept, PiTestsHold
  <2> QED
    BY <2>2, <2>3, <2>4
<1>4. ASSUME NEW m \in PiLocks PROVE PiLockKept(pi', m)
  <2>1. PiLockKept(pi, m) /\ ToSet(pi.lqueue[m]) \subseteq PiUsers
    BY <1>1 DEF PiKept, IsPi, ToSet
  <2>2. p \notin ToSet(pi.lqueue[m])
    BY <1>1, <2>1 DEF PiLockKept
  <2> QED
    BY <1>2, <2>1, <2>2 DEF PiLockKept
<1>5. PiLentStays
  <2> SUFFICES ASSUME PiLent(pi) PROVE PiLent(pi')
    BY DEF PiLentStays
  <2>1. /\ PiLockKept(pi, PiL(p)) /\ PiL(p) \in pi.holds[p] /\ PiOne(pi, p)
        /\ \A m \in PiLocks : PiLentTo(pi, m)
    BY <1>1 DEF PiKept, PiTestsHold, PiLent
  <2>2. \A m \in pi.holds[p] : m = PiL(p)
    BY <2>1 DEF PiOne
  <2>3. ASSUME NEW q \in PiUsers PROVE PiOne(pi', q)
    BY <1>1, <1>2, <2>3 DEF PiLent, PiOne, HasNone
  <2>4. PiLentTo(pi', PiL(p))
    BY <1>1, <1>2, <2>1 DEF PiLentTo, PiLockKept
  <2>5. ASSUME NEW m \in PiLocks \ {PiL(p)} PROVE PiLentTo(pi', m)
    BY <1>2, <2>1, <2>2 DEF PiLentTo
  <2> QED
    BY <2>3, <2>4, <2>5 DEF PiLent
<1> QED
  BY <1>2, <1>3, <1>4, <1>5 DEF PiKept

(* It inherits what was lent to the one before, and returns from pi_lock.  *)
LEMMA PiInheritKeeps ==
  ASSUME PiIInv, ~PreemptUnlock, NEW p \in PiUsers, pi_inherit(p)
  PROVE  PiKept(pi') /\ PiLentStays
<1>0. PICK k, x : k = PiL(p) /\ x = raise(pi.prprio[p], pi.highest[k])
  OBVIOUS
<1>1. /\ PiKept(pi) /\ k = pi.l[p] /\ pi.at[p] = "inherit" /\ PiTestsHold(pi, p)
      /\ k \in PiLocks
  BY <1>0, PiAtAlone DEF PiIInv, PiKept, PiAlone, PiL, pi_inherit
<1>2. /\ pi.prprio[p] \in Nat /\ pi.highest[k] \in Nat
      /\ x \in Nat /\ x >= pi.prprio[p] /\ x >= pi.highest[k]
  BY <1>0, <1>1 DEF raise, PiKept, IsPi
<1>3. pi' = [pi EXCEPT !.prprio[p] = x, !.at[p] = "idle", !.l[p] = PI_AVAILABLE]
  BY <1>0 DEF pi_inherit
<1>4. /\ IsPi(pi')
      /\ pi'.flag = pi.flag /\ pi'.guard = pi.guard /\ pi'.lqueue = pi.lqueue
      /\ pi'.holds = pi.holds /\ pi'.owner = pi.owner
      /\ pi'.highest = pi.highest /\ pi'.prprio[p] = x /\ pi'.at[p] = "idle"
      /\ \A q \in PiUsers \ {p} : pi'.at[q] = pi.at[q] /\ pi'.l[q] = pi.l[q] /\ pi'.prprio[q] = pi.prprio[q]
  BY <1>1, <1>2, <1>3 DEF PiKept, IsPi
<1>5. PiAlone(pi') /\ \A q \in PiUsers : PiTestsHold(pi', q)
  <2>1. "idle" \notin Guarded \cup Unguarded
    BY DEF Guarded, Unguarded
  <2>2. PiAlone(pi')
    BY <1>1, <1>4, <2>1 DEF PiKept, PiAlone, PiWorking
  <2>3. PiTestsHold(pi', p)
    BY <1>1, <1>4 DEF PiTestsHold
  <2>4. ASSUME NEW q \in PiUsers \ {p} PROVE PiTestsHold(pi', q)
    BY <1>1, <1>4, <2>4 DEF PiKept, PiTestsHold
  <2> QED
    BY <2>2, <2>3, <2>4
<1>6. ASSUME NEW m \in PiLocks PROVE PiLockKept(pi', m)
  <2>1. PiLockKept(pi, m) /\ ToSet(pi.lqueue[m]) \subseteq PiUsers
    BY <1>1 DEF PiKept, IsPi, ToSet
  <2>2. p \notin ToSet(pi.lqueue[m])
    BY <1>1, <2>1 DEF PiLockKept
  <2> QED
    BY <1>4, <2>1, <2>2 DEF PiLockKept
<1>7. PiLentStays
  <2> SUFFICES ASSUME PiLent(pi) PROVE PiLent(pi')
    BY DEF PiLentStays
  <2>1. /\ k \in pi.holds[p] /\ PiOne(pi, p) /\ \A m \in PiLocks : PiLentTo(pi, m)
    BY <1>1 DEF PiKept, PiTestsHold, PiLent
  <2>2. \A q \in PiUsers : PiPrio[q] \in Nat /\ pi.prprio[q] \in Nat
    BY <1>1, PiAssumption DEF PiKept, IsPi
  <2>3. PiOne(pi', p)
    BY <1>2, <1>4, <2>1, <2>2 DEF PiOne, HasNone
  <2>4. ASSUME NEW q \in PiUsers \ {p} PROVE PiOne(pi', q)
    BY <1>1, <1>4, <2>4 DEF PiLent, PiOne
  <2>5. ASSUME NEW m \in PiLocks PROVE PiLentTo(pi', m)
    <3>1. /\ \A q \in PiUsers : m \in pi'.holds[q] /\ pi'.at[q] \notin {"set_owner", "own"} => pi'.owner[m] = q
          /\ \A q \in ToSet(pi'.lqueue[m]) : pi'.highest[m] >= PiPrio[q]
      BY <1>1, <1>4, <2>1 DEF PiLentTo
    <3>2. ASSUME NEW q \in PiUsers, m \in pi'.holds[q], pi'.at[q] = "idle",
                 NEW t \in ToSet(pi'.lqueue[m])
          PROVE  pi'.prprio[q] >= PiPrio[t]
      <4>1. CASE q # p
        BY <1>4, <2>1, <3>2, <4>1 DEF PiLentTo
      <4>2. CASE q = p
        <5>1. m = k
          BY <1>4, <2>1, <3>2, <4>2 DEF PiOne
        <5>2. pi.highest[k] >= PiPrio[t]
          BY <1>1, <1>4, <2>1, <3>2, <5>1 DEF PiLentTo
        <5>3. t \in PiUsers
          BY <1>1, <1>4, <3>2 DEF PiKept, IsPi, ToSet
        <5> QED
          BY <1>2, <1>4, <2>2, <4>2, <5>2, <5>3
      <4> QED
        BY <4>1, <4>2
    <3> QED
      BY <3>1, <3>2 DEF PiLentTo
  <2> QED
    BY <2>3, <2>4, <2>5 DEF PiLent
<1> QED
  BY <1>4, <1>5, <1>6, <1>7 DEF PiKept

(* In pi_unlock the process takes back what it was lent, or keeps what it  *)
(* is lent by another lock: never less than its own.                       *)
LEMMA PiRestoreLends ==
  ASSUME PiIInv, NEW p \in PiUsers, IsPi(pi'),
         pi'.lqueue = pi.lqueue, pi'.holds = pi.holds, pi'.l = pi.l,
         pi'.owner = pi.owner, pi'.highest = pi.highest,
         pi.at[p] \in {"other_locks", "restore"}, pi'.at[p] \in {"restore", "test_owner"},
         pi'.prprio[p] \in {pi.prprio[p], PiPrio[p]} \/ pi'.prprio[p] > PiPrio[p],
         \A q \in PiUsers \ {p} : pi'.at[q] = pi.at[q] /\ pi'.prprio[q] = pi.prprio[q]
  PROVE  PiLentStays
<1> SUFFICES ASSUME PiLent(pi) PROVE PiLent(pi')
  BY DEF PiLentStays
<1>1. ASSUME NEW q \in PiUsers \ {p} PROVE PiOne(pi', q)
  BY <1>1 DEF PiLent, PiOne
<1>2. PiOne(pi', p)
  <2>1. PiOne(pi, p) /\ PiPrio[p] \in Nat /\ pi'.prprio[p] \in Nat
    BY PiAssumption DEF PiLent, IsPi
  <2>2. pi'.prprio[p] >= PiPrio[p]
    BY <2>1 DEF PiOne
  <2> QED
    BY <2>1, <2>2 DEF PiOne, HasNone
<1>3. ASSUME NEW k \in PiLocks PROVE PiLentTo(pi', k)
  BY <1>3 DEF PiLent, PiLentTo
<1> QED
  BY <1>1, <1>2, <1>3 DEF PiLent

LEMMA PiRestoreKeeps ==
  ASSUME PiIInv, ~PreemptUnlock, NEW p \in PiUsers, pi_restore(p)
  PROVE  PiKept(pi') /\ PiLentStays
<1>1. /\ PiKept(pi) /\ PiTestsHold(pi, p) /\ pi.at[p] = "restore"
      /\ \A q \in PiUsers \ {p} : pi.at[q] \notin Unguarded
  BY PiAtAlone DEF PiIInv, PiKept, pi_restore
<1>2. /\ IsPi(pi')
      /\ pi'.flag = pi.flag /\ pi'.guard = pi.guard /\ pi'.lqueue = pi.lqueue
      /\ pi'.holds = pi.holds /\ pi'.l = pi.l /\ pi'.highest = pi.highest
      /\ pi'.owner = pi.owner /\ pi'.prprio[p] = PiPrio[p] /\ pi'.at[p] = "test_owner"
      /\ \A q \in PiUsers \ {p} : pi'.at[q] = pi.at[q] /\ pi'.prprio[q] = pi.prprio[q]
  BY <1>1, PiAssumption DEF pi_restore, PiKept, IsPi
<1>3. "restore" \in Unguarded /\ "test_owner" \in Unguarded /\ PiTestsHold(pi', p)
  BY <1>1, <1>2 DEF Unguarded, PiTestsHold
<1> QED
  BY <1>1, <1>2, <1>3, PiMoveKeeps, PiRestoreLends

(* The guard is let go of, and the others kept away by the bound.          *)
LEMMA PiOtherLocksKeeps ==
  ASSUME PiIInv, ~PreemptUnlock, NEW p \in PiUsers, pi_other_locks(p)
  PROVE  PiKept(pi') /\ PiLentStays
<1>0. PICK k : k = PiL(p)
  OBVIOUS
<1>1. /\ PiKept(pi) /\ k = pi.l[p] /\ pi.at[p] = "other_locks" /\ PiTestsHold(pi, p)
      /\ PiWorking(pi, p) /\ k \in PiLocks
      /\ \A q \in PiUsers \ {p} : pi.at[q] \notin Unguarded
  <2>1. pi_at(p, "other_locks")
    BY DEF pi_other_locks
  <2>2. pi.at[p] = "other_locks" /\ \A q \in PiUsers \ {p} : pi.at[q] \notin Unguarded
    BY <2>1, PiAtAlone
  <2> QED
    BY <1>0, <2>2 DEF PiIInv, PiKept, PiAlone, PiL, PiWorking, Guarded
<1>2. PICK x, point :
        /\ pi' = [pi EXCEPT !.guard[k] = 0, !.prprio[p] = x, !.at[p] = point]
        /\ point \in {"restore", "test_owner"} /\ x \in Nat
        /\ x = pi.prprio[p] \/ x > PiPrio[p]
  <2>1. CASE still_lent(p) = {}
    <3>1. pi' = [pi EXCEPT !.guard[k] = 0, !.at[p] = "restore"]
      BY <1>0, <2>1 DEF pi_other_locks
    <3>2. [pi EXCEPT !.guard[k] = 0, !.at[p] = "restore"]
            = [pi EXCEPT !.guard[k] = 0, !.prprio[p] = pi.prprio[p], !.at[p] = "restore"]
      <4>1. [pi.prprio EXCEPT ![p] = pi.prprio[p]] = pi.prprio
        BY <1>1 DEF PiKept, IsPi
      <4> QED
        BY <1>1, <4>1 DEF PiKept, IsPi
    <3>3. pi.prprio[p] \in Nat
      BY <1>1 DEF PiKept, IsPi
    <3> QED
      BY <3>1, <3>2, <3>3
  <2>2. CASE still_lent(p) # {}
    <3>1. PICK i \in still_lent(p) :
            pi' = [pi EXCEPT !.guard[k] = 0, !.prprio[p] = pi.highest[i], !.at[p] = "test_owner"]
      BY <1>0, <2>2 DEF pi_other_locks
    <3>2. i \in PiLocks /\ pi.highest[i] > PiPrio[p] /\ pi.highest[i] \in Nat
      BY <1>1, <3>1 DEF still_lent, PiKept, IsPi
    <3> QED
      BY <3>1, <3>2
  <2> QED
    BY <2>1, <2>2
<1>3. /\ IsPi(pi')
      /\ pi'.flag = pi.flag /\ pi'.lqueue = pi.lqueue /\ pi'.guard[k] = 0
      /\ pi'.holds = pi.holds /\ pi'.l = pi.l /\ pi'.highest = pi.highest
      /\ pi'.owner = pi.owner /\ pi'.prprio[p] = x /\ pi'.at[p] = point
      /\ \A m \in PiLocks \ {k} : pi'.guard[m] = pi.guard[m]
      /\ \A q \in PiUsers \ {p} : pi'.at[q] = pi.at[q] /\ pi'.prprio[q] = pi.prprio[q]
  BY <1>1, <1>2 DEF PiKept, IsPi
<1>4. /\ PiTestsHold(pi', p) /\ point \notin Guarded /\ point # "idle"
      /\ pi'.at[p] # "parked" /\ pi.at[p] # "parked"
  BY <1>1, <1>2, <1>3 DEF PiTestsHold, Guarded
<1>5. PiLockKept(pi', k)
  <2>1. PiLockKept(pi, k) /\ ToSet(pi.lqueue[k]) \subseteq PiUsers
    BY <1>1 DEF PiKept, IsPi, ToSet
  <2>2. p \notin ToSet(pi.lqueue[k])
    BY <1>4, <2>1 DEF PiLockKept
  <2> QED
    BY <1>3, <2>1, <2>2 DEF PiLockKept
<1>6. PiKept(pi')
  BY <1>1, <1>3, <1>4, <1>5, PiWorkKeeps
<1>7. PiLentStays
  BY <1>1, <1>2, <1>3, PiRestoreLends
<1> QED
  BY <1>6, <1>7

(* Nobody waits, and the holder frees the lock.                            *)
LEMMA PiClearFlagKeeps ==
  ASSUME PiIInv, ~PreemptUnlock, NEW p \in PiUsers, pi_clear_flag(p)
  PROVE  PiKept(pi') /\ PiLentStays
<1>0. PICK k : k = PiL(p)
  OBVIOUS
<1>1. /\ PiKept(pi) /\ k = pi.l[p] /\ pi.at[p] = "clear_flag" /\ PiTestsHold(pi, p)
      /\ PiWorking(pi, p) /\ k \in PiLocks
      /\ \A q \in PiUsers \ {p} : pi.at[q] \notin Unguarded
  BY <1>0, PiAtAlone DEF PiIInv, PiKept, PiAlone, PiL, pi_clear_flag, PiWorking, Guarded, Unguarded
<1>2. /\ IsPi(pi')
      /\ pi'.guard = pi.guard /\ pi'.lqueue = pi.lqueue /\ pi'.highest = pi.highest
      /\ pi'.prprio = pi.prprio /\ pi'.owner = pi.owner
      /\ pi'.l = pi.l /\ pi'.at[p] = "clear_owner" /\ pi'.flag[k] = 0
      /\ pi'.holds[p] = pi.holds[p] \ {k}
      /\ \A m \in PiLocks \ {k} : pi'.flag[m] = pi.flag[m]
      /\ \A q \in PiUsers \ {p} : pi'.at[q] = pi.at[q] /\ pi'.holds[q] = pi.holds[q]
  BY <1>0, <1>1 DEF pi_clear_flag, PiKept, IsPi
<1>3. PiLockKept(pi, k) /\ k \in pi.holds[p] /\ pi.lqueue[k] = << >> /\ ToSet(<< >>) = {}
  BY <1>1 DEF PiKept, PiTestsHold, ToSet
<1>4. PiLockKept(pi', k)
  BY <1>2, <1>3 DEF PiLockKept
<1>5. /\ PiTestsHold(pi', p) /\ "clear_owner" \notin Guarded /\ pi'.guard[k] = 0
  BY <1>1, <1>2 DEF PiTestsHold, Guarded, Unguarded, PiKept, PiAlone
<1>6. PiKept(pi')
  BY <1>1, <1>2, <1>4, <1>5, PiWorkKeeps
<1>7. PiLentStays
  <2> SUFFICES ASSUME PiLent(pi) PROVE PiLent(pi')
    BY DEF PiLentStays
  <2>1. PiOne(pi, p) /\ \A m \in PiLocks : PiLentTo(pi, m)
    BY DEF PiLent
  <2>2. ASSUME NEW q \in PiUsers \ {p} PROVE PiOne(pi', q)
    BY <1>2, <2>2 DEF PiLent, PiOne
  <2>3. PiOne(pi', p)
    BY <1>1, <1>2, <2>1 DEF PiOne, HasNone
  <2>4. ASSUME NEW m \in PiLocks PROVE PiLentTo(pi', m)
    BY <1>1, <1>2, <2>1 DEF PiLentTo
  <2> QED
    BY <2>2, <2>3, <2>4 DEF PiLent
<1> QED
  BY <1>6, <1>7

LEMMA PiClearOwnerKeeps ==
  ASSUME PiIInv, ~PreemptUnlock, NEW p \in PiUsers, pi_clear_owner(p)
  PROVE  PiKept(pi') /\ PiLentStays
<1>0. PICK k : k = PiL(p)
  OBVIOUS
<1>1. /\ PiKept(pi) /\ k = pi.l[p] /\ pi.at[p] = "clear_owner" /\ PiTestsHold(pi, p)
      /\ PiWorking(pi, p) /\ k \in PiLocks
      /\ \A q \in PiUsers \ {p} : pi.at[q] \notin Unguarded
  BY <1>0, PiAtAlone DEF PiIInv, PiKept, PiAlone, PiL, pi_clear_owner, PiWorking, Guarded, Unguarded
<1>2. /\ IsPi(pi')
      /\ pi'.flag = pi.flag /\ pi'.guard = pi.guard /\ pi'.lqueue = pi.lqueue
      /\ pi'.holds = pi.holds /\ pi'.prprio = pi.prprio /\ pi'.l = pi.l
      /\ pi'.highest = pi.highest /\ pi'.at[p] = "leave_unlock"
      /\ \A m \in PiLocks \ {k} : pi'.owner[m] = pi.owner[m]
      /\ \A q \in PiUsers \ {p} : pi'.at[q] = pi.at[q]
  BY <1>0, <1>1 DEF pi_clear_owner, PiKept, IsPi
<1>3. PiTestsHold(pi', p) /\ "clear_owner" \in Unguarded /\ "leave_unlock" \in Unguarded
  BY <1>1, <1>2 DEF PiTestsHold, Unguarded
<1>4. PiKept(pi')
  BY <1>1, <1>2, <1>3, PiMoveKeeps
<1>5. PiLentStays
  <2> SUFFICES ASSUME PiLent(pi) PROVE PiLent(pi')
    BY DEF PiLentStays
  <2>1. \A q \in PiUsers : k \notin pi.holds[q]
    BY <1>1 DEF PiKept, PiTestsHold, PiLockKept
  <2>2. ASSUME NEW q \in PiUsers PROVE PiOne(pi', q)
    BY <1>1, <1>2, <2>2 DEF PiLent, PiOne, HasNone
  <2>3. ASSUME NEW m \in PiLocks PROVE PiLentTo(pi', m)
    BY <1>1, <1>2, <2>1, <2>3 DEF PiLent, PiLentTo
  <2> QED
    BY <2>2, <2>3 DEF PiLent
<1> QED
  BY <1>4, <1>5

(* The holder hands the lock to the head of the queue, which owns it when  *)
(* it has run.                                                             *)
LEMMA PiUnparkKeeps ==
  ASSUME PiIInv, ~PreemptUnlock, NEW p \in PiUsers, pi_unpark(p)
  PROVE  PiKept(pi') /\ PiLentStays
<1>0. PICK k, h, r : k = PiL(p) /\ h = Head(pi.lqueue[k]) /\ r = Tail(pi.lqueue[k])
  OBVIOUS
<1>1. /\ PiKept(pi) /\ k = pi.l[p] /\ pi.at[p] = "hand_over" /\ PiTestsHold(pi, p)
      /\ PiWorking(pi, p) /\ k \in PiLocks /\ pi.guard[k] = 0
      /\ \A q \in PiUsers \ {p} : pi.at[q] \notin Unguarded
  BY <1>0, PiAtAlone DEF PiIInv, PiKept, PiAlone, PiL, pi_unpark, PiWorking, Guarded, Unguarded
<1>2. PiLockKept(pi, k) /\ k \in pi.holds[p] /\ pi.lqueue[k] # << >>
  BY <1>1 DEF PiKept, PiTestsHold
<1>3. pi.lqueue[k] \in Seq(PiUsers) /\ IsInjective(pi.lqueue[k])
  BY <1>1, <1>2 DEF PiKept, IsPi, PiLockKept
<1>4. /\ h \in ToSet(pi.lqueue[k]) /\ h \in PiUsers
      /\ r \in Seq(PiUsers) /\ IsInjective(r) /\ ToSet(r) = ToSet(pi.lqueue[k]) \ {h}
  BY <1>0, <1>2, <1>3, TailLeaves
<1>5. pi.at[h] = "parked" /\ pi.l[h] = k /\ h # p /\ k \notin pi.holds[h]
  BY <1>1, <1>2, <1>4 DEF PiLockKept
<1>6. pi' = [pi EXCEPT !.lqueue[k] = r, !.holds[p] = @ \ {k}, !.holds[h] = @ \cup {k},
                       !.at[h] = "own", !.at[p] = "leave_unlock"]
  BY <1>0, <1>1 DEF pi_unpark, PiKept, IsPi
<1>7. PICK ho : ho = [[pi.holds EXCEPT ![p] = @ \ {k}] EXCEPT ![h] = @ \cup {k}]
  OBVIOUS
<1>8. /\ ho \in [PiUsers -> SUBSET PiLocks]
      /\ ho[p] = pi.holds[p] \ {k} /\ ho[h] = pi.holds[h] \cup {k}
      /\ \A q \in PiUsers \ {p, h} : ho[q] = pi.holds[q]
  <2>1. PICK less : less = [pi.holds EXCEPT ![p] = @ \ {k}]
    OBVIOUS
  <2>2. less \in [PiUsers -> SUBSET PiLocks] /\ less[h] = pi.holds[h]
    BY <1>1, <1>4, <1>5, <2>1 DEF PiKept, IsPi
  <2>3. ho = [less EXCEPT ![h] = @ \cup {k}] /\ less[h] \cup {k} \in SUBSET PiLocks
    BY <1>1, <1>4, <1>7, <2>1, <2>2
  <2>4. less[p] = pi.holds[p] \ {k} /\ \A q \in PiUsers \ {p} : less[q] = pi.holds[q]
    BY <1>1, <2>1 DEF PiKept, IsPi
  <2> QED
    BY <1>4, <1>5, <2>2, <2>3, <2>4
<1>9. /\ pi'.flag = pi.flag /\ pi'.guard = pi.guard /\ pi'.owner = pi.owner
      /\ pi'.highest = pi.highest /\ pi'.prprio = pi.prprio /\ pi'.l = pi.l
      /\ pi'.lqueue = [pi.lqueue EXCEPT ![k] = r] /\ pi'.holds = ho
      /\ pi'.at[p] = "leave_unlock" /\ pi'.at[h] = "own"
      /\ \A q \in PiUsers \ {p, h} : pi'.at[q] = pi.at[q]
  BY <1>1, <1>4, <1>5, <1>6, <1>7 DEF PiKept, IsPi
<1>10. IsPi(pi')
  <2>1. [pi.lqueue EXCEPT ![k] = r] \in [PiLocks -> Seq(PiUsers)]
    BY <1>1, <1>4 DEF PiKept, IsPi
  <2>2. pi'.at = [q \in PiUsers |-> pi'.at[q]] /\ pi'.owners_pid = pi.owners_pid
    BY <1>1, <1>4, <1>6 DEF PiKept, IsPi
  <2>3. pi' \in [flag : {pi'.flag}, guard : {pi'.guard}, owner : {pi'.owner},
                 lqueue : {pi'.lqueue}, owners_pid : {pi'.owners_pid}, highest : {pi'.highest},
                 prprio : {pi'.prprio}, at : {pi'.at}, l : {pi'.l}, holds : {pi'.holds}]
    BY <1>1, <1>6 DEF PiKept, IsPi
  <2> QED
    BY <1>1, <1>8, <1>9, <2>1, <2>2, <2>3 DEF PiKept, IsPi
<1>11. pi'.lqueue[k] = r /\ \A m \in PiLocks \ {k} : pi'.lqueue[m] = pi.lqueue[m]
  BY <1>1, <1>9 DEF PiKept, IsPi
<1>12. PiLockKept(pi', k)
  <2>1. ToSet(pi.lqueue[k]) \subseteq PiUsers /\ p \notin ToSet(pi.lqueue[k])
    <3>1. ToSet(pi.lqueue[k]) \subseteq PiUsers
      BY <1>3 DEF ToSet
    <3> QED
      BY <1>1, <1>2, <3>1 DEF PiLockKept
  <2>2. \A q \in ToSet(r) : pi'.at[q] = "parked" /\ pi'.l[q] = k
    BY <1>2, <1>4, <1>9, <2>1 DEF PiLockKept
  <2>3. \A q \in PiUsers : k \in pi'.holds[q] <=> q = h
    BY <1>2, <1>4, <1>5, <1>8, <1>9 DEF PiLockKept
  <2>4. pi'.flag[k] = 1
    BY <1>2, <1>9 DEF PiLockKept
  <2> QED
    BY <1>4, <1>11, <2>2, <2>3, <2>4 DEF PiLockKept
<1>13. /\ PiTestsHold(pi', p) /\ PiTestsHold(pi', h)
       /\ "leave_unlock" \in Unguarded /\ "leave_unlock" \notin Guarded
       /\ "own" \notin Guarded /\ "own" \notin Unguarded
  BY <1>1, <1>4, <1>5, <1>8, <1>9 DEF PiTestsHold, Guarded, Unguarded
<1>14. PiKept(pi')
  <2>1. PICK P : P = {p, h}
    OBVIOUS
  <2>2. /\ P \in SUBSET PiUsers /\ \A q \in PiUsers \ P : q # p /\ q # h
        /\ \A q \in P : q = p \/ q = h
    BY <1>4, <2>1
  <2>3. \A q \in PiUsers \ P : /\ pi'.at[q] = pi.at[q] /\ pi'.l[q] = pi.l[q]
                               /\ pi'.holds[q] = pi.holds[q]
                               /\ PiWorking(pi, q) => pi.l[q] # k
                               /\ pi.at[q] \notin Unguarded
    BY <1>1, <1>8, <1>9, <2>2 DEF PiKept, PiAlone
  <2>4. \A m \in PiLocks \ {k} : /\ pi'.flag[m] = pi.flag[m] /\ pi'.guard[m] = pi.guard[m]
                                 /\ pi'.lqueue[m] = pi.lqueue[m]
                                 /\ \A q \in P : m \in pi'.holds[q] <=> m \in pi.holds[q]
    BY <1>8, <1>9, <1>11, <2>2
  <2>5. \A q \in P : /\ pi'.at[q] # "idle" => pi'.l[q] = k
                     /\ pi.at[q] = "parked" => pi.l[q] = k
                     /\ pi'.at[q] \in Guarded => pi'.guard[k] = 1
                     /\ pi'.at[q] \in Unguarded => pi'.guard[k] = 0
                     /\ PiTestsHold(pi', q)
    BY <1>1, <1>5, <1>9, <1>13, <2>2
  <2>6. \A q, t \in P : PiWorking(pi', q) /\ PiWorking(pi', t) => q = t
    BY <1>9, <1>13, <2>2 DEF PiWorking
  <2> QED
    BY <1>1, <1>10, <1>12, <2>2, <2>3, <2>4, <2>5, <2>6, PiStepKeeps
<1>15. PiLentStays
  <2> SUFFICES ASSUME PiLent(pi) PROVE PiLent(pi')
    BY DEF PiLentStays
  <2>1. PiOne(pi, p) /\ PiOne(pi, h) /\ \A m \in PiLocks : PiLentTo(pi, m)
    BY <1>4 DEF PiLent
  <2>2. ASSUME NEW q \in PiUsers \ {p, h} PROVE PiOne(pi', q)
    <3>1. pi.at[q] \in {"set_owner", "leave_lock"} => pi.l[q] \in PiLocks \ {k}
      BY <1>1, <2>2 DEF PiKept, PiAlone, PiWorking, Guarded
    <3> QED
      BY <1>8, <1>9, <1>11, <2>2, <3>1 DEF PiLent, PiOne
  <2>3. PiOne(pi', p) /\ PiOne(pi', h)
    BY <1>1, <1>5, <1>8, <1>9, <2>1 DEF PiOne, HasNone
  <2>4. PiLentTo(pi', k)
    <3>1. \A q \in PiUsers : k \in pi'.holds[q] => q = h
      BY <1>2, <1>4, <1>5, <1>8, <1>9 DEF PiLockKept
    <3>2. \A q \in ToSet(r) : pi'.highest[k] >= PiPrio[q]
      BY <1>1, <1>4, <1>9, <2>1 DEF PiLentTo
    <3> QED
      BY <1>9, <1>11, <3>1, <3>2 DEF PiLentTo
  <2>5. ASSUME NEW m \in PiLocks \ {k} PROVE PiLentTo(pi', m)
    <3>1. ASSUME NEW q \in PiUsers, m \in pi'.holds[q]
          PROVE  q # p /\ q # h /\ m \in pi.holds[q] /\ pi'.at[q] = pi.at[q]
      BY <1>1, <1>5, <1>8, <1>9, <2>1, <3>1 DEF PiOne, HasNone
    <3> QED
      BY <1>9, <1>11, <2>1, <3>1 DEF PiLentTo
  <2> QED
    BY <2>2, <2>3, <2>4, <2>5 DEF PiLent
<1> QED
  BY <1>14, <1>15

-----------------------------------------------------------------------------
LEMMA PiStepOK ==
  ASSUME PiIInv, ~PreemptUnlock, [PiNext]_pi
  PROVE  PiIInv' /\ PiLentStays
<1>1. CASE UNCHANGED pi
  BY <1>1 DEF PiIInv, PiLentStays
<1>2. CASE PiNext
  <2>1. ASSUME NEW p \in PiUsers, NEW l \in PiLocks, pi_lock(p, l) \/ pi_unlock(p, l)
        PROVE  PiKept(pi') /\ PiLentStays
    BY <2>1, PiGuardKeeps DEF pi_lock, pi_unlock
  <2>2. ASSUME NEW p \in PiUsers,
               \/ pi_test_flag(p) \/ pi_set_flag(p) \/ pi_set_owner(p) \/ pi_leave_lock(p)
               \/ pi_wait(p) \/ pi_own(p) \/ pi_inherit(p)
        PROVE  PiKept(pi') /\ PiLentStays
    BY <2>2, PiTestFlagKeeps, PiSetFlagKeeps, PiSetOwnerKeeps, PiLeaveKeeps, PiWaitKeeps,
       PiOwnKeeps, PiInheritKeeps
  <2>3. ASSUME NEW p \in PiUsers,
               \/ pi_other_locks(p) \/ pi_restore(p) \/ pi_test_owner(p) \/ pi_clear_flag(p)
               \/ pi_clear_owner(p) \/ pi_unpark(p) \/ pi_leave_unlock(p)
        PROVE  PiKept(pi') /\ PiLentStays
    BY <2>3, PiOtherLocksKeeps, PiRestoreKeeps, PiTestOwnerKeeps, PiClearFlagKeeps,
       PiClearOwnerKeeps, PiUnparkKeeps, PiLeaveKeeps
  <2> QED
    BY <1>2, <2>1, <2>2, <2>3 DEF PiNext, PiIInv
<1> QED
  BY <1>1, <1>2

(* For any number of processes and locks, of any priorities, also by one   *)
(* that has other locks, the priority inheritance lock is had by at most   *)
(* one process, and no one is left on the queue of a free one, if nobody   *)
(* runs while pi_unlock works without the guard.                           *)
THEOREM SpecPiExclusion ==
  ASSUME ~PreemptUnlock
  PROVE  PiSpec => []PiExclusion
<1>1. PiInit => PiIInv
  BY PiInitOK
<1>2. PiIInv /\ [PiNext]_pi => PiIInv'
  BY PiStepOK
<1>3. PiIInv => PiExclusion
  <2> SUFFICES ASSUME PiIInv, NEW l \in PiLocks
               PROVE  /\ Cardinality(PiHolders(l)) = pi.flag[l]
                      /\ pi.lqueue[l] # << >> => pi.flag[l] = 1
    BY DEF PiExclusion
  <2>1. PiLockKept(pi, l) /\ pi.flag[l] \in {0, 1}
    BY DEF PiIInv, PiKept, IsPi
  <2>2. CASE pi.flag[l] = 0
    <3>1. PiHolders(l) = {}
      BY <2>1, <2>2 DEF PiLockKept, PiHolders
    <3> QED
      BY <2>1, <2>2, <3>1, FS_EmptySet DEF PiLockKept
  <2>3. CASE pi.flag[l] = 1
    <3>1. PICK p \in PiUsers : l \in pi.holds[p]
      BY <2>1, <2>3 DEF PiLockKept
    <3>2. PiHolders(l) = {p}
      BY <2>1, <3>1 DEF PiLockKept, PiHolders
    <3> QED
      BY <2>3, <3>2, FS_Singleton
  <2> QED
    BY <2>1, <2>2, <2>3
<1> QED
  BY <1>1, <1>2, <1>3, PTL DEF PiSpec

(* If besides no process has two locks at a time, the one that has a lock  *)
(* runs at no lower priority than those that wait for it were created      *)
(* with, whoever was handed the lock before.                               *)
THEOREM SpecPiInherits ==
  ASSUME ~PreemptUnlock, ~Nested
  PROVE  PiSpec => []PiInherits
<1>1. PiInit => PiIInv /\ PiLent(pi)
  BY PiInitOK
<1>2. PiIInv /\ PiLent(pi) /\ [PiNext]_pi => PiIInv' /\ PiLent(pi)'
  <2> SUFFICES ASSUME PiIInv, PiLent(pi), [PiNext]_pi PROVE PiIInv' /\ PiLent(pi')
    OBVIOUS
  <2> QED
    BY PiStepOK DEF PiLentStays
<1>3. PiLent(pi) => PiInherits
  BY DEF PiLent, PiLentTo, PiInherits
<1> QED
  BY <1>1, <1>2, <1>3, PTL DEF PiSpec
=============================================================================
