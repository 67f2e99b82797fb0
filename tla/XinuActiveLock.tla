---------------------------- MODULE XinuActiveLock ----------------------------
(***************************************************************************)
(* The active lock (system/active_lock.c): a lock whose waiting processes  *)
(* sleep on its queue, behind a guard that is spun for, and whose al_lock  *)
(* looks for a deadlock before it waits, by following prLockWaitOn.        *)
(*                                                                         *)
(* The routines run with interrupts on and any process may make the next   *)
(* step, except where a constant below bounds it.  The fields of the       *)
(* record active:                                                          *)
(*   flag, guard, owner, lqueue   of each lock                             *)
(*   waiton     prLockWaitOn of each process                               *)
(*   at, l      what each process does next, and with which lock           *)
(*   holds      the locks each process has (history)                       *)
(*   reported   processes in a deadlock reported since they last began to  *)
(*              wait (history)                                             *)
(* Bound: no process is preempted between its enqueue and its al_park (see *)
(* XinuLock); prTopark is 1 there, and it is left out.                     *)
(* A definition named for a slip is the mutant of the one after it.        *)
(***************************************************************************)
EXTENDS Integers, FiniteSets, SequencesExt

CONSTANTS AlUsers,     \* process IDs of the processes that use the locks
          AlLocks,     \* the locks
          PreemptTry   \* bound: whether al_trylock, which does not respect the guard,
                       \* finds it taken, and others run in the middle of it

AL_AVAILABLE == -1   \* no owner, nobody waited for, no lock worked with
SEVERAL == -2        \* not a process either: the holders of a lock, if more than one

ASSUME AlAssumption == {AL_AVAILABLE, SEVERAL} \cap AlUsers = {} /\ PreemptTry \in BOOLEAN

VARIABLE active

ActiveInit ==
  active = [flag     |-> [l \in AlLocks |-> 0],
            guard    |-> [l \in AlLocks |-> 0],
            owner    |-> [l \in AlLocks |-> AL_AVAILABLE],
            lqueue   |-> [l \in AlLocks |-> << >>],
            waiton   |-> [p \in AlUsers |-> AL_AVAILABLE],
            at       |-> [p \in AlUsers |-> "idle"],
            l        |-> [p \in AlUsers |-> AL_AVAILABLE],
            holds    |-> [p \in AlUsers |-> {}],
            reported |-> {}]

TryPoints == {"try_test", "try_flag", "try_owner", "try_leave"}

(* p may make its step at the point: nobody loops with interrupts off.     *)
al_at(p, point) ==
  /\ active.at[p] = point
  /\ \A q \in AlUsers \ {p} :
       /\ active.at[q] # "looping"
       /\ PreemptTry \/ active.at[q] \notin TryPoints

MyLock(p) == active.l[p]

-----------------------------------------------------------------------------
al_guard_untested(p, l, point) ==
  /\ al_at(p, "idle")
  /\ active' = [active EXCEPT !.guard[l] = 1, !.at[p] = point, !.l[p] = l]

(* Take the guard of l (lines 42 and 83: spin till it is free) and go on   *)
(* at the point.                                                           *)
al_guard(p, l, point) ==
  /\ al_at(p, "idle") /\ active.guard[l] = 0
  /\ active' = [active EXCEPT !.guard[l] = 1, !.at[p] = point, !.l[p] = l]

(* Bound: nobody asks for a lock it has.                                   *)
al_lock(p, l) == l \notin active.holds[p] /\ al_guard(p, l, "test_flag")

al_test_flag(p) ==
  /\ al_at(p, "test_flag")
  /\ active' = [active EXCEPT !.at[p] = IF active.flag[MyLock(p)] = 0 THEN "set_flag" ELSE "wait_on"]

al_set_flag(p, from, to) ==
  /\ al_at(p, from)
  /\ active' = [active EXCEPT !.flag[MyLock(p)] = 1, !.holds[p] = @ \cup {MyLock(p)}, !.at[p] = to]

al_set_owner(p, from, to) ==
  /\ al_at(p, from)
  /\ active' = [active EXCEPT !.owner[MyLock(p)] = p, !.at[p] = to]

al_leave(p, from) ==
  /\ al_at(p, from)
  /\ active' = [active EXCEPT !.guard[MyLock(p)] = 0, !.at[p] = "idle", !.l[p] = AL_AVAILABLE]

(* The process waited for is the owner by name, who may have handed the    *)
(* lock over: al_lock does not set the owner after al_park.                *)
al_wait_on(p) ==
  /\ al_at(p, "wait_on")
  /\ active' = [active EXCEPT !.waiton[p] = active.owner[MyLock(p)], !.reported = @ \ {p},
                              !.at[p] = "detect"]

-----------------------------------------------------------------------------
(* The processes detect_deadlock checks, from the owner on.                *)
check_chain(l) ==
  LET chain[n \in 0 .. Cardinality(AlUsers)] ==
        IF n = 0 THEN active.owner[l]
        ELSE IF chain[n-1] = AL_AVAILABLE THEN AL_AVAILABLE ELSE active.waiton[chain[n-1]]
  IN  chain

closes_chain(l) ==
  {n \in DOMAIN check_chain(l) : /\ check_chain(l)[n] # AL_AVAILABLE
                                 /\ active.waiton[check_chain(l)[n]] = active.owner[l]}

deadlock_chain_one_link(l) ==
  IF 0 \in closes_chain(l) THEN {active.owner[l]} ELSE {}

(* The processes of the deadlock that is reported, if there is one.        *)
deadlock_chain(l) ==
  IF closes_chain(l) = {} THEN {}
  ELSE LET last == CHOOSE n \in closes_chain(l) : \A m \in closes_chain(l) : n <= m
       IN  {check_chain(l)[n] : n \in 0 .. last}

(* On a cycle that does not lead back to the owner the search has no end,  *)
(* and interrupts are off.                                                 *)
detect_deadlock(p) ==
  /\ al_at(p, "detect")
  /\ active' = [active EXCEPT
       !.reported = @ \cup deadlock_chain(MyLock(p)),
       !.at[p]    = IF \/ closes_chain(MyLock(p)) # {}
                       \/ \E n \in DOMAIN check_chain(MyLock(p)) :
                            check_chain(MyLock(p))[n] = AL_AVAILABLE
                    THEN "wait" ELSE "looping"]

al_wait(p) ==
  /\ al_at(p, "wait")
  /\ active' = [active EXCEPT !.lqueue[MyLock(p)] = Append(@, p), !.guard[MyLock(p)] = 0,
                              !.at[p] = "parked"]

-----------------------------------------------------------------------------
(* The holder that was handed the lock is not its owner: it gets SYSERR.   *)
al_unlock(p, l) == l \in active.holds[p] /\ al_guard(p, l, "test_owner")

al_test_owner(p) ==
  /\ al_at(p, "test_owner")
  /\ active' = [active EXCEPT !.at[p] =
                  CASE active.owner[MyLock(p)] # p -> "leave"
                    [] active.owner[MyLock(p)] = p /\ active.lqueue[MyLock(p)] = << >> -> "clear_flag"
                    [] OTHER -> "unmark"]

al_clear_flag(p) ==
  /\ al_at(p, "clear_flag")
  /\ active' = [active EXCEPT !.flag[MyLock(p)] = 0, !.holds[p] = @ \ {MyLock(p)},
                              !.at[p] = "clear_owner"]

al_clear_owner(p) ==
  /\ al_at(p, "clear_owner")
  /\ active' = [active EXCEPT !.owner[MyLock(p)] = AL_AVAILABLE, !.at[p] = "leave"]

(* It is the process that unlocks whose prLockWaitOn is cleared.           *)
al_unmark(p) ==
  /\ al_at(p, "unmark")
  /\ active' = [active EXCEPT !.waiton[p] = AL_AVAILABLE, !.at[p] = "hand_over"]

(* The first of the queue is made ready and returns from al_lock.          *)
al_unpark(p) ==
  /\ al_at(p, "hand_over")
  /\ LET l == MyLock(p)
         q == Head(active.lqueue[l])
     IN  active' = [active EXCEPT !.lqueue[l] = Tail(@), !.holds[p] = @ \ {l},
                                  !.holds[q]  = @ \cup {l}, !.at[q] = "idle", !.l[q] = AL_AVAILABLE,
                                  !.at[p] = "leave"]

-----------------------------------------------------------------------------
al_trylock(p, l) ==
  /\ al_at(p, "idle") /\ l \notin active.holds[p]
  /\ active' = [active EXCEPT !.at[p] = "try_guard", !.l[p] = l]

(* al_trylock exchanges 0 for the guard, and so takes away another's.      *)
al_try_guard(p) ==
  /\ al_at(p, "try_guard")
  /\ PreemptTry \/ active.guard[MyLock(p)] = 0
  /\ active' = [active EXCEPT !.guard[MyLock(p)] = 0,
                              !.at[p] = IF active.guard[MyLock(p)] = 0 THEN "try_test" ELSE @]

al_try_test(p) ==
  /\ al_at(p, "try_test")
  /\ active' = [active EXCEPT !.at[p] = IF active.flag[MyLock(p)] = 0 THEN "try_flag" ELSE "try_leave"]

ActiveNext ==
  \E p \in AlUsers :
    \/ \E l \in AlLocks : al_lock(p, l) \/ al_unlock(p, l) \/ al_trylock(p, l)
    \/ al_test_flag(p)
    \/ al_set_flag(p, "set_flag", "set_owner") \/ al_set_owner(p, "set_owner", "leave")
    \/ al_wait_on(p) \/ detect_deadlock(p) \/ al_wait(p)
    \/ al_test_owner(p)
    \/ al_clear_flag(p) \/ al_clear_owner(p) \/ al_unmark(p) \/ al_unpark(p)
    \/ al_try_guard(p) \/ al_try_test(p)
    \/ al_set_flag(p, "try_flag", "try_owner") \/ al_set_owner(p, "try_owner", "try_leave")
    \/ al_leave(p, "leave") \/ al_leave(p, "try_leave")

ActiveSpec == ActiveInit /\ [][ActiveNext]_active
-----------------------------------------------------------------------------
Holders(l) == {p \in AlUsers : l \in active.holds[p]}

(* The process that has the lock.                                          *)
holder_of(l) ==
  IF Holders(l) = {} THEN AL_AVAILABLE
  ELSE IF \E p \in AlUsers : Holders(l) = {p} THEN CHOOSE p \in AlUsers : Holders(l) = {p}
  ELSE SEVERAL

ALock == CHOOSE l \in AlLocks : TRUE
ActiveQueue == INSTANCE QueueLock WITH
  Process <- AlUsers,
  holder  <- holder_of(ALock),
  None    <- AL_AVAILABLE,
  waiting <- active.lqueue[ALock]

(* Each lock is a queue lock: one process has it at a time, nobody waits   *)
(* for a free one and nobody overtakes, though its guard is spun for, the  *)
(* owner keeps his name when he has handed it over, and unlock is refused  *)
(* to a holder that was handed it.  (Said of one of the locks, which are   *)
(* alike.)                                                                 *)
ActiveIsQueueLock == ActiveQueue!Spec

(* When processes wait in a circle for locks that were not handed over     *)
(* (the owners are the holders), each of them has been reported since it   *)
(* began to wait, whichever of them came last.                             *)
waited_for(S) ==
  {q \in AlUsers : \E p \in S : /\ active.at[p] = "parked"
                                /\ MyLock(p) \in active.holds[q]
                                /\ active.owner[MyLock(p)] = q}
in_circle(p) ==
  LET ahead[n \in 1 .. Cardinality(AlUsers)] ==
        IF n = 1 THEN waited_for({p}) ELSE waited_for(ahead[n-1])
  IN  \E n \in DOMAIN ahead : p \in ahead[n]

DeadlocksReported == \A p \in AlUsers : in_circle(p) => p \in active.reported
=============================================================================
