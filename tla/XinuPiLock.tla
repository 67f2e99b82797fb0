------------------------------ MODULE XinuPiLock ------------------------------
(***************************************************************************)
(* The priority inheritance lock (system/pi_lock.c): a process that waits  *)
(* raises the owner's priority to its own, and pi_unlock takes back what   *)
(* its owner inherited.  Guard, queue and parking are those of XinuLock.   *)
(*                                                                         *)
(* Any process may make the next step, whatever its priority, except where *)
(* a constant below bounds it.  The fields of the record pi:               *)
(*   flag, guard, owner, lqueue   of each lock                             *)
(*   owners_pid, highest   pi_lock_owners_pid, and the highest priority of *)
(*              those that waited since the lock was last free             *)
(*              (pi_lock_highest_prio_waiting_pid)                         *)
(*   prprio     of each process (prOldPrio, which create sets, is PiPrio)  *)
(*   at, l      what each process does next, and with which lock           *)
(*   holds      the locks each process has (history)                       *)
(* Bound: no process is preempted between its enqueue and its pi_park (see *)
(* XinuLock); prTopark is 1 there, and it is left out.                     *)
(* A definition named for a slip is the mutant of the one after it.        *)
(***************************************************************************)
EXTENDS Integers, FiniteSets, SequencesExt

CONSTANTS PiPrio,        \* priorities given to create, by process ID
          PiLocks,       \* the locks
          PreemptUnlock, \* bound: whether others run in pi_unlock after it has
                         \* let go of the guard, before it works on the queue
          Nested         \* bound: whether a process has two locks at a time

PiUsers == DOMAIN PiPrio

ASSUME PiAssumption ==
  /\ PiUsers \subseteq Nat /\ PiPrio \in [PiUsers -> Nat \ {0}]
  /\ PreemptUnlock \in BOOLEAN /\ Nested \in BOOLEAN

PI_AVAILABLE == -1   \* no owner; no lock worked with

VARIABLE pi

(* pi_lock_owners_pid starts as 0, no process ID of a user of locks.       *)
PiInit ==
  pi = [flag       |-> [l \in PiLocks |-> 0],
        guard      |-> [l \in PiLocks |-> 0],
        owner      |-> [l \in PiLocks |-> PI_AVAILABLE],
        lqueue     |-> [l \in PiLocks |-> << >>],
        owners_pid |-> [l \in PiLocks |-> 0],
        highest    |-> [l \in PiLocks |-> 0],
        prprio     |-> PiPrio,
        at         |-> [p \in PiUsers |-> "idle"],
        l          |-> [p \in PiUsers |-> PI_AVAILABLE],
        holds      |-> [p \in PiUsers |-> {}]]

(* In these pi_unlock works without the guard that is to protect it.       *)
Unguarded == {"restore", "test_owner", "clear_flag", "clear_owner", "hand_over", "leave_unlock"}

pi_at(p, point) ==
  /\ pi.at[p] = point
  /\ PreemptUnlock \/ \A q \in PiUsers \ {p} : pi.at[q] \notin Unguarded

PiL(p) == pi.l[p]

-----------------------------------------------------------------------------
(* Take the guard of l (lines 44 and 99: sleep and try again till it is    *)
(* free) and go on at the point.                                           *)
pi_guard(p, l, point) ==
  /\ pi_at(p, "idle") /\ pi.guard[l] = 0
  /\ pi' = [pi EXCEPT !.guard[l] = 1, !.at[p] = point, !.l[p] = l]

pi_lock(p, l) ==
  l \notin pi.holds[p] /\ (Nested \/ pi.holds[p] = {}) /\ pi_guard(p, l, "test_flag")

pi_test_flag(p) ==
  /\ pi_at(p, "test_flag")
  /\ pi' = [pi EXCEPT !.at[p] = IF pi.flag[PiL(p)] = 0 THEN "set_flag" ELSE "wait"]

pi_set_flag(p) ==
  /\ pi_at(p, "set_flag")
  /\ pi' = [pi EXCEPT !.flag[PiL(p)] = 1, !.holds[p] = @ \cup {PiL(p)}, !.at[p] = "set_owner"]

pi_set_owner(p) ==
  /\ pi_at(p, "set_owner")
  /\ pi' = [pi EXCEPT !.owner[PiL(p)] = p, !.owners_pid[PiL(p)] = p, !.highest[PiL(p)] = 0,
                      !.at[p] = "leave_lock"]

pi_leave_lock(p) ==
  /\ pi_at(p, "leave_lock")
  /\ pi' = [pi EXCEPT !.guard[PiL(p)] = 0, !.at[p] = "idle", !.l[p] = PI_AVAILABLE]

raise(prio, to) == IF to > prio THEN to ELSE prio

pi_wait_raising_owner_only(p) ==
  /\ pi_at(p, "wait")
  /\ LET l == PiL(p)
     IN  pi' = [pi EXCEPT !.lqueue[l] = Append(@, p), !.guard[l] = 0, !.at[p] = "parked",
                          !.prprio[pi.owner[l]] = raise(@, pi.prprio[p])]

(* Wait, and lend the owner one's priority.  The owner is the one that     *)
(* handed the lock over, until the new one has run.                        *)
pi_wait(p) ==
  /\ pi_at(p, "wait")
  /\ LET l == PiL(p)
     IN  pi' = [pi EXCEPT !.lqueue[l] = Append(@, p), !.guard[l] = 0, !.at[p] = "parked",
                          !.prprio[pi.owner[l]] = raise(@, pi.prprio[p]),
                          !.highest[l]          = raise(@, pi.prprio[p])]

(* After pi_park, without the guard: own the lock, and inherit what those  *)
(* that wait have lent to the owner before.                                *)
pi_own(p) ==
  /\ pi_at(p, "own")
  /\ pi' = [pi EXCEPT !.owner[PiL(p)] = p, !.at[p] = "inherit"]

pi_inherit(p) ==
  /\ pi_at(p, "inherit")
  /\ pi' = [pi EXCEPT !.prprio[p] = raise(@, pi.highest[PiL(p)]), !.at[p] = "idle", !.l[p] = PI_AVAILABLE]

-----------------------------------------------------------------------------
pi_unlock(p, l) == l \in pi.holds[p] /\ pi_guard(p, l, "other_locks")

(* The other locks that the owner took when they were free, now or before, *)
(* and whose waiting processes have or had a priority above its own.       *)
still_lent(p) ==
  {i \in PiLocks \ {PiL(p)} :
     /\ pi.owners_pid[i] = pi.owner[PiL(p)]
     /\ pi.highest[i] > PiPrio[p] /\ pi.highest[i] # pi.prprio[p]}

(* Lines 103 to 112: keep the priority lent by another lock, or restore    *)
(* one's own, when the guard is free.                                      *)
pi_other_locks(p) ==
  /\ pi_at(p, "other_locks")
  /\ IF still_lent(p) = {}
     THEN pi' = [pi EXCEPT !.guard[PiL(p)] = 0, !.at[p] = "restore"]
     ELSE \E i \in still_lent(p) :
            pi' = [pi EXCEPT !.guard[PiL(p)] = 0, !.prprio[p] = pi.highest[i], !.at[p] = "test_owner"]

pi_restore(p) ==
  /\ pi_at(p, "restore")
  /\ pi' = [pi EXCEPT !.prprio[p] = PiPrio[p], !.at[p] = "test_owner"]

pi_test_owner_only(p) ==
  /\ pi_at(p, "test_owner")
  /\ pi' = [pi EXCEPT !.at[p] = IF pi.owner[PiL(p)] # p THEN "leave_unlock" ELSE "clear_flag"]

(* Another's name, or none, is answered with SYSERR.                       *)
pi_test_owner(p) ==
  /\ pi_at(p, "test_owner")
  /\ pi' = [pi EXCEPT !.at[p] = CASE pi.owner[PiL(p)] # p -> "leave_unlock"
                                  [] pi.owner[PiL(p)] = p /\ pi.lqueue[PiL(p)] = << >> -> "clear_flag"
                                  [] OTHER -> "hand_over"]

pi_clear_flag(p) ==
  /\ pi_at(p, "clear_flag")
  /\ pi' = [pi EXCEPT !.flag[PiL(p)] = 0, !.holds[p] = @ \ {PiL(p)}, !.at[p] = "clear_owner"]

pi_clear_owner(p) ==
  /\ pi_at(p, "clear_owner")
  /\ pi' = [pi EXCEPT !.owner[PiL(p)] = PI_AVAILABLE, !.at[p] = "leave_unlock"]

(* The owner stays the one that unlocks, until the first of the queue runs. *)
pi_unpark(p) ==
  /\ pi_at(p, "hand_over") /\ pi.lqueue[PiL(p)] # << >>
  /\ LET l == PiL(p)
         q == Head(pi.lqueue[l])
     IN  pi' = [pi EXCEPT !.lqueue[l] = Tail(@), !.holds[p] = @ \ {l}, !.holds[q] = @ \cup {l},
                          !.at[q] = "own", !.at[p] = "leave_unlock"]

pi_leave_unlock(p) ==
  /\ pi_at(p, "leave_unlock")
  /\ pi' = [pi EXCEPT !.guard[PiL(p)] = 0, !.at[p] = "idle", !.l[p] = PI_AVAILABLE]

PiNext ==
  \E p \in PiUsers :
    \/ \E l \in PiLocks : pi_lock(p, l) \/ pi_unlock(p, l)
    \/ pi_test_flag(p) \/ pi_set_flag(p)
    \/ pi_set_owner(p) \/ pi_leave_lock(p) \/ pi_wait(p) \/ pi_own(p) \/ pi_inherit(p)
    \/ pi_other_locks(p) \/ pi_restore(p)
    \/ pi_test_owner(p) \/ pi_clear_flag(p) \/ pi_clear_owner(p) \/ pi_unpark(p)
    \/ pi_leave_unlock(p)

PiSpec == PiInit /\ [][PiNext]_pi
-----------------------------------------------------------------------------
PiHolders(l) == {p \in PiUsers : l \in pi.holds[p]}

(* At most one process has a lock, and no process is left on the queue of  *)
(* a free one.                                                             *)
PiExclusion ==
  \A l \in PiLocks :
    /\ Cardinality(PiHolders(l)) = pi.flag[l]
    /\ pi.lqueue[l] # << >> => pi.flag[l] = 1

(* The process that has a lock and goes about its work runs at no lower    *)
(* priority than those that wait for it were created with, also when it    *)
(* was handed the lock after they had lent their priority to the one       *)
(* before.  A process that waits may have more by then: the code may lend  *)
(* it the priority of one that waits for a lock it has handed over.        *)
PiInherits ==
  \A l \in PiLocks, p \in PiUsers :
    l \in pi.holds[p] /\ pi.at[p] = "idle" =>
      \A q \in ToSet(pi.lqueue[l]) : pi.prprio[p] >= PiPrio[q]
=============================================================================
