------------------------------- MODULE XinuLock -------------------------------
(***************************************************************************)
(* The sleeping lock (system/lock.c, include/lock.h) on the kernel: a      *)
(* lock_t l whose fields are protected by the guard, which is taken with   *)
(* test_and_set (testandset.S) and slept for when it is taken.             *)
(*                                                                         *)
(* These routines run with interrupts on, so every access to shared state  *)
(* is a step of its own, and the clock may end the time slice between any  *)
(* two.  at[p] names what process p does next.  The processes are those of *)
(* XinuKernel, which make the kernel's calls between calls to the lock.    *)
(* As in XinuKernel, a definition named for a slip is the mutant of the    *)
(* one after it.                                                           *)
(***************************************************************************)
EXTENDS XinuKernel

CONSTANT PreemptEnqueued  \* bound: whether a clock interrupt is taken while
                          \* the running process is on the lock's queue

(* kill is left out: of a process that waits for a lock it would count up  *)
(* the semaphore before the first in the table (prsem is -1).              *)
ASSUME LockAssumption ==
  /\ PreemptEnqueued \in BOOLEAN
  /\ "sleepms" \in Calls /\ "kill" \notin Calls

LOCK_AVAILABLE == -1

VARIABLES flag, guard, owner, lqueue,  \* the fields of l
          prTopark,                    \* proctab[p].prTopark
          at                           \* what p does next

lk       == <<flag, guard, owner, lqueue>>
lockvars == <<lk, prTopark, at>>

(* Outside calls to the lock, in lock, in its waiting branch, in unlock.   *)
LockPoints ==
  {"idle", "held"}
  \cup {"lock", "test_flag", "set_flag", "set_owner", "leave_lock"}
  \cup {"enqueue", "topark", "leave_guard", "park", "own"}
  \cup {"unlock", "test_owner", "test_queue", "clear_flag", "clear_owner",
        "dequeue", "unpark", "leave_unlock"}

(* In these the running process is on the lock's queue and has not parked. *)
Enqueued == {"topark", "leave_guard", "park"}

Point == at[currpid]
AtPoint(pt) == ~halted /\ Here = User /\ currpid # NULLPROC /\ Point.at = pt
GoOn(pt)    == at' = [at EXCEPT ![currpid] = At(pt, 0, 0)]

LockInit ==
  /\ Init
  /\ flag = 0 /\ guard = 0 /\ owner = LOCK_AVAILABLE /\ lqueue = << >>
  /\ prTopark = [p \in Pids |-> FALSE]
  /\ at = [p \in Pids |-> At("idle", 0, 0)]

-----------------------------------------------------------------------------
(* Line 41 of lock, line 69 of unlock: take the guard or sleep and retry.  *)
take_guard(from, to) ==
  /\ AtPoint(from)
  /\ \/ guard = 0 /\ guard' = 1 /\ GoOn(to) /\ UNCHANGED vars
     \/ guard = 1 /\ sleepms(QUANTUM) /\ UNCHANGED <<guard, at>>
  /\ UNCHANGED <<flag, owner, lqueue, prTopark>>

free_guard(from, to) ==
  /\ AtPoint(from) /\ guard' = 0 /\ GoOn(to)
  /\ UNCHANGED <<vars, flag, owner, lqueue, prTopark>>

lock ==
  /\ AtPoint("idle") /\ GoOn("lock")
  /\ UNCHANGED <<vars, lk, prTopark>>

lock_guard == take_guard("lock", "test_flag")

test_flag ==
  /\ AtPoint("test_flag")
  /\ GoOn(IF flag = 0 THEN "set_flag" ELSE "enqueue")
  /\ UNCHANGED <<vars, lk, prTopark>>

set_flag ==
  /\ AtPoint("set_flag") /\ flag' = 1 /\ GoOn("set_owner")
  /\ UNCHANGED <<vars, guard, owner, lqueue, prTopark>>

(* The owner is set with the guard taken, or after park returned.          *)
set_owner(from, to) ==
  /\ AtPoint(from) /\ owner' = currpid /\ GoOn(to)
  /\ UNCHANGED <<vars, flag, guard, lqueue, prTopark>>

leave_lock == free_guard("leave_lock", "held")

-----------------------------------------------------------------------------
(* The lock is held: wait on its queue.                                    *)
enqueue_at_the_head ==
  /\ AtPoint("enqueue") /\ lqueue' = <<currpid>> \o lqueue /\ GoOn("topark")
  /\ UNCHANGED <<vars, flag, guard, owner, prTopark>>

enqueue ==
  /\ AtPoint("enqueue") /\ lqueue' = Append(lqueue, currpid) /\ GoOn("topark")
  /\ UNCHANGED <<vars, flag, guard, owner, prTopark>>

setpark ==
  /\ AtPoint("topark") /\ GoOn("leave_guard")
  /\ prTopark' = [prTopark EXCEPT ![currpid] = TRUE]
  /\ UNCHANGED <<vars, lk>>

leave_guard == free_guard("leave_guard", "park")

park_without_owning ==
  /\ AtPoint("park") /\ GoOn("held")
  /\ sch' = IF prTopark[currpid] THEN block(sch, "WAIT") ELSE sch
  /\ prTopark' = [prTopark EXCEPT ![currpid] = FALSE]
  /\ UNCHANGED <<proctab, pids, semtab, pc, halted, lk>>

park ==
  /\ AtPoint("park") /\ GoOn("own")
  /\ sch' = IF prTopark[currpid] THEN block(sch, "WAIT") ELSE sch
  /\ prTopark' = [prTopark EXCEPT ![currpid] = FALSE]
  /\ UNCHANGED <<proctab, pids, semtab, pc, halted, lk>>

-----------------------------------------------------------------------------
(* A process may call unlock without having the lock.  Bound: not while    *)
(* the lock still has its name, which it does after the process has handed *)
(* the lock over, until the next one sets it; unlock would not refuse it.  *)
unlock ==
  /\ AtPoint("held") \/ (AtPoint("idle") /\ owner # currpid /\ "misuse" \in Calls)
  /\ GoOn("unlock")
  /\ UNCHANGED <<vars, lk, prTopark>>

unlock_guard == take_guard("unlock", "test_owner")

(* The process that is not the owner gets SYSERR, when the guard is free.  *)
test_owner ==
  /\ AtPoint("test_owner")
  /\ GoOn(IF owner = currpid THEN "test_queue" ELSE "leave_unlock")
  /\ UNCHANGED <<vars, lk, prTopark>>

test_queue ==
  /\ AtPoint("test_queue")
  /\ GoOn(IF lqueue = << >> THEN "clear_flag" ELSE "dequeue")
  /\ UNCHANGED <<vars, lk, prTopark>>

clear_flag ==
  /\ AtPoint("clear_flag") /\ flag' = 0 /\ GoOn("clear_owner")
  /\ UNCHANGED <<vars, guard, owner, lqueue, prTopark>>

clear_owner_with_the_guard ==
  /\ AtPoint("clear_owner") /\ owner' = LOCK_AVAILABLE /\ GoOn("idle")
  /\ UNCHANGED <<vars, flag, guard, lqueue, prTopark>>

clear_owner ==
  /\ AtPoint("clear_owner") /\ owner' = LOCK_AVAILABLE /\ GoOn("leave_unlock")
  /\ UNCHANGED <<vars, flag, guard, lqueue, prTopark>>

dequeue_and_clear_flag ==
  /\ AtPoint("dequeue") /\ lqueue' = Tail(lqueue) /\ flag' = 0
  /\ at' = [at EXCEPT ![currpid] = At("unpark", Head(lqueue), 0)]
  /\ UNCHANGED <<vars, guard, owner, prTopark>>

dequeue_still_linked ==
  /\ AtPoint("dequeue")
  /\ at' = [at EXCEPT ![currpid] = At("unpark", Head(lqueue), 0)]
  /\ UNCHANGED <<vars, lk, prTopark>>

dequeue ==
  /\ AtPoint("dequeue") /\ lqueue' = Tail(lqueue)
  /\ at' = [at EXCEPT ![currpid] = At("unpark", Head(lqueue), 0)]
  /\ UNCHANGED <<vars, flag, guard, owner, prTopark>>

(* unpark clears prTopark of the process that calls it, and ready may give *)
(* the CPU to the one it wakes, with the guard still taken.                *)
unpark ==
  /\ AtPoint("unpark") /\ GoOn("leave_unlock")
  /\ prTopark' = [prTopark EXCEPT ![currpid] = FALSE]
  /\ sch' = ready(sch, Point.arg)
  /\ UNCHANGED <<proctab, pids, semtab, pc, halted, lk>>

leave_unlock == free_guard("leave_unlock", "idle")

-----------------------------------------------------------------------------
LockStep ==
  \/ lock_guard \/ test_flag \/ set_flag \/ set_owner("set_owner", "leave_lock")
  \/ leave_lock \/ enqueue \/ setpark \/ leave_guard \/ park
  \/ set_owner("own", "held")
  \/ unlock_guard \/ test_owner \/ test_queue \/ clear_flag \/ clear_owner
  \/ dequeue \/ unpark \/ leave_unlock

(* Between calls to the lock a process makes the kernel's calls.  (create  *)
(* clears prTopark of its process; without kill it is clear.)              *)
KernelStep ==
  /\ \/ Point.at \in {"idle", "held"} /\ (SemaphoreCall \/ MessageCall \/ ProcessCall)
     \/ RestOfCall
     \/ (PreemptEnqueued \/ Point.at \notin Enqueued) /\ clkhandler
  /\ UNCHANGED lockvars

LockNext == LockStep \/ lock \/ unlock \/ KernelStep

allvars == <<vars, lockvars>>
LockSpec == LockInit /\ [][LockNext]_allvars

(* A process goes on within a call to the lock, and gives the lock back,   *)
(* when it gets the CPU again and again: a time slice is long enough.      *)
LockFairness ==
  /\ WF_allvars(KernelStep /\ (RestOfCall \/ clkhandler))
  /\ \A p \in Pids \ {NULLPROC} :
       SF_allvars(currpid = p /\ (LockStep \/ (Point.at = "held" /\ unlock)))

LockLiveSpec == LockSpec /\ LockFairness
-----------------------------------------------------------------------------
LockTypeOK ==
  /\ flag \in {0, 1} /\ guard \in {0, 1} /\ owner \in Pids \cup {LOCK_AVAILABLE}
  /\ lqueue \in Seq(Pids) /\ prTopark \in [Pids -> BOOLEAN]
  /\ at \in [Pids -> [at : LockPoints, arg : Pids, n : {0}]]

(* p has the lock: from the flag it set, or from the queue it was taken    *)
(* off, to the flag it clears or the process it takes off the queue.       *)
Has(p) ==
  \/ at[p].at \in {"set_owner", "leave_lock", "held"}
  \/ at[p].at = "own" /\ p \notin ToSet(lqueue)
  \/ /\ at[p].at \in {"unlock", "test_owner", "test_queue", "clear_flag", "dequeue"}
     /\ owner = p

(* One process at a time has the lock, also across a hand-over in which    *)
(* the flag stays set and the owner's name is out of date; and the flag is *)
(* set just while one has it: it is neither lost nor left behind.          *)
MutualExclusion ==
  /\ \A p, q \in Pids : Has(p) /\ Has(q) => p = q
  /\ flag = 1 <=> \E p \in Pids : Has(p)

(* The process that holds the lock is its owner, so unlock will not refuse *)
(* it, whoever was the owner when it was handed the lock.                  *)
HolderIsOwner == \A p \in Pids : at[p].at = "held" => owner = p

(* queuetab has one entry per process (queue.h), so that a process on the  *)
(* lock's queue is on it once and on no other queue.                       *)
OneQueuePerProcess ==
  /\ IsInjective(lqueue)
  /\ ToSet(lqueue) \cap (ToSet(sch.readylist) \cup ToSet(sch.sleepq)) = {}
  /\ \A s \in Sems : ToSet(lqueue) \cap ToSet(squeue[s]) = {}

(* The lock is a queue lock: first come, first served, and no overtaking   *)
(* of the processes that wait.                                             *)
Queue == INSTANCE QueueLock WITH
  Process <- Pids,
  holder  <- IF \E p \in Pids : Has(p) THEN CHOOSE p \in Pids : Has(p) ELSE LOCK_AVAILABLE,
  None    <- LOCK_AVAILABLE,
  waiting <- lqueue

ImplementsQueueLock == Queue!Spec

(* The guard is taken by test_and_set, in no order: a process may find it  *)
(* taken every time it looks, though it is free in between.  This says     *)
(* that that goes on for no process.  Of a guard that stays taken it says  *)
(* nothing.                                                                *)
GuardIsFair ==
  \A p \in Pids \ {NULLPROC} :
    <>[](at[p].at \in {"lock", "unlock"}) => <>[](guard = 1)

(* If so, and all have one priority, every process that asks for the lock  *)
(* gets it in the end: the guard is given back on every way through lock   *)
(* and unlock, who parks is taken off the queue and made ready, and a new  *)
(* owner that runs before the guard is free does not keep it from being    *)
(* freed.  The window between enqueue and park is closed here too.         *)
WaitersServed ==
  GuardIsFair =>
    \A p \in Pids \ {NULLPROC} : at[p].at = "lock" ~> at[p].at = "held"
=============================================================================
