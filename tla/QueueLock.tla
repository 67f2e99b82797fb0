------------------------------ MODULE QueueLock -------------------------------
(***************************************************************************)
(* What a lock with a waiting queue promises: one process holds it at a    *)
(* time, a process that finds it held waits behind those that wait, and    *)
(* the holder hands it to the first of them, or frees it when none waits.  *)
(* A free lock has no waiting processes, so nobody overtakes them.         *)
(***************************************************************************)
EXTENDS Sequences

CONSTANTS Process,   \* the processes that use the lock
          None       \* not a process: holder of a free lock

VARIABLES holder, waiting

Init == holder = None /\ waiting = << >>

Acquire(p) ==
  /\ holder = None /\ waiting = << >>
  /\ holder' = p
  /\ UNCHANGED waiting

Wait(p) ==
  /\ holder \notin {None, p}
  /\ waiting' = Append(waiting, p)
  /\ UNCHANGED holder

Release ==
  /\ holder # None /\ waiting = << >>
  /\ holder' = None
  /\ UNCHANGED waiting

HandOver ==
  /\ holder # None /\ waiting # << >>
  /\ holder' = Head(waiting) /\ waiting' = Tail(waiting)

Next == (\E p \in Process : Acquire(p) \/ Wait(p)) \/ Release \/ HandOver

Spec == Init /\ [][Next]_<<holder, waiting>>
=============================================================================
