-------------------------------- MODULE MCLock -------------------------------
(* Instances of XinuLock for TLC.  main creates two more processes.        *)
EXTENDS XinuLock, MCKernel

LockCalls   == {"create", "resume", "sleepms", "clock"}
MisuseCalls == LockCalls \cup {"misuse", "semcreate", "wait", "signal"}

(* What later steps read: the kernel's part, and the lock's.  prTopark is  *)
(* read by park alone, which sets it before.                               *)
lock_live == <<live, flag, guard, owner, lqueue, at, [p \in Pids |-> at[p].at = "park" /\ prTopark[p]]>>
=============================================================================
