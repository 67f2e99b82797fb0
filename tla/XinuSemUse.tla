------------------------------ MODULE XinuSemUse ------------------------------
(***************************************************************************)
(* Counting semaphores as the services of the kernel use them: the effect  *)
(* on the entry of semtab of semcreate, wait, signal and of kill of a      *)
(* process that waits.  XinuKernel models the calls whole, with the ready  *)
(* list and resched; here a process that is made ready runs some time.     *)
(***************************************************************************)
EXTENDS XinuQueue

semcreate(count) == [scount |-> count, squeue |-> << >>]

(* wait blocks its caller when there is nothing to count down.             *)
blocks(sem) == sem.scount < 1

waited(sem, p) ==
  [scount |-> sem.scount - 1, squeue |-> IF blocks(sem) THEN Append(sem.squeue, p) ELSE sem.squeue]

signalled(sem) ==
  [scount |-> sem.scount + 1, squeue |-> IF sem.scount < 0 THEN Tail(sem.squeue) ELSE sem.squeue]

(* Those signal makes ready.                                               *)
woken(sem) == IF sem.scount < 0 THEN {Head(sem.squeue)} ELSE {}

(* signaln, or n signals while resched is deferred: the first n that wait  *)
(* go on.                                                                  *)
least(m, n) == IF m < n THEN m ELSE n

signalledn(sem, n) ==
  [scount |-> sem.scount + n,
   squeue |-> SubSeq(sem.squeue, least(n, Len(sem.squeue)) + 1, Len(sem.squeue))]

wokenn(sem, n) == ToSet(SubSeq(sem.squeue, 1, least(n, Len(sem.squeue))))

(* kill counts the semaphore up and unlinks the process.                   *)
killed(sem, p) == [scount |-> sem.scount + 1, squeue |-> getitem(sem.squeue, p)]

(* How many it counts that nobody waits for.                               *)
counted(sem) == IF sem.scount > 0 THEN sem.scount ELSE 0
=============================================================================
