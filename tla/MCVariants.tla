------------------------------ MODULE MCVariants -----------------------------
(* Instances of XinuVariants for TLC.                                      *)
EXTENDS XinuVariants

OneSystemProcess == [p \in {1} |-> 20]

(* What a free entry of the process table still holds, the key of a        *)
(* process on no list, and the message of one that waits for none, are     *)
(* never read: states that differ in nothing else count as one.            *)
LiveOnly(f) == [p \in Pids |-> IF IsLive(p) THEN f[p] ELSE 0]

WhatIsRead ==
  <<mlfq, lottery, booted,
    [cascade EXCEPT
       !.sch.prprio = LiveOnly(@),
       !.sch.qkey   = [p \in Pids |-> IF cascade.sch.prstate[p] = "READY" THEN @[p] ELSE 0],
       !.prparent   = LiveOnly(@),
       !.prhasmsg   = [p \in Receivers |-> IsLive(p) /\ @[p]]]>>
=============================================================================
