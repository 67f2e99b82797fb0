---------------------------- MODULE XinuVariants ------------------------------
(***************************************************************************)
(* The kernels this repository derives from the one of XinuKernel, each a  *)
(* source tree of its own: the feedback queues, the lottery, and fork with *)
(* cascading termination.  A machine boots one of them.                    *)
(***************************************************************************)
EXTENDS XinuMlfq, XinuLottery, XinuCascade

VARIABLE booted

variants == <<mlfq, lottery, cascade, booted>>

VariantsInit ==
  /\ booted \in {"mlfq", "lottery", "cascade"}
  /\ MlfqInit /\ LotteryInit /\ CascadeInit

VariantsNext ==
  \/ booted = "mlfq"    /\ MlfqNext    /\ UNCHANGED <<lottery, cascade, booted>>
  \/ booted = "lottery" /\ LotteryNext /\ UNCHANGED <<mlfq, cascade, booted>>
  \/ booted = "cascade" /\ CascadeNext /\ UNCHANGED <<mlfq, lottery, booted>>

VariantsSpec ==
  VariantsInit /\ [][VariantsNext]_variants /\ (booted = "mlfq" => MlfqFairness)

(* Where the feedback queues run: with the clock ticking, and the system   *)
(* process idle again and again, a ready process of whatever level does    *)
(* not stay ready for ever.                                                *)
NoLevelStarves == booted = "mlfq" => MlfqNoStarvation
=============================================================================
