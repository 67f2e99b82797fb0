------------------------------ MODULE XinuStorage ------------------------------
(***************************************************************************)
(* The two ways to keep data: the blocks of a remote disk and the files of *)
(* a local one, each with the processes that use it.  They share no state: *)
(* one of them runs, the other stays as it was initialised.                *)
(***************************************************************************)
EXTENDS XinuRds, XinuLfs

VARIABLE running

StorageInit == running \in {"rds", "lfs"} /\ RdsInit /\ LfsInit

StorageNext ==
  /\ UNCHANGED running
  /\ \/ running = "rds" /\ RdsNext /\ UNCHANGED lfs
     \/ running = "lfs" /\ LfsNext /\ UNCHANGED rds

StorageSpec == StorageInit /\ [][StorageNext]_<<rds, lfs, running>>
=============================================================================
