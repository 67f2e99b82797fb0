------------------------------ MODULE MCServices -----------------------------
(* Instances of XinuServices for TLC.                                      *)
EXTENDS XinuServices

ThreePriorities == [p \in {3, 4, 5} |-> p - 2]
TwoFreeBlocks   == << Block(8, 32), Block(56, 24) >>
OneBufferOrTwo  == {<<8, 1>>, <<9, 2>>}

(* Locks, and remote addresses, are only compared: none is CHOOSEn.        *)
Alike == Permutations(PiLocks) \cup Permutations(Remotes)
=============================================================================
