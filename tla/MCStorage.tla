------------------------------- MODULE MCStorage ------------------------------
(* An instance of XinuStorage for TLC.                                     *)
EXTENDS XinuStorage, TLC

(* The members of these sets are only compared: none is CHOOSEn.  The disk *)
(* and the files have members in common, and then their permutations.      *)
Alike == Permutations(RdsUsers \cup LfNames) \cup Permutations(LfChars)
=============================================================================
