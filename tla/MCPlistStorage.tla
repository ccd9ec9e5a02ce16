---------------------------- MODULE MCPlistStorage -----------------------------
(***************************************************************************)
(* Instances of PlistStorage for TLC.                                      *)
(***************************************************************************)
EXTENDS PlistStorage, TLC

Symmetry == Permutations(Jobs) \cup Permutations(Keys)
================================================================================
