---------------------------- MODULE MCLocalProfile -----------------------------
(***************************************************************************)
(* Instances of LocalProfile for TLC.                                      *)
(***************************************************************************)
EXTENDS LocalProfile, TLC

Symmetry == Permutations(Jobs) \cup Permutations(Data)
================================================================================
