-------------------------- MODULE MCCoreDataManager ---------------------------
(***************************************************************************)
(* Instances of CoreDataManager for TLC.                                   *)
(***************************************************************************)
EXTENDS CoreDataManager, TLC

CONSTANTS v, w, m1, m2, m3, m4

(* m1 is older than m2, m3 is as old as m2, and m4 is not stamped.         *)
MCCreated == [m \in Messages |->
                CASE m = m1 -> 1 [] m = m4 -> NoDate [] OTHER -> 2]

(* v has no lastActivity; w is what an insert makes of it.                  *)
MCWithDate == [x \in Values |-> IF x = v THEN w ELSE x]

Symmetry == Permutations(Tasks)
================================================================================
