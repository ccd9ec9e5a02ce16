----------------------------- MODULE MCChatSession -----------------------------
(***************************************************************************)
(* Instances of ChatSession for TLC.                                       *)
(***************************************************************************)
EXTENDS ChatSession, TLC

CONSTANTS v, w, m1, m2, m3

(* m1 is older than m2, and m3 is as old as m2.                             *)
MCCreated == [m \in Messages |-> IF m = m1 THEN 1 ELSE 2]

(* v has no lastActivity; w is what an insert makes of it.                  *)
MCWithDate == [x \in Values |-> IF x = v THEN w ELSE x]

Symmetry == Permutations(Tasks)
================================================================================
