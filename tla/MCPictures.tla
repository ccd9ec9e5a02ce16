------------------------------ MODULE MCPictures -------------------------------
(***************************************************************************)
(* An instance of Pictures for TLC: two categories that share a picture    *)
(* and differ in length.                                                   *)
(***************************************************************************)
EXTENDS Pictures, TLC

CONSTANTS nature, p, q

MCHits == (people :> <<p, q>>) @@ (nature :> <<q>>)
================================================================================
