------------------------------ MODULE MCMemory ------------------------------
(***************************************************************************)
(* Room for a vm and a chunk (five blocks), a second one of either, and    *)
(* strings and moves in between.                                           *)
(***************************************************************************)
EXTENDS Memory
=============================================================================
