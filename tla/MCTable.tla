------------------------------ MODULE MCTable ------------------------------
(***************************************************************************)
(* As many slots as keys, two of which start at the last one, so that the  *)
(* probe comes round; the mark of a deleted slot may be stored as a value. *)
(***************************************************************************)
EXTENDS Table

Strings == 1 .. 3
Hashes  == <<2, 5, 0>>
Stores  == {TABLE_NIL, Tombstone, Value("INTEGER", 1), Value("INTEGER", 2)}
=============================================================================
