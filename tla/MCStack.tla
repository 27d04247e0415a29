------------------------------ MODULE MCStack ------------------------------
(* A stack that starts with two cells and grows twice.                     *)
EXTENDS Stack
=============================================================================
