---------------------------- MODULE MCLineTable ----------------------------
(* Model-checking instance of LineTable; its constants are in the cfg.     *)
EXTENDS LineTable
=============================================================================
