------------------------------ MODULE Session ------------------------------
(***************************************************************************)
(* What main.c hands from the compiler to the virtual machine: the chunk,  *)
(* the vm's objects and intern table, and how far the run has come.        *)
(***************************************************************************)
EXTENDS ChunkOps, ObjOps

VARIABLES
  chunk,   \* struct chunk
  store,   \* vm.objects and vm.strings, with every string object
  phase    \* see Phases

(***************************************************************************)
(* "compile"   chunk_write_from_ast is at work                             *)
(* "run"       _run is in its loop                                         *)
(* "returned"  _run has returned                                           *)
(* "trap"      an integer division the processor refuses                   *)
(* "wild"      a pointer outside its block, or a call that never returns:  *)
(*             what follows is undefined and not modelled                  *)
(***************************************************************************)
Phases == {"compile", "run", "returned", "trap", "wild"}
=============================================================================
