------------------------------- MODULE Memory -------------------------------
(***************************************************************************)
(* The heap blocks of a struct vm, its chunk and its strings, from the     *)
(* calls that allocate them to vm_free and chunk_free, which the program   *)
(* offers but main never calls.  All go through reallocate (memory.c).     *)
(* Blocks are numbered as they are allocated.                              *)
(***************************************************************************)
EXTENDS Integers, Sequences, FiniteSets

CONSTANT MAX_BLOCKS   \* bound: no more blocks are allocated

VARIABLES
  heap,       \* for each block ever allocated: is it live?
  vm,         \* struct vm: the blocks of stack and strings, the first object
  chunk,      \* the blocks of a chunk_t, of its lines and its constants
  header,     \* what each string object begins with: [owned, next]
  constants,  \* the string objects among the constants
  keys,       \* the string objects in the intern table
  freeing,    \* what vm_free does next: "", "strings", "objects"
  fault       \* free was called with a pointer no live block starts at

vars == <<heap, vm, chunk, header, constants, keys, freeing, fault>>

NULL == 0

NoVm    == [stack |-> NULL, strings |-> NULL, objects |-> NULL]
NoChunk == [code |-> NULL, lines |-> NULL, constants |-> NULL]

Init ==
  /\ heap = <<>> /\ header = <<>>
  /\ vm = NoVm /\ chunk = NoChunk
  /\ constants = {} /\ keys = {}
  /\ freeing = "" /\ fault = FALSE

Idle  == freeing = "" /\ ~fault
New   == Len(heap) + 1
Live(b) == b \in DOMAIN heap /\ heap[b]

(* reallocate: from nothing, to another place, and to nothing.             *)
Allocate(n) ==
  /\ Len(heap) + n <= MAX_BLOCKS
  /\ heap' = heap \o [k \in 1 .. n |-> TRUE]

Move(b) ==
  /\ Len(heap) < MAX_BLOCKS
  /\ heap' = Append([heap EXCEPT ![b] = FALSE], TRUE)

Release(bs) ==
  /\ heap' = [b \in DOMAIN heap |-> heap[b] /\ b \notin bs]
  /\ fault' = \E b \in bs : ~Live(b)

vm_init ==
  /\ Idle /\ vm = NoVm
  /\ Allocate(2)
  /\ vm' = [stack |-> New, strings |-> New + 1, objects |-> NULL]
  /\ keys' = {}
  /\ UNCHANGED <<chunk, header, constants, freeing, fault>>

chunk_init ==
  /\ Idle /\ chunk = NoChunk
  /\ Allocate(3)
  /\ chunk' = [code |-> New, constants |-> New + 1, lines |-> New + 2]
  /\ constants' = {}
  /\ UNCHANGED <<vm, header, keys, freeing, fault>>

(* An array that is full moves when it is written to; the caller's pointer *)
(* is moved along.                                                         *)
stack_put ==
  /\ Idle /\ vm # NoVm
  /\ Move(vm.stack)
  /\ vm' = [vm EXCEPT !.stack = New]
  /\ UNCHANGED <<chunk, header, constants, keys, freeing, fault>>

Moved(array) == [chunk EXCEPT ![array] = New]

chunk_write(array) ==
  /\ Idle /\ chunk # NoChunk
  /\ Move(chunk[array])
  /\ chunk' = Moved(array)
  /\ UNCHANGED <<vm, header, constants, keys, freeing, fault>>

(* A literal is an object that is on no list and has no next; one made by &*)
(* is put before the others on the vm's.                                   *)
UNSET == NULL   \* whatever the block held

NewString(owned, next) ==
  /\ Allocate(1)
  /\ header' = [o \in DOMAIN header \cup {New} |->
                  IF o = New THEN [owned |-> owned, next |-> next] ELSE header[o]]
  /\ keys' = keys \cup {New}

\* Mutant: the literal is linked too.
RefLinked == [vm EXCEPT !.objects = New]

RefLink == vm

obj_string_ref ==
  /\ Idle /\ vm # NoVm /\ chunk # NoChunk
  /\ NewString(FALSE, UNSET)
  /\ vm' = RefLink
  /\ constants' = constants \cup {New}
  /\ UNCHANGED <<chunk, freeing, fault>>

\* Mutant: the object is not linked.
CopyLinkNone == vm

CopyLink == [vm EXCEPT !.objects = New]

obj_string_copy ==
  /\ Idle /\ vm # NoVm
  /\ NewString(TRUE, vm.objects)
  /\ vm' = CopyLink
  /\ UNCHANGED <<chunk, constants, freeing, fault>>

-----------------------------------------------------------------------------
(* vm_free, call by call; the loop of objects_free, object by object.      *)
stack_free ==
  /\ Idle /\ vm # NoVm
  /\ Release({vm.stack})
  /\ vm' = [vm EXCEPT !.stack = NULL]
  /\ freeing' = "strings"
  /\ UNCHANGED <<chunk, header, constants, keys>>

table_free ==
  /\ freeing = "strings"
  /\ Release({vm.strings})
  /\ vm' = [vm EXCEPT !.strings = NULL]
  /\ keys' = {} /\ freeing' = "objects"
  /\ UNCHANGED <<chunk, header, constants>>

(* obj_free of an owned string begins with its chars, which lie inside the *)
(* object: what is freed is no block.                                      *)
CharsOf(o) == -o

obj_free ==
  /\ freeing = "objects" /\ ~fault /\ vm.objects # NULL
  /\ Release(IF header[vm.objects].owned THEN {CharsOf(vm.objects), vm.objects} ELSE {vm.objects})
  /\ vm' = [vm EXCEPT !.objects = header[vm.objects].next]
  /\ UNCHANGED <<chunk, header, constants, keys, freeing>>

objects_free ==
  /\ freeing = "objects" /\ ~fault /\ vm.objects = NULL
  /\ freeing' = ""
  /\ UNCHANGED <<heap, vm, chunk, header, constants, keys, fault>>

\* Mutant: the lines are forgotten.
ArraysLeft == {chunk.constants, chunk.code}

Arrays == {chunk.constants, chunk.lines, chunk.code}

chunk_free ==
  /\ Idle /\ chunk # NoChunk
  /\ Release(Arrays)
  /\ chunk' = NoChunk /\ constants' = {}
  /\ UNCHANGED <<vm, header, keys, freeing>>

Next ==
  \/ vm_init \/ chunk_init \/ stack_put \/ obj_string_ref \/ obj_string_copy
  \/ \E array \in DOMAIN chunk : chunk_write(array)
  \/ stack_free \/ table_free \/ obj_free \/ objects_free \/ chunk_free

Spec == Init /\ [][Next]_vars

-----------------------------------------------------------------------------
Listed ==
  LET reach[n \in 0 .. Len(heap)] ==
        IF n = 0 THEN {vm.objects} \ {NULL}
        ELSE reach[n - 1] \cup ({header[o].next : o \in reach[n - 1]} \ {NULL})
  IN  reach[Len(heap)]

(* In whatever order vm and chunk are used and freed, and between the      *)
(* calls of vm_free too, nothing that is in use points to a freed block:   *)
(* not the arrays, which have moved, the objects of the list, the keys of  *)
(* the intern table or the constants, though vm_free does not know them.   *)
InUse ==
  ({vm.stack, vm.strings, chunk.code, chunk.lines, chunk.constants} \ {NULL})
    \cup Listed \cup keys \cup constants

NothingDangles == ~fault => \A b \in InUse : Live(b)

(* Nothing is freed twice or from within, but for strings made by &: with  *)
(* one of them vm_free never returns, and without one it always does.      *)
VmFreeFaults ==
  /\ fault => freeing = "objects" /\ \E o \in DOMAIN header : header[o].owned
  /\ vm = NoVm /\ freeing = "" => ~\E o \in DOMAIN header : header[o].owned

(* What is left when all is freed: the objects of the literals, for ever.  *)
LiteralsLeak ==
  vm = NoVm /\ chunk = NoChunk /\ Idle =>
    {b \in DOMAIN heap : heap[b]} = {o \in DOMAIN header : ~header[o].owned}
=============================================================================
