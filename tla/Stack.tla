------------------------------- MODULE Stack -------------------------------
(***************************************************************************)
(* stack.c: the value stack in memory.  struct stack is one heap block, a  *)
(* header with the capacity and the pointer top, then the cells.  When top *)
(* reaches the capacity the block is reallocated, which may move it; top   *)
(* is a pointer into the block and has to be moved along.  vm.c also       *)
(* writes through top[-1] (OPCODE_NEGATE).                                 *)
(***************************************************************************)
EXTENDS Integers, Sequences

CONSTANTS
  Values,          \* struct value
  CAPACITY_INIT,   \* cells of a new stack
  MAX_DEPTH        \* bound: no caller puts more values

ASSUME StackCapacityAssumption == CAPACITY_INIT \in Nat \ {0}
ASSUME MaxDepthAssumption      == MAX_DEPTH \in Nat

VARIABLES
  block,      \* which block *stack is; NULL_BLOCK once it is freed
  capacity,
  cells,      \* the cells of the block, numbered from 0
  top,        \* a pointer: [block, index]
  returned,   \* what the last stack_pop returned
  phase       \* "live", "freed", "wild": a cell outside the block was used

vars == <<block, capacity, cells, top, returned, phase>>

NULL_BLOCK == 0
UNSET      == "unset"     \* a cell nothing was stored in
NOTHING    == "nothing"   \* no pop yet

ASSUME ValuesAssumption == UNSET \notin Values /\ NOTHING \notin Values

stack_init ==
  /\ block = 1
  /\ capacity = CAPACITY_INIT
  /\ cells = [k \in 0 .. CAPACITY_INIT - 1 |-> UNSET]
  /\ top = [block |-> 1, index |-> 0]
  /\ returned = NOTHING
  /\ phase = "live"

\* Mutant: the stack grows one put too late.
FullLate == top.index > capacity

Full == top.index >= capacity

(* stack_put when there is room.                                           *)
PutInPlace(v) ==
  /\ phase = "live" /\ top.index < MAX_DEPTH
  /\ ~Full
  /\ cells' = [cells EXCEPT ![top.index] = v]
  /\ top' = [top EXCEPT !.index = @ + 1]
  /\ UNCHANGED <<block, capacity, returned, phase>>

(* The pointer to cell count of block b.                                   *)
\* Mutant: top is left pointing into the block as it was.
RebasedNot(b, count) == top

Rebased(b, count) == [block |-> b, index |-> count]

(* stack_put when the block has to grow first: b is where it ends up.      *)
PutGrowing(v) ==
  \E b \in {block, block + 1} :
    /\ phase = "live" /\ top.index < MAX_DEPTH
    /\ Full
    /\ block' = b
    /\ capacity' = 2 * capacity
    /\ LET moved == Rebased(b, top.index)
       IN  /\ cells' = [k \in 0 .. 2 * capacity - 1 |->
                          IF moved.block = b /\ k = moved.index THEN v
                          ELSE IF k < capacity THEN cells[k] ELSE UNSET]
           /\ top' = [moved EXCEPT !.index = @ + 1]
    /\ UNCHANGED <<returned, phase>>

(* stack_pop: the cell below top is read, whether there is one or not.     *)
\* Mutant: top is left where it is.
PopKeepsTop ==
  /\ phase = "live" /\ top.index > 0
  /\ returned' = cells[top.index - 1]
  /\ UNCHANGED <<block, capacity, cells, top, phase>>

Pop ==
  /\ phase = "live" /\ top.index > 0
  /\ returned' = cells[top.index - 1]
  /\ top' = [top EXCEPT !.index = @ - 1]
  /\ UNCHANGED <<block, capacity, cells, phase>>

(* The cell below top of an empty stack, which stack_pop reads and         *)
(* OPCODE_NEGATE writes through top[-1], is part of the block's header.    *)
UseHeader ==
  /\ phase = "live" /\ top.index = 0
  /\ phase' = "wild"
  /\ UNCHANGED <<block, capacity, cells, top, returned>>

(* OPCODE_NEGATE of a REAL, on a stack that has one.                       *)
Replace(v) ==
  /\ phase = "live" /\ top.index > 0
  /\ cells' = [cells EXCEPT ![top.index - 1] = v]
  /\ UNCHANGED <<block, capacity, top, returned, phase>>

stack_reset ==
  /\ phase = "live"
  /\ top' = [block |-> block, index |-> 0]
  /\ UNCHANGED <<block, capacity, cells, returned, phase>>

stack_free ==
  /\ phase = "live"
  /\ phase' = "freed"
  /\ block' = NULL_BLOCK
  /\ UNCHANGED <<capacity, cells, top, returned>>

Ended == phase # "live" /\ UNCHANGED vars

Next ==
  \/ \E v \in Values : PutInPlace(v) \/ PutGrowing(v) \/ Replace(v)
  \/ Pop \/ UseHeader \/ stack_reset \/ stack_free \/ Ended

Spec == stack_init /\ [][Next]_vars

-----------------------------------------------------------------------------
TypeOK ==
  /\ block \in Nat
  /\ capacity \in Nat \ {0}
  /\ cells \in [0 .. capacity - 1 -> Values \cup {UNSET}]
  /\ top \in [block : Nat, index : Nat]
  /\ returned \in Values \cup {UNSET, NOTHING}
  /\ phase \in {"live", "freed", "wild"}

(* top points into the block the stack is in now, at most one past its     *)
(* last cell, and every cell below it was stored by a put.                 *)
TopInBlock ==
  phase = "live" =>
    /\ top.block = block
    /\ top.index <= capacity
    /\ \A k \in 0 .. top.index - 1 : cells[k] \in Values

IInv == TypeOK /\ TopInBlock

Contents == IF phase = "freed" THEN <<>> ELSE [k \in 1 .. top.index |-> cells[k - 1]]

(* The stack in memory behaves like a stack.                               *)
Abstract == INSTANCE Lifo WITH contents <- Contents
ImplementsLifo == Abstract!LifoSpec
=============================================================================
