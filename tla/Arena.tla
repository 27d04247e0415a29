------------------------------- MODULE Arena -------------------------------
(***************************************************************************)
(* ast.c: the arena the parser takes its nodes from, a list of blocks of   *)
(* cells.  A node is known by a pointer to its cell, so a block never      *)
(* moves; when one is full another is linked behind it.  A block's number  *)
(* is its address.                                                         *)
(***************************************************************************)
EXTENDS Integers, Sequences

CONSTANTS
  ARENA_INIT,   \* CAPACITY_INIT of ast.c
  UINT_RANGE,   \* how many numbers a uint32_t tells apart
  Sizes         \* every size the growth from ARENA_INIT comes to

(* CAPACITY_GROW: x * 3U wraps around.                                     *)
CAPACITY_GROW(x) == ((x * 3) % UINT_RANGE) \div 2

(* A size of zero would be the end of every promise; the growth from 1024  *)
(* in 32 bits never comes to it.                                           *)
ASSUME ArenaAssumption ==
  /\ UINT_RANGE \in Nat \ {0}
  /\ Sizes \subseteq Nat \ {0}
  /\ ARENA_INIT \in Sizes
  /\ \A x \in Sizes : CAPACITY_GROW(x) \in Sizes

VARIABLES
  blocks,   \* every block that was allocated: [size, offset, next, live]
  arena,    \* struct ast_arena: [blocks, current]
  block,    \* where the loop of _block_free is, NULL while it is not at work
  made,     \* history: the cell each node got, [block, index]
  cells     \* what the cells hold that were handed out

arenaVars == <<blocks, arena, block, made, cells>>

NULL == 0

Extended(f, x, v) == [y \in DOMAIN f \cup {x} |-> IF y = x THEN v ELSE f[y]]

_block_new(size) == [size |-> size, offset |-> 0, next |-> NULL, live |-> TRUE]

ast_arena_new ==
  /\ blocks = <<_block_new(ARENA_INIT)>>
  /\ arena = [blocks |-> 1, current |-> 1]
  /\ block = NULL
  /\ made = <<>> /\ cells = <<>>

-----------------------------------------------------------------------------
Open == arena.current # NULL /\ block = NULL

\* Mutant: one cell too many is taken from a block.
FullLate == blocks[arena.current].offset > blocks[arena.current].size

Full == blocks[arena.current].offset >= blocks[arena.current].size

(* The caller stores a first content into the new node, if it does.        *)
Take(node, cell, content) ==
  /\ made'  = Extended(made, node, cell)
  /\ cells' = Extended(cells, cell, content)

(* ast_arena_make: the next cell of the current block, or the first one of *)
(* a new block.                                                            *)
\* Mutant: offset is not advanced.
MakeHereAgain(node, content) ==
  /\ Open /\ node \notin DOMAIN made /\ ~Full
  /\ Take(node, [block |-> arena.current, index |-> blocks[arena.current].offset], content)
  /\ UNCHANGED <<blocks, arena, block>>

MakeHere(node, content) ==
  /\ Open /\ node \notin DOMAIN made /\ ~Full
  /\ Take(node, [block |-> arena.current, index |-> blocks[arena.current].offset], content)
  /\ blocks' = [blocks EXCEPT ![arena.current].offset = @ + 1]
  /\ UNCHANGED <<arena, block>>

MakeInNewBlock(node, content) ==
  /\ Open /\ node \notin DOMAIN made /\ Full
  /\ LET new   == Len(blocks) + 1
         fresh == _block_new(CAPACITY_GROW(blocks[arena.current].size))
     IN  /\ Take(node, [block |-> new, index |-> 0], content)
         /\ blocks' = Append([blocks EXCEPT ![arena.current].next = new], [fresh EXCEPT !.offset = 1])
         /\ arena' = [arena EXCEPT !.current = new]
  /\ UNCHANGED block

ast_arena_make(node, content) == MakeHere(node, content) \/ MakeInNewBlock(node, content)

(* The caller stores through the pointer to a node, at any time.           *)
Store(node, content) ==
  /\ Open /\ node \in DOMAIN made
  /\ cells' = [cells EXCEPT ![made[node]] = content]
  /\ UNCHANGED <<blocks, arena, block, made>>

(* ast_arena_free, a round of the loop of _block_free per step: the next   *)
(* block is read before this one is freed.                                 *)
Freed == IF block = NULL THEN arena.blocks ELSE block

ast_arena_free ==
  /\ Freed # NULL
  /\ blocks' = [blocks EXCEPT ![Freed].live = FALSE]
  /\ block' = blocks[Freed].next
  /\ arena' = IF blocks[Freed].next = NULL THEN [blocks |-> NULL, current |-> NULL] ELSE arena
  /\ UNCHANGED <<made, cells>>

(* All that a caller may do.                                               *)
ArenaNext ==
  \/ \E node \in DOMAIN made' : ast_arena_make(node, cells'[made'[node]])
  \/ \E node \in DOMAIN made : Store(node, cells'[made[node]])
  \/ ast_arena_free

ArenaSpec == ast_arena_new /\ [][ArenaNext]_arenaVars

-----------------------------------------------------------------------------
Cells   == [block : DOMAIN blocks, index : Nat]
Headers == [size : Sizes, offset : Nat, next : Nat, live : BOOLEAN]

ArenaTypeOK ==
  /\ blocks \in Seq(Headers)
  /\ arena \in [blocks : Nat, current : Nat] /\ block \in Nat
  /\ DOMAIN cells \subseteq Cells

(* No cell is handed out twice, and none that its block does not have.     *)
CellsApart ==
  /\ \A m, n \in DOMAIN made : m # n => made[m] # made[n]
  /\ \A n \in DOMAIN made :
       /\ made[n] \in DOMAIN cells
       /\ made[n].index < blocks[made[n].block].size

(* The list links all blocks in the order of their making, the current one *)
(* last.                                                                   *)
Chained ==
  /\ \A b \in DOMAIN blocks : blocks[b].next = IF b = Len(blocks) THEN NULL ELSE b + 1
  /\ arena.current # NULL => arena = [blocks |-> 1, current |-> Len(blocks)]
  /\ arena.current = NULL => arena.blocks = NULL /\ block = NULL

(* A block is freed once, in its turn, and none is left when the arena is. *)
FreedInTurn ==
  /\ block \in 0 .. Len(blocks)
  /\ \A b \in DOMAIN blocks :
       blocks[b].live <=> arena.current # NULL /\ (block = NULL \/ block <= b)

(* Beyond the cells handed out of a block nothing was handed out.          *)
TakenInOrder ==
  \A n \in DOMAIN made : made[n].index < blocks[made[n].block].offset

ArenaIInv == ArenaTypeOK /\ CellsApart /\ Chained /\ FreedInTurn /\ TakenInOrder

(* To its callers the arena is a store of nodes.                           *)
Contents == IF Open THEN [n \in DOMAIN made |-> cells[made[n]]] ELSE <<>>

Abstract == INSTANCE NodeStore WITH nodes <- Contents, open <- Open
ImplementsNodeStore == Abstract!StoreSpec
=============================================================================
