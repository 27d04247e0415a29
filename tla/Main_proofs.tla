----------------------------- MODULE Main_proofs -----------------------------
(***************************************************************************)
(* The whole program on any set of texts: its arena, its scanner, the tree *)
(* the parser leaves in the arena, the chunk that is compiled from it, and *)
(* the value the machine prints.                                           *)
(***************************************************************************)
EXTENDS Main, FiniteSetTheorems, WellFoundedInduction, TLAPS

-----------------------------------------------------------------------------
(* The arena hands out every cell once and frees every block once, and so  *)
(* implements a store of nodes, whatever the first size and the width of   *)
(* a size, as long as no size on the way is zero (ArenaAssumption).        *)

USE DEF NULL

LEMMA Grows == \A x \in Sizes : x \in Nat /\ x > 0 /\ CAPACITY_GROW(x) \in Sizes
BY ArenaAssumption

LEMMA HeaderFields ==
  ASSUME ArenaIInv, NEW b \in DOMAIN blocks
  PROVE  /\ blocks[b].size \in Sizes /\ blocks[b].size \in Nat
         /\ blocks[b].offset \in Nat /\ blocks[b].next \in Nat /\ blocks[b].live \in BOOLEAN
<1>1. blocks[b] \in Headers
  BY DEF ArenaIInv, ArenaTypeOK
<1> QED
  BY <1>1, Grows DEF Headers

LEMMA HeaderExcept ==
  ASSUME NEW h \in Headers, NEW n \in Nat
  PROVE  /\ [h EXCEPT !.offset = n] \in Headers
         /\ [h EXCEPT !.next = n] \in Headers
         /\ [h EXCEPT !.live = FALSE] \in Headers
BY DEF Headers

LEMMA BlockNumbers ==
  ASSUME ArenaIInv
  PROVE  DOMAIN blocks = 1 .. Len(blocks) /\ Len(blocks) \in Nat /\ Len(blocks) + 1 \notin DOMAIN blocks
<1>1. blocks \in Seq(Headers)
  BY DEF ArenaIInv, ArenaTypeOK
<1> QED
  BY <1>1

(* What the two ways to make a node have in common.                        *)
LEMMA TakeExtends ==
  ASSUME NEW node, NEW cell, NEW content, Take(node, cell, content)
  PROVE  /\ DOMAIN made' = DOMAIN made \cup {node} /\ made'[node] = cell
         /\ \A n \in DOMAIN made : n # node => made'[n] = made[n]
         /\ DOMAIN cells' = DOMAIN cells \cup {cell} /\ cells'[cell] = content
         /\ \A p \in DOMAIN cells : p # cell => cells'[p] = cells[p]
BY DEF Take, Extended

LEMMA CellsOfNodes ==
  ASSUME ArenaIInv, NEW n \in DOMAIN made
  PROVE  /\ made[n] \in DOMAIN cells
         /\ made[n].block \in DOMAIN blocks /\ made[n].index \in Nat
         /\ made[n].index < blocks[made[n].block].size
         /\ made[n].index < blocks[made[n].block].offset
BY DEF ArenaIInv, ArenaTypeOK, CellsApart, TakenInOrder, Cells

(* The current block while the arena is open.                              *)
LEMMA CurrentIsLast ==
  ASSUME ArenaIInv, Open
  PROVE  /\ arena = [blocks |-> 1, current |-> Len(blocks)] /\ block = NULL
         /\ arena.current = Len(blocks) /\ Len(blocks) \in DOMAIN blocks /\ Len(blocks) \in Nat \ {0}
BY DEF ArenaIInv, ArenaTypeOK, Chained, Open

LEMMA MakeHereKeeps ==
  ASSUME ArenaIInv, NEW node, NEW content, MakeHere(node, content)
  PROVE  ArenaIInv'
<1>1. PICK c : c = Len(blocks) /\ c = arena.current
  BY CurrentIsLast DEF MakeHere
<1>2. c \in DOMAIN blocks /\ c \in Nat \ {0} /\ arena' = arena /\ block' = block /\ block = NULL
      /\ arena = [blocks |-> 1, current |-> c]
  BY <1>1, CurrentIsLast DEF MakeHere
<1>3. blocks[c].offset \in Nat /\ blocks[c].size \in Nat /\ blocks[c].offset < blocks[c].size
  BY <1>1, <1>2, HeaderFields DEF MakeHere, Full
<1>4. PICK cell :
        /\ cell.block = c /\ cell.index = blocks[c].offset
        /\ cell \in Cells
        /\ Take(node, cell, content)
  BY <1>1, <1>2, <1>3 DEF MakeHere, Cells
<1>5. blocks' = [blocks EXCEPT ![c].offset = blocks[c].offset + 1]
  BY <1>1 DEF MakeHere
<1>6. blocks' \in Seq(Headers) /\ Len(blocks') = Len(blocks) /\ DOMAIN blocks' = DOMAIN blocks
  <2>1. blocks \in Seq(Headers) /\ blocks[c] \in Headers
    BY <1>2 DEF ArenaIInv, ArenaTypeOK
  <2>2. [blocks[c] EXCEPT !.offset = blocks[c].offset + 1] \in Headers
    <3>1. blocks[c].offset + 1 \in Nat
      BY <1>3
    <3> QED
      BY <2>1, <3>1, HeaderExcept
  <2> QED
    BY <1>2, <1>5, <2>1, <2>2
<1>7. \A b \in DOMAIN blocks :
        /\ blocks'[b].size = blocks[b].size /\ blocks'[b].next = blocks[b].next
        /\ blocks'[b].live = blocks[b].live
        /\ blocks'[b].offset = IF b = c THEN blocks[b].offset + 1 ELSE blocks[b].offset
  <2>1. \A b \in DOMAIN blocks : blocks[b] \in Headers
    BY DEF ArenaIInv, ArenaTypeOK
  <2> QED
    BY <1>2, <1>5, <2>1 DEF Headers
<1>8. /\ DOMAIN made' = DOMAIN made \cup {node} /\ made'[node] = cell
      /\ \A n \in DOMAIN made : n # node => made'[n] = made[n]
      /\ DOMAIN cells' = DOMAIN cells \cup {cell} /\ node \notin DOMAIN made
  BY <1>4, TakeExtends DEF MakeHere
<1>9. ArenaTypeOK'
  BY <1>2, <1>4, <1>6, <1>8 DEF ArenaIInv, ArenaTypeOK, Cells
<1>10. \A n \in DOMAIN made : made[n] # cell
  BY <1>4, CellsOfNodes
<1>11. CellsApart'
  <2>1. \A m, n \in DOMAIN made' : m # n => made'[m] # made'[n]
    BY <1>8, <1>10 DEF ArenaIInv, CellsApart
  <2>2. \A n \in DOMAIN made' : made'[n] \in DOMAIN cells' /\ made'[n].index < blocks'[made'[n].block].size
    BY <1>2, <1>3, <1>4, <1>7, <1>8, CellsOfNodes
  <2> QED
    BY <2>1, <2>2 DEF CellsApart
<1>12. Chained' /\ FreedInTurn'
  BY <1>1, <1>2, <1>6, <1>7 DEF ArenaIInv, Chained, FreedInTurn
<1>13. TakenInOrder'
  <2>1. \A n \in DOMAIN made : made[n].index < blocks'[made[n].block].offset
    BY <1>2, <1>3, <1>7, CellsOfNodes
  <2>2. cell.index < blocks'[cell.block].offset
    BY <1>2, <1>3, <1>4, <1>7
  <2> QED
    BY <1>8, <2>1, <2>2 DEF TakenInOrder
<1> QED
  BY <1>9, <1>11, <1>12, <1>13 DEF ArenaIInv

LEMMA MakeInNewBlockKeeps ==
  ASSUME ArenaIInv, NEW node, NEW content, MakeInNewBlock(node, content)
  PROVE  ArenaIInv'
<1>1. PICK c : c = Len(blocks) /\ c = arena.current
  BY CurrentIsLast DEF MakeInNewBlock
<1>2. c \in DOMAIN blocks /\ c \in Nat \ {0} /\ block' = block /\ block = NULL
      /\ arena = [blocks |-> 1, current |-> c] /\ arena' = [blocks |-> 1, current |-> c + 1]
  BY <1>1, CurrentIsLast DEF MakeInNewBlock
<1>3. PICK fresh :
        /\ fresh = [[size |-> CAPACITY_GROW(blocks[c].size), offset |-> 0, next |-> NULL, live |-> TRUE]
                      EXCEPT !.offset = 1]
        /\ blocks' = Append([blocks EXCEPT ![c].next = c + 1], fresh)
  BY <1>1 DEF MakeInNewBlock, _block_new
<1>4. /\ fresh.size \in Sizes /\ fresh.size \in Nat /\ fresh.size > 0
      /\ fresh.offset = 1 /\ fresh.next = NULL /\ fresh.live = TRUE /\ fresh \in Headers
  BY <1>2, <1>3, HeaderFields, Grows DEF Headers
<1>5. PICK linked : linked = [blocks EXCEPT ![c].next = c + 1]
  OBVIOUS
<1>6. /\ linked \in Seq(Headers) /\ Len(linked) = c /\ DOMAIN linked = DOMAIN blocks
      /\ \A b \in DOMAIN blocks :
           /\ linked[b].size = blocks[b].size /\ linked[b].offset = blocks[b].offset
           /\ linked[b].live = blocks[b].live
           /\ linked[b].next = IF b = c THEN c + 1 ELSE blocks[b].next
  <2>1. blocks \in Seq(Headers) /\ \A b \in DOMAIN blocks : blocks[b] \in Headers
    BY DEF ArenaIInv, ArenaTypeOK
  <2>2. [blocks[c] EXCEPT !.next = c + 1] \in Headers
    <3>1. blocks[c] \in Headers /\ c + 1 \in Nat
      BY <1>2, <2>1
    <3> QED
      BY <3>1, HeaderExcept
  <2>3. linked \in Seq(Headers) /\ Len(linked) = c /\ DOMAIN linked = DOMAIN blocks
    <3>1. DOMAIN blocks = 1 .. c /\ Len(blocks) = c
      BY <1>1, BlockNumbers
    <3> QED
      BY <1>2, <1>5, <2>1, <2>2, <3>1
  <2> QED
    BY <1>2, <1>5, <2>1, <2>3 DEF Headers
<1>7. /\ blocks' \in Seq(Headers) /\ Len(blocks') = c + 1
      /\ DOMAIN blocks' = DOMAIN blocks \cup {c + 1} /\ blocks'[c + 1] = fresh
      /\ \A b \in DOMAIN blocks : blocks'[b] = linked[b]
  <2>1. blocks' = Append(linked, fresh)
    BY <1>3, <1>5
  <2>2. DOMAIN blocks = 1 .. c
    BY <1>1, BlockNumbers
  <2> QED
    BY <1>2, <1>4, <1>6, <2>1, <2>2
<1>8. PICK cell :
        /\ cell.block = c + 1 /\ cell.index = 0 /\ cell \in Cells'
        /\ Take(node, cell, content)
  BY <1>1, <1>2, <1>7 DEF MakeInNewBlock, Cells
<1>9. /\ DOMAIN made' = DOMAIN made \cup {node} /\ made'[node] = cell
      /\ \A n \in DOMAIN made : n # node => made'[n] = made[n]
      /\ DOMAIN cells' = DOMAIN cells \cup {cell} /\ node \notin DOMAIN made
  BY <1>8, TakeExtends DEF MakeInNewBlock
<1>10. ArenaTypeOK'
  BY <1>2, <1>7, <1>8, <1>9 DEF ArenaIInv, ArenaTypeOK, Cells
<1>11. DOMAIN blocks = 1 .. c /\ c + 1 \notin DOMAIN blocks
  BY <1>1, BlockNumbers
<1>12. \A n \in DOMAIN made : made[n] # cell
  BY <1>8, <1>11, CellsOfNodes
<1>13. CellsApart'
  <2>1. \A m, n \in DOMAIN made' : m # n => made'[m] # made'[n]
    BY <1>9, <1>12 DEF ArenaIInv, CellsApart
  <2>2. \A n \in DOMAIN made' : made'[n] \in DOMAIN cells' /\ made'[n].index < blocks'[made'[n].block].size
    BY <1>4, <1>6, <1>7, <1>8, <1>9, CellsOfNodes
  <2> QED
    BY <2>1, <2>2 DEF CellsApart
<1>14. Chained'
  <2>1. \A b \in DOMAIN blocks : blocks[b].next = IF b = c THEN NULL ELSE b + 1
    BY <1>1 DEF ArenaIInv, Chained
  <2>2. \A b \in DOMAIN blocks' : blocks'[b].next = IF b = c + 1 THEN NULL ELSE b + 1
    BY <1>2, <1>4, <1>6, <1>7, <1>11, <2>1
  <2> QED
    BY <1>2, <1>7, <2>2 DEF Chained
<1>15. FreedInTurn'
  <2>1. \A b \in DOMAIN blocks : blocks[b].live
    BY <1>2 DEF ArenaIInv, FreedInTurn
  <2>2. \A b \in DOMAIN blocks' : blocks'[b].live
    BY <1>4, <1>6, <1>7, <2>1
  <2> QED
    BY <1>2, <1>7, <2>2 DEF FreedInTurn
<1>16. TakenInOrder'
  BY <1>4, <1>6, <1>7, <1>8, <1>9, CellsOfNodes DEF TakenInOrder
<1> QED
  BY <1>10, <1>13, <1>14, <1>15, <1>16 DEF ArenaIInv

LEMMA FreeKeeps == ArenaIInv /\ ast_arena_free => ArenaIInv'
<1> SUFFICES ASSUME ArenaIInv, ast_arena_free PROVE ArenaIInv'
  OBVIOUS
<1>1. PICK f : f = Freed
  OBVIOUS
<1>2. PICK last : last = Len(blocks)
  OBVIOUS
<1>3. /\ f \in 1 .. last /\ last \in Nat /\ DOMAIN blocks = 1 .. last
      /\ f = (IF block = NULL THEN 1 ELSE block)
      /\ arena = [blocks |-> 1, current |-> last]
  BY <1>1, <1>2 DEF ast_arena_free, Freed, ArenaIInv, ArenaTypeOK, Chained, FreedInTurn
<1>4. /\ blocks' = [blocks EXCEPT ![f].live = FALSE]
      /\ made' = made /\ cells' = cells
      /\ block' = IF f = last THEN NULL ELSE f + 1
      /\ arena' = IF f = last THEN [blocks |-> NULL, current |-> NULL] ELSE arena
  BY <1>1, <1>2, <1>3 DEF ast_arena_free, ArenaIInv, Chained
<1>5. blocks \in Seq(Headers) /\ \A b \in 1 .. last : blocks[b] \in Headers
  BY <1>3 DEF ArenaIInv, ArenaTypeOK
<1>6. blocks' \in Seq(Headers) /\ Len(blocks') = last /\ DOMAIN blocks' = 1 .. last
  <2>1. [blocks[f] EXCEPT !.live = FALSE] \in Headers
    BY <1>3, <1>5 DEF Headers
  <2> QED
    BY <1>2, <1>3, <1>4, <1>5, <2>1
<1>7. \A b \in 1 .. last :
        /\ blocks'[b].size = blocks[b].size /\ blocks'[b].next = blocks[b].next
        /\ blocks'[b].offset = blocks[b].offset
        /\ blocks'[b].live = IF b = f THEN FALSE ELSE blocks[b].live
  BY <1>3, <1>4, <1>5 DEF Headers
<1>8. ArenaTypeOK'
  BY <1>3, <1>4, <1>6 DEF ArenaIInv, ArenaTypeOK, Cells
<1>9. CellsApart' /\ TakenInOrder'
  <2>1. \A n \in DOMAIN made : made[n].block \in 1 .. last
    BY <1>3, CellsOfNodes
  <2> QED
    BY <1>4, <1>7, <2>1 DEF ArenaIInv, CellsApart, TakenInOrder
<1>10. Chained'
  <2>1. \A b \in DOMAIN blocks' : blocks'[b].next = IF b = Len(blocks') THEN NULL ELSE b + 1
    BY <1>2, <1>3, <1>6, <1>7 DEF ArenaIInv, Chained
  <2> QED
    BY <1>3, <1>4, <1>6, <2>1 DEF Chained
<1>11. FreedInTurn'
  <2>1. \A b \in 1 .. last : blocks[b].live <=> f <= b
    BY <1>3 DEF ArenaIInv, FreedInTurn
  <2>2. ASSUME NEW b \in 1 .. last PROVE blocks'[b].live <=> f + 1 <= b
    <3>1. CASE b = f
      <4>1. ~blocks'[b].live
        BY <1>7, <3>1
      <4>2. ~(f + 1 <= b)
        BY <1>3, <3>1
      <4> QED
        BY <4>1, <4>2
    <3>2. CASE b # f
      <4>1. blocks'[b].live = blocks[b].live
        BY <1>7, <3>2
      <4>2. f <= b <=> f + 1 <= b
        BY <1>3, <3>2
      <4> QED
        BY <2>1, <4>1, <4>2
    <3> QED
      BY <3>1, <3>2
  <2>3. CASE f = last
    BY <1>3, <1>4, <1>6, <2>2, <2>3 DEF FreedInTurn
  <2>4. CASE f # last
    BY <1>3, <1>4, <1>6, <2>2, <2>4 DEF FreedInTurn
  <2> QED
    BY <2>3, <2>4
<1> QED
  BY <1>8, <1>9, <1>10, <1>11 DEF ArenaIInv

(* All that is ever done to the arena.                                     *)
ArenaMove ==
  \/ \E node, content : ast_arena_make(node, content) \/ Store(node, content)
  \/ ast_arena_free
  \/ UNCHANGED arenaVars

LEMMA NextIsMove == [ArenaNext]_arenaVars => ArenaMove
BY DEF ArenaNext, ArenaMove

LEMMA MoveKeeps == ArenaIInv /\ ArenaMove => ArenaIInv'
<1> SUFFICES ASSUME ArenaIInv, ArenaMove PROVE ArenaIInv'
  OBVIOUS
<1>1. ASSUME NEW node, NEW content, ast_arena_make(node, content) PROVE ArenaIInv'
  BY <1>1, MakeHereKeeps, MakeInNewBlockKeeps DEF ast_arena_make
<1>2. ASSUME NEW node, NEW content, Store(node, content) PROVE ArenaIInv'
  BY <1>2 DEF Store, ArenaIInv, ArenaTypeOK, CellsApart, Chained, FreedInTurn, TakenInOrder, Cells
<1>3. CASE ast_arena_free
  BY <1>3, FreeKeeps
<1>4. CASE UNCHANGED arenaVars
  BY <1>4 DEF arenaVars, ArenaIInv, ArenaTypeOK, CellsApart, Chained, FreedInTurn, TakenInOrder, Cells
<1> QED
  BY <1>1, <1>2, <1>3, <1>4 DEF ArenaMove

LEMMA NewIInv == ast_arena_new => ArenaIInv
<1> SUFFICES ASSUME ast_arena_new PROVE ArenaIInv
  OBVIOUS
<1>1. _block_new(ARENA_INIT) \in Headers
  BY ArenaAssumption DEF _block_new, Headers
<1>2. blocks \in Seq(Headers) /\ Len(blocks) = 1 /\ DOMAIN blocks = {1}
      /\ blocks[1] = _block_new(ARENA_INIT)
  BY <1>1 DEF ast_arena_new
<1>3. DOMAIN made = {} /\ DOMAIN cells = {}
  BY DEF ast_arena_new
<1> QED
  BY <1>2, <1>3 DEF ast_arena_new, _block_new, Headers, ArenaIInv, ArenaTypeOK, CellsApart,
     Chained, FreedInTurn, TakenInOrder, Cells

(* ArenaIInv holds in every state: no cell is handed out twice or lies     *)
(* outside its block (ast_arena_make), and every block is freed once       *)
(* (_block_free).                                                          *)
THEOREM ArenaIsSafe == ArenaSpec => []ArenaIInv
<1>1. ArenaIInv /\ [ArenaNext]_arenaVars => ArenaIInv'
  BY NextIsMove, MoveKeeps
<1> QED
  BY <1>1, NewIInv, PTL DEF ArenaSpec

-----------------------------------------------------------------------------
(* To the caller each step is a step of the store of nodes.                *)
LEMMA MakesNewCell ==
  ASSUME ArenaIInv, NEW node, NEW content, ast_arena_make(node, content)
  PROVE  \E cell : Take(node, cell, content) /\ \A n \in DOMAIN made : made[n] # cell
<1>0. Open
  BY DEF ast_arena_make, MakeHere, MakeInNewBlock
<1>1. CASE MakeHere(node, content)
  <2>1. PICK cell :
          /\ Take(node, cell, content)
          /\ cell.block = arena.current /\ cell.index = blocks[arena.current].offset
    BY <1>1 DEF MakeHere
  <2>2. \A n \in DOMAIN made : made[n] # cell
    BY <1>0, <2>1, CellsOfNodes, HeaderFields, CurrentIsLast
  <2> QED
    BY <2>1, <2>2
<1>2. CASE MakeInNewBlock(node, content)
  <2>1. PICK cell : Take(node, cell, content) /\ cell.block = Len(blocks) + 1
    BY <1>2 DEF MakeInNewBlock
  <2>2. Len(blocks) + 1 \notin DOMAIN blocks
    BY BlockNumbers
  <2>3. \A n \in DOMAIN made : made[n] # cell
    BY <2>1, <2>2, CellsOfNodes
  <2> QED
    BY <2>1, <2>3
<1> QED
  BY <1>1, <1>2 DEF ast_arena_make

LEMMA MakeIsNew ==
  ASSUME ArenaIInv, NEW node, NEW content, ast_arena_make(node, content)
  PROVE  node \in DOMAIN Contents' /\ Abstract!New(node)
<1>1. Open /\ node \notin DOMAIN made
  BY DEF ast_arena_make, MakeHere, MakeInNewBlock
<1>2. PICK cell : Take(node, cell, content) /\ \A n \in DOMAIN made : made[n] # cell
  BY MakesNewCell
<1>3. Open'
  BY <1>1, CurrentIsLast DEF ast_arena_make, MakeHere, MakeInNewBlock, Open
<1>4. Contents = [n \in DOMAIN made |-> cells[made[n]]]
      /\ Contents' = [n \in DOMAIN made' |-> cells'[made'[n]]]
  BY <1>1, <1>3 DEF Contents
<1>5. DOMAIN made' = DOMAIN made \cup {node} /\ \A n \in DOMAIN made : made'[n] = made[n]
  BY <1>1, <1>2, TakeExtends
<1>6. \A n \in DOMAIN made : cells'[made[n]] = cells[made[n]]
  <2>1. \A p \in DOMAIN cells : p # cell => cells'[p] = cells[p]
    BY <1>2, TakeExtends
  <2>2. \A n \in DOMAIN made : made[n] \in DOMAIN cells
    BY CellsOfNodes
  <2> QED
    BY <1>2, <2>1, <2>2
<1> QED
  BY <1>1, <1>3, <1>4, <1>5, <1>6 DEF Abstract!New

LEMMA StoreIsSet ==
  ASSUME ArenaIInv, NEW node, NEW content, Store(node, content)
  PROVE  node \in DOMAIN Contents /\ Abstract!Set(node)
<1>1. Open /\ Open' /\ node \in DOMAIN made /\ made' = made
  BY DEF Store, Open
<1>2. Contents = [n \in DOMAIN made |-> cells[made[n]]]
      /\ Contents' = [n \in DOMAIN made |-> cells'[made[n]]]
  BY <1>1 DEF Contents
<1>3. \A n \in DOMAIN made \ {node} : cells'[made[n]] = cells[made[n]]
  BY <1>1 DEF Store, ArenaIInv, CellsApart
<1> QED
  BY <1>1, <1>2, <1>3 DEF Abstract!Set

LEMMA FreeIsClose ==
  ASSUME ArenaIInv, ast_arena_free
  PROVE  Abstract!Close \/ UNCHANGED Abstract!storeVars
<1>1. ~Open'
  BY FreeKeeps DEF ast_arena_free, Open, ArenaIInv, ArenaTypeOK, Chained, Freed
<1>2. Contents' = <<>> /\ DOMAIN Contents' = {}
  BY <1>1 DEF Contents
<1>3. CASE Open
  BY <1>1, <1>2, <1>3 DEF Abstract!Close
<1>4. CASE ~Open
  <2>1. Contents = <<>>
    BY <1>4 DEF Contents
  <2>2. Contents' = Contents
    BY <1>2, <2>1
  <2>3. Open' = Open
    BY <1>1, <1>4 DEF Open
  <2> QED
    BY <2>2, <2>3 DEF Abstract!storeVars
<1> QED
  BY <1>3, <1>4

LEMMA MoveIsStoreStep ==
  ArenaIInv /\ ArenaMove => [Abstract!StoreNext]_(Abstract!storeVars)
<1> SUFFICES ASSUME ArenaIInv, ArenaMove
             PROVE  Abstract!StoreNext \/ UNCHANGED Abstract!storeVars
  OBVIOUS
<1>1. ASSUME NEW node, NEW content, ast_arena_make(node, content) PROVE Abstract!StoreNext
  BY <1>1, MakeIsNew DEF Abstract!StoreNext
<1>2. ASSUME NEW node, NEW content, Store(node, content) PROVE Abstract!StoreNext
  BY <1>2, StoreIsSet DEF Abstract!StoreNext
<1>3. ASSUME ast_arena_free PROVE Abstract!StoreNext \/ UNCHANGED Abstract!storeVars
  BY <1>3, FreeIsClose DEF Abstract!StoreNext
<1>4. CASE UNCHANGED arenaVars
  BY <1>4 DEF arenaVars, Abstract!storeVars, Contents, Open
<1> QED
  BY <1>1, <1>2, <1>3, <1>4 DEF ArenaMove

LEMMA NewIsStoreInit == ast_arena_new => Abstract!StoreInit
BY DEF ast_arena_new, Abstract!StoreInit, Contents, Open

(* A caller of ast_arena_make gets a new node every time, which nobody     *)
(* else writes to, until ast_arena_free takes all of them back.            *)
THEOREM ArenaIsNodeStore == ArenaSpec => ImplementsNodeStore
<1>1. ArenaIInv /\ [ArenaNext]_arenaVars => [Abstract!StoreNext]_(Abstract!storeVars)
  BY NextIsMove, MoveIsStoreStep
<1> QED
  BY <1>1, ArenaIsSafe, NewIsStoreInit, PTL
  DEF ArenaSpec, ImplementsNodeStore, Abstract!StoreSpec

(* The arena of the program is worked on by its own operations only.       *)
LEMMA StepIsMove == [Next]_vars => ArenaMove
<1> SUFFICES ASSUME [Next]_vars PROVE ArenaMove
  OBVIOUS
<1>1. CASE Parse
  <2>1. \E node, content : ast_arena_make(node, content) \/ Store(node, content) \/ UNCHANGED arenaVars
    BY <1>1 DEF Parse, ParserStep
  <2> QED
    BY <2>1 DEF ArenaMove
<1>2. CASE Free
  BY <1>2 DEF Free, ArenaMove
<1>3. ASSUME Scan \/ parser_init \/ chunk_write_from_ast \/ Run \/ Ended \/ UNCHANGED vars
      PROVE  UNCHANGED arenaVars
  BY <1>3 DEF Scan, parser_init, chunk_write_from_ast, Run, Ended, vars
<1> QED
  BY <1>1, <1>2, <1>3 DEF Next, Step, ArenaMove

(* So all of this is true of the program, parser and compiler included.    *)
THEOREM ProgramKeepsArena == Spec => []ArenaIInv
<1>1. Init => ArenaIInv
  BY NewIInv DEF Init
<1>2. ArenaIInv /\ [Next]_vars => ArenaIInv'
  BY StepIsMove, MoveKeeps
<1> QED
  BY <1>1, <1>2, PTL DEF Spec

(* What the parser does to its nodes (ast_arena_make, and the stores       *)
(* through the pointers it was given) is what a store of nodes allows.     *)
THEOREM ProgramHasNodeStore == Spec => ImplementsNodeStore
<1>1. Init => Abstract!StoreInit
  BY NewIsStoreInit DEF Init
<1>2. ArenaIInv /\ [Next]_vars => [Abstract!StoreNext]_(Abstract!storeVars)
  BY StepIsMove, MoveIsStoreStep
<1> QED
  BY <1>1, <1>2, ProgramKeepsArena, PTL DEF Spec, ImplementsNodeStore, Abstract!StoreSpec

-----------------------------------------------------------------------------
(* The scanner.                                                            *)

(* The least number of a set, by the well-ordering of the naturals.        *)
LEMMA MinIsLeast ==
  ASSUME NEW S \in SUBSET Nat, S # {}
  PROVE  Min(S) \in S /\ \A x \in S : Min(S) <= x
<1> DEFINE R == OpToRel(<, Nat)
<1>1. IsWellFoundedOn(R, Nat)
  BY NatLessThanWellFounded
<1>2. \A m, p \in Nat : m < p => <<m, p>> \in R
  BY DEF OpToRel
<1> HIDE DEF R
<1>3. PICK p \in S : \A m \in S : ~(<<m, p>> \in R)
  BY <1>1, WFMin
<1>4. \A x \in S : p <= x
  <2> SUFFICES ASSUME NEW x \in S PROVE p <= x
    OBVIOUS
  <2>1. x \in Nat /\ p \in Nat /\ ~(x < p)
    BY <1>2, <1>3
  <2> QED
    BY <2>1
<1>5. \E m \in S : \A x \in S : m <= x
  BY <1>3, <1>4
<1> QED
  BY Zenon, <1>5 DEF Min

(* A text is a sequence of characters.                                     *)
LEMMA TextIsSequence ==
  ASSUME NEW t \in Texts
  PROVE  Len(t) \in Nat /\ \E S : t \in Seq(S) /\ NUL \notin S
<1>1. PICK S : S = Range(t) \ {NUL}
  OBVIOUS
<1>2. t \in Seq(S)
  BY <1>1, TextsAssumption
<1>3. NUL \notin S
  BY <1>1
<1> QED
  BY <1>2, <1>3

(* Just the characters of the text are not the terminating NUL.            *)
LEMMA OnlyBehindIsNul ==
  ASSUME text \in Texts, NEW i \in Nat \ {0}
  PROVE  Len(text) \in Nat /\ (Char(i) # NUL <=> i <= Len(text))
<1>1. PICK S : text \in Seq(S) /\ NUL \notin S
  BY TextIsSequence
<1>2. Len(text) \in Nat /\ \A k \in 1 .. Len(text) : text[k] \in S
  BY <1>1
<1>3. CASE i <= Len(text)
  BY <1>1, <1>2, <1>3 DEF Char
<1>4. CASE ~(i <= Len(text))
  BY <1>2, <1>4 DEF Char
<1> QED
  BY <1>3, <1>4

LEMMA AfterStops ==
  ASSUME text \in Texts, NEW i \in 1 .. Len(text) + 1, NEW set, NUL \notin set
  PROVE  /\ After(i, set) \in i .. Len(text) + 1 /\ Char(After(i, set)) \notin set
         /\ \A j \in i .. After(i, set) - 1 : Char(j) \in set
<1>1. PICK stops : stops = {j \in i .. Len(text) + 1 : Char(j) \notin set}
  OBVIOUS
<1>2. Len(text) \in Nat /\ stops \in SUBSET Nat
  BY <1>1, OnlyBehindIsNul
<1>3. Len(text) + 1 \in stops
  BY <1>1, <1>2, OnlyBehindIsNul
<1>4. PICK a : a = Min(stops)
  OBVIOUS
<1>5. a \in stops /\ \A x \in stops : a <= x
  BY <1>2, <1>3, <1>4, MinIsLeast
<1>6. ASSUME NEW j \in i .. a - 1 PROVE Char(j) \in set
  <2>1. j \notin stops /\ j \in i .. Len(text) + 1
    BY <1>1, <1>2, <1>5, <1>6
  <2> QED
    BY <1>1, <2>1
<1>7. a = After(i, set)
  BY <1>1, <1>4 DEF After
<1> QED
  BY <1>1, <1>5, <1>6, <1>7

LEMMA FindStops ==
  ASSUME text \in Texts, NEW i \in 1 .. Len(text) + 1, NEW char
  PROVE  /\ Find(i, char) \in i .. Len(text) + 1
         /\ Char(Find(i, char)) \in {char, NUL}
         /\ \A j \in i .. Find(i, char) - 1 : Char(j) # char
<1>1. PICK stops : stops = {j \in i .. Len(text) + 1 : Char(j) \in {char, NUL}}
  OBVIOUS
<1>2. Len(text) \in Nat /\ stops \in SUBSET Nat
  BY <1>1, OnlyBehindIsNul
<1>3. Len(text) + 1 \in stops
  BY <1>1, <1>2, OnlyBehindIsNul
<1>4. PICK f : f = Min(stops)
  OBVIOUS
<1>5. f \in stops /\ \A x \in stops : f <= x
  BY <1>2, <1>3, <1>4, MinIsLeast
<1>6. f = Find(i, char)
  BY <1>1, <1>4 DEF Find
<1>7. ASSUME NEW j \in i .. f - 1 PROVE Char(j) # char
  <2>1. j \notin stops /\ j \in i .. Len(text) + 1
    BY <1>1, <1>2, <1>5, <1>7
  <2> QED
    BY <1>1, <2>1
<1> QED
  BY <1>1, <1>5, <1>6, <1>7

(* A word is a keyword or an identifier, never another lexeme.             *)
LEMMA WordsAreWords == \A word : KindOfWord(_make_identifier_kind(word)) = "SP_IDENT"
<1> DEFINE Others == LexemeKinds \cup {"SP_EOF", "SP_ERROR"}
<1>1. \A row \in KeywordsAE : row[3] \notin Others
  BY DEF KeywordsAE, LexemeKinds, Punctuation
<1>2. \A row \in KeywordsFO : row[3] \notin Others
  BY DEF KeywordsFO, LexemeKinds, Punctuation
<1>3. \A row \in KeywordsPW : row[3] \notin Others
  BY DEF KeywordsPW, LexemeKinds, Punctuation
<1> HIDE DEF Others
<1>4. \A word : _make_identifier_kind(word) \notin Others \/ _make_identifier_kind(word) = "SP_IDENT"
  <2> SUFFICES ASSUME NEW word
               PROVE  _make_identifier_kind(word) \notin Others \/ _make_identifier_kind(word) = "SP_IDENT"
    OBVIOUS
  <2> DEFINE reached == {row \in KeywordsAE \cup KeywordsFO \cup KeywordsPW :
                           Begins(word, row[1]) /\ Len(row[1]) <= Length(word)}
             found == {row \in reached : /\ \A other \in reached : Len(other[1]) <= Len(row[1])
                                         /\ _check_keyword(word, row)}
  <2>1. /\ found \subseteq KeywordsAE \cup KeywordsFO \cup KeywordsPW
        /\ _make_identifier_kind(word) = IF found = {} THEN "SP_IDENT" ELSE (CHOOSE row \in found : TRUE)[3]
    BY DEF _make_identifier_kind
  <2> HIDE DEF found
  <2>2. CASE found = {}
    BY <2>1, <2>2
  <2>3. CASE found # {}
    <3>1. (CHOOSE row \in found : TRUE) \in found
      BY <2>3
    <3> QED
      BY <1>1, <1>2, <1>3, <2>1, <2>3, <3>1
  <2> QED
    BY <2>2, <2>3
<1> QED
  BY <1>4 DEF KindOfWord, Others

(* Only the end of the file has its kind.                                  *)
LEMMA WordsAreNotTheEnd == \A word : _make_identifier_kind(word) # "SP_EOF"
BY WordsAreWords DEF KindOfWord

LEMMA OperatorsAreNotTheEnd == \A kind \in DOMAIN Punctuation : kind # "SP_EOF"
BY DEF Punctuation

LEMMA NulIsNoCharacter ==
  /\ "\n" # NUL /\ "." # NUL /\ "\"" # NUL /\ "'" # NUL /\ "/" # NUL /\ "_" # NUL
  /\ NUL \notin Blanks
BY Zenon DEF NUL, Blanks

LEMMA ClassesHaveNoEnd == NUL \notin Digits /\ NUL \notin Alphas
BY Zenon DEF NUL, Digits, Alphas

LEMMA SlashIsNoNewline == "/" # "\n" /\ "\n" \notin Blanks
BY Zenon DEF Blanks

-----------------------------------------------------------------------------
(* The scanner's invariant: between the last token and the next character  *)
(* nothing but blanks and comments was passed, and the line is that of the *)
(* next character.                                                         *)
ScannerIInv ==
  /\ text \in Texts /\ current \in 1 .. Len(text) + 1
  /\ \E S : tokens \in Seq(S)
  /\ \A n \in DOMAIN tokens : tokens[n].last \in Nat
  /\ Behind(Len(tokens)) <= current /\ Skipped(Behind(Len(tokens)), current - 1)
  /\ line = 1 + NewLines(1, current - 1)
  /\ NothingIsLost /\ LinesOfTokens

(* What is passed over keeps the invariant, if it is blank.                *)
LEMMA SkipKeeps ==
  ASSUME ScannerIInv, NEW end \in current .. Len(text) + 1, Skip(end),
         \A j \in current .. end - 1 : Char(j) # "\n",
         \A i \in current .. end - 1 :
           \/ Char(i) \in Blanks
           \/ /\ current + 1 \in current .. end - 1
              /\ Char(current) = "/" /\ Char(current + 1) = "/"
  PROVE  ScannerIInv'
<1>1. PICK now, b : now = current /\ b = Behind(Len(tokens))
  OBVIOUS
<1>2. /\ text' = text /\ tokens' = tokens /\ line' = line /\ current' = end
      /\ now \in Nat \ {0} /\ now <= end /\ Len(text) \in Nat /\ end \in Nat /\ end \in 1 .. Len(text) + 1
  <2>1. Len(text) \in Nat
    BY TextIsSequence DEF ScannerIInv
  <2> QED
    BY <1>1, <2>1 DEF ScannerIInv, Skip
<1>3. \A i : Char(i)' = Char(i)
  BY <1>2 DEF Char
<1>4. b' = b /\ b <= now /\ b \in Nat /\ Behind(Len(tokens))' = b
  <2>1. b \in Nat
    <3>1. Len(tokens) \in Nat /\ DOMAIN tokens = 1 .. Len(tokens)
      BY DEF ScannerIInv
    <3> QED
      BY <1>1, <3>1 DEF ScannerIInv, Behind
  <2> QED
    BY <1>1, <1>2, <2>1 DEF ScannerIInv, Behind
<1>5. Skipped(b, end - 1)
  <2>1. Skipped(b, now - 1)
    BY <1>1 DEF ScannerIInv
  <2> SUFFICES ASSUME NEW i \in b .. end - 1
               PROVE  \/ Char(i) \in Blanks
                      \/ \E c \in b .. end - 1 :
                           /\ c <= i /\ c + 1 \in b .. end - 1 /\ Char(c) = "/" /\ Char(c + 1) = "/"
                           /\ \A j \in c .. i : Char(j) # "\n"
    BY DEF Skipped
  <2>2. CASE i \in b .. now - 1
    <3>1. b .. now - 1 \subseteq b .. end - 1
      BY <1>2, <1>4
    <3> QED
      BY <2>1, <2>2, <3>1 DEF Skipped
  <2>3. CASE i \in now .. end - 1
    <3>1. CASE Char(i) \in Blanks
      BY <3>1
    <3>2. CASE Char(i) \notin Blanks
      <4>1. now + 1 \in now .. end - 1 /\ Char(now) = "/" /\ Char(now + 1) = "/"
        BY <1>1, <2>3, <3>2
      <4>2. now \in b .. end - 1 /\ now <= i /\ now + 1 \in b .. end - 1
        BY <1>2, <1>4, <2>3, <4>1
      <4>3. \A j \in now .. i : Char(j) # "\n"
        BY <1>1, <1>2, <2>3
      <4> QED
        BY <4>1, <4>2, <4>3
    <3> QED
      BY <3>1, <3>2
  <2> QED
    BY <1>2, <1>4, <2>2, <2>3
<1>6. NewLines(1, end - 1) = NewLines(1, now - 1)
  <2>1. {i \in 1 .. end - 1 : Char(i) = "\n"} = {i \in 1 .. now - 1 : Char(i) = "\n"}
    BY <1>1, <1>2
  <2> QED
    BY <2>1 DEF NewLines
<1>7. Skipped(b, end - 1)' /\ NewLines(1, end - 1)' = NewLines(1, end - 1)
  BY <1>2, <1>5 DEF Skipped, NewLines, Char
<1>8. NothingIsLost' /\ LinesOfTokens'
  BY <1>2 DEF ScannerIInv, NothingIsLost, LinesOfTokens, Behind, Skipped, LineOf, Scanned, Char
<1> QED
  BY <1>1, <1>2, <1>4, <1>6, <1>7, <1>8 DEF ScannerIInv

(* The newlines of two stretches, one behind the other.                    *)
LEMMA NewLinesAdd ==
  ASSUME NEW a \in Nat \ {0}, NEW e \in Nat, a - 1 <= e
  PROVE  /\ NewLines(1, e) = NewLines(1, a - 1) + NewLines(a, e)
         /\ NewLines(1, e) \in Nat /\ NewLines(1, a - 1) \in Nat /\ NewLines(a, e) \in Nat
<1>1. PICK S, T, U : /\ S = {i \in 1 .. a - 1 : Char(i) = "\n"}
                     /\ T = {i \in a .. e : Char(i) = "\n"}
                     /\ U = {i \in 1 .. e : Char(i) = "\n"}
  OBVIOUS
<1>2. U = S \cup T /\ S \cap T = {}
  BY <1>1
<1>3. IsFiniteSet(S) /\ IsFiniteSet(T)
  <2>1. IsFiniteSet(1 .. a - 1) /\ IsFiniteSet(a .. e)
    BY FS_Interval
  <2>2. S \in SUBSET (1 .. a - 1) /\ T \in SUBSET (a .. e)
    BY <1>1
  <2> QED
    BY <2>1, <2>2, FS_Subset
<1>4. /\ Cardinality(U) = Cardinality(S) + Cardinality(T) - Cardinality({})
      /\ Cardinality({}) = 0 /\ IsFiniteSet(U)
  BY <1>2, <1>3, FS_Union, FS_EmptySet
<1>5. Cardinality(S) \in Nat /\ Cardinality(T) \in Nat /\ Cardinality(U) \in Nat
  BY <1>3, <1>4, FS_CardinalityType
<1>6. NewLines(1, e) = Cardinality(U) /\ NewLines(1, a - 1) = Cardinality(S) /\ NewLines(a, e) = Cardinality(T)
  BY <1>1 DEF NewLines
<1> QED
  BY <1>4, <1>5, <1>6

(* A token that ends within the text keeps it, if only the one at the end  *)
(* of the text is the last one.                                            *)
LEMMA TokenKeeps ==
  ASSUME ScannerIInv, NEW kind, NEW end \in current .. Len(text) + 1, Token(kind, end),
         kind = "SP_EOF" => current = Len(text) + 1
  PROVE  ScannerIInv'
<1>1. PICK now, len, old, new, b :
        /\ now = current /\ len = Len(tokens) /\ old = tokens /\ new = tokens'
        /\ b = Behind(len)
  OBVIOUS
<1>2. PICK t : /\ new = Append(old, t)
               /\ t.kind = kind /\ t.first = now /\ t.last = end - 1 /\ t.line = line'
  BY <1>1 DEF Token
<1>3. /\ len \in Nat /\ DOMAIN old = 1 .. len
      /\ Len(new) = len + 1 /\ DOMAIN new = 1 .. len + 1
      /\ new[len + 1] = t /\ \A n \in 1 .. len : new[n] = old[n]
      /\ \E S : new \in Seq(S)
  <2>1. PICK S : old \in Seq(S)
    BY <1>1 DEF ScannerIInv
  <2>2. new \in Seq(S \cup {t})
    BY <1>2, <2>1
  <2>3. len \in Nat /\ DOMAIN old = 1 .. len
    BY <1>1, <2>1
  <2>4. Len(new) = len + 1 /\ DOMAIN new = 1 .. len + 1
        /\ new[len + 1] = t /\ \A n \in 1 .. len : new[n] = old[n]
    BY <1>1, <1>2, <2>1, <2>3
  <2> QED
    BY <2>2, <2>3, <2>4
<1>4. /\ text' = text /\ current' = end /\ line' = line + NewLines(now, end - 1)
      /\ now \in Nat \ {0} /\ Len(text) \in Nat /\ end \in Nat \ {0} /\ now <= end
      /\ end \in 1 .. Len(text) + 1 /\ text \in Texts
  <2>1. Len(text) \in Nat
    BY TextIsSequence DEF ScannerIInv
  <2> QED
    BY <1>1, <2>1 DEF ScannerIInv, Token
<1>5. /\ Behind(len + 1)' = end
      /\ \A n \in 0 .. len : Behind(n)' = Behind(n)
  BY <1>1, <1>2, <1>3, <1>4 DEF Behind
<1>6. line' = 1 + NewLines(1, end - 1)
  <2>1. line = 1 + NewLines(1, now - 1)
    BY <1>1 DEF ScannerIInv
  <2>2. /\ NewLines(1, end - 1) = NewLines(1, now - 1) + NewLines(now, end - 1)
        /\ NewLines(1, end - 1) \in Nat /\ NewLines(1, now - 1) \in Nat /\ NewLines(now, end - 1) \in Nat
    BY <1>4, NewLinesAdd
  <2> QED
    BY <1>4, <2>1, <2>2
<1>7. NewLines(1, end - 1)' = NewLines(1, end - 1)
  BY <1>4 DEF NewLines, Char
<1>8. Skipped(end, end - 1)'
  BY <1>4 DEF Skipped
<1>9. \A n \in DOMAIN new : new[n].last \in Nat
  BY <1>1, <1>2, <1>3, <1>4 DEF ScannerIInv
<1>10. NothingIsLost'
  <2>1. ASSUME NEW n \in 1 .. len + 1
        PROVE  Behind(n - 1)' <= new[n].first /\ Skipped(Behind(n - 1), new[n].first - 1)'
    <3>1. PICK f : f = Behind(n - 1)
      OBVIOUS
    <3>2. Behind(n - 1)' = f
      <4>1. n - 1 \in 0 .. len
        BY <1>3, <2>1
      <4> QED
        BY <1>5, <3>1, <4>1
    <3>3. f <= new[n].first /\ Skipped(f, new[n].first - 1)
      <4>1. CASE n = len + 1
        <5>1. f = b /\ new[n].first = now
          BY <1>1, <1>2, <1>3, <3>1, <4>1
        <5>2. b <= now /\ Skipped(b, now - 1)
          BY <1>1 DEF ScannerIInv
        <5> QED
          BY <5>1, <5>2
      <4>2. CASE n # len + 1
        <5>1. n \in DOMAIN old /\ new[n] = old[n]
          BY <1>3, <2>1, <4>2
        <5> QED
          BY <1>1, <3>1, <5>1 DEF ScannerIInv, NothingIsLost
      <4> QED
        BY <4>1, <4>2
    <3>4. PICK g : g = new[n].first - 1
      OBVIOUS
    <3>5. Skipped(f, g)'
      BY <1>4, <3>3, <3>4 DEF Skipped, Char
    <3> QED
      BY <1>1, <3>2, <3>3, <3>4, <3>5 DEF Skipped
  <2>2. Scanned' => new[len + 1].last = Len(text)
    <3>1. Scanned' => t.kind = "SP_EOF"
      BY <1>1, <1>3 DEF Scanned
    <3> QED
      BY <1>1, <1>2, <1>3, <1>4, <3>1
  <2> QED
    BY <1>1, <1>3, <1>4, <2>1, <2>2 DEF NothingIsLost
<1>11. LinesOfTokens'
  <2>1. ASSUME NEW n \in 1 .. len + 1
        PROVE  new[n].line = 1 + NewLines(1, new[n].last)
    <3>1. CASE n = len + 1
      BY <1>2, <1>3, <1>6, <3>1
    <3>2. CASE n # len + 1
      <4>1. n \in DOMAIN old /\ new[n] = old[n]
        BY <1>3, <2>1, <3>2
      <4> QED
        BY <1>1, <4>1 DEF ScannerIInv, LinesOfTokens, LineOf, NewLines
    <3> QED
      BY <3>1, <3>2
  <2>2. \A n \in 1 .. len + 1 : new[n].line = 1 + Cardinality({i \in 1 .. new[n].last : Char(i)' = "\n"})
    BY <1>4, <2>1 DEF NewLines, Char
  <2> QED
    BY <1>1, <1>3, <2>2 DEF LinesOfTokens, LineOf
<1> QED
  <2>1. (Behind(Len(tokens)) <= current /\ Skipped(Behind(Len(tokens)), current - 1))'
    <3>1. Behind(Len(tokens))' = end
      BY <1>1, <1>3, <1>5
    <3> QED
      BY <1>4, <1>8, <3>1 DEF Skipped
  <2>2. (line = 1 + NewLines(1, current - 1))'
    BY <1>4, <1>6, <1>7
  <2> QED
    BY <1>1, <1>3, <1>4, <1>9, <1>10, <1>11, <2>1, <2>2 DEF ScannerIInv

(* Every case of scanner_scan_token ends its token, or what it skips,      *)
(* within the text.                                                        *)
LEMMA ScanKeeps == ScannerIInv /\ scanner_scan_token => ScannerIInv'
<1> SUFFICES ASSUME ScannerIInv, scanner_scan_token PROVE ScannerIInv'
  OBVIOUS
<1>1. PICK now, len : now = current /\ len = Len(text)
  OBVIOUS
<1>2. text \in Texts /\ len \in Nat /\ now \in 1 .. len + 1
  BY <1>1, TextIsSequence DEF ScannerIInv
<1>3. /\ \A i \in Nat \ {0} : Char(i) # NUL => i <= len
      /\ _peek = Char(now) /\ (_peek # NUL => now \in 1 .. len)
  <2>1. \A i \in Nat \ {0} : Char(i) # NUL => i <= len
    BY <1>1, <1>2, OnlyBehindIsNul
  <2> QED
    BY <1>1, <1>2, <2>1 DEF _peek
<1>4. ASSUME NEW kind, NEW end \in now .. len + 1, Token(kind, end), kind # "SP_EOF" PROVE ScannerIInv'
  BY <1>1, <1>4, TokenKeeps
<1>5. CASE SkipBlank
  <2>1. now \in 1 .. len /\ Char(now) \in Blanks /\ Skip(now + 1)
    BY <1>1, <1>3, <1>5, NulIsNoCharacter DEF SkipBlank
  <2>2. now + 1 \in now .. len + 1 /\ now .. now + 1 - 1 = {now}
    BY <1>2, <2>1
  <2>3. \A i \in now .. now + 1 - 1 : Char(i) \in Blanks /\ Char(i) # "\n"
    BY <2>1, <2>2, SlashIsNoNewline
  <2> QED
    BY <1>1, <2>1, <2>2, <2>3, SkipKeeps
<1>6. CASE SkipComment
  <2>1. PICK end : end = Find(now, "\n")
    OBVIOUS
  <2>2. Char(now) = "/" /\ _peek_next = "/" /\ Skip(end)
    BY <1>1, <1>3, <1>6, <2>1 DEF SkipComment, AtComment
  <2>3. Char(now + 1) = "/"
    BY <1>1, <1>3, <2>2, NulIsNoCharacter DEF _peek_next
  <2>4. /\ end \in now .. len + 1 /\ Char(end) \in {"\n", NUL}
        /\ \A j \in now .. end - 1 : Char(j) # "\n"
    BY <1>1, <1>2, <2>1, FindStops
  <2>5. end # now /\ end # now + 1
    BY <2>2, <2>3, <2>4, SlashIsNoNewline, NulIsNoCharacter
  <2>6. now + 1 \in now .. end - 1
    BY <1>2, <2>4, <2>5
  <2> QED
    BY <1>1, <2>2, <2>3, <2>4, <2>6, SkipKeeps
<1>7. CASE EndOfFile
  <2>1. Char(now) = NUL /\ Token("SP_EOF", now)
    BY <1>1, <1>3, <1>7 DEF EndOfFile
  <2>2. now = len + 1
    BY <1>1, <1>2, <2>1, OnlyBehindIsNul
  <2>3. now \in now .. len + 1
    BY <1>2
  <2> QED
    BY <1>1, <2>1, <2>2, <2>3, TokenKeeps
<1>8. CASE EndOfLine
  <2>1. now \in 1 .. len /\ Token("SP_EOL", now + 1)
    BY <1>1, <1>3, <1>8, NulIsNoCharacter DEF EndOfLine
  <2> QED
    BY <1>2, <1>4, <2>1
<1>9. CASE _make_identifier
  <2>1. PICK end : end = After(now, Alphas \cup Digits \cup {"_"})
    OBVIOUS
  <2>2. PICK kind : Token(kind, end) /\ kind # "SP_EOF"
    BY <1>1, <1>9, <2>1, WordsAreNotTheEnd DEF _make_identifier
  <2>3. end \in now .. len + 1
    BY <1>1, <1>2, <2>1, AfterStops, ClassesHaveNoEnd, NulIsNoCharacter
  <2> QED
    BY <1>4, <2>2, <2>3
<1>10. CASE _make_number
  <2>1. PICK point : point = After(now, Digits)
    OBVIOUS
  <2>2. point \in now .. len + 1
    BY <1>1, <1>2, <2>1, AfterStops, ClassesHaveNoEnd
  <2>3. CASE IsReal(point)
    <3>1. Token("LT_REAL", After(point + 1, Digits))
      BY <1>1, <1>10, <2>1, <2>3 DEF _make_number
    <3>2. point \in Nat \ {0} /\ point + 1 \in 1 .. len + 1
      <4>1. Char(point) # NUL
        BY Zenon, <2>3, NulIsNoCharacter DEF IsReal
      <4> QED
        BY <1>2, <1>3, <2>2, <4>1
    <3>3. After(point + 1, Digits) \in point + 1 .. len + 1
      BY <1>1, <1>2, <3>2, AfterStops, ClassesHaveNoEnd
    <3>4. After(point + 1, Digits) \in now .. len + 1
      BY <1>2, <2>2, <3>3
    <3> QED
      BY <1>4, <3>1, <3>4
  <2>4. CASE ~IsReal(point)
    BY <1>1, <1>4, <1>10, <2>1, <2>2, <2>4 DEF _make_number
  <2> QED
    BY <2>3, <2>4
<1>11. ASSUME NEW kind \in DOMAIN Punctuation, Operator(kind) PROVE ScannerIInv'
  <2>1. kind # "SP_EOF" /\ now \in 1 .. len
    BY <1>3, <1>11, OperatorsAreNotTheEnd DEF Operator
  <2>2. \/ Token(kind, now + 1)
        \/ Char(now + 1) # NUL /\ Token(kind, now + 2)
    BY <1>1, <1>11 DEF Operator
  <2>3. Char(now + 1) # NUL => now + 2 \in now .. len + 1
    BY <1>2, <1>3
  <2>4. now + 1 \in now .. len + 1
    BY <1>2, <2>1
  <2> QED
    BY <1>4, <2>1, <2>2, <2>3, <2>4
(* A quote that was found is a character of the text.                      *)
<1>12. ASSUME NEW char, char # NUL, now \in 1 .. len
       PROVE  /\ Find(now + 1, char) \in now .. len + 1
              /\ Char(Find(now + 1, char)) # NUL => Find(now + 1, char) + 1 \in now .. len + 1
  <2>1. now + 1 \in 1 .. len + 1
    BY <1>2, <1>12
  <2>2. PICK f : f = Find(now + 1, char)
    OBVIOUS
  <2>3. f \in now + 1 .. len + 1
    BY <1>1, <1>2, <2>1, <2>2, FindStops
  <2>4. f \in Nat \ {0} /\ f \in now .. len + 1
    BY <1>2, <2>3
  <2>5. Char(f) # NUL => f + 1 \in now .. len + 1
    BY <1>2, <1>3, <2>4
  <2> QED
    BY <2>2, <2>4, <2>5
<1>13. CASE _make_string
  <2>1. PICK quote : quote = Find(now + 1, "\"")
    OBVIOUS
  <2>2. now \in 1 .. len
    BY <1>3, <1>13, NulIsNoCharacter DEF _make_string
  <2>3. quote \in now .. len + 1 /\ (Char(quote) # NUL => quote + 1 \in now .. len + 1)
    BY <1>12, <2>1, <2>2, NulIsNoCharacter
  <2>4. \/ Token("SP_ERROR", quote)
        \/ Char(quote) # NUL /\ Token("LT_STRING", quote + 1)
    BY <1>1, <1>13, <2>1 DEF _make_string
  <2> QED
    BY <1>4, <2>3, <2>4
<1>14. CASE make_char
  <2>1. PICK quote : quote = Find(now + 1, "'")
    OBVIOUS
  <2>2. now \in 1 .. len
    BY <1>3, <1>14, NulIsNoCharacter DEF make_char
  <2>3. quote \in now .. len + 1 /\ (Char(quote) # NUL => quote + 1 \in now .. len + 1)
    BY <1>12, <2>1, <2>2, NulIsNoCharacter
  <2>4. \/ Token("SP_ERROR", quote)
        \/ Char(quote) # NUL /\ Token("SP_ERROR", quote + 1)
        \/ Char(quote) # NUL /\ Token("LT_CHAR", quote + 1)
    BY <1>1, <1>14, <2>1 DEF make_char
  <2> QED
    BY <1>4, <2>3, <2>4
<1>15. CASE Unexpected
  <2>1. now \in 1 .. len /\ Token("SP_ERROR", now + 1)
    BY <1>1, <1>3, <1>15 DEF Unexpected
  <2> QED
    BY <1>2, <1>4, <2>1
<1> QED
  BY <1>5, <1>6, <1>7, <1>8, <1>9, <1>10, <1>11, <1>13, <1>14, <1>15 DEF scanner_scan_token

LEMMA ScannerStarts == ScannerInit => ScannerIInv
<1> SUFFICES ASSUME ScannerInit PROVE ScannerIInv
  OBVIOUS
<1>1. /\ text \in Texts /\ Len(text) \in Nat /\ current = 1 /\ line = 1 /\ tokens = <<>>
      /\ DOMAIN tokens = {} /\ Len(tokens) = 0
  BY TextIsSequence DEF ScannerInit
<1>2. tokens \in Seq({})
  BY <1>1
<1>3. Behind(Len(tokens)) = 1
  BY <1>1 DEF Behind
<1>4. NewLines(1, current - 1) = 0
  <2>1. {i \in 1 .. 0 : Char(i) = "\n"} = {}
    OBVIOUS
  <2>2. current - 1 = 0
    BY <1>1
  <2> QED
    BY <2>1, <2>2, FS_EmptySet DEF NewLines
<1>5. Skipped(1, current - 1)
  BY <1>1 DEF Skipped
<1> QED
  BY <1>1, <1>2, <1>3, <1>4, <1>5 DEF ScannerIInv, NothingIsLost, LinesOfTokens, Scanned

LEMMA ScannerRests == ScannerIInv /\ UNCHANGED scannerVars => ScannerIInv'
BY DEF ScannerIInv, scannerVars, NothingIsLost, LinesOfTokens, Scanned, Behind, Skipped, LineOf, NewLines, Char

LEMMA ScannerInvariant == Spec => []ScannerIInv
<1>1. Init => ScannerIInv
  BY ScannerStarts DEF Init
<1>2. ScannerIInv /\ [Next]_vars => ScannerIInv'
  <2> SUFFICES ASSUME ScannerIInv, [Next]_vars PROVE ScannerIInv'
    OBVIOUS
  <2>1. scanner_scan_token \/ UNCHANGED scannerVars
    BY DEF Next, Step, Ended, Scan, interpret, parser_init, Parse, chunk_write_from_ast, Run, Free, vars
  <2> QED
    BY <2>1, ScanKeeps, ScannerRests
<1> QED
  BY <1>1, <1>2, PTL DEF Spec

(* The tokens of a text are the text, in its order and with nothing left   *)
(* out but blanks and comments (scanner_scan_token, _skip_whitespace).     *)
THEOREM TokensAreTheText == Spec => []NothingIsLost
<1>1. ScannerIInv => NothingIsLost
  BY DEF ScannerIInv
<1> QED
  BY <1>1, ScannerInvariant, PTL

(* Every token has the line it ends on, wherever the scanner counted its   *)
(* newlines (the three places of scanner->line++).                         *)
THEOREM TokensHaveTheirLines == Spec => []LinesOfTokens
<1>1. ScannerIInv => LinesOfTokens
  BY DEF ScannerIInv
<1> QED
  BY <1>1, ScannerInvariant, PTL

-----------------------------------------------------------------------------
(* The tokens are the longest lexemes.                                     *)

(* The characters that are operators; each operator begins with one.       *)
Openers == {"-", "*", "/", "+", "<", "=", ">", "^", "&", ":", ",", "(", ")", "[", "]", "."}

(* The characters a word begins with.                                      *)
Letters == Alphas \cup {"_"}

(* A character begins at most one sort of lexeme.                          *)
LEMMA LettersApart == \A c \in Letters : c \notin Digits /\ c \notin Openers /\ c \notin {"\"", "'", "\n"}
<1>1. \A c \in Alphas : c \notin Digits
  BY DEF Digits, Alphas
<1>2. \A c \in Openers : c \notin Alphas
  BY ZenonT(60) DEF Openers, Alphas
<1>3. \A c \in Alphas : c \notin {"\"", "'", "\n"}
  BY Zenon DEF Alphas
<1>4. "_" \notin Digits /\ "_" \notin Openers /\ "_" \notin {"\"", "'", "\n"}
  BY Zenon DEF Digits, Openers
<1> QED
  BY Zenon, <1>1, <1>2, <1>3, <1>4 DEF Letters

LEMMA DigitsApart == \A c \in Digits : c \notin Openers /\ c \notin {"\"", "'", "\n"}
<1>1. \A c \in Openers : c \notin Digits
  BY Zenon DEF Openers, Digits
<1>2. \A c \in Digits : c \notin {"\"", "'", "\n"}
  BY Zenon DEF Digits
<1> QED
  BY Zenon, <1>1, <1>2

LEMMA OpenersApart ==
  /\ \A c \in Openers : c \notin {"\"", "'", "\n"}
  /\ "\"" # "'" /\ "\"" # "\n" /\ "'" # "\n" /\ "." \in Openers
BY Zenon DEF Openers

(* What is read of a record is one of its fields.                          *)
LEMMA TwentyFields ==
  ASSUME NEW v1, NEW v2, NEW v3, NEW v4, NEW v5, NEW v6, NEW v7, NEW v8, NEW v9, NEW v10,
         NEW v11, NEW v12, NEW v13, NEW v14, NEW v15, NEW v16, NEW v17, NEW v18, NEW v19, NEW v20, NEW r,
         r = [OP_SUBTRACTION |-> v1, OP_MULTIPLICATION |-> v2, OP_DIVISION |-> v3,
              OP_ADDITION |-> v4, OP_LESS_THAN |-> v5, OP_ASSIGN |-> v6,
              OP_LESS_OR_EQUAL_TO |-> v7, OP_NOT_EQUAL_TO |-> v8, OP_EQUAL_TO |-> v9,
              OP_GREATER_THAN |-> v10, OP_GREATER_OR_EQUAL_TO |-> v11, OP_CARET |-> v12,
              OP_CONCAT |-> v13, OP_COLON |-> v14, OP_COMMA |-> v15, OP_PAREN_OPEN |-> v16,
              OP_PAREN_CLOSE |-> v17, OP_BRACKET_OPEN |-> v18, OP_BRACKET_CLOSE |-> v19,
              OP_DOT |-> v20],
         NEW k \in DOMAIN r
  PROVE  r[k] \in {v1, v2, v3, v4, v5, v6, v7, v8, v9, v10, v11, v12, v13, v14, v15, v16, v17, v18, v19, v20}
OBVIOUS

LEMMA OperatorsBegin ==
  /\ \A k \in DOMAIN Punctuation : \E c \in Openers : \/ Punctuation[k] = <<c>>
                                                      \/ \E d : Punctuation[k] = <<c, d>>
  /\ \A c \in Openers : <<c>> \in Range(Punctuation)
<1> DEFINE Spellings == {<<"-">>, <<"*">>, <<"/">>, <<"+">>, <<"<">>, <<"<", "-">>, <<"<", "=">>, <<"<", ">">>,
                         <<"=">>, <<">">>, <<">", "=">>, <<"^">>, <<"&">>, <<":">>, <<",">>, <<"(">>, <<")">>,
                         <<"[">>, <<"]">>, <<".">>}
<1>1. \A k \in DOMAIN Punctuation : Punctuation[k] \in Spellings
  BY TwentyFields, Zenon DEF Punctuation
<1>2. \A s \in Spellings : (\E c \in Openers : s = <<c>>) \/ (\E c \in Openers : \E d : s = <<c, d>>)
  BY Zenon DEF Openers
<1>3. \A c \in Openers : <<c>> \in Range(Punctuation)
  BY Zenon DEF Openers, Range, Punctuation
<1> HIDE DEF Spellings
<1> QED
  BY Zenon, <1>1, <1>2, <1>3

LEMMA KindsApart ==
  \A k \in DOMAIN Punctuation :
    k \notin {"SP_IDENT", "LT_INTEGER", "LT_REAL", "LT_STRING", "LT_CHAR", "SP_EOL", "SP_EOF", "SP_ERROR"}
BY DEF Punctuation

LEMMA LexemeIs ==
  ASSUME NEW i, NEW j
  PROVE  /\ Lexeme("SP_IDENT", i, j) <=>
              AllIn(i, i, Letters) /\ AllIn(i, j, Alphas \cup Digits \cup {"_"})
         /\ Lexeme("LT_INTEGER", i, j) <=> AllIn(i, j, Digits)
         /\ Lexeme("LT_REAL", i, j) <=>
              \E p \in i + 1 .. j - 1 : Char(p) = "." /\ AllIn(i, p - 1, Digits) /\ AllIn(p + 1, j, Digits)
         /\ Lexeme("LT_STRING", i, j) <=> Quoted("\"", i, j)
         /\ Lexeme("LT_CHAR", i, j) <=> Quoted("'", i, j) /\ j - i \in {2, 3}
         /\ Lexeme("SP_EOL", i, j) <=> i = j /\ Char(i) = "\n"
<1>1. Lexeme("SP_IDENT", i, j) <=> AllIn(i, i, Letters) /\ AllIn(i, j, Alphas \cup Digits \cup {"_"})
  BY Zenon DEF Lexeme, Letters
<1>2. Lexeme("LT_INTEGER", i, j) <=> AllIn(i, j, Digits)
  BY Zenon DEF Lexeme
<1>3. Lexeme("LT_REAL", i, j) <=>
        \E p \in i + 1 .. j - 1 : Char(p) = "." /\ AllIn(i, p - 1, Digits) /\ AllIn(p + 1, j, Digits)
  BY Zenon DEF Lexeme
<1>4. Lexeme("LT_STRING", i, j) <=> Quoted("\"", i, j)
  BY Zenon DEF Lexeme
<1>5. Lexeme("LT_CHAR", i, j) <=> Quoted("'", i, j) /\ j - i \in {2, 3}
  BY Zenon DEF Lexeme
<1>6. Lexeme("SP_EOL", i, j) <=> i = j /\ Char(i) = "\n"
  BY Zenon DEF Lexeme
<1> QED
  BY Zenon, <1>1, <1>2, <1>3, <1>4, <1>5, <1>6

LEMMA OperatorLexemeIs ==
  ASSUME NEW i, NEW j, NEW k \in DOMAIN Punctuation
  PROVE  Lexeme(k, i, j) <=> SubSeq(text, i, j) = Punctuation[k]
BY Zenon, KindsApart DEF Lexeme

(* A run of characters ends where After says.                              *)
LEMMA RunIsLongest ==
  ASSUME text \in Texts, NEW i \in 1 .. Len(text), NEW set, NUL \notin set, Char(i) \in set,
         NEW e, e = After(i, set)
  PROVE  /\ e \in i + 1 .. Len(text) + 1 /\ e - 1 \in i .. Len(text)
         /\ AllIn(i, e - 1, set) /\ Char(e) \notin set
         /\ \A j \in i .. Len(text) : AllIn(i, j, set) => j <= e - 1
<1>1. Len(text) \in Nat /\ i \in 1 .. Len(text) + 1
  BY OnlyBehindIsNul
<1>2. e \in i .. Len(text) + 1 /\ Char(e) \notin set /\ \A j \in i .. e - 1 : Char(j) \in set
  BY <1>1, AfterStops
<1>3. e # i
  BY <1>2
<1>4. ASSUME NEW j \in i .. Len(text), AllIn(i, j, set) PROVE j <= e - 1
  <2>1. e \notin i .. j
    BY <1>2, <1>4 DEF AllIn
  <2> QED
    BY <1>1, <1>2, <2>1
<1> QED
  BY <1>1, <1>2, <1>3, <1>4 DEF AllIn

(* What is quoted ends at the next quote.                                  *)
LEMMA QuoteIsNext ==
  ASSUME text \in Texts, NEW i \in 1 .. Len(text), NEW q, q # NUL, Char(i) = q, NEW f, f = Find(i + 1, q)
  PROVE  /\ Char(f) = NUL => \A j \in i .. Len(text) : ~Quoted(q, i, j)
         /\ Char(f) # NUL => /\ f \in i + 1 .. Len(text) /\ Quoted(q, i, f)
                             /\ \A j \in i .. Len(text) : Quoted(q, i, j) => j = f
<1>1. Len(text) \in Nat /\ i + 1 \in 1 .. Len(text) + 1
  BY OnlyBehindIsNul
<1>2. f \in i + 1 .. Len(text) + 1 /\ Char(f) \in {q, NUL} /\ \A j \in i + 1 .. f - 1 : Char(j) # q
  BY <1>1, FindStops
<1>3. f \in Nat \ {0} /\ (Char(f) # NUL <=> f <= Len(text))
  BY <1>1, <1>2, OnlyBehindIsNul
<1>4. ASSUME NEW j \in i .. Len(text), Quoted(q, i, j) PROVE j = f
  <2>1. j \in i + 1 .. Len(text) /\ Char(j) = q /\ \A k \in i + 1 .. j - 1 : Char(k) # q
    BY <1>1, <1>4 DEF Quoted
  <2>2. ~(j < f)
    BY <1>1, <1>2, <2>1
  <2>3. ~(f < j)
    BY <1>1, <1>2, <1>3, <2>1
  <2> QED
    BY <1>1, <1>2, <2>1, <2>2, <2>3
<1>5. CASE Char(f) = NUL
  <2>1. ~(f <= Len(text))
    BY <1>3, <1>5
  <2> QED
    BY <1>1, <1>3, <1>4, <1>5, <2>1
<1>6. CASE Char(f) # NUL
  BY <1>1, <1>2, <1>3, <1>4, <1>6 DEF Quoted
<1> QED
  BY <1>5, <1>6

(* An operator is a character, or that and the next one.                   *)
LEMMA OperatorIs ==
  ASSUME text \in Texts, NEW i \in 1 .. Len(text), NEW j \in i .. Len(text), NEW k \in DOMAIN Punctuation,
         SubSeq(text, i, j) = Punctuation[k]
  PROVE  Char(i) \in Openers /\ (j = i \/ (j = i + 1 /\ Punctuation[k] = <<Char(i), Char(i + 1)>>))
<1>1. PICK S : text \in Seq(S)
  BY TextIsSequence
<1>2. PICK x : x = SubSeq(text, i, j)
  OBVIOUS
<1>3. /\ Len(x) = j - i + 1 /\ x[1] = text[i] /\ (j = i + 1 => x[2] = text[i + 1])
      /\ Len(text) \in Nat /\ i \in Nat /\ j \in Nat /\ i <= j /\ j <= Len(text)
  BY <1>1, <1>2
<1>4. Char(i) = text[i] /\ (j = i + 1 => Char(i + 1) = text[i + 1])
  BY <1>3 DEF Char
<1>8. PICK len : len = Len(x) /\ len = j - i + 1 /\ i \in Nat /\ j \in Nat
  BY <1>3
<1>5. PICK c \in Openers : x = <<c>> \/ \E d : x = <<c, d>>
  BY <1>2, OperatorsBegin
<1>6. CASE x = <<c>>
  <2>1. Len(x) = 1 /\ x[1] = c
    BY <1>6
  <2>3. len = 1
    BY <1>8, <2>1
  <2>2. j = i
    BY <1>8, <2>3
  <2> QED
    BY <1>3, <1>4, <1>5, <2>1, <2>2
<1>7. ASSUME NEW d, x = <<c, d>>
      PROVE  Char(i) \in Openers /\ j = i + 1 /\ x = <<Char(i), Char(i + 1)>>
  <2>1. Len(x) = 2 /\ x[1] = c /\ x[2] = d
    BY <1>7
  <2>3. len = 2
    BY <1>8, <2>1
  <2>2. j = i + 1
    BY <1>8, <2>3
  <2> QED
    BY <1>3, <1>4, <1>5, <1>7, <2>1, <2>2
<1> QED
  BY <1>2, <1>5, <1>6, <1>7

(* The first character of a lexeme tells its sort.                         *)
LEMMA LexemeStarts ==
  ASSUME text \in Texts, NEW i \in 1 .. Len(text), NEW j \in i .. Len(text), NEW k \in LexemeKinds,
         Lexeme(k, i, j)
  PROVE  \/ k = "SP_IDENT" /\ Char(i) \in Letters
         \/ k \in {"LT_INTEGER", "LT_REAL"} /\ Char(i) \in Digits
         \/ k = "LT_STRING" /\ Char(i) = "\""
         \/ k = "LT_CHAR" /\ Char(i) = "'"
         \/ k = "SP_EOL" /\ Char(i) = "\n"
         \/ k \in DOMAIN Punctuation /\ Char(i) \in Openers
<1>1. Len(text) \in Nat /\ i \in i .. j /\ i \in i .. i /\ i \in Nat
  BY OnlyBehindIsNul
<1>2. CASE k = "SP_IDENT"
  <2>1. AllIn(i, i, Letters)
    BY Zenon, <1>2, LexemeIs
  <2> QED
    BY Zenon, <1>1, <1>2, <2>1 DEF AllIn
<1>3. CASE k = "LT_INTEGER"
  <2>1. AllIn(i, j, Digits)
    BY Zenon, <1>3, LexemeIs
  <2> QED
    BY Zenon, <1>1, <1>3, <2>1 DEF AllIn
<1>4. CASE k = "LT_REAL"
  <2>1. PICK p \in i + 1 .. j - 1 : AllIn(i, p - 1, Digits)
    BY Zenon, <1>4, LexemeIs
  <2>2. i \in i .. p - 1
    BY <1>1, <2>1
  <2> QED
    BY Zenon, <1>4, <2>1, <2>2 DEF AllIn
<1>5. CASE k = "LT_STRING"
  <2>1. Quoted("\"", i, j)
    BY Zenon, <1>5, LexemeIs
  <2> QED
    BY Zenon, <1>5, <2>1 DEF Quoted
<1>6. CASE k = "LT_CHAR"
  <2>1. Quoted("'", i, j)
    BY Zenon, <1>6, LexemeIs
  <2> QED
    BY Zenon, <1>6, <2>1 DEF Quoted
<1>7. CASE k = "SP_EOL"
  BY Zenon, <1>7, LexemeIs
<1>8. CASE k \in DOMAIN Punctuation
  <2>1. SubSeq(text, i, j) = Punctuation[k]
    BY Zenon, <1>8, OperatorLexemeIs
  <2>2. Char(i) \in Openers
    BY <1>8, <2>1, OperatorIs
  <2> QED
    BY Zenon, <1>8, <2>2
<1> QED
  BY Zenon, <1>2, <1>3, <1>4, <1>5, <1>6, <1>7, <1>8 DEF LexemeKinds

(* The longest lexeme from one position on, if there is one.               *)
Longest(kind, i, last) ==
  /\ kind \in LexemeKinds /\ last \in i .. Len(text) /\ Lexeme(kind, i, last)
  /\ \A k \in LexemeKinds : \A j \in i .. Len(text) : Lexeme(k, i, j) => j <= last

NoLexeme(i) == \A k \in LexemeKinds : \A j \in i .. Len(text) : ~Lexeme(k, i, j)

LEMMA IdentIsLongest ==
  ASSUME text \in Texts, NEW i \in 1 .. Len(text), Char(i) \in Letters
  PROVE  Longest("SP_IDENT", i, After(i, Alphas \cup Digits \cup {"_"}) - 1)
<1>1. PICK set, e : set = Alphas \cup Digits \cup {"_"} /\ e = After(i, set)
  OBVIOUS
<1>2. NUL \notin set /\ Char(i) \in set
  BY Zenon, <1>1, ClassesHaveNoEnd, NulIsNoCharacter DEF Letters
<1>3. /\ e - 1 \in i .. Len(text) /\ AllIn(i, e - 1, set)
      /\ \A j \in i .. Len(text) : AllIn(i, j, set) => j <= e - 1
  BY <1>1, <1>2, RunIsLongest
<1>4. AllIn(i, i, Letters)
  <2>1. i \in Nat
    BY OnlyBehindIsNul
  <2>2. \A n \in i .. i : n = i
    BY <2>1
  <2> QED
    BY Zenon, <2>2 DEF AllIn
<1>5. Lexeme("SP_IDENT", i, e - 1)
  BY Zenon, <1>1, <1>3, <1>4, LexemeIs
<1>6. ASSUME NEW k \in LexemeKinds, NEW j \in i .. Len(text), Lexeme(k, i, j) PROVE j <= e - 1
  <2>1. k = "SP_IDENT"
    BY Zenon, <1>6, LexemeStarts, LettersApart
  <2>2. AllIn(i, j, set)
    BY Zenon, <1>1, <1>6, <2>1, LexemeIs
  <2> QED
    BY <1>3, <2>2
<1>7. "SP_IDENT" \in LexemeKinds
  BY DEF LexemeKinds
<1> QED
  BY Zenon, <1>1, <1>3, <1>5, <1>6, <1>7 DEF Longest

(* The digits in front of the point of a REAL are all that are there.      *)
LEMMA PointIsNext ==
  ASSUME text \in Texts, NEW i \in 1 .. Len(text), Char(i) \in Digits, NEW e, e = After(i, Digits),
         NEW j \in i .. Len(text), Lexeme("LT_REAL", i, j)
  PROVE  IsReal(e) /\ e \in i + 1 .. j - 1 /\ AllIn(e + 1, j, Digits)
<1>1. PICK point : point = "."
  OBVIOUS
<1>2. PICK p \in i + 1 .. j - 1 : Char(p) = point /\ AllIn(i, p - 1, Digits) /\ AllIn(p + 1, j, Digits)
  BY Zenon, <1>1, LexemeIs
<1>3. point \notin Digits
  BY Zenon, <1>1, DigitsApart, OpenersApart
<1>4. Len(text) \in Nat /\ i \in 1 .. Len(text) + 1
  BY OnlyBehindIsNul
<1>5. e \in i .. Len(text) + 1 /\ Char(e) \notin Digits /\ \A n \in i .. e - 1 : Char(n) \in Digits
  BY <1>4, AfterStops, ClassesHaveNoEnd
<1>6. ~(p < e)
  BY <1>2, <1>3, <1>4, <1>5
<1>7. e \notin i .. p - 1
  BY <1>2, <1>5 DEF AllIn
<1>8. p = e
  BY <1>2, <1>4, <1>5, <1>6, <1>7
<1>9. p + 1 \in p + 1 .. j
  BY <1>2, <1>4
<1>10. Char(e + 1) \in Digits
  BY <1>2, <1>8, <1>9 DEF AllIn
<1> QED
  BY Zenon, <1>1, <1>2, <1>8, <1>10 DEF IsReal

LEMMA NumberIsLongest ==
  ASSUME text \in Texts, NEW i \in 1 .. Len(text), Char(i) \in Digits, NEW e, e = After(i, Digits)
  PROVE  /\ IsReal(e) => Longest("LT_REAL", i, After(e + 1, Digits) - 1)
         /\ ~IsReal(e) => Longest("LT_INTEGER", i, e - 1)
<1>1. Len(text) \in Nat /\ i \in Nat \ {0} /\ i \in 1 .. Len(text) + 1
  BY OnlyBehindIsNul
<1>2. /\ e \in i + 1 .. Len(text) + 1 /\ e - 1 \in i .. Len(text)
      /\ AllIn(i, e - 1, Digits) /\ Char(e) \notin Digits
      /\ \A j \in i .. Len(text) : AllIn(i, j, Digits) => j <= e - 1
  BY RunIsLongest, ClassesHaveNoEnd
<1>3. e \in i .. Len(text) + 1 /\ e \in Nat \ {0} /\ e - 1 \in Int
  BY <1>1, <1>2
<1>4. ASSUME NEW k \in LexemeKinds, NEW j \in i .. Len(text), Lexeme(k, i, j)
      PROVE  \/ k = "LT_INTEGER" /\ AllIn(i, j, Digits)
             \/ k = "LT_REAL" /\ IsReal(e) /\ e \in i + 1 .. j - 1 /\ AllIn(e + 1, j, Digits)
  <2>1. k \in {"LT_INTEGER", "LT_REAL"}
    BY Zenon, <1>4, LexemeStarts, LettersApart, DigitsApart
  <2>2. CASE k = "LT_INTEGER"
    BY Zenon, <1>4, <2>2, LexemeIs
  <2>3. CASE k = "LT_REAL"
    BY Zenon, <1>4, <2>3, PointIsNext
  <2> QED
    BY <2>1, <2>2, <2>3
<1>5. "LT_INTEGER" \in LexemeKinds /\ "LT_REAL" \in LexemeKinds
  BY DEF LexemeKinds
<1>6. CASE ~IsReal(e)
  <2>1. Lexeme("LT_INTEGER", i, e - 1)
    BY Zenon, <1>2, LexemeIs
  <2>2. \A k \in LexemeKinds : \A j \in i .. Len(text) : Lexeme(k, i, j) => j <= e - 1
    BY <1>2, <1>4, <1>6
  <2> QED
    BY <1>2, <1>5, <1>6, <2>1, <2>2 DEF Longest
<1>7. CASE IsReal(e)
  <2>1. PICK point, f : point = "." /\ f = After(e + 1, Digits)
    OBVIOUS
  <2>2. Char(e) = point /\ Char(e + 1) \in Digits
    BY Zenon, <1>7, <2>1 DEF IsReal
  <2>3. e + 1 \in Nat \ {0} /\ Char(e + 1) # NUL
    BY <1>3, <2>2, ClassesHaveNoEnd
  <2>4. e + 1 \in 1 .. Len(text)
    BY <1>1, <1>3, <2>3, OnlyBehindIsNul
  <2>5. /\ f \in e + 1 + 1 .. Len(text) + 1 /\ f - 1 \in e + 1 .. Len(text) /\ AllIn(e + 1, f - 1, Digits)
        /\ \A j \in e + 1 .. Len(text) : AllIn(e + 1, j, Digits) => j <= f - 1
    BY <2>1, <2>2, <2>4, RunIsLongest, ClassesHaveNoEnd
  <2>6. e # i
    BY <1>2
  <2>7. e \in i + 1 .. f - 2 /\ f - 1 \in i .. Len(text) /\ f - 1 - 1 = f - 2
    BY <1>1, <1>3, <2>4, <2>5, <2>6
  <2>8. \E p \in i + 1 .. f - 1 - 1 : Char(p) = "." /\ AllIn(i, p - 1, Digits) /\ AllIn(p + 1, f - 1, Digits)
    BY Zenon, <1>2, <2>1, <2>2, <2>5, <2>7
  <2>9. Lexeme("LT_REAL", i, f - 1)
    BY Zenon, <2>8, LexemeIs
  <2>10. ASSUME NEW k \in LexemeKinds, NEW j \in i .. Len(text), Lexeme(k, i, j) PROVE j <= f - 1
    <3>1. CASE AllIn(i, j, Digits)
      BY <1>1, <1>2, <1>3, <2>4, <2>5, <3>1
    <3>2. CASE e \in i + 1 .. j - 1 /\ AllIn(e + 1, j, Digits)
      <4>1. j \in e + 1 .. Len(text)
        BY <1>1, <1>3, <3>2
      <4> QED
        BY <2>5, <3>2, <4>1
    <3> QED
      BY <1>4, <2>10, <3>1, <3>2
  <2> QED
    BY <1>5, <1>7, <2>1, <2>7, <2>9, <2>10 DEF Longest
<1> QED
  BY <1>6, <1>7

LEMMA NewlineIsLongest ==
  ASSUME text \in Texts, NEW i \in 1 .. Len(text)
  PROVE  Char(i) = "\n" => Longest("SP_EOL", i, i)
<1>1. Len(text) \in Nat /\ i \in i .. Len(text) /\ i <= i
  BY OnlyBehindIsNul
<1>2. "SP_EOL" \in LexemeKinds
  BY DEF LexemeKinds
<1>3. ASSUME Char(i) = "\n", NEW k \in LexemeKinds, NEW j \in i .. Len(text), Lexeme(k, i, j) PROVE j <= i
  <2>1. k = "SP_EOL"
    BY Zenon, <1>3, LexemeStarts, LettersApart, DigitsApart, OpenersApart
  <2>2. i = j
    BY Zenon, <1>3, <2>1, LexemeIs
  <2> QED
    BY <1>1, <2>2
<1> QED
  BY Zenon, <1>1, <1>2, <1>3, LexemeIs DEF Longest

LEMMA ShortSequences ==
  ASSUME NEW S, NEW x \in Seq(S)
  PROVE  (Len(x) = 1 => x = <<x[1]>>) /\ (Len(x) = 2 => x = <<x[1], x[2]>>)
OBVIOUS

LEMMA OperatorIsLongest ==
  ASSUME text \in Texts, NEW i \in 1 .. Len(text), NEW kind \in DOMAIN Punctuation, NEW next, next = Char(i + 1),
         NEW fits, fits <=> next # NUL /\ <<Char(i), next>> \in Range(Punctuation),
         Punctuation[kind] = IF fits THEN <<Char(i), next>> ELSE <<Char(i)>>
  PROVE  Longest(kind, i, IF fits THEN i + 1 ELSE i)
<1>1. Len(text) \in Nat /\ i \in Nat \ {0} /\ i + 1 \in Nat \ {0} /\ (next # NUL <=> i + 1 <= Len(text))
  BY OnlyBehindIsNul
<1>2. PICK last : last = IF fits THEN i + 1 ELSE i
  OBVIOUS
<1>3. last \in i .. Len(text)
  BY <1>1, <1>2
<1>4. SubSeq(text, i, last) = Punctuation[kind]
  <2>1. PICK S : text \in Seq(S)
    BY TextIsSequence
  <2>2. Char(i) = text[i] /\ (i + 1 <= Len(text) => next = text[i + 1])
    BY <1>1 DEF Char
  <2>3. SubSeq(text, i, i) = <<text[i]>>
    <3>1. PICK x : x = SubSeq(text, i, i)
      OBVIOUS
    <3>2. x \in Seq(S) /\ Len(x) = 1 /\ x[1] = text[i]
      BY <1>1, <2>1, <3>1
    <3> QED
      BY <3>1, <3>2, ShortSequences
  <2>4. i + 1 <= Len(text) => SubSeq(text, i, i + 1) = <<text[i], text[i + 1]>>
    <3> SUFFICES ASSUME i + 1 <= Len(text) PROVE SubSeq(text, i, i + 1) = <<text[i], text[i + 1]>>
      OBVIOUS
    <3>1. PICK x : x = SubSeq(text, i, i + 1)
      OBVIOUS
    <3>2. x \in Seq(S) /\ Len(x) = 2 /\ x[1] = text[i] /\ x[2] = text[i + 1]
      BY <1>1, <2>1, <3>1
    <3> QED
      BY <3>1, <3>2, ShortSequences
  <2> QED
    BY <1>1, <1>2, <2>2, <2>3, <2>4
<1>5. Lexeme(kind, i, last)
  BY Zenon, <1>4, OperatorLexemeIs
<1>6. Char(i) \in Openers
  BY <1>3, <1>4, OperatorIs
<1>7. ASSUME NEW k \in LexemeKinds, NEW j \in i .. Len(text), Lexeme(k, i, j) PROVE j <= last
  <2>1. k \in DOMAIN Punctuation
    BY Zenon, <1>6, <1>7, LexemeStarts, LettersApart, DigitsApart, OpenersApart
  <2>2. SubSeq(text, i, j) = Punctuation[k]
    BY Zenon, <1>7, <2>1, OperatorLexemeIs
  <2>3. j = i \/ (j = i + 1 /\ Punctuation[k] = <<Char(i), next>>)
    BY <2>1, <2>2, OperatorIs
  <2>4. Punctuation[k] \in Range(Punctuation)
    BY <2>1 DEF Range
  <2> QED
    BY <1>1, <1>2, <2>3, <2>4
<1>8. kind \in LexemeKinds
  BY DEF LexemeKinds
<1> QED
  BY <1>2, <1>3, <1>5, <1>7, <1>8 DEF Longest

(* What begins with no character of a lexeme is none.                      *)
LEMMA UnexpectedIsNone ==
  ASSUME text \in Texts, NEW i \in 1 .. Len(text)
  PROVE  /\ Char(i) \notin Alphas \cup Digits \cup {"_", "\n", "\"", "'", NUL}
         /\ <<Char(i)>> \notin Range(Punctuation)
         => NoLexeme(i)
<1>1. <<Char(i)>> \notin Range(Punctuation) => Char(i) \notin Openers
  BY OperatorsBegin
<1> QED
  BY Zenon, <1>1, LexemeStarts DEF NoLexeme, Letters

(* What a lexeme is does not change, as the text does not.                 *)
LEMMA LexemesStay ==
  ASSUME text' = text
  PROVE  \A k, i, j : Lexeme(k, i, j)' = Lexeme(k, i, j)
<1>1. \A i : Char(i)' = Char(i)
  BY DEF Char
<1>2. \A i, j, set : AllIn(i, j, set)' <=> AllIn(i, j, set)
  BY Zenon, <1>1 DEF AllIn
<1>3. \A q, i, j : Quoted(q, i, j)' <=> Quoted(q, i, j)
  BY Zenon, <1>1 DEF Quoted
<1>4. ASSUME NEW k, NEW i, NEW j PROVE Lexeme(k, i, j)' = Lexeme(k, i, j)
  <2>1. (\E p \in i + 1 .. j - 1 :
           Char(p)' = "." /\ AllIn(i, p - 1, Digits)' /\ AllIn(p + 1, j, Digits)') <=>
        (\E p \in i + 1 .. j - 1 :
           Char(p) = "." /\ AllIn(i, p - 1, Digits) /\ AllIn(p + 1, j, Digits))
    BY Zenon, <1>1, <1>2
  <2> QED
    BY Zenon, <1>1, <1>2, <1>3, <2>1 DEF Lexeme
<1> QED
  BY <1>4

LEMMA LongestRests == TokensAreLongest /\ UNCHANGED <<text, tokens>> => TokensAreLongest'
<1> SUFFICES ASSUME TokensAreLongest, UNCHANGED <<text, tokens>> PROVE TokensAreLongest'
  OBVIOUS
<1>1. text' = text /\ tokens' = tokens /\ Newest' = Newest /\ (Scanned' <=> Scanned)
  BY DEF Newest, Scanned
<1>2. \A k, i, j : Lexeme(k, i, j)' = Lexeme(k, i, j)
  BY <1>1, LexemesStay
<1> QED
  BY Zenon, <1>1, <1>2 DEF TokensAreLongest

(* The newest token is the longest lexeme if that is what was scanned.     *)
LEMMA TokenIsLongest ==
  ASSUME ScannerIInv, NEW kind, NEW end, Token(kind, end), NEW sort, sort = KindOfWord(kind),
         \/ kind = "SP_EOF"
         \/ sort = "SP_ERROR" /\ NoLexeme(current)
         \/ sort # "SP_ERROR" /\ Longest(sort, current, end - 1)
  PROVE  TokensAreLongest'
<1>1. PICK now, t : now = current /\ t = [kind |-> kind, first |-> now, last |-> end - 1, line |-> line']
  OBVIOUS
<1>2. tokens' = Append(tokens, t) /\ text' = text
  BY <1>1 DEF Token
<1>3. Newest' = t /\ (Scanned' <=> kind = "SP_EOF")
  <2>1. PICK S : tokens \in Seq(S)
    BY DEF ScannerIInv
  <2>2. tokens' # <<>> /\ tokens'[Len(tokens')] = t
    BY <1>2, <2>1
  <2>3. t.kind = kind
    BY <1>1
  <2> QED
    BY <2>2, <2>3 DEF Newest, Scanned
<1>4. \A k, i, j : Lexeme(k, i, j)' = Lexeme(k, i, j)
  BY <1>2, LexemesStay
<1>5. SUFFICES ASSUME kind # "SP_EOF"
               PROVE  LET matches == {m \in LexemeKinds \X (now .. Len(text)) : Lexeme(m[1], now, m[2])}
                      IN  IF sort = "SP_ERROR" THEN matches = {}
                          ELSE <<sort, end - 1>> \in matches /\ \A m \in matches : m[2] <= end - 1
  <2>1. Newest'.kind = kind /\ Newest'.first = now /\ Newest'.last = end - 1
    BY <1>1, <1>3
  <2> QED
    BY Zenon, <1>2, <1>3, <1>4, <2>1 DEF TokensAreLongest
<1> DEFINE matches == {m \in LexemeKinds \X (now .. Len(text)) : Lexeme(m[1], now, m[2])}
<1>6. CASE sort = "SP_ERROR"
  <2>1. NoLexeme(now)
    BY <1>1, <1>5, <1>6
  <2>2. matches = {}
    BY <2>1 DEF NoLexeme
  <2> QED
    BY <1>6, <2>2
<1>7. CASE sort # "SP_ERROR"
  <2>1. Longest(sort, now, end - 1)
    BY <1>1, <1>5, <1>7
  <2>2. <<sort, end - 1>> \in matches /\ \A m \in matches : m[2] <= end - 1
    BY <2>1 DEF Longest
  <2> QED
    BY <1>7, <2>2
<1> QED
  BY <1>6, <1>7

LEMMA ScanIsLongest == ScannerIInv /\ TokensAreLongest /\ scanner_scan_token => TokensAreLongest'
<1> SUFFICES ASSUME ScannerIInv, TokensAreLongest, scanner_scan_token PROVE TokensAreLongest'
  OBVIOUS
<1>1. PICK now, len : now = current /\ len = Len(text)
  OBVIOUS
<1>2. text \in Texts /\ len \in Nat /\ now \in 1 .. len + 1
  BY <1>1, TextIsSequence DEF ScannerIInv
<1>3. _peek = Char(now) /\ (_peek # NUL => now \in 1 .. len)
  BY <1>1, <1>2, OnlyBehindIsNul DEF _peek
<1>4. \A kind \in LexemeKinds : KindOfWord(kind) = kind /\ kind # "SP_ERROR"
  <2>1. "SP_ERROR" \notin LexemeKinds
    BY KindsApart DEF LexemeKinds
  <2> QED
    BY Zenon, <2>1 DEF KindOfWord
<1>5. ASSUME NEW kind, NEW end, NEW last, end - 1 = last, Token(kind, end),
             kind \in LexemeKinds, Longest(kind, now, last)
      PROVE  TokensAreLongest'
  BY Zenon, <1>1, <1>4, <1>5, TokenIsLongest
<1>6. ASSUME NEW end, Token("SP_ERROR", end), NoLexeme(now) PROVE TokensAreLongest'
  <2>1. KindOfWord("SP_ERROR") = "SP_ERROR"
    BY DEF KindOfWord
  <2> QED
    BY Zenon, <1>1, <1>6, <2>1, TokenIsLongest
<1>7. CASE SkipBlank \/ SkipComment
  <2>1. UNCHANGED <<text, tokens>>
    BY <1>7 DEF SkipBlank, SkipComment, Skip
  <2> QED
    BY Zenon, <2>1, LongestRests
<1>8. CASE EndOfFile
  BY Zenon, <1>8, TokenIsLongest DEF EndOfFile
<1>9. CASE EndOfLine
  <2>1. Char(now) = "\n"
    BY <1>3, <1>9 DEF EndOfLine
  <2>4. PICK end : end = now + 1 /\ Token("SP_EOL", end)
    BY <1>1, <1>9 DEF EndOfLine
  <2>2. Longest("SP_EOL", now, now)
    BY Zenon, <1>1, <1>2, <1>3, <2>1, NewlineIsLongest, NulIsNoCharacter
  <2>3. end - 1 = now /\ "SP_EOL" \in LexemeKinds
    BY <1>2, <2>4 DEF LexemeKinds
  <2> QED
    BY Zenon, <1>5, <2>2, <2>3, <2>4
<1>10. CASE _make_identifier
  <2>1. PICK end : end = After(now, Alphas \cup Digits \cup {"_"})
    OBVIOUS
  <2>2. PICK kind : Token(kind, end) /\ KindOfWord(kind) = "SP_IDENT" /\ Char(now) \in Letters
    BY Zenon, <1>1, <1>3, <1>10, <2>1, WordsAreWords DEF _make_identifier, Letters
  <2>3. now \in 1 .. len
    BY Zenon, <1>3, <2>2, ClassesHaveNoEnd, NulIsNoCharacter DEF Letters
  <2>4. Longest("SP_IDENT", now, end - 1)
    BY Zenon, <1>1, <1>2, <2>1, <2>2, <2>3, IdentIsLongest
  <2>5. "SP_IDENT" # "SP_ERROR"
    OBVIOUS
  <2> QED
    BY Zenon, <1>1, <2>2, <2>4, <2>5, TokenIsLongest
<1>11. CASE _make_number
  <2>1. PICK point : point = After(now, Digits)
    OBVIOUS
  <2>2. /\ Char(now) \in Digits
        /\ IF IsReal(point) THEN Token("LT_REAL", After(point + 1, Digits)) ELSE Token("LT_INTEGER", point)
    BY <1>1, <1>3, <1>11, <2>1 DEF _make_number
  <2>3. now \in 1 .. len
    BY <1>3, <2>2, ClassesHaveNoEnd
  <2>4. /\ IsReal(point) => Longest("LT_REAL", now, After(point + 1, Digits) - 1)
        /\ ~IsReal(point) => Longest("LT_INTEGER", now, point - 1)
    BY Zenon, <1>1, <1>2, <2>1, <2>2, <2>3, NumberIsLongest
  <2>5. "LT_REAL" \in LexemeKinds /\ "LT_INTEGER" \in LexemeKinds
    BY DEF LexemeKinds
  <2> QED
    BY Zenon, <1>5, <2>2, <2>4, <2>5
<1>12. ASSUME NEW kind \in DOMAIN Punctuation, Operator(kind) PROVE TokensAreLongest'
  <2>1. PICK next, fits : /\ next = Char(now + 1)
                          /\ fits = (next # NUL /\ <<Char(now), next>> \in Range(Punctuation))
    OBVIOUS
  <2>2. /\ Char(now) # NUL
        /\ Punctuation[kind] = IF fits THEN <<Char(now), next>> ELSE <<Char(now)>>
        /\ Token(kind, IF fits THEN now + 2 ELSE now + 1)
    BY Zenon, <1>1, <1>3, <1>12, <2>1 DEF Operator
  <2>3. Longest(kind, now, IF fits THEN now + 1 ELSE now)
    BY Zenon, <1>1, <1>2, <1>3, <2>1, <2>2, OperatorIsLongest
  <2>4. (IF fits THEN now + 2 ELSE now + 1) - 1 = (IF fits THEN now + 1 ELSE now)
    BY <1>2
  <2>5. kind \in LexemeKinds
    BY DEF LexemeKinds
  <2> QED
    BY Zenon, <1>5, <2>2, <2>3, <2>4, <2>5
<1>13. CASE _make_string
  <2>1. PICK q : q = "\""
    OBVIOUS
  <2>8. PICK f : f = Find(now + 1, q)
    OBVIOUS
  <2>2. Char(now) = q /\ IF Char(f) = NUL THEN Token("SP_ERROR", f) ELSE Token("LT_STRING", f + 1)
    BY Zenon, <1>1, <1>3, <1>13, <2>1, <2>8 DEF _make_string
  <2>3. now \in 1 .. len /\ q # NUL
    BY Zenon, <1>3, <2>1, <2>2, NulIsNoCharacter
  <2>4. /\ Char(f) = NUL => \A j \in now .. len : ~Quoted(q, now, j)
        /\ Char(f) # NUL => /\ f \in now + 1 .. len /\ Quoted(q, now, f)
                            /\ \A j \in now .. len : Quoted(q, now, j) => j = f
    BY <1>1, <1>2, <2>8, <2>2, <2>3, QuoteIsNext
  <2>5. \A k \in LexemeKinds : \A j \in now .. len : Lexeme(k, now, j) => k = "LT_STRING" /\ Quoted(q, now, j)
    <3> SUFFICES ASSUME NEW k \in LexemeKinds, NEW j \in now .. len, Lexeme(k, now, j)
                 PROVE  k = "LT_STRING" /\ Quoted(q, now, j)
      OBVIOUS
    <3>1. k = "LT_STRING"
      BY Zenon, <1>1, <1>2, <2>1, <2>2, <2>3, LexemeStarts, LettersApart, DigitsApart, OpenersApart
    <3> QED
      BY Zenon, <2>1, <3>1, LexemeIs
  <2>6. CASE Char(f) = NUL
    <3>1. NoLexeme(now)
      BY Zenon, <1>1, <2>4, <2>5, <2>6 DEF NoLexeme
    <3> QED
      BY <1>6, <2>2, <2>6, <3>1
  <2>7. CASE Char(f) # NUL
    <3>1. f \in now .. len /\ f + 1 - 1 = f /\ f <= f /\ "LT_STRING" \in LexemeKinds
      BY <1>2, <2>4, <2>7 DEF LexemeKinds
    <3>2. Lexeme("LT_STRING", now, f)
      BY Zenon, <2>1, <2>4, <2>7, LexemeIs
    <3>3. \A k \in LexemeKinds : \A j \in now .. len : Lexeme(k, now, j) => j <= f
      BY <2>4, <2>5, <2>7, <3>1
    <3>4. Longest("LT_STRING", now, f)
      BY Zenon, <1>1, <3>1, <3>2, <3>3 DEF Longest
    <3> QED
      BY <1>5, <2>2, <2>7, <3>1, <3>4
  <2> QED
    BY <2>6, <2>7
<1>14. CASE make_char
  <2>1. PICK q, f : q = "'" /\ f = Find(now + 1, q)
    OBVIOUS
  <2>2. /\ Char(now) = q
        /\ IF Char(f) = NUL THEN Token("SP_ERROR", f)
           ELSE Token(IF f + 1 - now = 2 \/ f + 1 - now > 4 THEN "SP_ERROR" ELSE "LT_CHAR", f + 1)
    BY <1>1, <1>3, <1>14, <2>1 DEF make_char
  <2>3. now \in 1 .. len /\ q # NUL
    BY Zenon, <1>3, <2>1, <2>2, NulIsNoCharacter
  <2>4. /\ Char(f) = NUL => \A j \in now .. len : ~Quoted(q, now, j)
        /\ Char(f) # NUL => /\ f \in now + 1 .. len /\ Quoted(q, now, f)
                            /\ \A j \in now .. len : Quoted(q, now, j) => j = f
    BY <1>1, <1>2, <2>1, <2>2, <2>3, QuoteIsNext
  <2>5. \A k \in LexemeKinds : \A j \in now .. len :
          Lexeme(k, now, j) => k = "LT_CHAR" /\ Quoted(q, now, j) /\ j - now \in {2, 3}
    <3> SUFFICES ASSUME NEW k \in LexemeKinds, NEW j \in now .. len, Lexeme(k, now, j)
                 PROVE  k = "LT_CHAR" /\ Quoted(q, now, j) /\ j - now \in {2, 3}
      OBVIOUS
    <3>1. k = "LT_CHAR"
      BY Zenon, <1>1, <1>2, <2>1, <2>2, <2>3, LexemeStarts, LettersApart, DigitsApart, OpenersApart
    <3> QED
      BY Zenon, <2>1, <3>1, LexemeIs
  <2>6. CASE Char(f) = NUL
    <3>1. NoLexeme(now)
      BY Zenon, <1>1, <2>4, <2>5, <2>6 DEF NoLexeme
    <3> QED
      BY <1>6, <2>2, <2>6, <3>1
  <2>7. CASE Char(f) # NUL /\ (f + 1 - now = 2 \/ f + 1 - now > 4)
    <3>1. f - now \notin {2, 3}
      BY <1>2, <2>4, <2>7
    <3>2. NoLexeme(now)
      BY <1>1, <2>4, <2>5, <2>7, <3>1 DEF NoLexeme
    <3>3. Token("SP_ERROR", f + 1)
      BY <2>2, <2>7
    <3> QED
      BY <1>6, <3>2, <3>3
  <2>8. CASE Char(f) # NUL /\ ~(f + 1 - now = 2 \/ f + 1 - now > 4)
    <3>1. f \in now .. len /\ f + 1 - 1 = f /\ f <= f /\ f - now \in {2, 3} /\ "LT_CHAR" \in LexemeKinds
      BY <1>2, <2>4, <2>8 DEF LexemeKinds
    <3>2. Lexeme("LT_CHAR", now, f)
      BY Zenon, <2>1, <2>4, <2>8, <3>1, LexemeIs
    <3>3. \A k \in LexemeKinds : \A j \in now .. len : Lexeme(k, now, j) => j <= f
      BY <2>4, <2>5, <2>8, <3>1
    <3>4. Longest("LT_CHAR", now, f)
      BY Zenon, <1>1, <3>1, <3>2, <3>3 DEF Longest
    <3>5. Token("LT_CHAR", f + 1)
      BY <2>2, <2>8
    <3> QED
      BY <1>5, <3>1, <3>4, <3>5
  <2> QED
    BY <2>6, <2>7, <2>8
<1>15. CASE Unexpected
  <2>1. /\ Char(now) \notin Alphas \cup Digits \cup {"_", "\n", "\"", "'", NUL}
        /\ <<Char(now)>> \notin Range(Punctuation) /\ Token("SP_ERROR", now + 1)
    BY Zenon, <1>1, <1>3, <1>15 DEF Unexpected
  <2>2. now \in 1 .. len
    BY Zenon, <1>3, <2>1
  <2> QED
    BY Zenon, <1>1, <1>2, <1>6, <2>1, <2>2, UnexpectedIsNone
<1> QED
  BY Zenon, <1>7, <1>8, <1>9, <1>10, <1>11, <1>12, <1>13, <1>14, <1>15 DEF scanner_scan_token

(* A token is the longest lexeme that begins where it begins, and an error *)
(* is reported only where none does, whatever the text: what the switch of *)
(* scanner_scan_token and the loops of _make_number, _make_identifier,     *)
(* _make_string and make_char find is what the grammar of the lexemes says.*)
THEOREM ScannerTakesTheLongest == Spec => []TokensAreLongest
<1>1. Init => TokensAreLongest
  BY DEF Init, ScannerInit, TokensAreLongest
<1>2. ScannerIInv /\ TokensAreLongest /\ [Next]_vars => TokensAreLongest'
  <2> SUFFICES ASSUME ScannerIInv, TokensAreLongest, [Next]_vars PROVE TokensAreLongest'
    OBVIOUS
  <2>1. scanner_scan_token \/ UNCHANGED scannerVars
    BY DEF Next, Step, Ended, Scan, interpret, parser_init, Parse, chunk_write_from_ast, Run, Free, vars
  <2>2. CASE UNCHANGED scannerVars
    BY Zenon, <2>2, LongestRests DEF scannerVars
  <2> QED
    BY <2>1, <2>2, ScanIsLongest
<1> QED
  BY <1>1, <1>2, ScannerInvariant, PTL DEF Spec

-----------------------------------------------------------------------------
(* The parser of the program is that of Parser_proofs.                     *)
Pp == INSTANCE Parser_proofs WITH Inputs <- {}

LEMMA SameRules ==
  /\ Pp!Operators = Ps!Operators /\ Pp!Literals = Ps!Literals /\ Pp!TokenKinds = Ps!TokenKinds
  /\ Pp!LiteralKinds = Ps!LiteralKinds /\ Pp!UnaryKinds = Ps!UnaryKinds /\ Pp!BinaryKinds = Ps!BinaryKinds
  /\ \A kind : /\ Pp!Precedence(kind) = Ps!Precedence(kind)
               /\ Pp!HasPrefix(kind) <=> Ps!HasPrefix(kind)
               /\ Pp!HasInfix(kind) <=> Ps!HasInfix(kind)
               /\ Pp!UnaryKind(kind) = Ps!UnaryKind(kind) /\ Pp!BinaryKind(kind) = Ps!BinaryKind(kind)
  /\ \A t, n : Pp!LiteralNode(t, n) = Ps!LiteralNode(t, n)
<1>1. /\ Pp!Operators = Ps!Operators /\ Pp!Literals = Ps!Literals
      /\ Pp!LiteralKinds = Ps!LiteralKinds /\ Pp!UnaryKinds = Ps!UnaryKinds /\ Pp!BinaryKinds = Ps!BinaryKinds
  BY DEF Pp!Operators, Ps!Operators, Pp!Literals, Ps!Literals, Pp!LiteralKinds, Ps!LiteralKinds,
         Pp!UnaryKinds, Ps!UnaryKinds, Pp!BinaryKinds, Ps!BinaryKinds
<1>2. Pp!TokenKinds = Ps!TokenKinds
  BY <1>1 DEF Pp!TokenKinds, Ps!TokenKinds
<1>3. ASSUME NEW kind
      PROVE  /\ Pp!Precedence(kind) = Ps!Precedence(kind)
             /\ Pp!HasPrefix(kind) <=> Ps!HasPrefix(kind)
             /\ Pp!HasInfix(kind) <=> Ps!HasInfix(kind)
             /\ Pp!UnaryKind(kind) = Ps!UnaryKind(kind) /\ Pp!BinaryKind(kind) = Ps!BinaryKind(kind)
  BY <1>1 DEF Pp!Precedence, Ps!Precedence, Pp!HasPrefix, Ps!HasPrefix, Pp!HasInfix, Ps!HasInfix,
              Pp!UnaryKind, Ps!UnaryKind, Pp!BinaryKind, Ps!BinaryKind
<1>4. ASSUME NEW t, NEW n PROVE Pp!LiteralNode(t, n) = Ps!LiteralNode(t, n)
  BY DEF Pp!LiteralNode, Ps!LiteralNode, Pp!Saturated, Ps!Saturated, Pp!LARGEST, Ps!LARGEST,
         Pp!Value, Ps!Value, Pp!Bool, Ps!Bool
<1> QED
  BY <1>1, <1>2, <1>3, <1>4

LEMMA SameFrames ==
  /\ Pp!Current = Ps!Current /\ Pp!Top = Ps!Top /\ Pp!Rest = Ps!Rest
  /\ Pp!PRECEDENCE_ASSIGNMENT = Ps!PRECEDENCE_ASSIGNMENT /\ Pp!PRECEDENCE_UNARY = Ps!PRECEDENCE_UNARY
  /\ \A task : Pp!At(task) <=> Ps!At(task)
  /\ \A task, precedence, at, first :
       Pp!Frame(task, precedence, at, first) = Ps!Frame(task, precedence, at, first)
  /\ \A precedence : /\ Pp!Operand(precedence) = Ps!Operand(precedence)
                     /\ Pp!OperatorsOf(precedence) = Ps!OperatorsOf(precedence)
  /\ \A kind : Pp!RightOperand(kind) = Ps!RightOperand(kind)
  /\ Pp!Binds <=> Ps!Binds
  /\ \A kind, at, first : Pp!OperatorNode(kind, at, first) = Ps!OperatorNode(kind, at, first)
  /\ Pp!_advance <=> Ps!_advance
<1>1. Pp!Current = Ps!Current /\ Pp!Top = Ps!Top /\ Pp!Rest = Ps!Rest
  BY DEF Pp!Current, Ps!Current, Pp!Top, Ps!Top, Pp!Rest, Ps!Rest
<1>2. Pp!PRECEDENCE_ASSIGNMENT = Ps!PRECEDENCE_ASSIGNMENT /\ Pp!PRECEDENCE_UNARY = Ps!PRECEDENCE_UNARY
  BY DEF Pp!PRECEDENCE_ASSIGNMENT, Ps!PRECEDENCE_ASSIGNMENT, Pp!PRECEDENCE_UNARY, Ps!PRECEDENCE_UNARY
<1>3. \A task : Pp!At(task) <=> Ps!At(task)
  BY <1>1 DEF Pp!At, Ps!At
<1>4. \A task, precedence, at, first :
        Pp!Frame(task, precedence, at, first) = Ps!Frame(task, precedence, at, first)
  BY DEF Pp!Frame, Ps!Frame
<1>5. \A precedence : /\ Pp!Operand(precedence) = Ps!Operand(precedence)
                      /\ Pp!OperatorsOf(precedence) = Ps!OperatorsOf(precedence)
  BY <1>4 DEF Pp!Operand, Ps!Operand, Pp!OperatorsOf, Ps!OperatorsOf
<1>6. \A kind : Pp!RightOperand(kind) = Ps!RightOperand(kind)
  BY <1>5, SameRules DEF Pp!RightOperand, Ps!RightOperand
<1>7. Pp!Binds <=> Ps!Binds
  BY <1>1, SameRules DEF Pp!Binds, Ps!Binds
<1>8. \A kind, at, first : Pp!OperatorNode(kind, at, first) = Ps!OperatorNode(kind, at, first)
  BY DEF Pp!OperatorNode, Ps!OperatorNode, Pp!Junk, Ps!Junk
<1>9. Pp!_advance <=> Ps!_advance
  BY DEF Pp!_advance, Ps!_advance
<1> QED
  BY <1>1, <1>2, <1>3, <1>4, <1>5, <1>6, <1>7, <1>8, <1>9

LEMMA SameSteps == Ps!Step => Pp!Step
<1>1. Ps!Literal => Pp!Literal
  BY SameRules, SameFrames DEF Ps!Literal, Pp!Literal
<1>2. Ps!_unary => Pp!_unary
  BY SameRules, SameFrames DEF Ps!_unary, Pp!_unary
<1>3. Ps!_group => Pp!_group
  BY SameRules, SameFrames DEF Ps!_group, Pp!_group
<1>4. Ps!_binary => Pp!_binary
  BY SameRules, SameFrames DEF Ps!_binary, Pp!_binary
<1>5. Ps!EndOfOperators => Pp!EndOfOperators
  BY SameRules, SameFrames DEF Ps!EndOfOperators, Pp!EndOfOperators
<1>6. Ps!Node => Pp!Node
  BY SameRules, SameFrames DEF Ps!Node, Pp!Node
<1>7. Ps!EndOfGroup => Pp!EndOfGroup
  BY SameRules, SameFrames DEF Ps!EndOfGroup, Pp!EndOfGroup
<1>8. Ps!parser_parse => Pp!parser_parse
  BY SameRules, SameFrames DEF Ps!parser_parse, Pp!parser_parse
<1>9. Ps!CallNull => Pp!CallNull
  BY SameRules, SameFrames DEF Ps!CallNull, Pp!CallNull
<1>10. Ps!ReadBeyond => Pp!ReadBeyond
  BY SameRules, SameFrames DEF Ps!ReadBeyond, Pp!ReadBeyond
<1> QED
  BY <1>1, <1>2, <1>3, <1>4, <1>5, <1>6, <1>7, <1>8, <1>9, <1>10 DEF Ps!Step, Pp!Step

(* The tokens the scanner hands to the parser.                             *)
LEMMA TokensAreInput ==
  ASSUME ScannerIInv, parser_init
  PROVE  Pp!IsInput(input')
<1>1. PICK len : len = Len(tokens) - 1
  OBVIOUS
<1>2. len \in Nat /\ DOMAIN tokens = 1 .. Len(tokens)
  <2>1. tokens # <<>> /\ \E S : tokens \in Seq(S)
    BY DEF ScannerIInv, parser_init, Scanned
  <2> QED
    BY <1>1, <2>1
<1>3. PICK x : x = input' /\ x = [n \in 1 .. len |-> ParserToken(tokens[n])]
  BY <1>1 DEF parser_init
<1>4. Len(x) = len
  <2>1. x \in Seq({ParserToken(tokens[n]) : n \in 1 .. len})
    BY <1>2, <1>3
  <2> QED
    BY <1>2, <1>3, <2>1
<1>5. ASSUME NEW n \in 1 .. len PROVE x[n].kind \in Pp!TokenKinds /\ x[n].line \in Nat \ {0}
  <2>1. n \in DOMAIN tokens
    BY <1>1, <1>2
  <2>2. x[n].kind = RuleOf(tokens[n].kind) /\ x[n].line = tokens[n].line
    BY <1>3 DEF ParserToken
  <2>3. RuleOf(tokens[n].kind) \in Pp!TokenKinds
    BY SameRules DEF RuleOf, Ps!TokenKinds
  <2>4. tokens[n].line \in Nat \ {0}
    <3>1. PICK e : e = tokens[n].last /\ e \in Nat
      BY <2>1 DEF ScannerIInv
    <3>2. tokens[n].line = 1 + NewLines(1, e)
      BY <2>1, <3>1 DEF ScannerIInv, LinesOfTokens, LineOf, NewLines
    <3>3. NewLines(1, e) \in Nat
      <4>1. 1 \in Nat \ {0} /\ 1 - 1 <= e
        BY <3>1
      <4> QED
        BY <3>1, <4>1, NewLinesAdd
    <3> QED
      BY <3>2, <3>3
  <2> QED
    BY <2>2, <2>3, <2>4
<1> QED
  BY <1>2, <1>3, <1>4, <1>5 DEF Pp!IsInput

(* Until then the parser has not begun.                                    *)
NotBegun ==
  /\ position = 1 /\ frames = <<Ps!Operand(Ps!PRECEDENCE_ASSIGNMENT)>>
  /\ built = <<>> /\ token = <<>> /\ grouped = {} /\ state = "parse"

ParserInStep == Pp!ParserIInv /\ (stage = "scan" => NotBegun)

LEMMA ParserIsInStep ==
  ASSUME ScannerIInv, ParserInStep, [Next]_vars
  PROVE  ParserInStep'
<1>1. CASE parser_init
  <2>1. PICK x : x = input' /\ Pp!IsInput(x)
    BY <1>1, TokensAreInput
  <2>2. Pp!Parses(<<Pp!Operand(Pp!PRECEDENCE_ASSIGNMENT)>>, <<>>, <<>>, {}, x, 1, "parse")
    BY <2>1, Pp!ParserBegins
  <2>3. NotBegun /\ UNCHANGED <<position, frames, built, state, token, grouped>> /\ stage' = "parse"
    BY <1>1 DEF parser_init, ParserInStep
  <2>4. frames = <<Pp!Operand(Pp!PRECEDENCE_ASSIGNMENT)>>
    BY <2>3, SameFrames DEF NotBegun
  <2>5. Pp!Parses(frames, built, token, grouped, x, position, state)
    BY <2>2, <2>3, <2>4 DEF NotBegun
  <2> QED
    BY <2>1, <2>3, <2>5 DEF ParserInStep, Pp!ParserIInv
<1>2. CASE Parse
  <2>1. Ps!Step /\ stage = "parse" /\ stage' = "parse"
    BY <1>2 DEF Parse, ParserStep, Ps!Step
  <2>2. [Pp!Next]_(Pp!vars)
    BY <2>1, SameSteps DEF Pp!Next
  <2> QED
    BY <2>1, <2>2, Pp!ParserStep DEF ParserInStep
<1>3. ASSUME Scan \/ chunk_write_from_ast \/ Run \/ Free \/ Ended \/ UNCHANGED vars
      PROVE  ParserInStep'
  <2>1. UNCHANGED parserVars /\ (stage' = stage \/ stage' = "run")
    BY <1>3 DEF Scan, chunk_write_from_ast, Run, Free, Ended, vars
  <2>2. Pp!ParserIInv'
    BY <2>1 DEF ParserInStep, Pp!ParserIInv, parserVars
  <2> QED
    BY <2>1, <2>2 DEF ParserInStep, NotBegun, parserVars
<1> QED
  BY <1>1, <1>2, <1>3 DEF Next, Step

LEMMA ParserBeginsInStep == Init => ParserInStep
<1> SUFFICES ASSUME Init PROVE ParserInStep
  OBVIOUS
<1>1. NotBegun /\ input = <<>>
  BY DEF Init, NotBegun
<1>2. PICK x : x = <<>> /\ Pp!IsInput(x)
  <2>1. Len(<<>>) = 0 /\ 1 .. 0 = {}
    OBVIOUS
  <2> QED
    BY <2>1 DEF Pp!IsInput
<1>3. Pp!Parses(<<Pp!Operand(Pp!PRECEDENCE_ASSIGNMENT)>>, <<>>, <<>>, {}, x, 1, "parse")
  BY <1>2, Pp!ParserBegins
<1>4. frames = <<Pp!Operand(Pp!PRECEDENCE_ASSIGNMENT)>>
  BY <1>1, SameFrames DEF NotBegun
<1> QED
  BY <1>1, <1>2, <1>3, <1>4 DEF ParserInStep, Pp!ParserIInv, NotBegun

-----------------------------------------------------------------------------
(* What the parser knows of its nodes: an operand comes before its         *)
(* operator, no two nodes have one token, and the token an operator waits  *)
(* with is that of no node.                                                *)
LEMMA OperandsBefore ==
  ASSUME NEW b, NEW t, NEW g, NEW x, NEW p, Pp!Finished(b, t, g, x, p), Len(b) \in Nat, NEW n \in 1 .. Len(b)
  PROVE  \A k \in DOMAIN Children(b, n) : Children(b, n)[k] \in 1 .. n - 1
<1>1. Pp!Formed(b, n)
  BY DEF Pp!Finished
<1>2. CASE b[n].kind \in Ps!UnaryKinds
  <2>1. n - 1 \in 1 .. n - 1
    BY <1>1, <1>2, SameRules DEF Pp!Formed
  <2>2. Children(b, n) = <<n - 1>>
    <3>1. b[n].kind \notin Ps!BinaryKinds
      BY <1>2 DEF Ps!UnaryKinds, Ps!BinaryKinds
    <3> QED
      BY <1>2, <3>1 DEF Children, Ps!Expr
  <2> QED
    BY <2>1, <2>2
<1>3. CASE b[n].kind \notin Ps!UnaryKinds /\ b[n].kind \in Ps!BinaryKinds
  <2>1. PICK right : right = b[n - 1].first
    OBVIOUS
  <2>2. n > 1 /\ right > 1
    BY <1>1, <1>3, <2>1, SameRules DEF Pp!Formed
  <2>3. right \in 1 .. n - 1
    <3>1. n - 1 \in 1 .. Len(b)
      BY <2>2
    <3>2. Pp!Formed(b, n - 1)
      BY <3>1 DEF Pp!Finished
    <3> QED
      BY <2>1, <3>2 DEF Pp!Formed
  <2>4. right - 1 \in 1 .. n - 1 /\ n - 1 \in 1 .. n - 1
    BY <2>2, <2>3
  <2>5. Children(b, n) = <<right - 1, n - 1>>
    BY <1>3, <2>1 DEF Children, Ps!Lhs, Ps!Rhs
  <2> QED
    BY <2>4, <2>5
<1>4. CASE b[n].kind \notin Ps!UnaryKinds /\ b[n].kind \notin Ps!BinaryKinds
  BY <1>4 DEF Children
<1> QED
  BY <1>2, <1>3, <1>4

LEMMA NodesAre ==
  ASSUME Pp!ParserIInv
  PROVE  /\ Pp!IsSeq(built) /\ Pp!IsSeq(token) /\ Len(built) \in Nat /\ Len(token) = Len(built)
         /\ DOMAIN built = 1 .. Len(built) /\ DOMAIN token = 1 .. Len(built)
         /\ \A n \in 1 .. Len(built) : \A k \in DOMAIN Children(built, n) : Children(built, n)[k] \in 1 .. n - 1
         /\ \A m, n \in 1 .. Len(built) : token[m] = token[n] => m = n
<1>1. /\ Pp!IsSeq(built) /\ Pp!IsSeq(token) /\ Len(built) \in Nat /\ Len(token) = Len(built)
      /\ Pp!Finished(built, token, grouped, input, position)
  BY Pp!Found
<1>2. DOMAIN built = 1 .. Len(built) /\ DOMAIN token = 1 .. Len(built)
  BY <1>1 DEF Pp!IsSeq
<1>3. \A n \in 1 .. Len(built) : \A k \in DOMAIN Children(built, n) : Children(built, n)[k] \in 1 .. n - 1
  BY <1>1, OperandsBefore
<1>4. \A m, n \in 1 .. Len(built) : token[m] = token[n] => m = n
  BY <1>1 DEF Pp!Finished
<1> QED
  BY <1>1, <1>2, <1>3, <1>4

Joining == {"unary", "binary"}

LEMMA WaitsApart ==
  ASSUME Pp!ParserIInv, state = "parse"
  PROVE  /\ Pp!IsSeq(frames) /\ Len(frames) \in Nat /\ DOMAIN frames = 1 .. Len(frames)
         /\ \A i \in 1 .. Len(frames) : frames[i].task \in Joining =>
              \A n \in 1 .. Len(token) : token[n] # frames[i].at
<1>1. PICK c : Pp!Forest(frames, c, built, token, grouped, input, position)
  BY DEF Pp!ParserIInv, Pp!Parses
<1>2. Pp!IsSeq(frames) /\ Len(frames) \in Nat /\ DOMAIN frames = 1 .. Len(frames)
  BY <1>1 DEF Pp!Forest, Pp!IsSeq
<1>3. ASSUME NEW i \in 1 .. Len(frames), frames[i].task \in Joining, NEW n \in 1 .. Len(token)
      PROVE  token[n] # frames[i].at
  <2>1. Pp!Underway(frames, c, built, token, grouped, input, position)
    BY <1>1 DEF Pp!Forest
  <2>2. Pp!Divides(frames, c, token, i) /\ c[i] \in 0 .. Len(built) /\ frames[i].at \in 1 .. Len(input)
    BY <1>3, <2>1 DEF Pp!Underway, Pp!Waits, Pp!Waiting, Joining
  <2>3. Len(token) = Len(built) /\ Len(built) \in Nat /\ token[n] \in 1 .. Len(input) /\ Len(input) \in Nat
    BY <1>3, Pp!Found
  <2>4. CASE n <= c[i]
    BY <1>3, <2>2, <2>3, <2>4 DEF Pp!Divides
  <2>5. CASE n > c[i]
    BY <1>3, <2>2, <2>3, <2>5 DEF Pp!Divides
  <2> QED
    BY <1>3, <2>2, <2>3, <2>4, <2>5
<1> QED
  BY <1>2, <1>3

(* Every node that was begun has a cell, and the finished ones are there.  *)
TreeIInv ==
  /\ \A n \in DOMAIN token : token[n] \in DOMAIN made
  /\ \A i \in DOMAIN frames : frames[i].task \in Joining => frames[i].at \in DOMAIN made
  /\ TreeInArena

(* What a node's cell is to hold depends on the nodes before it only.      *)
LEMMA FilledStays ==
  ASSUME Pp!ParserIInv, NEW n \in 1 .. Len(built),
         \A m \in 1 .. Len(built) :
            built'[m] = built[m] /\ token'[m] = token[m] /\ made'[token[m]] = made[token[m]]
  PROVE  Filled(built, n)' = Filled(built, n)
<1>1. PICK b2, t2, m2 : b2 = built' /\ t2 = token' /\ m2 = made'
  OBVIOUS
<1>2. b2[n] = built[n] /\ Children(b2, n) = Children(built, n)
  <2>1. b2[n] = built[n]
    BY <1>1
  <2>2. built[n].kind \in Ps!BinaryKinds /\ built[n].kind \notin Ps!UnaryKinds => n - 1 \in 1 .. Len(built)
    <3>1. ASSUME built[n].kind \in Ps!BinaryKinds, built[n].kind \notin Ps!UnaryKinds
          PROVE  n - 1 \in 1 .. Len(built)
      <4>1. Children(built, n)[2] = n - 1 /\ 2 \in DOMAIN Children(built, n)
        BY <3>1 DEF Children, Ps!Rhs
      <4>2. n - 1 \in 1 .. n - 1 /\ Len(built) \in Nat
        BY <4>1, NodesAre
      <4> QED
        BY <4>2
    <3> QED
      BY <3>1
  <2>3. built[n].kind \in Ps!BinaryKinds /\ built[n].kind \notin Ps!UnaryKinds => b2[n - 1] = built[n - 1]
    BY <1>1, <2>2
  <2> QED
    BY <2>1, <2>3 DEF Children, Ps!Expr, Ps!Lhs, Ps!Rhs
<1>3. PICK kids : kids = Children(built, n)
  OBVIOUS
<1>4. \A k \in DOMAIN kids : m2[t2[kids[k]]] = made[token[kids[k]]]
  <2> SUFFICES ASSUME NEW k \in DOMAIN kids PROVE m2[t2[kids[k]]] = made[token[kids[k]]]
    OBVIOUS
  <2>1. kids[k] \in 1 .. n - 1 /\ Len(built) \in Nat
    BY <1>3, NodesAre
  <2>2. kids[k] \in 1 .. Len(built)
    BY <2>1
  <2> QED
    BY <1>1, <2>2
<1>5. [k \in DOMAIN kids |-> m2[t2[kids[k]]]] = [k \in DOMAIN kids |-> made[token[kids[k]]]]
  BY <1>4
<1>6. Filled(built, n) = Cell(built[n].kind, built[n].line, [k \in DOMAIN kids |-> made[token[kids[k]]]])
  BY <1>3 DEF Filled
<1>7. Filled(built, n)' = Cell(b2[n].kind, b2[n].line, [k \in DOMAIN Children(b2, n) |-> m2[t2[Children(b2, n)[k]]]])
  BY <1>1 DEF Filled
<1> QED
  BY <1>2, <1>3, <1>5, <1>6, <1>7

(* A new node, or a store into the cell of another one, leaves the         *)
(* finished nodes as they are in the arena.                                *)
KeepsNodes(b2, t2) == \A m \in 1 .. Len(built) : b2[m] = built[m] /\ t2[m] = token[m]

Puts(node, content) ==
  \/ ast_arena_make(node, content)
  \/ Store(node, content) /\ \A m \in 1 .. Len(built) : token[m] # node

Kept(t2, node, content) ==
  /\ DOMAIN made \subseteq DOMAIN made' /\ node \in DOMAIN made'
  /\ \A n \in DOMAIN made : made'[n] = made[n]
  /\ \A n \in 1 .. Len(built) : cells'[made'[t2[n]]] = Filled(built, n)'
  /\ cells'[made'[node]] = content

LEMMA OthersKept ==
  ASSUME ArenaIInv, Pp!ParserIInv, TreeIInv, NEW b2, b2 = built', NEW t2, t2 = token',
         KeepsNodes(b2, t2), NEW node, NEW content, Puts(node, content)
  PROVE  Kept(t2, node, content)
<1>0. Open
  BY DEF Puts, ast_arena_make, MakeHere, MakeInNewBlock, Store
<1>1. /\ DOMAIN built = 1 .. Len(built) /\ DOMAIN token = 1 .. Len(built)
      /\ \A n \in 1 .. Len(built) : token[n] \in DOMAIN made /\ cells[made[token[n]]] = Filled(built, n)
  BY <1>0, NodesAre DEF TreeIInv, TreeInArena
<1>2. /\ DOMAIN made \subseteq DOMAIN made' /\ node \in DOMAIN made'
      /\ \A n \in DOMAIN made : made'[n] = made[n]
      /\ \A n \in DOMAIN made : n # node => cells'[made[n]] = cells[made[n]]
      /\ cells'[made'[node]] = content
  <2>1. CASE ast_arena_make(node, content)
    <3>1. node \notin DOMAIN made
      BY <2>1 DEF ast_arena_make, MakeHere, MakeInNewBlock
    <3>2. PICK cell : Take(node, cell, content) /\ \A n \in DOMAIN made : made[n] # cell
      BY <2>1, MakesNewCell
    <3>3. \A n \in DOMAIN made : made[n] \in DOMAIN cells
      BY CellsOfNodes
    <3>4. /\ DOMAIN made' = DOMAIN made \cup {node} /\ made'[node] = cell
          /\ \A n \in DOMAIN made : n # node => made'[n] = made[n]
          /\ cells'[cell] = content
          /\ \A p \in DOMAIN cells : p # cell => cells'[p] = cells[p]
      <4>1. Take(node, cell, content)
        BY <3>2
      <4>2. /\ DOMAIN made' = DOMAIN made \cup {node} /\ made'[node] = cell
            /\ \A n \in DOMAIN made : n # node => made'[n] = made[n]
            /\ DOMAIN cells' = DOMAIN cells \cup {cell} /\ cells'[cell] = content
            /\ \A p \in DOMAIN cells : p # cell => cells'[p] = cells[p]
        BY <4>1 DEF Take, Extended
      <4> QED
        BY <4>2, Zenon
    <3>5. \A n \in DOMAIN made : cells'[made[n]] = cells[made[n]]
      BY <3>2, <3>3, <3>4
    <3> QED
      BY <3>1, <3>4, <3>5
  <2>2. CASE Store(node, content)
    <3>1. made' = made /\ node \in DOMAIN made /\ cells' = [cells EXCEPT ![made[node]] = content]
      BY <2>2 DEF Store
    <3>2. made[node] \in DOMAIN cells /\ \A n \in DOMAIN made : n # node => made[n] # made[node]
      BY <3>1 DEF ArenaIInv, CellsApart
    <3> QED
      BY <3>1, <3>2
  <2> QED
    BY <2>1, <2>2 DEF Puts
<1>3. ASSUME NEW n \in 1 .. Len(built) PROVE cells'[made'[t2[n]]] = Filled(built, n)'
  <2>1. Filled(built, n)' = Filled(built, n)
    BY <1>1, <1>2, FilledStays DEF KeepsNodes
  <2>2. t2[n] = token[n] /\ token[n] \in DOMAIN made /\ token[n] # node
    <3>1. ast_arena_make(node, content) => node \notin DOMAIN made
      BY DEF ast_arena_make, MakeHere, MakeInNewBlock
    <3> QED
      BY <1>1, <3>1 DEF KeepsNodes, Puts
  <2> QED
    BY <1>1, <1>2, <2>1, <2>2
<1> QED
  BY <1>2, <1>3 DEF Kept

(* A node is finished.                                                     *)
LEMMA TreeAdds ==
  ASSUME ArenaIInv, Pp!ParserIInv, Pp!ParserIInv', TreeIInv,
         NEW e, built' = Append(built, e), NEW a, token' = Append(token, a),
         \/ ast_arena_make(a, Filled(built', Len(built')))
         \/ Store(a, Filled(built', Len(built'))) /\ \A m \in 1 .. Len(built) : token[m] # a
  PROVE  /\ TreeInArena'
         /\ \A n \in DOMAIN token' : token'[n] \in DOMAIN made'
         /\ DOMAIN made \subseteq DOMAIN made'
<1>1. PICK b2, t2, last, n, content :
        /\ b2 = built' /\ t2 = token' /\ last = Len(built) /\ n = last + 1
        /\ content = Filled(built', Len(built'))
  OBVIOUS
<1>2. /\ last \in Nat /\ Pp!IsSeq(built) /\ Pp!IsSeq(token) /\ Len(token) = last
      /\ DOMAIN token = 1 .. last
  BY <1>1, NodesAre
<1>3. /\ Pp!IsSeq(b2) /\ Len(b2) = n /\ Pp!IsSeq(t2) /\ Len(t2) = n /\ t2[n] = a
      /\ \A m \in 1 .. last : b2[m] = built[m] /\ t2[m] = token[m]
  <2>1. Pp!IsSeq(b2) /\ Len(b2) = Len(built) + 1 /\ Pp!Extended(b2, built)
    BY <1>1, <1>2, Pp!Appended
  <2>2. Pp!IsSeq(t2) /\ Len(t2) = Len(token) + 1 /\ t2[Len(token) + 1] = a /\ Pp!Extended(t2, token)
    BY <1>1, <1>2, Pp!Appended
  <2> QED
    BY <1>1, <1>2, <2>1, <2>2 DEF Pp!Extended
<1>4. DOMAIN b2 = 1 .. n /\ DOMAIN t2 = 1 .. n
  BY <1>3 DEF Pp!IsSeq
<1>5. /\ DOMAIN made \subseteq DOMAIN made' /\ a \in DOMAIN made'
      /\ \A m \in DOMAIN made : made'[m] = made[m]
      /\ \A m \in 1 .. last : cells'[made'[t2[m]]] = Filled(built, m)'
      /\ cells'[made'[a]] = content
  <2>1. Puts(a, content) /\ KeepsNodes(b2, t2) /\ b2 = built' /\ t2 = token'
    BY <1>1, <1>3 DEF Puts, KeepsNodes
  <2>2. Kept(t2, a, content)
    BY <2>1, OthersKept
  <2> QED
    BY <1>1, <2>2 DEF Kept
<1>6. content = Filled(built, n)'
  <2>1. PICK kids : kids = Children(b2, n)
    OBVIOUS
  <2>2. \A k \in DOMAIN kids : kids[k] \in 1 .. last
    <3>1. Pp!Finished(built', token', grouped', input', position')
      BY DEF Pp!ParserIInv, Pp!Parses
    <3>2. PICK g2, x2, p2 : g2 = grouped' /\ x2 = input' /\ p2 = position'
      OBVIOUS
    <3>3. Pp!Finished(b2, t2, g2, x2, p2)
      BY <1>1, <3>1, <3>2
    <3>4. n \in 1 .. Len(b2) /\ Len(b2) \in Nat /\ n - 1 = last
      BY <1>1, <1>2, <1>3
    <3> QED
      BY <2>1, <3>3, <3>4, OperandsBefore
  <2>3. PICK m2 : m2 = made'
    OBVIOUS
  <2>4. \A k \in DOMAIN kids : m2[t2[kids[k]]] = made[token[kids[k]]]
    <3> SUFFICES ASSUME NEW k \in DOMAIN kids PROVE m2[t2[kids[k]]] = made[token[kids[k]]]
      OBVIOUS
    <3>1. kids[k] \in 1 .. last
      BY <2>2
    <3>2. t2[kids[k]] = token[kids[k]] /\ token[kids[k]] \in DOMAIN made
      BY <1>2, <1>3, <3>1 DEF TreeIInv
    <3> QED
      BY <1>5, <2>3, <3>2
  <2>5. [k \in DOMAIN kids |-> m2[t2[kids[k]]]] = [k \in DOMAIN kids |-> made[token[kids[k]]]]
    BY <2>4
  <2>6. content = Cell(b2[n].kind, b2[n].line, [k \in DOMAIN kids |-> made[token[kids[k]]]])
    <3>1. content = Filled(b2, n)
      BY <1>1, <1>3
    <3> QED
      BY <2>1, <3>1 DEF Filled
  <2>7. Filled(built, n)' = Cell(b2[n].kind, b2[n].line, [k \in DOMAIN kids |-> m2[t2[kids[k]]]])
    BY <1>1, <2>1, <2>3 DEF Filled
  <2> QED
    BY <2>5, <2>6, <2>7
<1>7. ASSUME NEW m \in 1 .. n
      PROVE  cells'[made'[t2[m]]] = Filled(built, m)' /\ t2[m] \in DOMAIN made'
  <2>1. CASE m = n
    BY <1>3, <1>5, <1>6, <2>1
  <2>2. CASE m # n
    <3>1. m \in 1 .. last
      BY <1>1, <1>2, <2>2
    <3>2. t2[m] = token[m] /\ token[m] \in DOMAIN made
      BY <1>2, <1>3, <3>1 DEF TreeIInv
    <3> QED
      BY <1>5, <3>1, <3>2
  <2> QED
    BY <2>1, <2>2
<1> QED
  BY <1>1, <1>4, <1>5, <1>7 DEF TreeInArena

(* A node is begun, to be filled in later.                                 *)
LEMMA TreeAwaits ==
  ASSUME ArenaIInv, Pp!ParserIInv, TreeIInv, UNCHANGED <<built, token>>,
         NEW a, NEW content, ast_arena_make(a, content)
  PROVE  /\ TreeInArena'
         /\ \A n \in DOMAIN token' : token'[n] \in DOMAIN made'
         /\ DOMAIN made \subseteq DOMAIN made' /\ a \in DOMAIN made'
<1>1. PICK b2, t2 : b2 = built' /\ t2 = token'
  OBVIOUS
<1>2. b2 = built /\ t2 = token /\ KeepsNodes(b2, t2) /\ Puts(a, content)
  BY <1>1 DEF KeepsNodes, Puts
<1>3. /\ DOMAIN made \subseteq DOMAIN made' /\ a \in DOMAIN made'
      /\ \A m \in 1 .. Len(built) : cells'[made'[t2[m]]] = Filled(built, m)'
  BY <1>1, <1>2, OthersKept DEF Kept
<1>4. DOMAIN built = 1 .. Len(built)
  BY NodesAre
<1> QED
  BY <1>1, <1>2, <1>3, <1>4 DEF TreeInArena, TreeIInv

LEMMA TreeRests ==
  ASSUME TreeIInv, UNCHANGED <<built, token, arenaVars>>
  PROVE  TreeInArena' /\ \A n \in DOMAIN token' : token'[n] \in DOMAIN made'
BY DEF TreeIInv, TreeInArena, arenaVars, Open, Filled, Children, Ps!Expr, Ps!Lhs, Ps!Rhs

-----------------------------------------------------------------------------
(* The operators that wait have their nodes.                               *)
Awaited(f, nodes) == \A i \in DOMAIN f : f[i].task \in Joining => f[i].at \in nodes

LEMMA AwaitedDropped ==
  ASSUME NEW s, Pp!IsSeq(s), s # <<>>, NEW nodes, Awaited(s, nodes)
  PROVE  Awaited(Tail(s), nodes)
<1>1. PICK r : r = Tail(s)
  OBVIOUS
<1>2. Pp!IsSeq(r) /\ Pp!Below(r, s, 1) /\ Len(r) = Len(s) - 1 /\ Len(s) > 0
  BY <1>1, Pp!Dropped
<1>3. DOMAIN r = 1 .. Len(r) /\ DOMAIN s = 1 .. Len(s) /\ Len(s) \in Nat
  BY <1>2 DEF Pp!IsSeq
<1>4. ASSUME NEW i \in DOMAIN r PROVE i + 1 \in DOMAIN s /\ r[i] = s[i + 1]
  BY <1>2, <1>3, <1>4 DEF Pp!Below
<1>5. Awaited(r, nodes)
  BY <1>4 DEF Awaited
<1> QED
  BY <1>1, <1>5

LEMMA AwaitedReplaced ==
  ASSUME NEW s, Pp!IsSeq(s), NEW r, NEW e, Pp!IsReplaced(r, s, e), NEW nodes, Awaited(s, nodes),
         e.task \notin Joining
  PROVE  Awaited(r, nodes)
<1>1. /\ Pp!IsSeq(r) /\ Len(r) = Len(s) /\ r[1] = e
      /\ \A i \in 1 .. Len(s) : i > 1 => r[i] = s[i]
  BY DEF Pp!IsReplaced
<1>2. DOMAIN r = 1 .. Len(s) /\ DOMAIN s = 1 .. Len(s) /\ Len(s) \in Nat
  BY <1>1 DEF Pp!IsSeq
<1>3. ASSUME NEW i \in 1 .. Len(s), r[i].task \in Joining PROVE r[i] = s[i]
  BY <1>1, <1>2, <1>3
<1> QED
  BY <1>2, <1>3 DEF Awaited

LEMMA AwaitedRaised ==
  ASSUME NEW s, Pp!IsSeq(s), NEW r, NEW y, NEW z, Pp!IsRaised(r, s, y, z), NEW nodes, Awaited(s, nodes),
         y.task \notin Joining, z.task \in Joining => z.at \in nodes
  PROVE  Awaited(r, nodes)
<1>1. Pp!IsSeq(r) /\ Len(r) = Len(s) + 2 /\ r[1] = y /\ r[2] = z /\ \A i \in 1 .. Len(s) : r[i + 2] = s[i]
  BY DEF Pp!IsRaised, Pp!Below
<1>2. DOMAIN r = 1 .. Len(r) /\ DOMAIN s = 1 .. Len(s) /\ Len(s) \in Nat
  BY <1>1 DEF Pp!IsSeq
<1>3. ASSUME NEW i \in 1 .. Len(r), i # 1, i # 2 PROVE i - 2 \in DOMAIN s /\ r[i] = s[i - 2]
  <2>1. i - 2 \in 1 .. Len(s) /\ (i - 2) + 2 = i
    BY <1>1, <1>2, <1>3
  <2> QED
    BY <1>1, <1>2, <2>1
<1>4. ASSUME NEW i \in 1 .. Len(r), r[i].task \in Joining PROVE r[i].at \in nodes
  <2>1. CASE i = 1
    BY <1>1, <1>4, <2>1
  <2>2. CASE i = 2
    BY <1>1, <1>4, <2>2
  <2>3. CASE i # 1 /\ i # 2
    BY <1>3, <1>4, <2>3 DEF Awaited
  <2> QED
    BY <2>1, <2>2, <2>3
<1> QED
  BY <1>2, <1>4 DEF Awaited

LEMMA AwaitedStays ==
  ASSUME Pp!ParserIInv, Ps!Step, NEW nodes, Awaited(frames, nodes),
         Ps!_unary \/ Ps!_binary => position \in nodes
  PROVE  Awaited(frames', nodes)
<1>1. state = "parse" /\ Pp!IsSeq(frames)
  <2>1. state = "parse"
    BY DEF Ps!Step, Ps!Literal, Ps!_unary, Ps!_group, Ps!_binary, Ps!EndOfOperators, Ps!Node,
           Ps!EndOfGroup, Ps!parser_parse, Ps!CallNull, Ps!ReadBeyond, Ps!At
  <2> QED
    BY <2>1, WaitsApart
<1>2. CASE Ps!Literal
  <2>1. PICK e, f2 : e = Ps!OperatorsOf(Ps!Top.precedence) /\ f2 = <<e>> \o Tail(frames)
    OBVIOUS
  <2>2. frames' = f2 /\ frames # <<>>
    BY <1>2, <2>1 DEF Ps!Literal, Ps!Rest, Ps!At
  <2>3. Pp!IsReplaced(f2, frames, e)
    BY <1>1, <2>1, <2>2, Pp!Replaced
  <2>4. e.task \notin Joining
    BY <2>1 DEF Ps!OperatorsOf, Ps!Frame, Joining
  <2>5. Awaited(f2, nodes)
    BY <1>1, <2>3, <2>4, AwaitedReplaced
  <2> QED
    BY <2>2, <2>5
<1>3. CASE Ps!_unary \/ Ps!_group
  <2>1. PICK y, z, e, q, f2 :
          /\ y = Ps!Operand(IF Ps!_unary THEN Ps!PRECEDENCE_UNARY ELSE Ps!PRECEDENCE_ASSIGNMENT)
          /\ z = Ps!Frame(IF Ps!_unary THEN "unary" ELSE "group", 0, position, Len(built) + 1)
          /\ e = Ps!OperatorsOf(Ps!Top.precedence)
          /\ q = <<e>> \o Tail(frames) /\ f2 = <<y, z, e>> \o Tail(frames)
    OBVIOUS
  <2>2. frames' = f2 /\ frames # <<>>
    <3>1. CASE Ps!_unary
      BY <2>1, <3>1 DEF Ps!_unary, Ps!Rest, Ps!At
    <3>2. CASE Ps!_group /\ ~Ps!_unary
      BY <2>1, <3>2 DEF Ps!_group, Ps!Rest, Ps!At
    <3> QED
      BY <1>3, <3>1, <3>2
  <2>3. Pp!IsReplaced(q, frames, e)
    BY <1>1, <2>1, <2>2, Pp!Replaced
  <2>4. Pp!IsRaised(f2, q, y, z)
    BY <1>1, <2>1, <2>2, <2>3, Pp!Opened
  <2>5. e.task \notin Joining /\ y.task \notin Joining
    BY <2>1 DEF Ps!OperatorsOf, Ps!Operand, Ps!Frame, Joining
  <2>6. z.task \in Joining => z.at \in nodes
    <3>1. CASE Ps!_unary
      BY <2>1, <3>1 DEF Ps!Frame
    <3>2. CASE ~Ps!_unary
      BY <2>1, <3>2 DEF Ps!Frame, Joining
    <3> QED
      BY <3>1, <3>2
  <2>7. Awaited(q, nodes) /\ Pp!IsSeq(q)
    BY <1>1, <2>3, <2>5, AwaitedReplaced DEF Pp!IsReplaced
  <2>8. Awaited(f2, nodes)
    BY <2>4, <2>5, <2>6, <2>7, AwaitedRaised
  <2> QED
    BY <2>2, <2>8
<1>4. CASE Ps!_binary
  <2>1. PICK y, z, f2 : /\ y = Ps!RightOperand(Ps!Current)
                        /\ z = Ps!Frame("binary", 0, position, built[Len(built)].first)
                        /\ f2 = <<y, z>> \o frames
    OBVIOUS
  <2>2. frames' = f2
    BY <1>4, <2>1 DEF Ps!_binary
  <2>3. Pp!IsRaised(f2, frames, y, z)
    BY <1>1, <2>1, Pp!Raised
  <2>4. y.task \notin Joining /\ z.at = position
    BY <2>1 DEF Ps!RightOperand, Ps!Operand, Ps!Frame, Joining
  <2>5. Awaited(f2, nodes)
    BY <1>1, <1>4, <2>3, <2>4, AwaitedRaised
  <2> QED
    BY <2>2, <2>5
<1>5. CASE Ps!EndOfOperators \/ Ps!Node \/ Ps!EndOfGroup
  <2>1. frames' = Tail(frames) /\ frames # <<>>
    BY <1>5 DEF Ps!EndOfOperators, Ps!Node, Ps!EndOfGroup, Ps!Rest, Ps!At
  <2>2. Awaited(Tail(frames), nodes)
    BY <1>1, <2>1, AwaitedDropped
  <2> QED
    BY <2>1, <2>2
<1>6. CASE Ps!parser_parse \/ Ps!CallNull \/ Ps!ReadBeyond
  BY <1>6 DEF Ps!parser_parse, Ps!CallNull, Ps!ReadBeyond, Awaited
<1> QED
  BY <1>2, <1>3, <1>4, <1>5, <1>6 DEF Ps!Step

-----------------------------------------------------------------------------
LEMMA TreeParses ==
  ASSUME ArenaIInv, Pp!ParserIInv, Pp!ParserIInv', TreeIInv, ParserStep
  PROVE  TreeIInv'
<1>1. /\ TreeInArena'
      /\ \A n \in DOMAIN token' : token'[n] \in DOMAIN made'
      /\ DOMAIN made \subseteq DOMAIN made'
      /\ Ps!_unary \/ Ps!_binary => position \in DOMAIN made'
  <2>1. CASE Ps!Literal /\ ast_arena_make(position, Filled(built', Len(built')))
    <3>1. PICK e, a : e = Ps!LiteralNode(input[position], Len(built) + 1) /\ a = position
      OBVIOUS
    <3>2. built' = Append(built, e) /\ token' = Append(token, a)
      BY <2>1, <3>1 DEF Ps!Literal
    <3>3. ast_arena_make(a, Filled(built', Len(built')))
      BY <2>1, <3>1
    <3>4. ~Ps!_unary /\ ~Ps!_binary
      <4>1. Ps!At("operand") /\ Ps!Current \in Ps!Literals
        BY <2>1 DEF Ps!Literal
      <4> QED
        BY <4>1 DEF Ps!_unary, Ps!_binary, Ps!At, Ps!Literals
    <3> QED
      BY <3>2, <3>3, <3>4, TreeAdds
  <2>2. CASE \/ Ps!_unary /\ ast_arena_make(position, Cell(Ps!UnaryKind(Ps!Current), input[position].line, <<>>))
             \/ Ps!_binary /\ ast_arena_make(position, UNSET)
    <3>1. UNCHANGED <<built, token>>
      BY <2>2 DEF Ps!_unary, Ps!_binary
    <3>2. PICK a, content : a = position /\ ast_arena_make(a, content)
      BY <2>2
    <3> QED
      BY <3>1, <3>2, TreeAwaits
  <2>3. CASE Ps!Node /\ Store(Ps!Top.at, Filled(built', Len(built')))
    <3>1. PICK e, a : /\ built' = Append(built, e)
                      /\ a = Ps!Top.at
      BY <2>3 DEF Ps!Node
    <3>2. token' = Append(token, a) /\ Store(a, Filled(built', Len(built')))
      BY <2>3, <3>1 DEF Ps!Node
    <3>3. Ps!Top.task \in Joining /\ state = "parse" /\ frames # <<>>
      BY <2>3 DEF Ps!Node, Ps!At, Joining
    <3>4. \A m \in 1 .. Len(built) : token[m] # a
      <4>1. /\ Pp!IsSeq(frames)
            /\ \A i \in 1 .. Len(frames) : frames[i].task \in Joining =>
                 \A n \in 1 .. Len(token) : token[n] # frames[i].at
        BY <3>3, WaitsApart
      <4>2. Head(frames) = frames[1] /\ Len(frames) > 0 /\ Len(frames) \in Nat
        BY <3>3, <4>1 DEF Pp!IsSeq
      <4>3. 1 \in 1 .. Len(frames) /\ frames[1].task \in Joining /\ a = frames[1].at
        BY <3>1, <3>3, <4>2 DEF Ps!Top
      <4> QED
        BY <4>1, <4>3, NodesAre
    <3>5. ~Ps!_unary /\ ~Ps!_binary
      BY <3>3 DEF Ps!_unary, Ps!_binary, Ps!At, Joining
    <3> QED
      BY <3>1, <3>2, <3>4, <3>5, TreeAdds
  <2>4. CASE /\ \/ Ps!_group \/ Ps!EndOfOperators \/ Ps!EndOfGroup
                \/ Ps!parser_parse \/ Ps!CallNull \/ Ps!ReadBeyond
             /\ UNCHANGED arenaVars
    <3>1. UNCHANGED <<built, token>>
      BY <2>4 DEF Ps!_group, Ps!EndOfOperators, Ps!EndOfGroup, Ps!parser_parse, Ps!CallNull, Ps!ReadBeyond
    <3>2. ~Ps!_unary /\ ~Ps!_binary
      BY <2>4 DEF Ps!_unary, Ps!_binary, Ps!_group, Ps!EndOfOperators, Ps!EndOfGroup,
                  Ps!parser_parse, Ps!CallNull, Ps!ReadBeyond, Ps!At, Ps!HasPrefix
    <3>3. made' = made
      BY <2>4 DEF arenaVars
    <3> QED
      BY <2>4, <3>1, <3>2, <3>3, TreeRests
  <2> QED
    BY <2>1, <2>2, <2>3, <2>4 DEF ParserStep
<1>2. PICK nodes : nodes = DOMAIN made'
  OBVIOUS
<1>3. Awaited(frames, nodes)
  BY <1>1, <1>2 DEF TreeIInv, Awaited
<1>4. Awaited(frames', nodes)
  <2>1. Ps!Step
    BY DEF ParserStep, Ps!Step
  <2> QED
    BY <1>1, <1>2, <1>3, <2>1, AwaitedStays
<1> QED
  BY <1>1, <1>2, <1>4 DEF TreeIInv, Awaited

LEMMA TreeKeeps ==
  ASSUME ArenaIInv, ParserInStep, ParserInStep', TreeIInv, [Next]_vars
  PROVE  TreeIInv'
<1>1. CASE Parse
  BY <1>1, TreeParses DEF Parse, ParserInStep
<1>2. CASE Free
  <2>1. ~Open'
    BY <1>2, FreeKeeps DEF Free, ast_arena_free, Open, ArenaIInv, ArenaTypeOK, Chained, Freed
  <2>2. UNCHANGED <<token, frames, made>>
    BY <1>2 DEF Free, ast_arena_free, parserVars
  <2> QED
    BY <2>1, <2>2 DEF TreeIInv, TreeInArena
<1>3. ASSUME Scan \/ parser_init \/ chunk_write_from_ast \/ Run \/ Ended \/ UNCHANGED vars
      PROVE  TreeIInv'
  <2>1. UNCHANGED <<frames, built, token, arenaVars>>
    BY <1>3 DEF Scan, parser_init, chunk_write_from_ast, Run, Ended, vars, parserVars
  <2>2. UNCHANGED <<frames, made>>
    BY <2>1 DEF arenaVars
  <2> QED
    BY <2>1, <2>2, TreeRests DEF TreeIInv
<1> QED
  BY <1>1, <1>2, <1>3 DEF Next, Step

LEMMA TreeBegins == Init => TreeIInv
<1> SUFFICES ASSUME Init PROVE TreeIInv
  OBVIOUS
<1>1. built = <<>> /\ token = <<>> /\ frames = <<Ps!Operand(Ps!PRECEDENCE_ASSIGNMENT)>>
  BY DEF Init
<1>2. DOMAIN built = {} /\ DOMAIN token = {}
  BY <1>1
<1>3. PICK e : e = Ps!Operand(Ps!PRECEDENCE_ASSIGNMENT)
  OBVIOUS
<1>4. e.task \notin Joining
  BY <1>3 DEF Ps!Operand, Ps!Frame, Joining
<1>5. \A i \in DOMAIN frames : frames[i] = e
  BY <1>1, <1>3
<1> QED
  BY <1>2, <1>4, <1>5 DEF TreeIInv, TreeInArena

LEMMA TreeInvariant == Spec => [](ParserInStep /\ TreeIInv)
<1>1. Init => ScannerIInv /\ ArenaIInv /\ ParserInStep /\ TreeIInv
  BY ScannerStarts, NewIInv, ParserBeginsInStep, TreeBegins DEF Init
<1>2. ScannerIInv /\ ArenaIInv /\ ParserInStep /\ TreeIInv /\ [Next]_vars => ParserInStep' /\ TreeIInv'
  <2>1. ScannerIInv /\ ParserInStep /\ [Next]_vars => ParserInStep'
    BY ParserIsInStep
  <2> QED
    BY <2>1, TreeKeeps
<1> QED
  BY <1>1, <1>2, ScannerInvariant, ProgramKeepsArena, PTL DEF Spec

(* As long as the arena is open every finished node is in its cell as the  *)
(* parser built it, with the cells of its operands in it: the pointers the *)
(* parser keeps while it waits for operands (parser.c) stay good, and no   *)
(* node is written over (ast_arena_make).                                  *)
THEOREM TreeIsInArena == Spec => []TreeInArena
<1>1. TreeIInv => TreeInArena
  BY DEF TreeIInv
<1> QED
  BY <1>1, TreeInvariant, PTL
(* A node is made of the token of its number, whoever calls the parser.    *)
LEMMA MadeBegins == (NotBegun => Pp!NodesMade) /\ (Init => Pp!NodesMade)
<1>1. ASSUME NotBegun PROVE Pp!NodesMade
  <2>1. PICK f : f = frames /\ f = <<Pp!Operand(Pp!PRECEDENCE_ASSIGNMENT)>>
    BY <1>1, SameFrames DEF NotBegun
  <2>2. Len(f) = 1 /\ f[1] = Pp!Operand(Pp!PRECEDENCE_ASSIGNMENT)
    BY <2>1
  <2>3. \A i \in 1 .. Len(f) : Pp!OpensWith(f[i], input)
    BY <2>2 DEF Pp!OpensWith, Pp!Operand, Pp!Frame
  <2>4. Len(built) = 0 /\ \A n \in 1 .. 0 : FALSE
    BY <1>1 DEF NotBegun
  <2> QED
    BY <2>1, <2>3, <2>4 DEF Pp!NodesMade
<1>2. Init => NotBegun
  BY DEF Init, NotBegun
<1> QED
  BY <1>1, <1>2

LEMMA MadeKept ==
  ASSUME ParserInStep, Pp!NodesMade, [Next]_vars
  PROVE  Pp!NodesMade'
<1>1. CASE parser_init
  <2>1. NotBegun /\ UNCHANGED <<position, frames, built, state, token, grouped>>
    BY <1>1 DEF parser_init, ParserInStep
  <2>2. NotBegun'
    BY <2>1 DEF NotBegun
  <2>3. (NotBegun => Pp!NodesMade)'
    BY MadeBegins, PTL
  <2> QED
    BY <2>2, <2>3
<1>2. CASE Parse
  <2>1. Ps!Step
    BY <1>2 DEF Parse, ParserStep, Ps!Step
  <2>2. [Pp!Next]_(Pp!vars)
    BY <2>1, SameSteps DEF Pp!Next
  <2> QED
    BY <2>2, Pp!MadeStep DEF ParserInStep
<1>3. CASE Scan \/ chunk_write_from_ast \/ Run \/ Free \/ Ended \/ UNCHANGED vars
  <2>1. UNCHANGED parserVars
    BY <1>3 DEF Scan, chunk_write_from_ast, Run, Free, Ended, vars
  <2> QED
    BY <2>1 DEF Pp!NodesMade, parserVars
<1> QED
  BY <1>1, <1>2, <1>3 DEF Next, Step

LEMMA MadeInvariant == Spec => [](ScannerIInv /\ ParserInStep /\ Pp!NodesMade)
<1>1. ScannerIInv /\ ParserInStep /\ Pp!NodesMade /\ [Next]_vars => Pp!NodesMade'
  BY MadeKept
<1>2. Init => Pp!NodesMade
  BY MadeBegins
<1> QED
  BY <1>1, <1>2, ScannerInvariant, TreeInvariant, PTL DEF Spec

-----------------------------------------------------------------------------
(* The chunk of the program is that of ChunkOps_proofs.                    *)
Cp == INSTANCE ChunkOps_proofs

LEMMA SameChunks ==
  /\ \A a, i : It!GetLine(a, i) = Cp!GetLine(a, i)
  /\ \A c, byte, l : It!ChunkWrite(c, byte, l) = Cp!ChunkWrite(c, byte, l)
  /\ \A c, v, l : It!WriteValue(c, v, l) = Cp!WriteValue(c, v, l)
  /\ It!chunk_init = Cp!chunk_init
<1>1. ASSUME NEW a, NEW i PROVE It!GetLine(a, i) = Cp!GetLine(a, i)
  <2>1. \A r : It!RunEnd(a, r) = Cp!RunEnd(a, r)
    BY DEF It!RunEnd, Cp!RunEnd
  <2>2. \A S : It!Min(S) = Cp!Min(S)
    BY DEF It!Min, Cp!Min
  <2> QED
    BY <2>1, <2>2 DEF It!GetLine, Cp!GetLine
<1>2. ASSUME NEW c, NEW byte, NEW l PROVE It!ChunkWrite(c, byte, l) = Cp!ChunkWrite(c, byte, l)
  BY DEF It!ChunkWrite, Cp!ChunkWrite, It!Pushed, Cp!Pushed, It!Grown, Cp!Grown, It!ToByte, Cp!ToByte,
         It!LineWrite, Cp!LineWrite, It!ContinuesRun, Cp!ContinuesRun, It!Run, Cp!Run,
         It!WordCount, Cp!WordCount
<1>3. ASSUME NEW c, NEW v PROVE It!AddConstant(c, v) = Cp!AddConstant(c, v)
  BY DEF It!AddConstant, Cp!AddConstant, It!Pushed, Cp!Pushed, It!Grown, Cp!Grown
<1>4. ASSUME NEW c, NEW v, NEW l PROVE It!WriteValue(c, v, l) = Cp!WriteValue(c, v, l)
  <2>1. /\ It!TakesShortForm(c) <=> Cp!TakesShortForm(c)
        /\ \A d : It!ConstantCount(d) = Cp!ConstantCount(d)
        /\ \A n, unit : It!MaskByte(n, unit) = Cp!MaskByte(n, unit)
        /\ It!OPCODE_CONSTANT = Cp!OPCODE_CONSTANT /\ It!OPCODE_CONSTANT_LONG = Cp!OPCODE_CONSTANT_LONG
    BY DEF It!TakesShortForm, Cp!TakesShortForm, It!ConstantCount, Cp!ConstantCount, It!MaskByte, Cp!MaskByte,
           It!OPCODE_CONSTANT, Cp!OPCODE_CONSTANT, It!OPCODE_CONSTANT_LONG, Cp!OPCODE_CONSTANT_LONG
  <2> QED
    BY <1>2, <1>3, <2>1 DEF It!WriteValue, Cp!WriteValue, It!WriteConstant, Cp!WriteConstant
<1>5. It!chunk_init = Cp!chunk_init
  BY DEF It!chunk_init, Cp!chunk_init, It!EmptyArray, Cp!EmptyArray
<1> QED
  BY <1>1, <1>2, <1>4, <1>5

(* The line every node of the program has, that of the RETURN included.    *)
NodeLines == [n \in {It!ROOT} \cup DOMAIN program |-> IF n = It!ROOT THEN It!RETURN_LINE ELSE program[n].line]

(* The parser's tokens have the lines of the scanner's; the code is        *)
(* written for the nodes the parser built, each byte for the line of one.  *)
LinesIInv ==
  /\ stage # "scan" => \A k \in 1 .. Len(input) : k \in DOMAIN tokens /\ input[k].line = tokens[k].line
  /\ stage # "run" => emitted = <<>>
  /\ stage = "run" => program = built
  /\ \A j \in 1 .. Len(emitted) : emitted[j].node \in {It!ROOT} \cup DOMAIN program
  /\ Cp!Blames(chunk, emitted, NodeLines)

LEMMA EmitsLined ==
  ASSUME LinesIInv, NEW n \in {It!ROOT} \cup DOMAIN program, It!Emitted(n), program' = program,
         NEW d, chunk' = d, Cp!WrittenFor(chunk, d, NodeLines[n])
  PROVE  /\ Cp!Blames(chunk, emitted, NodeLines)'
         /\ \A j \in 1 .. Len(emitted') : emitted'[j].node \in {It!ROOT} \cup DOMAIN program
<1>1. PICK y, f, lineOf : /\ y = [node |-> n, offset |-> Len(chunk.code.elems)]
                          /\ f = Append(emitted, y) /\ lineOf = NodeLines
  OBVIOUS
<1>2. emitted' = f
  BY <1>1 DEF It!Emitted
<1>3. Cp!Blames(chunk, emitted, lineOf) /\ Cp!WrittenFor(chunk, d, lineOf[n])
  BY <1>1 DEF LinesIInv
<1>4. Cp!Blames(d, f, lineOf)
  BY <1>1, <1>3, ChunkAssumption, Cp!NextBlamed
<1>5. NodeLines' = lineOf
  BY <1>1 DEF NodeLines
<1>6. PICK S : emitted \in Seq(S)
  BY <1>3 DEF Cp!Blames
<1>7. /\ Len(emitted) \in Nat /\ Len(f) = Len(emitted) + 1 /\ f[Len(emitted) + 1] = y
      /\ \A j \in 1 .. Len(emitted) : f[j] = emitted[j]
  <2>1. emitted \in Seq(S \cup {y})
    BY <1>6
  <2> QED
    BY <1>1, <2>1
<1>8. ASSUME NEW j \in 1 .. Len(f) PROVE f[j].node \in {It!ROOT} \cup DOMAIN program
  <2>1. CASE j = Len(emitted) + 1
    BY <1>1, <1>7, <2>1
  <2>2. CASE j # Len(emitted) + 1
    <3>1. j \in 1 .. Len(emitted)
      BY <1>7, <2>2
    <3> QED
      BY <1>7, <3>1 DEF LinesIInv
  <2> QED
    BY <2>1, <2>2
<1> QED
  BY <1>2, <1>4, <1>5, <1>8

(* A step of the compiler writes an instruction for the line of its node,  *)
(* or none.                                                                *)
LEMMA CompilesLined ==
  ASSUME LinesIInv, \A n \in DOMAIN program : program[n].line \in Nat /\ n # It!ROOT, It!Compile
  PROVE  /\ program' = program
         /\ Cp!Blames(chunk, emitted, NodeLines)'
         /\ \A j \in 1 .. Len(emitted') : emitted'[j].node \in {It!ROOT} \cup DOMAIN program
<1>1. Cp!Lined(chunk)
  BY DEF LinesIInv, Cp!Blames
<1>2. ASSUME UNCHANGED <<program, chunk, emitted>>
      PROVE  /\ Cp!Blames(chunk, emitted, NodeLines)'
             /\ \A j \in 1 .. Len(emitted') : emitted'[j].node \in {It!ROOT} \cup DOMAIN program
  <2>1. NodeLines' = NodeLines
    BY <1>2 DEF NodeLines
  <2> QED
    BY <1>2, <2>1 DEF LinesIInv
<1>3. ASSUME NEW n \in DOMAIN program PROVE NodeLines[n] = program[n].line /\ program[n].line \in Nat
  BY DEF NodeLines
<1>4. ASSUME NEW n \in DOMAIN program, It!WriteBool(n) \/ It!WriteOperator(n)
      PROVE  /\ program' = program
             /\ Cp!Blames(chunk, emitted, NodeLines)'
             /\ \A j \in 1 .. Len(emitted') : emitted'[j].node \in {It!ROOT} \cup DOMAIN program
  <2>1. PICK op : chunk' = It!ChunkWrite(chunk, op, program[n].line) /\ It!Emitted(n) /\ program' = program
    BY <1>4 DEF It!WriteBool, It!WriteOperator, It!BlamedLine
  <2>2. PICK d : d = chunk' /\ d = Cp!ChunkWrite(chunk, op, program[n].line)
    BY <2>1, SameChunks
  <2>3. Cp!WrittenFor(chunk, d, NodeLines[n])
    BY <1>1, <1>3, <2>2, ChunkAssumption, Cp!ByteIsLined
  <2> QED
    BY <2>1, <2>2, <2>3, EmitsLined
<1>5. ASSUME NEW n \in DOMAIN program, It!WriteNumber(n) \/ It!WriteString(n), chunk' # chunk \/ emitted' # emitted
      PROVE  /\ program' = program
             /\ Cp!Blames(chunk, emitted, NodeLines)'
             /\ \A j \in 1 .. Len(emitted') : emitted'[j].node \in {It!ROOT} \cup DOMAIN program
  <2>1. PICK v : chunk' = It!WriteValue(chunk, v, program[n].line) /\ It!Emitted(n) /\ program' = program
    BY <1>5 DEF It!WriteNumber, It!WriteString
  <2>2. PICK d : d = chunk' /\ d = Cp!WriteValue(chunk, v, program[n].line)
    BY <2>1, SameChunks
  <2>3. Cp!WrittenFor(chunk, d, NodeLines[n])
    BY <1>1, <1>3, <2>2, ChunkAssumption, Cp!ValueIsLined
  <2> QED
    BY <2>1, <2>2, <2>3, EmitsLined
<1>6. ASSUME It!Finish
      PROVE  /\ program' = program
             /\ Cp!Blames(chunk, emitted, NodeLines)'
             /\ \A j \in 1 .. Len(emitted') : emitted'[j].node \in {It!ROOT} \cup DOMAIN program
  <2>1. PICK n : n = It!ROOT
    OBVIOUS
  <2>2. n \in {It!ROOT} \cup DOMAIN program /\ NodeLines[n] = It!RETURN_LINE /\ It!RETURN_LINE \in Nat
    BY <2>1 DEF NodeLines, It!RETURN_LINE
  <2>3. PICK op : chunk' = It!ChunkWrite(chunk, op, It!RETURN_LINE) /\ It!Emitted(n) /\ program' = program
    BY <1>6, <2>1 DEF It!Finish
  <2>4. PICK d : d = chunk' /\ d = Cp!ChunkWrite(chunk, op, It!RETURN_LINE)
    BY <2>3, SameChunks
  <2>5. Cp!WrittenFor(chunk, d, NodeLines[n])
    BY <1>1, <2>2, <2>4, ChunkAssumption, Cp!ByteIsLined
  <2> QED
    BY <2>2, <2>3, <2>4, <2>5, EmitsLined
<1>7. ASSUME NEW n \in DOMAIN program, It!VisitUnary(n) \/ It!VisitBinary(n) \/ It!VisitSilent(n)
      PROVE  UNCHANGED <<program, chunk, emitted>>
  BY <1>7 DEF It!VisitUnary, It!VisitBinary, It!VisitSilent
<1>8. ASSUME NEW n \in DOMAIN program, It!WriteNumber(n) \/ It!WriteString(n) PROVE program' = program
  BY <1>8 DEF It!WriteNumber, It!WriteString
<1> QED
  BY <1>2, <1>4, <1>5, <1>6, <1>7, <1>8 DEF It!Compile

LEMMA LinesKept ==
  ASSUME ScannerIInv, ParserInStep, LinesIInv, [Next]_vars
  PROVE  LinesIInv'
<1>1. CASE Scan \/ Free \/ Ended \/ UNCHANGED vars
  <2>1. UNCHANGED <<stage, input, built, token, emitted, program, chunk>>
    BY <1>1 DEF Scan, Free, Ended, vars, parserVars, compilerVars, sharedVars
  <2>2. stage # "scan" => tokens' = tokens
    BY <1>1 DEF Scan, Free, Ended, vars, scannerVars
  <2> QED
    BY <2>1, <2>2 DEF LinesIInv, NodeLines
<1>2. CASE parser_init
  <2>1. /\ stage = "scan" /\ stage' = "parse" /\ tokens' = tokens
        /\ UNCHANGED <<built, token, emitted, program, chunk>>
        /\ input' = [n \in 1 .. Len(tokens) - 1 |-> ParserToken(tokens[n])]
    BY <1>2 DEF parser_init, scannerVars, compilerVars, sharedVars
  <2>2. PICK len, x : len = Len(tokens) - 1 /\ x = input' /\ x = [n \in 1 .. len |-> ParserToken(tokens[n])]
    BY <2>1
  <2>3. len \in Nat /\ DOMAIN tokens = 1 .. Len(tokens)
    <3>1. tokens # <<>> /\ \E S : tokens \in Seq(S)
      BY <1>2 DEF ScannerIInv, parser_init, Scanned
    <3> QED
      BY <2>2, <3>1
  <2>4. Len(x) = len
    <3>1. x \in Seq({ParserToken(tokens[n]) : n \in 1 .. len})
      BY <2>2, <2>3
    <3> QED
      BY <2>2, <2>3, <3>1
  <2>5. \A k \in 1 .. Len(x) : k \in DOMAIN tokens /\ x[k].line = tokens[k].line
    BY <2>2, <2>3, <2>4 DEF ParserToken
  <2>6. stage' # "run" /\ NodeLines' = NodeLines
    BY <2>1 DEF NodeLines
  <2> QED
    BY <2>1, <2>2, <2>5, <2>6 DEF LinesIInv
<1>3. CASE Parse
  <2>1. /\ Ps!Step /\ stage = "parse" /\ stage' = "parse" /\ tokens' = tokens
        /\ UNCHANGED <<emitted, program, chunk>>
    BY <1>3 DEF Parse, ParserStep, Ps!Step, scannerVars, compilerVars, sharedVars
  <2>2. input' = input
    BY <2>1 DEF Ps!Step, Ps!Literal, Ps!_unary, Ps!_group, Ps!_binary, Ps!EndOfOperators, Ps!Node,
                Ps!EndOfGroup, Ps!parser_parse, Ps!CallNull, Ps!ReadBeyond
  <2>3. NodeLines' = NodeLines
    BY <2>1 DEF NodeLines
  <2> QED
    BY <2>1, <2>2, <2>3 DEF LinesIInv
<1>4. CASE chunk_write_from_ast
  <2>1. /\ stage = "parse" /\ stage' = "run" /\ program' = built /\ tokens' = tokens
        /\ UNCHANGED <<input, built, token, emitted, chunk>>
    BY <1>4 DEF chunk_write_from_ast, scannerVars, parserVars, sharedVars
  <2>2. emitted = <<>> /\ Len(emitted) = 0 /\ \A j \in 1 .. 0 : FALSE
    BY <2>1 DEF LinesIInv
  <2>3. PICK lineOf : lineOf = NodeLines'
    OBVIOUS
  <2>4. Cp!Blames(chunk, emitted, lineOf)
    BY <2>2 DEF LinesIInv, Cp!Blames
  <2>5. Cp!Blames(chunk, emitted, NodeLines)'
    BY <2>1, <2>3, <2>4
  <2> QED
    BY <2>1, <2>2, <2>5 DEF LinesIInv
<1>5. CASE Run
  <2>1. stage = "run" /\ stage' = "run" /\ UNCHANGED <<tokens, input, built, token>> /\ program = built
    BY <1>5 DEF Run, scannerVars, parserVars, LinesIInv
  <2>2. \A n \in DOMAIN program : program[n].line \in Nat /\ n # It!ROOT
    <3>1. DOMAIN built = 1 .. Len(built) /\ Len(built) \in Nat
      BY NodesAre DEF ParserInStep
    <3>2. Pp!Finished(built, token, grouped, input, position)
      BY Pp!Found DEF ParserInStep
    <3>3. \A n \in 1 .. Len(built) : built[n].line \in Nat
      BY <3>2 DEF Pp!Finished, Pp!Formed
    <3> QED
      BY <2>1, <3>1, <3>3 DEF It!ROOT
  <2>3. /\ program' = program
        /\ Cp!Blames(chunk, emitted, NodeLines)'
        /\ \A j \in 1 .. Len(emitted') : emitted'[j].node \in {It!ROOT} \cup DOMAIN program
    <3>1. CASE It!Compile
      BY <2>2, <3>1, CompilesLined
    <3>2. CASE It!Execute /\ UNCHANGED compilerVars
      <4>1. UNCHANGED <<program, emitted>>
        BY <3>2 DEF compilerVars
      <4>2. chunk' = chunk
        BY <3>2 DEF It!Execute, It!Constant, It!ConstantLong, It!Truth, It!Arithmetic, It!Trap, It!NegateReal,
                    It!NegateInteger, It!NegateOther, It!Not, It!Equality, It!Comparison, It!Concat,
                    It!Return, It!Underflow
      <4>3. NodeLines' = NodeLines
        BY <4>1 DEF NodeLines
      <4> QED
        BY <4>1, <4>2, <4>3 DEF LinesIInv
    <3> QED
      BY <1>5, <3>1, <3>2 DEF Run
  <2> QED
    BY <2>1, <2>3 DEF LinesIInv
<1> QED
  BY <1>1, <1>2, <1>3, <1>4, <1>5 DEF Next, Step

LEMMA LinesBegin == Init => LinesIInv
<1> SUFFICES ASSUME Init PROVE LinesIInv
  OBVIOUS
<1>1. stage = "scan" /\ emitted = <<>> /\ built = <<>> /\ chunk = Cp!chunk_init
  BY SameChunks DEF Init
<1>2. Len(emitted) = 0 /\ (\A j \in 1 .. 0 : FALSE) /\ \E S : emitted \in Seq(S)
  BY <1>1
<1>3. Cp!Blames(chunk, emitted, NodeLines)
  BY <1>1, <1>2, ChunkAssumption, Cp!NewIsLined DEF Cp!Blames
<1> QED
  BY <1>1, <1>2, <1>3 DEF LinesIInv

LEMMA LinesInvariant == Spec => [](ScannerIInv /\ ParserInStep /\ LinesIInv)
<1>1. ScannerIInv /\ ParserInStep /\ LinesIInv /\ [Next]_vars => LinesIInv'
  BY LinesKept
<1> QED
  BY <1>1, LinesBegin, ScannerInvariant, TreeInvariant, PTL DEF Spec

(* For every text: chunk_get_line returns, for every byte of every         *)
(* instruction, the line of the text where the token ends that the         *)
(* instruction was compiled from, and 2 for the final RETURN.  The scanner *)
(* counts it, the parser copies it to the node, chunk_write_from_ast hands *)
(* it on with every byte, and the line table folds it into runs.           *)
THEOREM CodeHasTheLinesOfText == Spec => []LinesOfText
<1>1. ScannerIInv /\ ParserInStep /\ Pp!NodesMade /\ LinesIInv => LinesOfText
  <2> SUFFICES ASSUME ScannerIInv, ParserInStep, Pp!NodesMade, LinesIInv PROVE LinesOfText
    OBVIOUS
  <2>1. \E S : emitted \in Seq(S)
    BY DEF LinesIInv, Cp!Blames
  <2>2. DOMAIN emitted = 1 .. Len(emitted) /\ Len(emitted) \in Nat
    BY <2>1
  <2>3. ASSUME NEW n \in 1 .. Len(emitted), NEW offset \in emitted[n].offset .. It!NextOffset(n) - 1
        PROVE  It!GetLine(chunk.lines, offset) =
                 IF emitted[n].node = It!ROOT THEN It!RETURN_LINE ELSE LineOf(tokens[token[emitted[n].node]])
    <3>1. PICK source : source = emitted[n].node /\ source \in {It!ROOT} \cup DOMAIN program
      BY DEF LinesIInv
    <3>2. It!NextOffset(n) = Cp!UpTo(chunk, emitted, n)
      BY DEF It!NextOffset, It!CodeSize, Cp!UpTo
    <3>3. It!GetLine(chunk.lines, offset) = NodeLines[source]
      BY <3>1, <3>2, SameChunks DEF LinesIInv, Cp!Blames
    <3>4. CASE source = It!ROOT
      BY <3>1, <3>3, <3>4 DEF NodeLines
    <3>5. CASE source # It!ROOT
      <4>1. stage = "run" /\ program = built
        <5>1. emitted # <<>>
          BY <2>2
        <5> QED
          BY <5>1 DEF LinesIInv
      <4>2. source \in 1 .. Len(built) /\ token[source] \in 1 .. Len(input)
        <5>1. DOMAIN built = 1 .. Len(built) /\ Len(token) = Len(built)
          BY NodesAre DEF ParserInStep
        <5>2. \A m \in 1 .. Len(token) : token[m] \in 1 .. Len(input)
          BY Pp!Found DEF ParserInStep
        <5> QED
          BY <3>1, <3>5, <4>1, <5>1, <5>2
      <4>3. NodeLines[source] = built[source].line /\ built[source].line = input[token[source]].line
        BY <3>1, <3>5, <4>1, <4>2 DEF NodeLines, Pp!NodesMade, Pp!Made
      <4>4. token[source] \in DOMAIN tokens /\ input[token[source]].line = tokens[token[source]].line
        BY <4>1, <4>2 DEF LinesIInv
      <4>5. tokens[token[source]].line = LineOf(tokens[token[source]])
        BY <4>4 DEF ScannerIInv, LinesOfTokens
      <4> QED
        BY <3>1, <3>3, <3>5, <4>3, <4>4, <4>5
    <3> QED
      BY <3>4, <3>5
  <2> QED
    BY <2>2, <2>3 DEF LinesOfText, ScannerIInv
<1> QED
  BY <1>1, MadeInvariant, LinesInvariant, PTL

-----------------------------------------------------------------------------
(* Numbers.  A function that is defined by recursion over 0 .. n, as TenTo *)
(* and Numeral define one: it is the only one, and its values are in the   *)
(* set its steps stay in.                                                  *)
Recurses(f, n, V, a, step) ==
  /\ f \in [0 .. n -> V] /\ f[0] = a
  /\ \A i \in 1 .. n : f[i] = step[<<i, f[i - 1]>>]

StepsIn(g, n, V, a, step) ==
  /\ g[0] = a
  /\ \A i \in 1 .. n : g[i - 1] \in V => g[i] = step[<<i, g[i - 1]>>]

LEMMA RecursionExists ==
  ASSUME NEW n \in Nat, NEW V, NEW a \in V, NEW step \in [(1 .. n) \X V -> V]
  PROVE  \E f : Recurses(f, n, V, a, step)
<1> DEFINE S == {m \in Nat : m <= n => \E f : Recurses(f, m, V, a, step)}
<1>1. 0 \in S
  <2>1. PICK f : f = [i \in 0 .. 0 |-> a]
    OBVIOUS
  <2>2. f \in [0 .. 0 -> V] /\ f[0] = a /\ \A i \in 1 .. 0 : FALSE
    BY <2>1
  <2> QED
    BY <2>2 DEF Recurses
<1>2. ASSUME NEW m \in Nat, m \in S PROVE m + 1 \in S
  <2> SUFFICES ASSUME m + 1 <= n PROVE \E f : Recurses(f, m + 1, V, a, step)
    OBVIOUS
  <2>1. PICK f : f \in [0 .. m -> V] /\ Recurses(f, m, V, a, step)
    BY <1>2 DEF Recurses
  <2>2. m \in 0 .. m /\ <<m + 1, f[m]>> \in (1 .. n) \X V
    BY <2>1
  <2>3. PICK y : y = step[<<m + 1, f[m]>>] /\ y \in V
    BY <2>2
  <2>4. PICK g : g = [i \in 0 .. m + 1 |-> IF i = m + 1 THEN y ELSE f[i]]
    OBVIOUS
  <2>5. \A i \in 0 .. m : g[i] = f[i]
    BY <2>4
  <2>6. g[m + 1] = y /\ g \in [0 .. m + 1 -> V]
    BY <2>1, <2>3, <2>4
  <2>7. ASSUME NEW i \in 1 .. m + 1 PROVE g[i] = step[<<i, g[i - 1]>>]
    <3>1. CASE i = m + 1
      <4>1. i - 1 = m /\ m \in 0 .. m
        BY <3>1
      <4> QED
        BY <2>3, <2>5, <2>6, <3>1, <4>1
    <3>2. CASE i # m + 1
      <4>1. i \in 1 .. m /\ i \in 0 .. m /\ i - 1 \in 0 .. m
        BY <3>2
      <4> QED
        BY <2>1, <2>5, <4>1 DEF Recurses
    <3> QED
      BY <3>1, <3>2
  <2> QED
    BY <2>1, <2>5, <2>6, <2>7 DEF Recurses
<1> HIDE DEF S
<1>3. Nat \subseteq S
  BY <1>1, <1>2, Cp!Induction, ChunkAssumption
<1>4. n \in S
  BY <1>3
<1> QED
  BY <1>4 DEF S

LEMMA RecursionIsUnique ==
  ASSUME NEW n \in Nat, NEW V, NEW a, NEW step, NEW f, Recurses(f, n, V, a, step),
         NEW g, StepsIn(g, n, V, a, step)
  PROVE  \A i \in 0 .. n : g[i] = f[i]
<1> DEFINE S == {m \in Nat : m <= n => g[m] = f[m]}
<1>1. 0 \in S
  BY DEF Recurses, StepsIn
<1>2. ASSUME NEW m \in Nat, m \in S PROVE m + 1 \in S
  <2> SUFFICES ASSUME m + 1 <= n PROVE g[m + 1] = f[m + 1]
    OBVIOUS
  <2>1. m + 1 \in 1 .. n /\ (m + 1) - 1 = m /\ m \in 0 .. n
    OBVIOUS
  <2>2. g[m] = f[m] /\ f[m] \in V
    BY <1>2, <2>1 DEF Recurses
  <2> QED
    BY <2>1, <2>2 DEF Recurses, StepsIn
<1> HIDE DEF S
<1>3. Nat \subseteq S
  BY <1>1, <1>2, Cp!Induction, ChunkAssumption
<1> QED
  BY <1>3 DEF S

LEMMA TenToIs ==
  ASSUME NEW n \in Nat
  PROVE  \E f \in [0 .. n -> Nat] : /\ f[0] = 1 /\ \A i \in 1 .. n : f[i] = 10 * f[i - 1]
                                    /\ TenTo(n) = f[n]
<1>1. PICK step : step = [p \in (1 .. n) \X Nat |-> 10 * p[2]]
  OBVIOUS
<1>2. step \in [(1 .. n) \X Nat -> Nat] /\ \A i \in 1 .. n : \A v \in Nat : step[<<i, v>>] = 10 * v
  BY <1>1
<1>3. PICK f : Recurses(f, n, Nat, 1, step)
  BY <1>2, RecursionExists
<1>4. \A i \in 1 .. n : f[i] = 10 * f[i - 1]
  <2> TAKE i \in 1 .. n
  <2>1. i - 1 \in 0 .. n
    OBVIOUS
  <2> QED
    BY <1>2, <1>3, <2>1 DEF Recurses
<1>5. f[0] = 1
  BY <1>3 DEF Recurses
<1> DEFINE Rec(g) == g = [i \in 0 .. n |-> IF i = 0 THEN 1 ELSE 10 * g[i - 1]]
<1>6. Rec(f)
  <2>1. f = [i \in 0 .. n |-> f[i]]
    BY <1>3 DEF Recurses
  <2>2. \A i \in 0 .. n : f[i] = IF i = 0 THEN 1 ELSE 10 * f[i - 1]
    BY <1>4, <1>5
  <2> QED
    BY Zenon, <2>1, <2>2
<1>7. PICK g : Rec(g) /\ TenTo(n) = g[n]
  <2>1. Rec(CHOOSE g : Rec(g))
    BY Zenon, <1>6
  <2>2. TenTo(n) = (CHOOSE g : Rec(g))[n]
    BY DEF TenTo
  <2> QED
    BY Zenon, <2>1, <2>2
<1>8. StepsIn(g, n, Nat, 1, step)
  BY <1>2, <1>7 DEF StepsIn
<1>9. g[n] = f[n]
  <2>1. \A i \in 0 .. n : g[i] = f[i]
    BY <1>3, <1>8, RecursionIsUnique
  <2> QED
    BY <2>1
<1>10. f \in [0 .. n -> Nat]
  BY <1>3 DEF Recurses
<1> QED
  BY <1>4, <1>5, <1>7, <1>9, <1>10

LEMMA TenToGrows ==
  /\ TenTo(0) = 1
  /\ \A n \in Nat : TenTo(n) \in Nat \ {0} /\ TenTo(n + 1) = 10 * TenTo(n)
  /\ \A m, n \in Nat : m < n => TenTo(m) < TenTo(n)
<1>1. TenTo(0) = 1
  <2>1. PICK n : n = 0
    OBVIOUS
  <2>2. n \in Nat
    BY <2>1
  <2>3. PICK f : f[0] = 1 /\ TenTo(n) = f[n]
    BY <2>2, TenToIs
  <2> QED
    BY <2>1, <2>3
<1>2. ASSUME NEW n \in Nat PROVE TenTo(n) \in Nat /\ TenTo(n + 1) = 10 * TenTo(n)
  <2>1. PICK f : /\ f \in [0 .. n -> Nat] /\ f[0] = 1 /\ \A i \in 1 .. n : f[i] = 10 * f[i - 1]
                 /\ TenTo(n) = f[n]
    BY TenToIs
  <2>2. PICK g : /\ g \in [0 .. n + 1 -> Nat] /\ g[0] = 1 /\ \A i \in 1 .. n + 1 : g[i] = 10 * g[i - 1]
                 /\ TenTo(n + 1) = g[n + 1]
    <3>1. n + 1 \in Nat
      OBVIOUS
    <3> QED
      BY <3>1, TenToIs
  <2>3. PICK step : step = [p \in (1 .. n) \X Nat |-> 10 * p[2]]
    OBVIOUS
  <2>4. \A i \in 1 .. n : \A v \in Nat : step[<<i, v>>] = 10 * v
    BY <2>3
  <2>5. \A i \in 1 .. n : i - 1 \in 0 .. n /\ i \in 1 .. n + 1
    OBVIOUS
  <2>6. Recurses(f, n, Nat, 1, step) /\ StepsIn(g, n, Nat, 1, step)
    BY <2>1, <2>2, <2>4, <2>5 DEF Recurses, StepsIn
  <2>7. \A i \in 0 .. n : g[i] = f[i]
    BY <2>6, RecursionIsUnique
  <2>8. n \in 0 .. n /\ n + 1 \in 1 .. n + 1 /\ (n + 1) - 1 = n
    OBVIOUS
  <2>9. g[n + 1] = 10 * g[n] /\ g[n] = f[n] /\ f[n] \in Nat
    BY <2>1, <2>2, <2>7, <2>8
  <2> QED
    BY <2>1, <2>2, <2>9
<1> DEFINE P == {n \in Nat : TenTo(n) # 0}
<1>3. 0 \in P /\ \A n \in Nat : n \in P => n + 1 \in P
  BY <1>1, <1>2
<1> HIDE DEF P
<1>4. Nat \subseteq P
  BY <1>3, Cp!Induction, ChunkAssumption
<1>5. \A n \in Nat : TenTo(n) # 0
  BY <1>4 DEF P
<1> DEFINE G == {n \in Nat : \A m \in Nat : m < n => TenTo(m) < TenTo(n)}
<1>6. 0 \in G
  OBVIOUS
<1>7. ASSUME NEW n \in Nat, n \in G PROVE n + 1 \in G
  <2> SUFFICES ASSUME NEW m \in Nat, m < n + 1 PROVE TenTo(m) < TenTo(n + 1)
    OBVIOUS
  <2>1. PICK a, b : a = TenTo(m) /\ b = TenTo(n) /\ a \in Nat /\ b \in Nat /\ b # 0
    BY <1>2, <1>5
  <2>2. TenTo(n + 1) = 10 * b
    BY <1>2, <2>1
  <2>3. a = b \/ a < b
    <3>1. m = n \/ m < n
      OBVIOUS
    <3> QED
      BY <1>7, <2>1, <3>1
  <2>4. a < 10 * b
    BY <2>1, <2>3
  <2> QED
    BY <2>1, <2>2, <2>4
<1> HIDE DEF G
<1>8. Nat \subseteq G
  BY <1>6, <1>7, Cp!Induction, ChunkAssumption
<1>9. \A m, n \in Nat : m < n => TenTo(m) < TenTo(n)
  BY <1>8 DEF G
<1> QED
  BY <1>1, <1>2, <1>5, <1>9

LEMMA DigitIsDigit == \A c \in Digits : Digit(c) \in 0 .. 9
<1> DEFINE digits == <<"0", "1", "2", "3", "4", "5", "6", "7", "8", "9">>
<1>1. ASSUME NEW c \in Digits PROVE \E d \in 0 .. 9 : digits[d + 1] = c
  BY <1>1 DEF Digits
<1> QED
  BY Zenon, <1>1 DEF Digit

LEMMA DigitIsNatural == \A d \in 0 .. 9 : d \in Nat
OBVIOUS

LEMMA NumeralIsNatural ==
  ASSUME NEW first \in Nat \ {0}, NEW last \in Nat, \A i \in first .. last : Char(i) \in Digits \cup {"."}
  PROVE  Numeral(first, last) \in Nat
<1>1. PICK point : point = "."
  OBVIOUS
<1>2. \A i \in first .. last : Char(i) # point => Digit(Char(i)) \in Nat
  BY Zenon, <1>1, DigitIsDigit, DigitIsNatural
<1> DEFINE More(i, v) == IF i < first THEN 0
                         ELSE IF Char(i) = point THEN v ELSE 10 * v + Digit(Char(i))
<1>3. PICK step : step = [p \in (1 .. last) \X Nat |-> More(p[1], p[2])]
  OBVIOUS
<1>4. \A i \in 0 .. last : \A v \in Nat : More(i, v) \in Nat
  BY <1>2
<1> HIDE DEF More
<1>5. \A i \in 1 .. last : \A v \in Nat : step[<<i, v>>] = More(i, v)
  BY <1>3
<1>6. step \in [(1 .. last) \X Nat -> Nat]
  BY <1>3, <1>4
<1>7. PICK f : Recurses(f, last, Nat, 0, step)
  BY <1>6, RecursionExists
<1> DEFINE Rec(g) == g = [i \in 0 .. last |->
                            IF i < first THEN 0
                            ELSE IF Char(i) = "." THEN g[i - 1] ELSE 10 * g[i - 1] + Digit(Char(i))]
<1>8. \A g : Rec(g) <=> g = [i \in 0 .. last |-> More(i, g[i - 1])]
  BY Zenon, <1>1 DEF More
<1>9. Rec(f)
  <2>1. f = [i \in 0 .. last |-> f[i]]
    BY <1>7 DEF Recurses
  <2>2. f[0] = 0 /\ \A v : More(0, v) = 0
    BY <1>7 DEF Recurses, More
  <2>3. \A i \in 0 .. last : f[i] = More(i, f[i - 1])
    <3> TAKE i \in 0 .. last
    <3>1. CASE i = 0
      BY <2>2, <3>1
    <3>2. CASE i # 0
      <4>1. i \in 1 .. last /\ i - 1 \in 0 .. last
        BY <3>2
      <4> QED
        BY <1>5, <1>7, <4>1 DEF Recurses
    <3> QED
      BY <3>1, <3>2
  <2> QED
    BY Zenon, <1>8, <2>1, <2>3
<1>10. PICK g : Rec(g) /\ Numeral(first, last) = g[last]
  <2>1. Rec(CHOOSE g : Rec(g))
    BY Zenon, <1>9
  <2>2. Numeral(first, last) = (CHOOSE g : Rec(g))[last]
    BY Zenon DEF Numeral
  <2> QED
    BY Zenon, <2>1, <2>2
<1>11. g = [i \in 0 .. last |-> More(i, g[i - 1])]
  BY Zenon, <1>8, <1>10
<1>12. StepsIn(g, last, Nat, 0, step)
  <2>1. g[0] = More(0, g[0 - 1])
    BY <1>11
  <2>2. \A v : More(0, v) = 0
    BY DEF More
  <2> QED
    BY <1>5, <1>11, <2>1, <2>2 DEF StepsIn
<1>13. \A i \in 0 .. last : g[i] = f[i]
  BY <1>7, <1>12, RecursionIsUnique
<1>14. f[last] \in Nat /\ last \in 0 .. last
  BY <1>7 DEF Recurses
<1> QED
  BY <1>10, <1>13, <1>14

-----------------------------------------------------------------------------
(* Each token is a lexeme of its kind, and the parser reads these tokens.  *)
IsLexeme(t) ==
  /\ t.first \in Nat \ {0}
  /\ t.kind \in LexemeKinds => t.last \in t.first .. Len(text) /\ Lexeme(t.kind, t.first, t.last)

ReadsTokens ==
  stage # "scan" => \A k \in 1 .. Len(input) : k \in DOMAIN tokens /\ input[k] = ParserToken(tokens[k])

LexemesIInv == (\A n \in DOMAIN tokens : IsLexeme(tokens[n])) /\ ReadsTokens

LEMMA NewestIsLexeme ==
  ASSUME ScannerIInv, tokens # <<>>, TokensAreLongest, Newest.first \in Nat \ {0}
  PROVE  IsLexeme(Newest)
<1> SUFFICES ASSUME Newest.kind \in LexemeKinds
             PROVE  Newest.last \in Newest.first .. Len(text) /\ Lexeme(Newest.kind, Newest.first, Newest.last)
  BY DEF IsLexeme
<1>1. KindOfWord(Newest.kind) = Newest.kind
  BY DEF KindOfWord
<1>2. Newest.kind # "SP_ERROR" /\ Newest.kind # "SP_EOF"
  BY KindsApart DEF LexemeKinds
<1>3. ~Scanned
  BY <1>2 DEF Scanned, Newest
<1>4. <<Newest.kind, Newest.last>> \in
        {m \in LexemeKinds \X (Newest.first .. Len(text)) : Lexeme(m[1], Newest.first, m[2])}
  BY Zenon, <1>1, <1>2, <1>3 DEF TokensAreLongest
<1> QED
  BY <1>4

LEMMA ScanAppends ==
  ASSUME scanner_scan_token, tokens' # tokens
  PROVE  \E t : tokens' = Append(tokens, t) /\ t.first = current
<1>1. \E kind, end : Token(kind, end)
  BY DEF scanner_scan_token, SkipBlank, SkipComment, Skip, EndOfFile, EndOfLine, _make_identifier,
         _make_number, Operator, _make_string, make_char, Unexpected
<1> QED
  BY <1>1 DEF Token

LEMMA LexemesKept ==
  ASSUME ScannerIInv, TokensAreLongest, ParserInStep, LexemesIInv, [Next]_vars,
         ScannerIInv', TokensAreLongest'
  PROVE  LexemesIInv'
<1>1. ASSUME UNCHANGED <<text, tokens>>
      PROVE  /\ \A t : IsLexeme(t)' <=> IsLexeme(t)
             /\ \A t : ParserToken(t)' = ParserToken(t)
             /\ (\A n \in DOMAIN tokens : IsLexeme(tokens[n]))'
  <2>1. \A k, i, j : Lexeme(k, i, j)' = Lexeme(k, i, j)
    BY <1>1, LexemesStay
  <2>2. \A t : IsLexeme(t)' <=> IsLexeme(t)
    BY <1>1, <2>1 DEF IsLexeme
  <2>3. \A i : Char(i)' = Char(i)
    BY <1>1 DEF Char
  <2>4. \A i, j : Numeral(i, j)' = Numeral(i, j)
    BY <2>3 DEF Numeral
  <2>5. \A i, set : After(i, set)' = After(i, set)
    BY <1>1, <2>3 DEF After
  <2>6. \A i : (HasExponent(i)' <=> HasExponent(i)) /\ Exponent(i)' = Exponent(i)
    BY <2>3, <2>4, <2>5 DEF HasExponent, Exponent, ExponentStart, Signed
  <2>7. \A t : Fraction(t)' = Fraction(t)
    BY <2>3 DEF Fraction
  <2>8. \A t, f : strtod(t, f)' = strtod(t, f)
    BY <2>4, <2>6 DEF strtod
  <2>9. \A t : ParserToken(t)' = ParserToken(t)
    BY <1>1, <2>4, <2>7, <2>8 DEF ParserToken
  <2> QED
    BY <1>1, <2>2, <2>9 DEF LexemesIInv
<1>2. CASE Scan
  <2>1. stage = "scan" /\ stage' = "scan" /\ text' = text /\ scanner_scan_token
    <3>1. scanner_scan_token /\ stage = "scan" /\ stage' = "scan"
      BY <1>2 DEF Scan, interpret
    <3>2. text' = text
      BY <3>1 DEF scanner_scan_token, SkipBlank, SkipComment, Skip, EndOfFile, EndOfLine, _make_identifier,
                  _make_number, Operator, _make_string, make_char, Unexpected, Token
    <3> QED
      BY <3>1, <3>2
  <2>2. ReadsTokens'
    BY <2>1 DEF ReadsTokens
  <2>3. CASE tokens' = tokens
    BY <1>1, <2>1, <2>2, <2>3 DEF LexemesIInv
  <2>4. CASE tokens' # tokens
    <3>1. PICK t : tokens' = Append(tokens, t) /\ t.first = current
      BY <2>1, <2>4, ScanAppends
    <3>2. PICK S : tokens \in Seq(S)
      BY DEF ScannerIInv
    <3>3. /\ Len(tokens) \in Nat /\ DOMAIN tokens = 1 .. Len(tokens) /\ DOMAIN tokens' = 1 .. Len(tokens) + 1
          /\ tokens'[Len(tokens) + 1] = t /\ Len(tokens') = Len(tokens) + 1 /\ tokens' # <<>>
          /\ \A n \in 1 .. Len(tokens) : tokens'[n] = tokens[n]
      BY <3>1, <3>2
    <3>4. current \in Nat \ {0} /\ Newest' = t
      BY <3>3, TextIsSequence DEF ScannerIInv, Newest
    <3>5. IsLexeme(t)'
      <4>1. (tokens # <<>> /\ Newest.first \in Nat \ {0} /\ ScannerIInv /\ TokensAreLongest => IsLexeme(Newest))'
        BY NewestIsLexeme, PTL
      <4>2. (Newest.first \in Nat \ {0})' /\ (IsLexeme(Newest)' => IsLexeme(t)')
        BY <3>1, <3>4 DEF IsLexeme
      <4> QED
        BY <3>3, <4>1, <4>2
    <3>6. ASSUME NEW n \in 1 .. Len(tokens) PROVE IsLexeme(tokens[n])'
      <4>1. IsLexeme(tokens[n])
        BY <3>3 DEF LexemesIInv
      <4>2. \A k, i, j : Lexeme(k, i, j)' = Lexeme(k, i, j)
        BY <2>1, LexemesStay
      <4> QED
        BY <2>1, <3>3, <4>1, <4>2 DEF IsLexeme
    <3> QED
      BY <2>2, <3>3, <3>5, <3>6 DEF LexemesIInv
  <2> QED
    BY <2>3, <2>4
<1>3. CASE parser_init
  <2>1. PICK x, len : /\ x = input' /\ len = Len(tokens) - 1 /\ x = [n \in 1 .. len |-> ParserToken(tokens[n])]
                      /\ UNCHANGED <<text, tokens>>
    BY <1>3 DEF parser_init, scannerVars
  <2>2. len \in Nat /\ DOMAIN tokens = 1 .. Len(tokens)
    <3>1. tokens # <<>> /\ \E S : tokens \in Seq(S)
      BY <1>3 DEF ScannerIInv, parser_init, Scanned
    <3> QED
      BY <2>1, <3>1
  <2>3. Len(x) = len
    <3>1. x \in Seq({ParserToken(tokens[n]) : n \in 1 .. len})
      BY <2>1, <2>2
    <3> QED
      BY <2>1, <2>2, <3>1
  <2>4. \A k \in 1 .. Len(x) : k \in DOMAIN tokens /\ x[k] = ParserToken(tokens[k])
    BY <2>1, <2>2, <2>3
  <2>5. ReadsTokens'
    BY <1>1, <2>1, <2>4 DEF ReadsTokens
  <2> QED
    BY <1>1, <2>1, <2>5 DEF LexemesIInv
<1>4. CASE Parse
  <2>1. Ps!Step /\ stage = "parse" /\ stage' = "parse" /\ UNCHANGED <<text, tokens>>
    BY <1>4 DEF Parse, ParserStep, Ps!Step, scannerVars
  <2>2. input' = input
    BY <2>1 DEF Ps!Step, Ps!Literal, Ps!_unary, Ps!_group, Ps!_binary, Ps!EndOfOperators, Ps!Node,
                Ps!EndOfGroup, Ps!parser_parse, Ps!CallNull, Ps!ReadBeyond
  <2> QED
    BY <1>1, <2>1, <2>2 DEF LexemesIInv, ReadsTokens
<1>5. CASE chunk_write_from_ast \/ Run \/ Free \/ Ended \/ UNCHANGED vars
  <2>1. UNCHANGED <<text, tokens, input>> /\ (stage' = stage \/ stage = "parse")
    BY <1>5 DEF chunk_write_from_ast, Run, Free, Ended, vars, scannerVars, parserVars
  <2>2. stage' # "scan" => stage # "scan"
    BY <2>1
  <2> QED
    BY <1>1, <2>1, <2>2 DEF LexemesIInv, ReadsTokens
<1> QED
  BY <1>2, <1>3, <1>4, <1>5 DEF Next, Step

LEMMA LexemesBegin == Init => LexemesIInv
BY DEF Init, ScannerInit, LexemesIInv, ReadsTokens

LEMMA LexemesInvariant == Spec => []LexemesIInv
<1>1. ScannerIInv /\ TokensAreLongest /\ ParserInStep /\ LexemesIInv /\ [Next]_vars
        /\ ScannerIInv' /\ TokensAreLongest' => LexemesIInv'
  BY LexemesKept
<1> QED
  BY <1>1, LexemesBegin, ScannerInvariant, ScannerTakesTheLongest, TreeInvariant, PTL DEF Spec

(* What a token that is a number says: natural digits, and a point with    *)
(* digits on either side.                                                  *)
LEMMA NumbersAre ==
  ASSUME ScannerIInv, LexemesIInv, NEW k \in DOMAIN tokens, NEW t, t = tokens[k]
  PROVE  /\ t.kind \in {"LT_INTEGER", "LT_REAL"} => Numeral(t.first, t.last) \in Nat
         /\ t.kind = "LT_REAL" => Fraction(t) \in Nat \ {0} /\ t.last + 1 \in Nat \ {0}
<1>1. t.first \in Nat \ {0} /\ (t.kind \in LexemeKinds =>
                                  t.last \in t.first .. Len(text) /\ Lexeme(t.kind, t.first, t.last))
  BY DEF LexemesIInv, IsLexeme
<1>2. Len(text) \in Nat
  BY TextIsSequence DEF ScannerIInv
<1>3. PICK point : point = "."
  OBVIOUS
<1>4. CASE t.kind = "LT_INTEGER"
  <2>1. t.kind \in LexemeKinds
    BY <1>4 DEF LexemeKinds
  <2>2. t.last \in t.first .. Len(text) /\ AllIn(t.first, t.last, Digits)
    <3>1. t.last \in t.first .. Len(text) /\ Lexeme("LT_INTEGER", t.first, t.last)
      BY <1>1, <1>4, <2>1
    <3> QED
      BY Zenon, <3>1, LexemeIs
  <2>3. \A i \in t.first .. t.last : Char(i) \in Digits \cup {"."}
    BY Zenon, <2>2 DEF AllIn
  <2>4. t.last \in Nat
    BY <1>1, <1>2, <2>2
  <2>5. Numeral(t.first, t.last) \in Nat
    BY Zenon, <1>1, <2>3, <2>4, NumeralIsNatural
  <2> QED
    BY <1>4, <2>5
<1>5. CASE t.kind = "LT_REAL"
  <2>1. t.kind \in LexemeKinds
    BY <1>5 DEF LexemeKinds
  <2>2. t.last \in t.first .. Len(text) /\ Lexeme("LT_REAL", t.first, t.last)
    BY <1>1, <1>5, <2>1
  <2>3. PICK p \in t.first + 1 .. t.last - 1 :
          Char(p) = point /\ AllIn(t.first, p - 1, Digits) /\ AllIn(p + 1, t.last, Digits)
    BY Zenon, <1>3, <2>2, LexemeIs
  <2>4. point \notin Digits
    BY Zenon, <1>3, DigitsApart, OpenersApart
  <2>5. t.last \in Nat /\ t.first \in Nat \ {0} /\ p \in t.first .. t.last
    BY <1>1, <1>2, <2>2, <2>3
  <2>6. \A i \in t.first .. t.last : i \in t.first .. p - 1 \/ i = p \/ i \in p + 1 .. t.last
    BY <2>3, <2>5
  <2>7. \A i \in t.first .. t.last : Char(i) \in Digits \cup {point}
    BY <2>3, <2>6 DEF AllIn
  <2>8. Numeral(t.first, t.last) \in Nat
    BY Zenon, <1>3, <2>5, <2>7, NumeralIsNatural
  <2>9. PICK q \in t.first .. t.last : Char(q) = point /\ Fraction(t) = t.last - q
    <3>1. \E q \in t.first .. t.last : Char(q) = point
      BY <2>3, <2>5
    <3> QED
      BY Zenon, <1>3, <3>1 DEF Fraction
  <2>10. q = p
    <3>1. q \in t.first .. p - 1 => Char(q) \in Digits
      BY <2>3 DEF AllIn
    <3>2. q \in p + 1 .. t.last => Char(q) \in Digits
      BY <2>3 DEF AllIn
    <3> QED
      BY <2>4, <2>6, <2>9, <3>1, <3>2
  <2>11. Fraction(t) \in Nat \ {0} /\ t.last + 1 \in Nat \ {0}
    BY <2>3, <2>5, <2>9, <2>10
  <2> QED
    BY <1>5, <2>8, <2>11
<1> QED
  BY <1>4, <1>5

LEMMA ExponentIsInteger ==
  ASSUME ScannerIInv, NEW i \in Nat \ {0}, HasExponent(i)
  PROVE  Exponent(i) \in Int
<1>1. PICK s, e : s = ExponentStart(i) /\ e = After(s, Digits)
  OBVIOUS
<1>2. s \in Nat \ {0} /\ Char(s) \in Digits
  BY <1>1 DEF ExponentStart, HasExponent
<1>3. text \in Texts /\ Len(text) \in Nat
  BY TextIsSequence DEF ScannerIInv
<1>4. s \in 1 .. Len(text)
  <2>1. Char(s) # NUL
    BY <1>2, ClassesHaveNoEnd
  <2> QED
    BY <1>2, <1>3, <2>1, OnlyBehindIsNul
<1>5. e \in s .. Len(text) + 1 /\ \A j \in s .. e - 1 : Char(j) \in Digits
  <2>1. s \in 1 .. Len(text) + 1
    BY <1>3, <1>4
  <2> QED
    BY <1>1, <1>3, <2>1, AfterStops, ClassesHaveNoEnd
<1>6. PICK last : last = e - 1 /\ last \in Nat
  BY <1>2, <1>3, <1>5
<1>7. \A j \in s .. last : Char(j) \in Digits \cup {"."}
  BY Zenon, <1>5, <1>6
<1>8. PICK digits : digits = Numeral(s, last) /\ digits \in Nat
  BY Zenon, <1>2, <1>6, <1>7, NumeralIsNatural
<1>9. Exponent(i) = digits \/ Exponent(i) = -digits
  BY Zenon, <1>1, <1>6, <1>8 DEF Exponent
<1> QED
  BY <1>8, <1>9

(* Digits and a power of ten that is moved by the exponent: the same value *)
(* just if the exponent is zero.                                           *)
IsScaled(v, d, f, e) ==
  v = IF e - f < 0 THEN Ps!Real(d, TenTo(-(e - f))) ELSE Ps!Real(d * TenTo(e - f), 1)

LEMMA ScaledDigits ==
  ASSUME NEW d \in Nat \ {0}, NEW f \in Nat \ {0}, NEW e \in Int, NEW v, IsScaled(v, d, f, e)
  PROVE  v.num * TenTo(f) = d * v.den <=> e = 0
<1>1. \A n \in Nat : TenTo(n) \in Nat \ {0}
  BY TenToGrows
<1>2. PICK tf : tf = TenTo(f) /\ tf \in Nat \ {0}
  BY <1>1
<1>3. CASE e - f < 0
  <2>1. PICK n : n = -(e - f) /\ n \in Nat
    BY <1>3
  <2>2. PICK tn : tn = TenTo(n) /\ tn \in Nat \ {0}
    BY <1>1, <2>1
  <2>3. v.num = d /\ v.den = tn
    BY <1>3, <2>1, <2>2 DEF IsScaled, Ps!Real
  <2>4. tf = tn <=> f = n
    <3>1. f < n => tf < tn
      BY <1>2, <2>1, <2>2, TenToGrows
    <3>2. n < f => tn < tf
      BY <1>2, <2>1, <2>2, TenToGrows
    <3>3. f < n \/ n < f \/ f = n
      BY <2>1
    <3> QED
      BY <1>2, <2>2, <3>1, <3>2, <3>3
  <2>5. d * tf = d * tn <=> tf = tn
    BY <1>2, <2>2
  <2> QED
    BY <1>2, <2>1, <2>3, <2>4, <2>5
<1>4. CASE ~(e - f < 0)
  <2>1. PICK n : n = e - f /\ n \in Nat
    BY <1>4
  <2>2. PICK tn : tn = TenTo(n) /\ tn \in Nat \ {0}
    BY <1>1, <2>1
  <2>3. v.num = d * tn /\ v.den = 1
    BY <1>4, <2>1, <2>2 DEF IsScaled, Ps!Real
  <2>4. 1 < tf
    BY <1>2, TenToGrows
  <2>5. d * tn >= d
    BY <2>2
  <2>6. (d * tn) * tf > d * tn
    <3>1. PICK m : m = d * tn /\ m \in Nat \ {0}
      BY <2>2
    <3>2. m * tf > m
      BY <1>2, <2>4, <3>1
    <3> QED
      BY <3>1, <3>2
  <2>7. (d * tn) * tf # d * 1
    <3>1. PICK m : m = d * tn /\ m \in Nat /\ m >= d
      BY <2>2, <2>5
    <3>2. PICK q : q = m * tf /\ q \in Nat /\ q > m
      BY <1>2, <2>6, <3>1
    <3> QED
      BY <3>1, <3>2
  <2>8. e # 0
    BY <2>1
  <2> QED
    BY <1>2, <2>3, <2>7, <2>8
<1> QED
  BY <1>3, <1>4

(* A literal node has the value its token says.                            *)
LEMMA LiteralOfToken ==
  ASSUME ParserInStep, Pp!NodesMade, LexemesIInv, NEW n \in DOMAIN built, built[n].kind \in Pp!LiteralKinds
  PROVE  LET t == tokens[token[n]]
         IN  /\ token[n] \in DOMAIN tokens
             /\ t.kind \in Ps!Literals /\ input[token[n]] = ParserToken(t)
             /\ built[n] = Ps!LiteralNode(ParserToken(t), n)
<1>1. DOMAIN built = 1 .. Len(built) /\ Len(token) = Len(built)
  BY NodesAre DEF ParserInStep
<1>2. PICK k : k = token[n] /\ k \in 1 .. Len(input)
  BY <1>1, Pp!Found DEF ParserInStep
<1>3. input[k].kind \in Ps!Literals /\ built[n] = Ps!LiteralNode(input[k], n)
  <2>1. Pp!Made(built, token, input, n)
    BY <1>1 DEF Pp!NodesMade
  <2> QED
    BY <1>2, <2>1, SameRules DEF Pp!Made
<1>4. stage # "scan"
  BY <1>1 DEF ParserInStep, NotBegun
<1>5. k \in DOMAIN tokens /\ input[k] = ParserToken(tokens[k])
  BY <1>2, <1>4 DEF LexemesIInv, ReadsTokens
<1>6. RuleOf(tokens[k].kind) \in Ps!Literals
  BY <1>3, <1>5 DEF ParserToken
<1>7. tokens[k].kind \in Ps!Literals
  BY <1>6 DEF RuleOf, Ps!Literals
<1> QED
  BY <1>2, <1>3, <1>5, <1>7

(* For every text: the value of a number is what its digits say, an INTEGER*)
(* beyond the largest ends there (strtoll), and a REAL is the digits over a*)
(* power of ten unless an exponent behind it is read along (strtod), which *)
(* always changes the value.                                               *)
THEOREM NumbersAreAsWritten == Spec => []NumbersAreTheirDigits
<1>1. ScannerIInv /\ ParserInStep /\ Pp!NodesMade /\ LexemesIInv => NumbersAreTheirDigits
  <2> SUFFICES ASSUME ScannerIInv, ParserInStep, Pp!NodesMade, LexemesIInv, NEW n \in DOMAIN built
               PROVE  LET t == tokens[token[n]]
                          value == built[n].value
                          digits == Numeral(t.first, t.last)
                          scaled == HasExponent(t.last + 1) /\ Exponent(t.last + 1) # 0
                      IN  /\ built[n].kind = "REAL" /\ digits # 0 =>
                               (value.num * TenTo(Fraction(t)) = digits * value.den <=> ~scaled)
                          /\ built[n].kind = "INTEGER" =>
                               value.num = IF digits > Ps!LARGEST THEN Ps!LARGEST ELSE digits
    BY DEF NumbersAreTheirDigits
  <2>1. PICK t, d : t = tokens[token[n]] /\ d = Numeral(t.first, t.last)
    OBVIOUS
  <2>2. built[n].kind = "REAL" \/ built[n].kind = "INTEGER" =>
          /\ token[n] \in DOMAIN tokens /\ t.kind \in Ps!Literals
          /\ built[n] = Ps!LiteralNode(ParserToken(t), n)
    BY <2>1, LiteralOfToken DEF Pp!LiteralKinds
  <2>3. ParserToken(t).kind = RuleOf(t.kind)
    BY DEF ParserToken
  <2>4. t.kind \in Ps!Literals => RuleOf(t.kind) = t.kind
    BY DEF RuleOf, Ps!TokenKinds
  <2>5. ASSUME built[n].kind = "INTEGER"
        PROVE  built[n].value.num = IF d > Ps!LARGEST THEN Ps!LARGEST ELSE d
    <3>1. t.kind = "LT_INTEGER" /\ built[n].value = Ps!Saturated(ParserToken(t).value)
      BY <2>2, <2>3, <2>4, <2>5 DEF Ps!LiteralNode, Ps!Literals
    <3>2. ParserToken(t).value = Ps!Value("INTEGER", d)
      BY <2>1, <3>1 DEF ParserToken
    <3> QED
      BY <3>1, <3>2 DEF Ps!Saturated, Ps!Value
  <2>6. ASSUME built[n].kind = "REAL", d # 0
        PROVE  built[n].value.num * TenTo(Fraction(t)) = d * built[n].value.den
                 <=> ~(HasExponent(t.last + 1) /\ Exponent(t.last + 1) # 0)
    <3>1. t.kind = "LT_REAL" /\ built[n].value = ParserToken(t).value
      BY <2>2, <2>3, <2>4, <2>6 DEF Ps!LiteralNode, Ps!Literals
    <3>2. PICK f, v : f = Fraction(t) /\ v = built[n].value /\ v = strtod(t, f)
      BY <3>1 DEF ParserToken
    <3>3. d \in Nat \ {0} /\ f \in Nat \ {0} /\ t.last + 1 \in Nat \ {0}
      BY <2>1, <2>2, <2>6, <3>1, <3>2, NumbersAre
    <3>4. PICK e : e = IF HasExponent(t.last + 1) THEN Exponent(t.last + 1) ELSE 0
      OBVIOUS
    <3>5. e \in Int /\ (e = 0 <=> ~(HasExponent(t.last + 1) /\ Exponent(t.last + 1) # 0))
      BY <3>3, <3>4, ExponentIsInteger
    <3>6. (IF HasExponent(t.last + 1) THEN Exponent(t.last + 1) - f ELSE -f) = e - f
      BY <3>3, <3>4, <3>5
    <3>7. IsScaled(v, d, f, e)
      BY Zenon, <2>1, <3>2, <3>6 DEF strtod, IsScaled
    <3>8. v.num * TenTo(f) = d * v.den <=> e = 0
      BY <3>3, <3>5, <3>7, ScaledDigits
    <3> QED
      BY <3>2, <3>5, <3>8
  <2> QED
    BY <2>1, <2>5, <2>6
<1> QED
  BY <1>1, MadeInvariant, LexemesInvariant, PTL

-----------------------------------------------------------------------------
(* The trees the parser can make, and what the machine needs of its        *)
(* constants.                                                              *)
Excerpts == {SubSeq(w[1], w[2], w[3]) : w \in Texts \X Nat \X Nat} \cup {<<>>}

TreeNodes == [kind : It!NodeKinds, line : Nat, value : [kind : It!Kinds, num : Int, den : Int],
              chars : Excerpts, first : Nat]

Trees == {p \in Seq(TreeNodes) :
  /\ It!IsTree(p)
  /\ \A n \in DOMAIN p :
       /\ p[n].kind \in {"CHAR", "REAL", "INTEGER"} => p[n].value.kind = p[n].kind
       /\ p[n].kind = "BOOL" => p[n].value \in {It!Bool(TRUE), It!Bool(FALSE)}
       /\ p[n].kind \in {"CHAR", "INTEGER"} => p[n].value.den = 1
       /\ p[n].kind = "REAL" => p[n].value.den > 0
       /\ p[n].kind = "INTEGER" => p[n].value.num \in It!MinInteger .. -It!MinInteger - 1}

LEMMA MachineIsGiven ==
  /\ CAPACITY_INIT \in Nat \ {0} /\ SHORT_LIMIT \in 0 .. 512
  /\ TABLE_CAPACITY_INIT \in Nat \ {0} /\ INT_BITS \in Nat \ {0}
  /\ 2 ^ (INT_BITS - 1) \in Nat \ {0} /\ 2 ^ INT_BITS = 2 * 2 ^ (INT_BITS - 1)
  /\ RESULT_BITS \in Nat /\ RESULT_BITS >= 2 /\ 2 ^ RESULT_BITS \in Nat /\ 2 ^ RESULT_BITS >= 4
  /\ \A order \in READ_ORDERS : order \in [1 .. 3 -> 1 .. 3] /\ {order[k] : k \in 1 .. 3} = 1 .. 3
BY Zenon, ChunkAssumption, MachineAssumption

-----------------------------------------------------------------------------
(* What the parser makes of a number.                                      *)
LEMMA StrtodIsReal ==
  ASSUME ScannerIInv, LexemesIInv, NEW k \in DOMAIN tokens, NEW t, t = tokens[k], t.kind = "LT_REAL",
         NEW v, v = strtod(t, Fraction(t))
  PROVE  v.kind = "REAL" /\ v.num \in Int /\ v.den \in Nat \ {0}
         /\ v = [kind |-> v.kind, num |-> v.num, den |-> v.den]
<1>1. PICK d, f : d = Numeral(t.first, t.last) /\ f = Fraction(t)
  OBVIOUS
<1>2. d \in Nat /\ f \in Nat \ {0} /\ t.last + 1 \in Nat \ {0}
  BY <1>1, NumbersAre
<1>3. PICK e : e = IF HasExponent(t.last + 1) THEN Exponent(t.last + 1) ELSE 0
  OBVIOUS
<1>4. e \in Int
  BY <1>2, <1>3, ExponentIsInteger
<1>5. (IF HasExponent(t.last + 1) THEN Exponent(t.last + 1) - f ELSE -f) = e - f
  BY <1>2, <1>3, <1>4
<1>6. IsScaled(v, d, f, e)
  BY Zenon, <1>1, <1>5 DEF strtod, IsScaled
<1>7. CASE e - f < 0
  <2>1. PICK n : n = -(e - f) /\ n \in Nat
    BY <1>2, <1>4, <1>7
  <2>2. TenTo(n) \in Nat \ {0}
    BY <2>1, TenToGrows
  <2> QED
    BY <1>2, <1>6, <1>7, <2>1, <2>2 DEF IsScaled, Ps!Real
<1>8. CASE ~(e - f < 0)
  <2>1. PICK n : n = e - f /\ n \in Nat
    BY <1>2, <1>4, <1>8
  <2>2. PICK p : p = TenTo(n) /\ p \in Nat
    BY <2>1, TenToGrows
  <2>3. v = Ps!Real(d * p, 1)
    BY <1>6, <1>8, <2>1, <2>2 DEF IsScaled
  <2>4. d * p \in Int
    BY <1>2, <2>2
  <2> QED
    BY <2>3, <2>4 DEF Ps!Real
<1> QED
  BY <1>7, <1>8

LEMMA LimitsOfIntegers ==
  \E h \in Nat \ {0} : h = 2 ^ (INT_BITS - 1) /\ It!MinInteger = -h /\ Ps!LARGEST = h - 1
<1>1. PICK h : h = 2 ^ (INT_BITS - 1)
  OBVIOUS
<1>2. h \in Nat \ {0}
  BY <1>1, MachineIsGiven
<1>3. It!MinInteger = -h /\ Ps!LARGEST = h - 1
  BY <1>1 DEF It!MinInteger, Ps!LARGEST
<1> QED
  BY <1>1, <1>2, <1>3

(* A value as the machine takes it from a literal.                         *)
IsLiteralValue(kind, v) ==
  /\ v \in [kind : It!Kinds, num : Int, den : Int]
  /\ kind \in {"CHAR", "REAL", "INTEGER"} => v.kind = kind
  /\ kind = "BOOL" => v \in {It!Bool(TRUE), It!Bool(FALSE)}
  /\ kind \in {"CHAR", "INTEGER"} => v.den = 1
  /\ kind = "REAL" => v.den > 0
  /\ kind = "INTEGER" => v.num \in It!MinInteger .. -It!MinInteger - 1

LEMMA LiteralValues ==
  ASSUME ScannerIInv, LexemesIInv, NEW k \in DOMAIN tokens, NEW t, t = tokens[k], t.kind \in Ps!Literals,
         NEW n, NEW node, node = Ps!LiteralNode(ParserToken(t), n)
  PROVE  /\ node.kind \in Ps!LiteralKinds /\ IsLiteralValue(node.kind, node.value)
         /\ node.chars \in Excerpts
         /\ node = [kind |-> node.kind, line |-> node.line, value |-> node.value,
                    chars |-> node.chars, first |-> node.first]
<1>1. PICK pt : pt = ParserToken(t)
  OBVIOUS
<1>2. pt.kind = t.kind /\ pt.line = t.line
  BY <1>1 DEF ParserToken, RuleOf, Ps!TokenKinds
<1>3. <<>> \in Excerpts
  BY DEF Excerpts
<1>4. CASE t.kind \in {"LT_TRUE", "LT_FALSE"}
  <2>1. node = [kind |-> "BOOL", line |-> pt.line, value |-> Ps!Bool(t.kind = "LT_TRUE"), chars |-> <<>>, first |-> n]
    BY <1>1, <1>2, <1>4 DEF Ps!LiteralNode
  <2>2. PICK v : v = Ps!Bool(t.kind = "LT_TRUE") /\ v \in {It!Bool(TRUE), It!Bool(FALSE)}
    BY DEF Ps!Bool, It!Bool, Ps!Value, It!Value
  <2>3. v \in [kind : It!Kinds, num : Int, den : Int]
    BY <2>2 DEF It!Bool, It!Value, It!Kinds
  <2>4. IsLiteralValue("BOOL", v)
    BY <2>2, <2>3 DEF IsLiteralValue
  <2>5. node.kind = "BOOL" /\ node.value = v
    BY <2>1, <2>2
  <2> QED
    BY <1>3, <2>1, <2>4, <2>5 DEF Ps!LiteralKinds
<1>5. CASE t.kind = "LT_CHAR"
  <2>1. node = [kind |-> "CHAR", line |-> pt.line, value |-> Ps!Value("CHAR", 0), chars |-> <<>>, first |-> n]
    BY <1>1, <1>2, <1>5 DEF Ps!LiteralNode
  <2>2. PICK v : v = Ps!Value("CHAR", 0)
    OBVIOUS
  <2>3. v.kind = "CHAR" /\ v.den = 1 /\ v \in [kind : It!Kinds, num : Int, den : Int]
    BY <2>2 DEF Ps!Value, It!Kinds
  <2> QED
    BY <1>3, <2>1, <2>2, <2>3 DEF IsLiteralValue, Ps!LiteralKinds
<1>6. CASE t.kind = "LT_INTEGER"
  <2>1. PICK d : d = Numeral(t.first, t.last) /\ d \in Nat
    BY <1>6, NumbersAre
  <2>2. pt.value = Ps!Value("INTEGER", d)
    BY <1>1, <1>6, <2>1 DEF ParserToken
  <2>3. PICK v : v = Ps!Saturated(pt.value)
    OBVIOUS
  <2>4. node = [kind |-> "INTEGER", line |-> pt.line, value |-> v, chars |-> <<>>, first |-> n]
    BY <1>1, <1>2, <1>6, <2>3 DEF Ps!LiteralNode
  <2>5. PICK h \in Nat \ {0} : It!MinInteger = -h /\ Ps!LARGEST = h - 1
    BY LimitsOfIntegers
  <2>6. PICK m : v = Ps!Value("INTEGER", m) /\ m \in 0 .. h - 1
    BY <2>1, <2>2, <2>3, <2>5 DEF Ps!Saturated, Ps!Value
  <2>7. m \in It!MinInteger .. -It!MinInteger - 1 /\ m \in Int
    BY <2>5, <2>6
  <2>8. v.kind = "INTEGER" /\ v.den = 1 /\ v.num = m /\ v \in [kind : It!Kinds, num : Int, den : Int]
    BY <2>6, <2>7 DEF Ps!Value, It!Kinds
  <2> QED
    BY <1>3, <2>4, <2>7, <2>8 DEF IsLiteralValue, Ps!LiteralKinds
<1>7. CASE t.kind = "LT_REAL"
  <2>1. PICK v : v = strtod(t, Fraction(t))
    OBVIOUS
  <2>2. pt.value = v
    BY <1>1, <1>7, <2>1 DEF ParserToken
  <2>3. node = [kind |-> "REAL", line |-> pt.line, value |-> v, chars |-> <<>>, first |-> n]
    BY <1>1, <1>2, <1>7, <2>2 DEF Ps!LiteralNode
  <2>4. v.kind = "REAL" /\ v.num \in Int /\ v.den \in Nat \ {0}
        /\ v = [kind |-> v.kind, num |-> v.num, den |-> v.den]
    BY <1>7, <2>1, StrtodIsReal
  <2>5. v.den > 0 /\ v.den \in Int /\ v \in [kind : It!Kinds, num : Int, den : Int]
    BY <2>4 DEF It!Kinds
  <2> QED
    BY <1>3, <2>3, <2>4, <2>5 DEF IsLiteralValue, Ps!LiteralKinds
<1>8. CASE t.kind = "LT_STRING"
  <2>1. PICK c : c = SubSeq(text, t.first, t.last)
    OBVIOUS
  <2>2. pt.chars = c
    BY <1>1, <1>8, <2>1 DEF ParserToken
  <2>3. node = [kind |-> "STRING", line |-> pt.line, value |-> Ps!Value("OBJ", 0), chars |-> c, first |-> n]
    BY <1>1, <1>2, <1>8, <2>2 DEF Ps!LiteralNode
  <2>4. PICK v : v = Ps!Value("OBJ", 0)
    OBVIOUS
  <2>5. v \in [kind : It!Kinds, num : Int, den : Int]
    BY <2>4 DEF Ps!Value, It!Kinds
  <2>6. text \in Texts /\ t.first \in Nat /\ t.last \in Nat
    BY DEF ScannerIInv, LexemesIInv, IsLexeme
  <2>7. c \in Excerpts
    <3>1. PICK w : w = <<text, t.first, t.last>>
      OBVIOUS
    <3>2. w \in Texts \X Nat \X Nat /\ c = SubSeq(w[1], w[2], w[3])
      BY <2>1, <2>6, <3>1
    <3> QED
      BY <3>2 DEF Excerpts
  <2> QED
    BY <2>3, <2>4, <2>5, <2>7 DEF IsLiteralValue, Ps!LiteralKinds
<1> QED
  BY <1>4, <1>5, <1>6, <1>7, <1>8 DEF Ps!Literals

LEMMA SameNodes ==
  /\ Pp!LiteralKinds = It!LiteralKinds /\ Pp!UnaryKinds = It!UnaryKinds /\ Pp!BinaryKinds = It!BinaryKinds
  /\ Pp!NodeKinds = It!NodeKinds /\ Ps!LiteralKinds = It!LiteralKinds
<1>1. /\ Pp!LiteralKinds = It!LiteralKinds /\ Pp!UnaryKinds = It!UnaryKinds /\ Pp!BinaryKinds = It!BinaryKinds
      /\ Ps!LiteralKinds = It!LiteralKinds
  BY DEF Pp!LiteralKinds, It!LiteralKinds, Pp!UnaryKinds, It!UnaryKinds, Pp!BinaryKinds, It!BinaryKinds,
         Ps!LiteralKinds
<1> QED
  BY <1>1 DEF Pp!NodeKinds, It!NodeKinds

(* A node the parser has finished is one the compiler may be given.        *)
LEMMA NodesAreGiven ==
  ASSUME ScannerIInv, ParserInStep, Pp!NodesMade, LexemesIInv, NEW n \in 1 .. Len(built),
         NEW node, node = built[n]
  PROVE  node \in TreeNodes /\ (node.kind \in It!LiteralKinds => IsLiteralValue(node.kind, node.value))
<1>1. DOMAIN built = 1 .. Len(built) /\ Pp!Finished(built, token, grouped, input, position)
  BY NodesAre, Pp!Found DEF ParserInStep
<1>2. node.kind \in It!NodeKinds /\ node.line \in Nat /\ node.first \in Nat
  BY <1>1, SameNodes DEF Pp!Finished, Pp!Formed
<1>3. CASE node.kind \in It!LiteralKinds
  <2>1. PICK t : t = tokens[token[n]] /\ token[n] \in DOMAIN tokens /\ t.kind \in Ps!Literals
                 /\ node = Ps!LiteralNode(ParserToken(t), n)
    <3>1. n \in DOMAIN built /\ built[n].kind \in Pp!LiteralKinds
      BY <1>1, <1>3, SameNodes
    <3> QED
      BY <3>1, LiteralOfToken
  <2>2. /\ IsLiteralValue(node.kind, node.value) /\ node.chars \in Excerpts
        /\ node = [kind |-> node.kind, line |-> node.line, value |-> node.value,
                   chars |-> node.chars, first |-> node.first]
    BY <2>1, LiteralValues
  <2>3. node.value \in [kind : It!Kinds, num : Int, den : Int]
    BY <2>2 DEF IsLiteralValue
  <2>4. node \in TreeNodes
    BY <1>2, <2>2, <2>3 DEF TreeNodes
  <2> QED
    BY <2>2, <2>4
<1>4. CASE node.kind \notin It!LiteralKinds
  <2>1. Pp!IsOperatorNode(node)
    BY <1>4, SameNodes DEF Pp!NodesMade, Pp!Made
  <2>2. Pp!Junk("BOOL") \in [kind : It!Kinds, num : Int, den : Int]
    BY DEF Pp!Junk, It!Kinds
  <2>3. <<>> \in Excerpts
    BY DEF Excerpts
  <2>4. node \in TreeNodes
    BY <1>2, <2>1, <2>2, <2>3 DEF TreeNodes, Pp!IsOperatorNode
  <2> QED
    BY <1>4, <2>4
<1> QED
  BY <1>3, <1>4

LEMMA BuiltIsGiven ==
  ASSUME ScannerIInv, ParserInStep, Pp!NodesMade, LexemesIInv, state = "parsed"
  PROVE  built \in Trees
<1>1. /\ DOMAIN built = 1 .. Len(built) /\ Len(built) \in Nat /\ Pp!IsSeq(built)
      /\ Pp!Finished(built, token, grouped, input, position)
  BY NodesAre, Pp!Found DEF ParserInStep
<1>2. Len(built) > 0 /\ built[Len(built)].first = 1
  BY DEF ParserInStep, Pp!ParserIInv, Pp!Parses
<1>3. It!IsTree(built)
  <2>1. \A n \in 1 .. Len(built) : Pp!Formed(built, n)
    BY <1>1 DEF Pp!Finished
  <2> QED
    BY <1>2, <2>1, SameNodes DEF It!IsTree, Pp!Formed
<1>4. built \in Seq(TreeNodes)
  <2>1. \A n \in 1 .. Len(built) : built[n] \in TreeNodes
    BY NodesAreGiven
  <2>2. built = [n \in 1 .. Len(built) |-> built[n]]
    BY <1>1 DEF Pp!IsSeq
  <2> QED
    BY <1>1, <2>1, <2>2
<1>5. \A n \in DOMAIN built : built[n].kind \in It!LiteralKinds => IsLiteralValue(built[n].kind, built[n].value)
  BY <1>1, NodesAreGiven
<1> QED
  BY <1>3, <1>4, <1>5 DEF Trees, IsLiteralValue, It!LiteralKinds

-----------------------------------------------------------------------------
(* What the parser knows of sentences it knows of the text's.              *)
ReadingIInv == stage # "scan" => Pp!FollowsIInv /\ Pp!SpansIInv

LEMMA ReadingKept ==
  ASSUME ParserInStep, Pp!NodesMade, ReadingIInv, [Next]_vars
  PROVE  ReadingIInv'
<1>1. CASE Scan
  BY <1>1 DEF Scan, ReadingIInv
<1>2. CASE parser_init
  <2>1. NotBegun /\ UNCHANGED <<position, frames, built, state, token, grouped>>
    BY <1>2 DEF parser_init, ParserInStep
  <2>2. PICK x : x = input'
    OBVIOUS
  <2>3. frames = <<Pp!Operand(Pp!PRECEDENCE_ASSIGNMENT)>>
    BY <2>1, SameFrames DEF NotBegun
  <2>4. Pp!Follows(frames, token, x, position, state)
    BY <2>1, <2>3, Pp!FollowsAtFirst DEF NotBegun
  <2>5. Pp!Laid(frames, built, token, grouped, x, position, <<>>)
    BY <2>1, <2>3, Pp!LiesAtFirst DEF NotBegun
  <2>6. Pp!FollowsIInv'
    BY <2>1, <2>2, <2>4 DEF Pp!FollowsIInv
  <2>7. Pp!SpansIInv'
    BY <2>1, <2>2, <2>5 DEF Pp!SpansIInv
  <2> QED
    BY <2>6, <2>7 DEF ReadingIInv
<1>3. CASE Parse
  <2>1. Ps!Step /\ stage = "parse"
    BY <1>3 DEF Parse, ParserStep, Ps!Step
  <2>2. [Pp!Next]_(Pp!vars)
    BY <2>1, SameSteps DEF Pp!Next
  <2>3. Pp!ParserIInv /\ Pp!FollowsIInv /\ Pp!SpansIInv
    BY <2>1 DEF ParserInStep, ReadingIInv
  <2> QED
    BY <2>2, <2>3, Pp!FollowsStep, Pp!SpansStep DEF ReadingIInv
<1>4. CASE chunk_write_from_ast \/ Run \/ Free \/ Ended \/ UNCHANGED vars
  <2>1. UNCHANGED parserVars /\ (stage' # "scan" => stage # "scan")
    BY <1>4 DEF chunk_write_from_ast, Run, Free, Ended, vars
  <2> QED
    BY <2>1 DEF ReadingIInv, Pp!FollowsIInv, Pp!SpansIInv, parserVars
<1> QED
  BY <1>1, <1>2, <1>3, <1>4 DEF Next, Step

LEMMA ReadingBegins == Init => ReadingIInv
BY DEF Init, ReadingIInv

-----------------------------------------------------------------------------
(* The tokens that may follow an operand in a sentence, or end it: no word *)
(* that begins as an exponent does is one of them.                         *)
Marks == {"e", "E"}

Followers == {"SP_EOF"} \cup Ps!Operators \cup {"OP_PAREN_CLOSE"}

InfixWords == {"KW_AND", "KW_DIV", "KW_MOD", "KW_OR"}

LEMMA RowsOfInfixWords ==
  \A row \in KeywordsAE \cup KeywordsFO \cup KeywordsPW :
    row[3] \in Followers => row[1] \in {<<"A", "N">>, <<"D", "I">>, <<"M">>, <<"O", "R">>}
<1>1. \A row \in KeywordsAE : row[3] \in Followers => row[1] \in {<<"A", "N">>, <<"D", "I">>}
  BY DEF KeywordsAE, Followers, Ps!Operators
<1>2. \A row \in KeywordsFO : row[3] \in Followers => row[1] \in {<<"M">>, <<"O", "R">>}
  BY DEF KeywordsFO, Followers, Ps!Operators
<1>3. \A row \in KeywordsPW : row[3] \notin Followers
  BY DEF KeywordsPW, Followers, Ps!Operators
<1> QED
  BY <1>1, <1>2, <1>3

LEMMA MarksBeginNoInfix ==
  ASSUME NEW S, NEW word \in Seq(S), Len(word) > 0, word[1] \in Marks
  PROVE  _make_identifier_kind(word) \notin Followers
<1> DEFINE reached == {row \in KeywordsAE \cup KeywordsFO \cup KeywordsPW :
                         Begins(word, row[1]) /\ Len(row[1]) <= Length(word)}
           found == {row \in reached : /\ \A other \in reached : Len(other[1]) <= Len(row[1])
                                       /\ _check_keyword(word, row)}
<1>1. /\ \A row \in found : row \in KeywordsAE \cup KeywordsFO \cup KeywordsPW /\ Begins(word, row[1])
      /\ _make_identifier_kind(word) = IF found = {} THEN "SP_IDENT" ELSE (CHOOSE row \in found : TRUE)[3]
  BY DEF _make_identifier_kind
<1> HIDE DEF found
<1>2. CASE found = {}
  BY <1>1, <1>2 DEF Followers, Ps!Operators
<1>3. CASE found # {}
  <2>1. PICK row : row = CHOOSE r \in found : TRUE
    OBVIOUS
  <2>2. row \in found
    BY <1>3, <2>1
  <2>3. SUFFICES ASSUME row[3] \in Followers PROVE FALSE
    BY <1>1, <1>3, <2>1
  <2>4. row[1] \in {<<"A", "N">>, <<"D", "I">>, <<"M">>, <<"O", "R">>} /\ Begins(word, row[1])
    BY <1>1, <2>2, <2>3, RowsOfInfixWords
  <2>5. PICK p : p = row[1]
    OBVIOUS
  <2>6. Len(p) \in {1, 2} /\ p[1] \in {"A", "D", "M", "O"}
    BY <2>4, <2>5
  <2>7. Len(p) <= Len(word) /\ SubSeq(word, 1, Len(p)) = p
    BY <2>4, <2>5 DEF Begins
  <2>8. p[1] = word[1]
    <3>1. CASE Len(p) = 1
      <4>1. SubSeq(word, 1, 1)[1] = word[1]
        BY <2>7, <3>1
      <4> QED
        BY <2>7, <3>1, <4>1
    <3>2. CASE Len(p) = 2
      <4>1. SubSeq(word, 1, 2)[1] = word[1]
        BY <2>7, <3>2
      <4> QED
        BY <2>7, <3>2, <4>1
    <3> QED
      BY <2>6, <3>1, <3>2
  <2> QED
    BY <2>6, <2>8 DEF Marks
<1> QED
  BY <1>2, <1>3

LEMMA MarksAreLetters ==
  \A c \in Marks : c \in Alphas /\ c \notin Openers /\ c \notin Blanks /\ c # NUL /\ c # "/"
<1>1. \A c \in Marks : c \in Alphas
  BY DEF Marks, Alphas
<1>2. \A c \in Marks : c \notin Openers
  BY Zenon, <1>1, LettersApart DEF Letters
<1>3. \A c \in Marks : c \notin Blanks
  BY Zenon DEF Marks, Blanks
<1>4. \A c \in Marks : c # NUL
  BY Zenon, <1>1, ClassesHaveNoEnd
<1>5. \A c \in Marks : c # "/"
  BY Zenon DEF Marks
<1> QED
  BY <1>1, <1>2, <1>3, <1>4, <1>5

WordsIInv ==
  \A n \in DOMAIN tokens : Char(tokens[n].first) \in Marks => tokens[n].kind \notin Followers

LEMMA WordStep ==
  ASSUME ScannerIInv, scanner_scan_token, tokens' # tokens, Char(current) \in Marks
  PROVE  \E t : tokens' = Append(tokens, t) /\ t.first = current /\ t.kind \notin Followers
<1>1. \A kind, end : Token(kind, end) /\ kind \notin Followers =>
        \E t : tokens' = Append(tokens, t) /\ t.first = current /\ t.kind \notin Followers
  BY DEF Token
<1>2. _peek \in Marks
  BY DEF _peek
<1>3. ~EndOfFile
  BY <1>2, MarksAreLetters DEF EndOfFile
<1>4. ASSUME EndOfLine \/ _make_number \/ _make_string \/ make_char \/ Unexpected
      PROVE  \E kind, end : Token(kind, end) /\ kind \notin Followers
  <2>1. {"SP_EOL", "LT_REAL", "LT_INTEGER", "SP_ERROR", "LT_STRING", "LT_CHAR"} \cap Followers = {}
    BY DEF Followers, Ps!Operators
  <2>2. EndOfLine => Token("SP_EOL", current + 1)
    BY DEF EndOfLine
  <2>3. _make_number => \E end : Token("LT_REAL", end) \/ Token("LT_INTEGER", end)
    BY DEF _make_number
  <2>4. _make_string => \E end : Token("SP_ERROR", end) \/ Token("LT_STRING", end)
    BY DEF _make_string
  <2>5. make_char => \E end : Token("SP_ERROR", end) \/ Token("LT_CHAR", end)
    BY DEF make_char
  <2>6. Unexpected => Token("SP_ERROR", current + 1)
    BY DEF Unexpected
  <2> QED
    BY <1>4, <2>1, <2>2, <2>3, <2>4, <2>5, <2>6
<1>5. ASSUME NEW kind \in DOMAIN Punctuation, Operator(kind) PROVE FALSE
  <2>1. \/ Punctuation[kind] = <<_peek>> \/ Punctuation[kind] = <<_peek, Char(current + 1)>>
    BY <1>5 DEF Operator
  <2>2. PICK c \in Openers : Punctuation[kind] = <<c>> \/ \E d : Punctuation[kind] = <<c, d>>
    BY OperatorsBegin
  <2>3. PICK x : x = Punctuation[kind]
    OBVIOUS
  <2>4. x[1] = _peek
    BY <2>1, <2>3
  <2>5. x[1] = c
    BY <2>2, <2>3
  <2> QED
    BY <1>2, <2>4, <2>5, MarksAreLetters
<1>6. ASSUME _make_identifier
      PROVE  \E kind, end : Token(kind, end) /\ kind \notin Followers
  <2>1. PICK end : end = After(current, Alphas \cup Digits \cup {"_"})
    OBVIOUS
  <2>2. PICK word : word = SubSeq(text, current, end - 1)
    OBVIOUS
  <2>3. Token(_make_identifier_kind(word), end)
    BY Zenon, <1>6, <2>1, <2>2 DEF _make_identifier
  <2>4. Len(text) \in Nat /\ text \in Texts /\ \E S : text \in Seq(S)
    BY TextIsSequence DEF ScannerIInv
  <2>5. current \in 1 .. Len(text)
    <3>1. current \in Nat \ {0} /\ Char(current) # NUL
      BY <2>4, MarksAreLetters DEF ScannerIInv
    <3> QED
      BY <2>4, <3>1, OnlyBehindIsNul
  <2>6. end \in current + 1 .. Len(text) + 1
    <3>1. /\ end \in current .. Len(text) + 1 /\ Char(end) \notin Alphas \cup Digits \cup {"_"}
      <4>1. current \in 1 .. Len(text) + 1
        BY <2>4, <2>5
      <4>2. NUL \notin Alphas \cup Digits \cup {"_"}
        BY ClassesHaveNoEnd, NulIsNoCharacter
      <4> QED
        BY <2>1, <2>4, <4>1, <4>2, AfterStops
    <3>2. end # current
      BY <3>1, MarksAreLetters
    <3>3. PICK k : k = Len(text) /\ k \in Nat
      BY <2>4
    <3>4. end \in current .. k + 1
      BY Zenon, <3>1, <3>3
    <3>5. current \in 1 .. k
      BY Zenon, <2>5, <3>3
    <3>6. end \in current + 1 .. k + 1
      BY <3>2, <3>3, <3>4, <3>5
    <3> QED
      BY Zenon, <3>3, <3>6
  <2>7. PICK S : text \in Seq(S)
    BY <2>4
  <2>8. word \in Seq(S) /\ Len(word) > 0 /\ word[1] = text[current]
    BY <2>2, <2>4, <2>5, <2>6, <2>7
  <2>9. word[1] \in Marks
    BY <2>4, <2>5, <2>8 DEF Char
  <2> QED
    BY <2>3, <2>8, <2>9, MarksBeginNoInfix
<1>7. ASSUME SkipBlank \/ SkipComment PROVE FALSE
  BY <1>7 DEF SkipBlank, SkipComment, Skip
<1> QED
  BY <1>1, <1>3, <1>4, <1>5, <1>6, <1>7 DEF scanner_scan_token

LEMMA WordsKept ==
  ASSUME ScannerIInv, WordsIInv, [Next]_vars
  PROVE  WordsIInv'
<1>1. CASE UNCHANGED <<text, tokens>>
  <2>1. \A i : Char(i)' = Char(i)
    BY <1>1 DEF Char
  <2> QED
    BY <1>1, <2>1 DEF WordsIInv
<1>2. CASE Scan
  <2>1. scanner_scan_token /\ text' = text
    <3>1. scanner_scan_token
      BY <1>2 DEF Scan, interpret
    <3> QED
      BY <3>1 DEF scanner_scan_token, SkipBlank, SkipComment, Skip, EndOfFile, EndOfLine, _make_identifier,
                  _make_number, Operator, _make_string, make_char, Unexpected, Token
  <2>2. CASE tokens' = tokens
    BY <1>1, <2>1, <2>2
  <2>3. CASE tokens' # tokens
    <3>1. PICK t : /\ tokens' = Append(tokens, t) /\ t.first = current
                    /\ (Char(current) \in Marks => t.kind \notin Followers)
      BY <2>1, <2>3, ScanAppends, WordStep
    <3>2. PICK S : tokens \in Seq(S)
      BY DEF ScannerIInv
    <3>3. PICK ts : ts = tokens'
      OBVIOUS
    <3>4. \A n \in DOMAIN ts : (n \in DOMAIN tokens /\ ts[n] = tokens[n]) \/ ts[n] = t
      BY <3>1, <3>2, <3>3
    <3>5. \A i : Char(i)' = Char(i)
      BY <2>1 DEF Char
    <3>6. \A n \in DOMAIN ts : Char(ts[n].first) \in Marks => ts[n].kind \notin Followers
      BY <3>1, <3>4 DEF WordsIInv
    <3>7. Followers' = Followers
      BY DEF Followers, Ps!Operators
    <3> QED
      BY <3>3, <3>5, <3>6, <3>7 DEF WordsIInv, Marks
  <2> QED
    BY <2>2, <2>3
<1>3. CASE parser_init \/ Parse \/ chunk_write_from_ast \/ Run \/ Free \/ Ended \/ UNCHANGED vars
  <2>1. UNCHANGED <<text, tokens>>
    BY <1>3 DEF parser_init, Parse, chunk_write_from_ast, Run, Free, Ended, vars, scannerVars
  <2> QED
    BY <1>1, <2>1
<1> QED
  BY <1>2, <1>3 DEF Next, Step

LEMMA WordsBegin == Init => WordsIInv
BY DEF Init, ScannerInit, WordsIInv

LEMMA WordsInvariant == Spec => []WordsIInv
<1>1. ScannerIInv /\ WordsIInv /\ [Next]_vars => WordsIInv'
  BY WordsKept
<1> QED
  BY <1>1, WordsBegin, ScannerInvariant, PTL DEF Spec

(* Every token but the end's was handed to the parser.                     *)
TokensRead == Scanned /\ Len(tokens) \in Nat /\ Len(input) = Len(tokens) - 1

(* No exponent is read along behind a REAL of a sentence: what follows     *)
(* there is an operator, a parenthesis or the end.                         *)
LEMMA FollowerIs ==
  ASSUME ScannerIInv, TokensRead, LexemesIInv, Pp!Sentence(input), stage # "scan",
         NEW k \in 1 .. Len(input), tokens[k].kind = "LT_REAL"
  PROVE  k \in DOMAIN tokens /\ k + 1 \in DOMAIN tokens /\ tokens[k + 1].kind \in Followers
<1>1. Scanned /\ Len(tokens) \in Nat /\ Len(input) = Len(tokens) - 1
  BY DEF TokensRead
<1>2. \E S : tokens \in Seq(S)
  BY DEF ScannerIInv
<1>3. DOMAIN tokens = 1 .. Len(tokens) /\ Len(input) \in Nat
  BY <1>1, <1>2
<1>4. k \in DOMAIN tokens /\ k + 1 \in DOMAIN tokens
  BY <1>1, <1>3
<1>5. CASE k = Len(input)
  <2>1. k + 1 = Len(tokens)
    BY <1>1, <1>5
  <2> QED
    BY <1>1, <1>4, <2>1 DEF Scanned, Followers
<1>6. CASE k # Len(input)
  <2>1. k + 1 \in 1 .. Len(input) /\ (k + 1) - 1 = k /\ k > 0
    BY <1>1, <1>3, <1>6
  <2>2. input[k] = ParserToken(tokens[k]) /\ input[k + 1] = ParserToken(tokens[k + 1])
    BY <2>1 DEF LexemesIInv, ReadsTokens
  <2>3. input[k].kind = "LT_REAL"
    BY <2>2 DEF ParserToken, RuleOf, Ps!TokenKinds, Ps!Literals
  <2>4. Pp!Ends(input, k)
    BY <2>1, <2>3 DEF Pp!Ends, Pp!Literals
  <2>5. input[k + 1].kind \in (Pp!Operators \ {"OP_NOT_EQUAL_TO"}) \cup {"OP_PAREN_CLOSE"}
    BY <2>1, <2>4 DEF Pp!Sentence
  <2>6. RuleOf(tokens[k + 1].kind) \in Ps!Operators \cup {"OP_PAREN_CLOSE"}
    BY <2>2, <2>5, SameRules DEF ParserToken
  <2>7. tokens[k + 1].kind \in Ps!Operators \cup {"OP_PAREN_CLOSE"}
    BY <2>6 DEF RuleOf, Ps!Operators
  <2> QED
    BY <1>4, <2>7 DEF Followers
<1> QED
  BY <1>5, <1>6

LEMMA NoExponent ==
  ASSUME ScannerIInv, TokensRead, LexemesIInv, WordsIInv, Pp!Sentence(input), stage # "scan",
         NEW k \in 1 .. Len(input), tokens[k].kind = "LT_REAL"
  PROVE  ~HasExponent(tokens[k].last + 1)
<1>1. k \in DOMAIN tokens /\ k + 1 \in DOMAIN tokens /\ tokens[k + 1].kind \in Followers
  BY FollowerIs
<1>2. PICK a, f : a = tokens[k].last + 1 /\ f = tokens[k + 1].first
  OBVIOUS
<1>3. a \in Nat /\ f \in Nat /\ k \in Nat /\ k # 0 /\ (k + 1) - 1 = k
  <2>1. tokens[k].last \in Nat /\ f \in Nat \ {0}
    BY <1>1, <1>2 DEF ScannerIInv, LexemesIInv, IsLexeme
  <2>2. \E S : tokens \in Seq(S)
    BY DEF ScannerIInv
  <2>3. k \in Nat /\ k # 0
    BY <1>1, <2>2
  <2> QED
    BY <1>2, <2>1, <2>3
<1>4. a <= f /\ Skipped(a, f - 1)
  <2>1. Behind((k + 1) - 1) <= tokens[k + 1].first /\ Skipped(Behind((k + 1) - 1), tokens[k + 1].first - 1)
    BY <1>1 DEF ScannerIInv, NothingIsLost
  <2>2. Behind((k + 1) - 1) = a
    BY <1>2, <1>3 DEF Behind
  <2> QED
    BY <1>2, <2>1, <2>2
<1>5. SUFFICES ASSUME Char(a) \in Marks PROVE FALSE
  BY <1>2 DEF HasExponent, Marks
<1>6. a # f
  BY <1>1, <1>2, <1>5 DEF WordsIInv
<1>7. a \in a .. f - 1
  BY <1>3, <1>4, <1>6
<1>8. Char(a) \in Blanks \/ \E c \in a .. f - 1 : c <= a /\ Char(c) = "/"
  BY <1>4, <1>7 DEF Skipped
<1>9. PICK slash : slash = "/"
  OBVIOUS
<1>10. Char(a) \in Blanks \/ \E c \in a .. f - 1 : c <= a /\ Char(c) = slash
  BY Zenon, <1>8, <1>9
<1>11. Char(a) \in Blanks \/ Char(a) = slash
  <2>1. \A c \in a .. f - 1 : c <= a => c = a
    BY <1>3
  <2> QED
    BY <1>10, <2>1
<1> QED
  BY Zenon, <1>5, <1>9, <1>11, MarksAreLetters

-----------------------------------------------------------------------------
(* The recursion of Meaning over the spans of the first tokens, and how far*)
(* apart the ends of a span are.                                           *)
Spans(last) == (1 .. last) \X (1 .. last)

Width(s) == s[2] - s[1]

JoinedMeaning(of, i, k, j) ==
  LET kind == Ps!BinaryKind(input[k].kind)
      a == of[<<i, k - 1>>]  b == of[<<k + 1, j>>]
  IN  Checked(It!Ref!SupportedBinary(kind, a, b), It!Ref!BinaryMeaning(kind, a, b))

PrefixedMeaning(of, i, j) ==
  LET kind == Ps!UnaryKind(input[i].kind)  a == of[<<i + 1, j>>]
  IN  Checked(It!Ref!SupportedUnary(kind, a), It!Ref!UnaryMeaning(kind, a))

SpanMeaning(of, span) ==
  LET i == span[1]  j == span[2]  splits == Splits(i, j)
  IN  IF i > j THEN UNSUPPORTED
      ELSE IF splits # {} THEN JoinedMeaning(of, i, Root(splits), j)
      ELSE IF i = j THEN LiteralValue(i)
      ELSE IF input[i].kind = "OP_PAREN_OPEN" THEN of[<<i + 1, j - 1>>]
      ELSE PrefixedMeaning(of, i, j)

(* The cases one by one.                                                   *)
LEMMA SpanMeaningIs ==
  ASSUME NEW of, NEW i, NEW j
  PROVE  /\ i > j => SpanMeaning(of, <<i, j>>) = UNSUPPORTED
         /\ ~(i > j) /\ Splits(i, j) # {} =>
              SpanMeaning(of, <<i, j>>) = JoinedMeaning(of, i, Root(Splits(i, j)), j)
         /\ ~(i > j) /\ Splits(i, j) = {} /\ i = j => SpanMeaning(of, <<i, j>>) = LiteralValue(i)
         /\ ~(i > j) /\ Splits(i, j) = {} /\ i # j /\ input[i].kind = "OP_PAREN_OPEN" =>
              SpanMeaning(of, <<i, j>>) = of[<<i + 1, j - 1>>]
         /\ ~(i > j) /\ Splits(i, j) = {} /\ i # j /\ input[i].kind # "OP_PAREN_OPEN" =>
              SpanMeaning(of, <<i, j>>) = PrefixedMeaning(of, i, j)
<1>1. <<i, j>>[1] = i /\ <<i, j>>[2] = j
  OBVIOUS
<1>2. SpanMeaning(of, <<i, j>>) =
        IF i > j THEN UNSUPPORTED
        ELSE IF Splits(i, j) # {} THEN JoinedMeaning(of, i, Root(Splits(i, j)), j)
        ELSE IF i = j THEN LiteralValue(i)
        ELSE IF input[i].kind = "OP_PAREN_OPEN" THEN of[<<i + 1, j - 1>>]
        ELSE PrefixedMeaning(of, i, j)
  BY <1>1 DEF SpanMeaning
<1> QED
  BY <1>2

(* What a span splits at, said by the parser's proofs.                     *)
LEMMA SameSplits ==
  /\ \A i, j : Splits(i, j) = Pp!SplitsOf(input, i, j)
  /\ \A kind : Ps!Precedence(kind) \in 0 .. 7
  /\ \A i : Ps!Balance(i) = Pp!BalanceOf(input, i)
<1>1. \A i : Ps!Balance(i) = Pp!BalanceOf(input, i)
  <2>1. \A S : Ps!Cardinality(S) = Pp!Cardinality(S)
    BY DEF Ps!Cardinality, Pp!Cardinality
  <2> QED
    BY <2>1 DEF Ps!Balance, Pp!BalanceOf, Pp!Of
<1>2. \A i, j : Splits(i, j) = Pp!SplitsOf(input, i, j)
  BY <1>1, SameRules DEF Splits, Pp!SplitsOf
<1>3. \A kind : Ps!Precedence(kind) \in 0 .. 7
  BY Pp!PrecedencesAreInts, SameRules
<1> QED
  BY <1>1, <1>2, <1>3

IsRoot(S, k) ==
  /\ k \in S
  /\ \A l \in S : \/ Ps!Precedence(input[k].kind) < Ps!Precedence(input[l].kind)
                  \/ Ps!Precedence(input[k].kind) = Ps!Precedence(input[l].kind) /\ l <= k

(* There is one such operator, if there is one at all.                     *)
LEMMA RootExists ==
  ASSUME NEW i \in Int, NEW j \in Int, NEW S, S \subseteq i + 1 .. j - 1, S # {}
  PROVE  \E k : IsRoot(S, k)
<1> DEFINE P(k) == Ps!Precedence(input[k].kind)
           ps == {P(k) : k \in S}
<1>1. \A k : P(k) \in Nat
  BY SameSplits
<1>2. ps \subseteq Nat /\ ps # {}
  BY <1>1
<1>3. PICK p \in ps : \A q \in ps : p <= q
  <2> HIDE DEF ps
  <2> QED
    BY <1>2, Pp!Least
<1> DEFINE T == {k \in S : P(k) = p}
           ds == {j - k : k \in T}
<1>4. T # {}
  BY <1>3
<1>5. ds \subseteq Nat /\ ds # {}
  <2>1. \A k \in T : j - k \in Nat
    OBVIOUS
  <2> QED
    BY <1>4, <2>1
<1>6. PICK e \in ds : \A q \in ds : e <= q
  <2> HIDE DEF ds
  <2> QED
    BY <1>5, Pp!Least
<1>7. PICK k \in T : e = j - k
  BY <1>6
<1>8. ASSUME NEW l \in S PROVE P(k) < P(l) \/ (P(k) = P(l) /\ l <= k)
  <2>1. P(k) = p /\ p <= P(l) /\ k \in Int /\ l \in Int
    BY <1>3, <1>7
  <2>2. CASE l \in T
    <3>1. j - k <= j - l
      BY <1>6, <1>7, <2>2
    <3>2. l <= k
      BY <2>1, <3>1
    <3> QED
      BY <2>1, <2>2, <3>2
  <2>3. CASE l \notin T
    <3>1. P(l) # p
      BY <2>3
    <3> HIDE DEF P
    <3> QED
      BY <1>1, <2>1, <3>1
  <2> QED
    BY <2>2, <2>3
<1>9. k \in S
  BY <1>7
<1> QED
  BY <1>8, <1>9 DEF IsRoot

LEMMA RootIs ==
  ASSUME NEW i \in Int, NEW j \in Int, NEW S, S \subseteq i + 1 .. j - 1
  PROVE  /\ S # {} => Root(S) \in S
         /\ \A k : Pp!Splits(input, S, k) => S # {} /\ Root(S) = k
<1>1. ASSUME NEW k, IsRoot(S, k)
      PROVE  IsRoot(S, Root(S))
  <2>1. \E r \in S : \A l \in S :
          \/ Ps!Precedence(input[r].kind) < Ps!Precedence(input[l].kind)
          \/ Ps!Precedence(input[r].kind) = Ps!Precedence(input[l].kind) /\ l <= r
    BY Zenon, <1>1 DEF IsRoot
  <2> QED
    BY Zenon, <2>1 DEF IsRoot, Root
<1>2. S # {} => Root(S) \in S
  <2> SUFFICES ASSUME S # {} PROVE Root(S) \in S
    OBVIOUS
  <2>1. PICK k : IsRoot(S, k)
    BY RootExists
  <2> QED
    BY <1>1, <2>1 DEF IsRoot
<1>3. ASSUME NEW k, Pp!Splits(input, S, k)
      PROVE  S # {} /\ Root(S) = k
  <2>1. IsRoot(S, k)
    BY <1>3, SameRules DEF Pp!Splits, IsRoot
  <2>2. PICK r : r = Root(S) /\ IsRoot(S, r)
    BY <1>1, <2>1
  <2>3. PICK p, q : p = Ps!Precedence(input[k].kind) /\ q = Ps!Precedence(input[r].kind)
    OBVIOUS
  <2>4. p \in Int /\ q \in Int /\ k \in Int /\ r \in Int /\ k \in S
    BY <2>1, <2>2, <2>3, SameSplits DEF IsRoot
  <2>5. (p < q \/ (p = q /\ r <= k)) /\ (q < p \/ (q = p /\ k <= r))
    BY <2>1, <2>2, <2>3 DEF IsRoot
  <2>6. r = k
    BY <2>4, <2>5
  <2> QED
    BY <2>2, <2>4, <2>6
<1> QED
  BY <1>2, <1>3

(* The meaning of a span needs those of narrower spans only.               *)
Agree(f, g, last, w) == \A r \in Spans(last) : Width(r) < w => f[r] = g[r]

LEMMA SpanIsLocal ==
  ASSUME NEW last \in Nat, NEW i \in 1 .. last, NEW j \in 1 .. last, NEW f, NEW g, Agree(f, g, last, j - i)
  PROVE  SpanMeaning(f, <<i, j>>) = SpanMeaning(g, <<i, j>>)
<1>1. ASSUME NEW a \in 1 .. last, NEW b \in 1 .. last, b - a < j - i
      PROVE  f[<<a, b>>] = g[<<a, b>>]
  <2>1. <<a, b>> \in Spans(last) /\ Width(<<a, b>>) = b - a
    BY DEF Spans, Width
  <2> QED
    BY <1>1, <2>1 DEF Agree
<1>2. CASE i > j
  BY Zenon, <1>2, SpanMeaningIs
<1>3. CASE ~(i > j) /\ Splits(i, j) # {}
  <2>1. PICK k : k = Root(Splits(i, j))
    OBVIOUS
  <2>2. k \in i + 1 .. j - 1
    <3>1. Splits(i, j) \subseteq i + 1 .. j - 1
      BY DEF Splits
    <3> QED
      BY <1>3, <2>1, <3>1, RootIs
  <2>3. f[<<i, k - 1>>] = g[<<i, k - 1>>]
    <3>1. k - 1 \in 1 .. last /\ (k - 1) - i < j - i
      BY <2>2
    <3> QED
      BY <1>1, <3>1
  <2>4. f[<<k + 1, j>>] = g[<<k + 1, j>>]
    <3>1. k + 1 \in 1 .. last /\ j - (k + 1) < j - i
      BY <2>2
    <3> QED
      BY <1>1, <3>1
  <2>5. JoinedMeaning(f, i, k, j) = JoinedMeaning(g, i, k, j)
    BY Zenon, <2>3, <2>4 DEF JoinedMeaning
  <2> QED
    BY Zenon, <1>3, <2>1, <2>5, SpanMeaningIs
<1>4. CASE ~(i > j) /\ Splits(i, j) = {} /\ i = j
  BY Zenon, <1>4, SpanMeaningIs
<1>5. CASE ~(i > j) /\ Splits(i, j) = {} /\ i # j
  <2>1. i + 1 \in 1 .. last /\ j - 1 \in 1 .. last /\ (j - 1) - (i + 1) < j - i /\ j - (i + 1) < j - i
    BY <1>5
  <2>2. f[<<i + 1, j - 1>>] = g[<<i + 1, j - 1>>] /\ f[<<i + 1, j>>] = g[<<i + 1, j>>]
    BY <1>1, <2>1
  <2>3. PrefixedMeaning(f, i, j) = PrefixedMeaning(g, i, j)
    BY Zenon, <2>2 DEF PrefixedMeaning
  <2>4. CASE input[i].kind = "OP_PAREN_OPEN"
    <3>1. /\ SpanMeaning(f, <<i, j>>) = f[<<i + 1, j - 1>>]
          /\ SpanMeaning(g, <<i, j>>) = g[<<i + 1, j - 1>>]
      BY Zenon, <1>5, <2>4, SpanMeaningIs
    <3> QED
      BY Zenon, <2>2, <3>1
  <2>5. CASE input[i].kind # "OP_PAREN_OPEN"
    <3>1. /\ SpanMeaning(f, <<i, j>>) = PrefixedMeaning(f, i, j)
          /\ SpanMeaning(g, <<i, j>>) = PrefixedMeaning(g, i, j)
      BY Zenon, <1>5, <2>5, SpanMeaningIs
    <3> QED
      BY Zenon, <2>3, <3>1
  <2> QED
    BY Zenon, <2>4, <2>5
<1> QED
  BY Zenon, <1>2, <1>3, <1>4, <1>5

-----------------------------------------------------------------------------
(* So there is a function that gives every span its meaning: by induction  *)
(* over the width, one that does so up to it.                              *)
MeansUpTo(f, last, w) == \A s \in Spans(last) : Width(s) < w - last => f[s] = SpanMeaning(f, s)

LEMMA SpansAre ==
  ASSUME NEW last \in Nat, NEW s \in Spans(last)
  PROVE  \E i, j \in 1 .. last : s = <<i, j>> /\ s[1] = i /\ s[2] = j /\ Width(s) = j - i
BY DEF Spans, Width

LEMMA SpansMean ==
  ASSUME NEW last \in Nat
  PROVE  \E f : f = [s \in Spans(last) |-> SpanMeaning(f, s)]
<1> DEFINE S == {w \in Nat : \E f : MeansUpTo(f, last, w)}
<1>1. 0 \in S
  <2>1. \A s \in Spans(last) : ~(Width(s) < 0 - last)
    <3> TAKE s \in Spans(last)
    <3>1. PICK i, j \in 1 .. last : Width(s) = j - i
      BY SpansAre
    <3> QED
      BY <3>1
  <2>2. MeansUpTo(0, last, 0)
    BY <2>1 DEF MeansUpTo
  <2> QED
    BY <2>2
<1>2. ASSUME NEW w \in Nat, w \in S PROVE w + 1 \in S
  <2>1. PICK f : MeansUpTo(f, last, w)
    BY <1>2
  <2>2. PICK g : g = [s \in Spans(last) |-> IF Width(s) < w - last THEN f[s] ELSE SpanMeaning(f, s)]
    OBVIOUS
  <2>3. ASSUME NEW s \in Spans(last), Width(s) < (w + 1) - last
        PROVE  g[s] = SpanMeaning(g, s)
    <3>1. PICK i, j \in 1 .. last : s = <<i, j>> /\ Width(s) = j - i
      BY SpansAre
    <3>2. j - i <= w - last
      BY <2>3, <3>1
    <3>3. ASSUME NEW r \in Spans(last), Width(r) < j - i
          PROVE  f[r] = g[r]
      <4>1. PICK a, b \in 1 .. last : Width(r) = b - a
        BY SpansAre
      <4>2. Width(r) < w - last
        BY <3>2, <3>3, <4>1
      <4> QED
        BY <2>2, <4>2
    <3>4. SpanMeaning(f, s) = SpanMeaning(g, s)
      BY <3>1, <3>3, SpanIsLocal DEF Agree
    <3>5. g[s] = SpanMeaning(f, s)
      BY <2>1, <2>2 DEF MeansUpTo
    <3> QED
      BY <3>4, <3>5
  <2>4. MeansUpTo(g, last, w + 1)
    BY <2>3 DEF MeansUpTo
  <2> QED
    BY <2>4
<1> HIDE DEF S
<1>3. Nat \subseteq S
  BY <1>1, <1>2, Cp!Induction, ChunkAssumption
<1>4. PICK f : MeansUpTo(f, last, last + last)
  <2>1. last + last \in S
    BY <1>3
  <2> QED
    BY <2>1 DEF S
<1>5. \A s \in Spans(last) : f[s] = SpanMeaning(f, s)
  <2> TAKE s \in Spans(last)
  <2>1. PICK i, j \in 1 .. last : Width(s) = j - i
    BY SpansAre
  <2>2. Width(s) < (last + last) - last
    BY <2>1
  <2> QED
    BY <1>4, <2>2 DEF MeansUpTo
<1>6. PICK g : g = [s \in Spans(last) |-> f[s]]
  OBVIOUS
<1>7. \A s \in Spans(last) : g[s] = SpanMeaning(g, s)
  <2> TAKE s \in Spans(last)
  <2>1. PICK i, j \in 1 .. last : s = <<i, j>>
    BY SpansAre
  <2>2. Agree(f, g, last, j - i)
    BY <1>6 DEF Agree
  <2>3. SpanMeaning(f, s) = SpanMeaning(g, s)
    BY <2>1, <2>2, SpanIsLocal
  <2> QED
    BY <1>5, <1>6, <2>3
<1>8. g = [s \in Spans(last) |-> SpanMeaning(g, s)]
  <2>1. g = [s \in Spans(last) |-> g[s]]
    BY <1>6
  <2> QED
    BY Zenon, <1>7, <2>1
<1> QED
  BY <1>8

(* Meaning unfolds as it was written.                                      *)
MeansSpans(f, last) == \A i, j \in 1 .. last : f[<<i, j>>] = SpanMeaning(f, <<i, j>>)

LEMMA MeaningIs ==
  ASSUME NEW last \in Nat
  PROVE  \E f : MeansSpans(f, last) /\ Meaning(last) = f[<<1, last>>]
<1> DEFINE Rec(g) == g = [s \in Spans(last) |-> SpanMeaning(g, s)]
<1>1. \E g : Rec(g)
  BY SpansMean
<1>2. PICK f : f = CHOOSE g : Rec(g)
  OBVIOUS
<1>3. Rec(f)
  BY Zenon, <1>1, <1>2
<1>4. Meaning(last) = f[<<1, last>>]
  BY Zenon, <1>2 DEF Meaning, SpanMeaning, Spans, JoinedMeaning, PrefixedMeaning
<1>5. MeansSpans(f, last)
  <2>1. \A i, j \in 1 .. last : <<i, j>> \in Spans(last)
    BY DEF Spans
  <2>2. \A s \in Spans(last) : f[s] = SpanMeaning(f, s)
    BY Zenon, <1>3
  <2> QED
    BY Zenon, <2>1, <2>2 DEF MeansSpans
<1> QED
  BY <1>4, <1>5

-----------------------------------------------------------------------------
(* mean gives the nodes of a tree their values, and the machine was        *)
(* written for node n.                                                     *)
Means(p, mean) ==
  \A n \in DOMAIN p :
    /\ p[n].kind \in It!LiteralKinds => mean[n] = It!Ref!LiteralMeaning(p[n])
    /\ p[n].kind \in It!UnaryKinds => mean[n] = It!Ref!UnaryMeaning(p[n].kind, mean[n - 1])
    /\ p[n].kind \in It!BinaryKinds =>
         mean[n] = It!Ref!BinaryMeaning(p[n].kind, mean[p[n - 1].first - 1], mean[n - 1])

NodeSupported(p, mean, n) ==
  \/ p[n].kind \in It!LiteralKinds
  \/ p[n].kind \in It!UnaryKinds /\ It!Ref!SupportedUnary(p[n].kind, mean[n - 1])
  \/ p[n].kind \in It!BinaryKinds
       /\ It!Ref!SupportedBinary(p[n].kind, mean[p[n - 1].first - 1], mean[n - 1])

(* A literal that has a value means the same to both.                      *)
LEMMA SameLiteralValues ==
  /\ \A b : It!Ref!Meant(It!Bool(b)) = It!Ref!Meant(Ps!Bool(b))
  /\ \A kind, n : It!Value(kind, n) = Ps!Value(kind, n)
  /\ \A n, d : It!Real(n, d) = Ps!Real(n, d)
<1>1. /\ \A b : It!Bool(b) = Ps!Bool(b)
      /\ \A kind, n : It!Value(kind, n) = Ps!Value(kind, n)
      /\ \A n, d : It!Real(n, d) = Ps!Real(n, d)
  BY DEF It!Bool, Ps!Bool, It!Value, Ps!Value, It!Real, Ps!Real
<1> QED
  BY <1>1

(* A token without its first and last character, in the text.              *)
LEMMA ExcerptUnquoted ==
  ASSUME ScannerIInv, NEW a \in Nat \ {0}, NEW b \in a .. Len(text)
  PROVE  It!Ref!Unquoted(SubSeq(text, a, b)) = SubSeq(text, a + 1, b - 1)
<1>1. PICK s : s = SubSeq(text, a, b)
  OBVIOUS
<1>2. Len(text) \in Nat
  BY TextIsSequence DEF ScannerIInv
<1>3. Len(s) = b - a + 1 /\ \A i \in 1 .. Len(s) : s[i] = text[a + i - 1]
  BY <1>1, <1>2
<1>4. PICK u : u = SubSeq(text, a + 1, b - 1)
  OBVIOUS
<1>5. u = [i \in 1 .. b - a - 1 |-> text[a + i]]
  BY <1>2, <1>4
<1> QED
  BY <1>1, <1>2, <1>3, <1>4, <1>5 DEF It!Ref!Unquoted

LEMMA LiteralMeans ==
  ASSUME ScannerIInv, ParserInStep, Pp!NodesMade, LexemesIInv, TokensRead, WordsIInv,
         Pp!Sentence(input), NEW n \in DOMAIN built, built[n].kind \in It!LiteralKinds,
         NEW k, k = token[n], k \in 1 .. Len(input), stage # "scan", LiteralValue(k) # UNSUPPORTED
  PROVE  LiteralValue(k) = It!Ref!LiteralMeaning(built[n])
<1>1. PICK t, node : t = tokens[k] /\ node = built[n]
  OBVIOUS
<1>2. /\ k \in DOMAIN tokens /\ t.kind \in Ps!Literals /\ input[k] = ParserToken(t)
      /\ node = Ps!LiteralNode(ParserToken(t), n)
  BY <1>1, LiteralOfToken, SameNodes
<1>3. PICK pt : pt = ParserToken(t)
  OBVIOUS
<1>4. pt.kind = t.kind
  BY <1>2, <1>3 DEF ParserToken, RuleOf, Ps!TokenKinds
<1>5. node.kind # "STRING" => It!Ref!LiteralMeaning(node) = It!Ref!Meant(node.value)
  BY DEF It!Ref!LiteralMeaning
<1>6. CASE t.kind \in {"LT_TRUE", "LT_FALSE"}
  <2>1. node.kind = "BOOL" /\ node.value = Ps!Bool(t.kind = "LT_TRUE")
    BY <1>2, <1>3, <1>4, <1>6 DEF Ps!LiteralNode
  <2>2. LiteralValue(k) = It!Ref!Meant(It!Bool(t.kind = "LT_TRUE"))
    BY <1>1, <1>6 DEF LiteralValue
  <2> QED
    BY <1>1, <1>5, <2>1, <2>2, SameLiteralValues
<1>7. CASE t.kind = "LT_CHAR"
  BY <1>1, <1>7 DEF LiteralValue
<1>8. CASE t.kind = "LT_INTEGER"
  <2>1. PICK d : d = Numeral(t.first, t.last) /\ d \in Nat
    BY <1>1, <1>2, <1>8, NumbersAre
  <2>2. pt.value = Ps!Value("INTEGER", d)
    BY <1>3, <1>8, <2>1 DEF ParserToken
  <2>3. node.kind = "INTEGER" /\ node.value = Ps!Saturated(Ps!Value("INTEGER", d))
    BY <1>2, <1>3, <1>4, <1>8, <2>2 DEF Ps!LiteralNode
  <2>4. It!Ref!Fits(d) /\ LiteralValue(k) = It!Ref!Meant(It!Value("INTEGER", d))
    BY <1>1, <1>8, <2>1 DEF LiteralValue
  <2>5. PICK h \in Nat \ {0} : h = 2 ^ (INT_BITS - 1) /\ Ps!LARGEST = h - 1
    BY LimitsOfIntegers
  <2>6. d < h
    BY <2>4, <2>5 DEF It!Ref!Fits
  <2>7. ~(d > Ps!LARGEST)
    BY <2>1, <2>5, <2>6
  <2>8. Ps!Saturated(Ps!Value("INTEGER", d)) = Ps!Value("INTEGER", d)
    BY <2>7 DEF Ps!Saturated, Ps!Value
  <2> QED
    BY <1>1, <1>5, <2>3, <2>4, <2>8, SameLiteralValues
<1>9. CASE t.kind = "LT_REAL"
  <2>1. PICK d, f : d = Numeral(t.first, t.last) /\ f = Fraction(t)
    OBVIOUS
  <2>2. d \in Nat /\ f \in Nat \ {0}
    BY <1>1, <1>2, <1>9, <2>1, NumbersAre
  <2>3. ~HasExponent(t.last + 1)
    BY <1>1, <1>9, NoExponent
  <2>4. strtod(t, f) = Ps!Real(d, TenTo(f))
    <3>1. strtod(t, f) = IF -f < 0 THEN Ps!Real(d, TenTo(-(-f))) ELSE Ps!Real(d * TenTo(-f), 1)
      BY Zenon, <2>1, <2>3 DEF strtod
    <3>2. -f < 0 /\ -(-f) = f
      BY <2>2
    <3> QED
      BY <3>1, <3>2
  <2>5. pt.value = strtod(t, f)
    BY <1>3, <1>9, <2>1 DEF ParserToken
  <2>6. node.kind = "REAL" /\ node.value = Ps!Real(d, TenTo(f))
    BY <1>2, <1>3, <1>4, <1>9, <2>4, <2>5 DEF Ps!LiteralNode
  <2>7. LiteralValue(k) = It!Ref!Meant(It!Real(d, TenTo(f)))
    BY <1>1, <1>9, <2>1 DEF LiteralValue
  <2> QED
    BY <1>1, <1>5, <2>6, <2>7, SameLiteralValues
<1>10. CASE t.kind = "LT_STRING"
  <2>1. node.kind = "STRING" /\ node.chars = pt.chars
    BY <1>2, <1>3, <1>4, <1>10 DEF Ps!LiteralNode
  <2>2. pt.chars = SubSeq(text, t.first, t.last)
    BY <1>3, <1>10 DEF ParserToken
  <2>3. t.first \in Nat \ {0} /\ t.last \in t.first .. Len(text)
    BY <1>1, <1>2, <1>10 DEF LexemesIInv, IsLexeme, LexemeKinds
  <2>4. It!Ref!Unquoted(pt.chars) = SubSeq(text, t.first + 1, t.last - 1)
    BY <2>2, <2>3, ExcerptUnquoted
  <2>5. LiteralValue(k) = It!Ref!MeantString(It!Ref!Unquoted(pt.chars))
    BY <1>1, <1>10, <2>4 DEF LiteralValue
  <2> QED
    BY <1>1, <2>1, <2>5 DEF It!Ref!LiteralMeaning
<1> QED
  BY <1>2, <1>6, <1>7, <1>8, <1>9, <1>10 DEF Ps!Literals

-----------------------------------------------------------------------------
(* A sentence that was parsed, and where its nodes lie.                    *)
IsParsed(d, mean) ==
  /\ ScannerIInv /\ ParserInStep /\ Pp!NodesMade /\ LexemesIInv /\ TokensRead /\ WordsIInv
  /\ Pp!Sentence(input) /\ stage # "scan" /\ state = "parsed"
  /\ Pp!IsReading(built, token, grouped, input, d)
  /\ Means(built, mean)

(* A span that reads as a node has no value, or that of the node, all of   *)
(* whose subtree the machine was written for.                              *)
Agrees(mean, v, n) ==
  v # UNSUPPORTED =>
    /\ v = mean[n]
    /\ \A k \in built[n].first .. n : NodeSupported(built, mean, k)

ValueAgrees(mean, f, d, n, e) == Agrees(mean, f[<<Pp!First(d, n, e), Pp!Final(d, n, e)>>], n)

AgreesAt(mean, f, d, n) == \A e \in 0 .. d[n].depth : ValueAgrees(mean, f, d, n, e)

AgreeBelow(mean, f, d, n) == \A m \in 1 .. n - 1 : AgreesAt(mean, f, d, m)

LEMMA OperandAgrees ==
  ASSUME NEW d, NEW mean, NEW m, Pp!Spanned(built, token, grouped, input, d, m), NEW f, AgreesAt(mean, f, d, m)
  PROVE  Agrees(mean, f[<<d[m].lo, d[m].hi>>], m)
<1>1. PICK s : s = d[m]
  OBVIOUS
<1>2. s.depth \in Nat /\ s.lo \in Int /\ s.hi \in Int
  BY <1>1 DEF Pp!Spanned
<1>3. Pp!First(d, m, s.depth) = s.lo /\ Pp!Final(d, m, s.depth) = s.hi
  BY <1>1, <1>2 DEF Pp!First, Pp!Final
<1>4. ValueAgrees(mean, f, d, m, s.depth)
  BY <1>1, <1>2 DEF AgreesAt
<1> QED
  BY Zenon, <1>1, <1>3, <1>4 DEF ValueAgrees

LEMMA NoneSupported ==
  /\ \A kind \in {"NOT", "NEGATE"} : ~It!Ref!SupportedUnary(kind, UNSUPPORTED)
  /\ \A kind, a : /\ ~It!Ref!SupportedBinary(kind, UNSUPPORTED, a)
                  /\ ~It!Ref!SupportedBinary(kind, a, UNSUPPORTED)
<1>1. It!Ref!Kind(UNSUPPORTED) = "NONE"
  BY DEF It!Ref!Kind, UNSUPPORTED, It!Ref!Meant
<1>2. \A kind \in {"NOT", "NEGATE"} : ~It!Ref!SupportedUnary(kind, UNSUPPORTED)
  BY <1>1 DEF It!Ref!SupportedUnary
<1>3. \A a, kinds : "NONE" \notin kinds =>
        ~It!Ref!BothOf(UNSUPPORTED, a, kinds) /\ ~It!Ref!BothOf(a, UNSUPPORTED, kinds)
  BY <1>1 DEF It!Ref!BothOf
<1>4. /\ "NONE" \notin {"REAL", "INTEGER"} /\ "NONE" \notin {"REAL"} /\ "NONE" \notin {"INTEGER"}
      /\ "NONE" \notin {"OBJ"} /\ "NONE" \notin {"BOOL"} /\ "NONE" \notin {"BOOL", "CHAR", "REAL", "INTEGER"}
  OBVIOUS
<1>5. ASSUME NEW kind, NEW a PROVE ~It!Ref!SupportedBinary(kind, UNSUPPORTED, a)
  BY <1>3, <1>4 DEF It!Ref!SupportedBinary
<1>6. ASSUME NEW kind, NEW a PROVE ~It!Ref!SupportedBinary(kind, a, UNSUPPORTED)
  BY <1>3, <1>4 DEF It!Ref!SupportedBinary
<1> QED
  BY <1>2, <1>5, <1>6

(* What is known of a node of such a sentence.                             *)
LEMMA ParsedNode ==
  ASSUME NEW d, NEW mean, IsParsed(d, mean), NEW n \in 1 .. Len(built), NEW i, i = Pp!First(d, n, 0), NEW j, j = Pp!Final(d, n, 0)
  PROVE  /\ built \in Trees /\ n \in DOMAIN built /\ n \in Nat \ {0} /\ Len(input) \in Nat
         /\ i \in 1 .. Len(input) /\ j \in 1 .. Len(input) /\ i <= j
         /\ i = d[n].lo + d[n].depth /\ j = d[n].hi - d[n].depth
         /\ token[n] \in 1 .. Len(input)
         /\ Pp!ReadsWith(built, token, input, d, n, 0) /\ Pp!Made(built, token, input, n)
         /\ Pp!FormedUpTo(built, n) /\ Pp!Formed(built, n)
         /\ \A m \in 1 .. n : Pp!Spanned(built, token, grouped, input, d, m)
<1>1. /\ DOMAIN built = 1 .. Len(built) /\ Len(built) \in Nat
      /\ Pp!Finished(built, token, grouped, input, position) /\ Len(input) \in Nat
  BY NodesAre, Pp!Found DEF ParserInStep, IsParsed
<1>2. built \in Trees
  BY BuiltIsGiven DEF IsParsed
<1>3. n \in DOMAIN built /\ n \in Nat \ {0} /\ \A m \in 1 .. n : m \in 1 .. Len(built)
  BY <1>1
<1>4. /\ token[n] \in 1 .. Len(input) /\ Pp!FormedUpTo(built, n) /\ Pp!Formed(built, n)
  BY <1>1, <1>3 DEF Pp!Finished, Pp!FormedUpTo
<1>5. Pp!Made(built, token, input, n)
  BY DEF IsParsed, Pp!NodesMade
<1>6. \A m \in 1 .. n : Pp!Spanned(built, token, grouped, input, d, m)
  BY <1>3 DEF IsParsed, Pp!IsReading, Pp!AllSpanned
<1>7. Pp!Spanned(built, token, grouped, input, d, n)
  BY <1>3, <1>6
<1>8. PICK s : s = d[n] /\ s.depth \in Nat /\ s.lo \in Int /\ s.hi \in Int
  BY <1>7 DEF Pp!Spanned
<1>9. i = s.lo + s.depth /\ j = s.hi - s.depth
  BY <1>8 DEF Pp!First, Pp!Final
<1>10. Pp!ReadsWith(built, token, input, d, n, 0)
  <2>1. Pp!ReadsAs(built, token, input, d, n)
    BY DEF IsParsed, Pp!IsReading, Pp!AllRead
  <2>2. 0 \in 0 .. d[n].depth
    BY <1>8
  <2> QED
    BY <2>1, <2>2 DEF Pp!ReadsAs
<1>11. Pp!Whole(input, i, j)
  BY <1>10 DEF Pp!ReadsWith
<1>12. i \in 1 .. Len(input) /\ j \in 1 .. Len(input) /\ i <= j
  BY <1>1, <1>11 DEF Pp!Whole
<1> QED
  BY <1>1, <1>2, <1>3, <1>4, <1>5, <1>6, <1>8, <1>9, <1>10, <1>12

LEMMA LiteralAgrees ==
  ASSUME NEW d, NEW mean, IsParsed(d, mean), NEW f, MeansSpans(f, Len(input)), NEW n \in 1 .. Len(built),
         built[n].kind \in It!LiteralKinds
  PROVE  ValueAgrees(mean, f, d, n, 0)
<1>1. PICK i, j, k : i = Pp!First(d, n, 0) /\ j = Pp!Final(d, n, 0) /\ k = token[n]
  OBVIOUS
<1>2. /\ built \in Trees /\ n \in DOMAIN built /\ n \in Nat
      /\ i \in 1 .. Len(input) /\ j \in 1 .. Len(input) /\ k \in 1 .. Len(input) /\ i <= j
      /\ Pp!ReadsWith(built, token, input, d, n, 0) /\ Pp!Formed(built, n)
  BY <1>1, ParsedNode
<1>3. i = k /\ j = k /\ Splits(i, j) = {}
  BY <1>1, <1>2, SameSplits, SameNodes DEF Pp!ReadsWith
<1>4. f[<<i, j>>] = LiteralValue(k)
  <2>1. f[<<i, j>>] = SpanMeaning(f, <<i, j>>)
    BY <1>2 DEF MeansSpans
  <2>2. ~(i > j)
    BY <1>2
  <2> QED
    BY Zenon, <1>3, <2>1, <2>2, SpanMeaningIs
<1>5. SUFFICES ASSUME LiteralValue(k) # UNSUPPORTED
               PROVE  LiteralValue(k) = mean[n]
                      /\ \A l \in built[n].first .. n : NodeSupported(built, mean, l)
  BY Zenon, <1>1, <1>4 DEF ValueAgrees, Agrees
<1>6. LiteralValue(k) = It!Ref!LiteralMeaning(built[n])
  BY <1>1, <1>2, <1>5, LiteralMeans DEF IsParsed
<1>7. mean[n] = It!Ref!LiteralMeaning(built[n])
  BY <1>2 DEF IsParsed, Means
<1>8. \A l \in built[n].first .. n : l = n
  BY <1>2, SameNodes DEF Pp!Formed
<1>9. NodeSupported(built, mean, n)
  BY DEF NodeSupported
<1> QED
  BY <1>6, <1>7, <1>8, <1>9

LEMMA UnaryAgrees ==
  ASSUME NEW d, NEW mean, IsParsed(d, mean), NEW f, MeansSpans(f, Len(input)), NEW n \in 1 .. Len(built),
         built[n].kind \in It!UnaryKinds, AgreeBelow(mean, f, d, n)
  PROVE  ValueAgrees(mean, f, d, n, 0)
<1>1. PICK i, j : i = Pp!First(d, n, 0) /\ j = Pp!Final(d, n, 0)
  OBVIOUS
<1>2. /\ built \in Trees /\ n \in DOMAIN built /\ n \in Nat \ {0}
      /\ i \in 1 .. Len(input) /\ j \in 1 .. Len(input)
      /\ i = d[n].lo + d[n].depth /\ j = d[n].hi - d[n].depth
      /\ Pp!ReadsWith(built, token, input, d, n, 0) /\ Pp!Made(built, token, input, n)
      /\ Pp!FormedUpTo(built, n)
      /\ \A m \in 1 .. n : Pp!Spanned(built, token, grouped, input, d, m)
  BY <1>1, ParsedNode
<1>3. /\ i = token[n] /\ i < j /\ Splits(i, j) = {}
  BY <1>1, <1>2, SameSplits, SameNodes DEF Pp!ReadsWith
<1>4. d[n - 1].lo = i + 1 /\ d[n - 1].hi = j
  <2>1. Pp!Spanned(built, token, grouped, input, d, n)
    BY <1>2
  <2> QED
    BY <1>2, <1>3, <2>1, SameNodes DEF Pp!Spanned
<1>5. n - 1 \in 1 .. n - 1 /\ n - 1 \in 1 .. n /\ built[n].first = built[n - 1].first
  BY <1>2, Pp!OperandsBefore, SameNodes DEF Pp!FormedUpTo
<1>6. PICK kind : kind = built[n].kind
  OBVIOUS
<1>7. kind \in {"NOT", "NEGATE"} /\ kind = Ps!UnaryKind(input[i].kind) /\ input[i].kind # "OP_PAREN_OPEN"
  <2>1. input[i].kind \in Pp!Prefixes /\ kind = Pp!UnaryKind(input[i].kind)
    BY <1>2, <1>3, <1>6, SameNodes DEF Pp!Made
  <2> QED
    BY <2>1, SameRules DEF Pp!Prefixes, Ps!UnaryKind
<1>8. PICK a, v : a = f[<<i + 1, j>>] /\ v = f[<<i, j>>]
  OBVIOUS
<1>9. v = Checked(It!Ref!SupportedUnary(kind, a), It!Ref!UnaryMeaning(kind, a))
  <2>1. v = SpanMeaning(f, <<i, j>>)
    BY <1>2, <1>8 DEF MeansSpans
  <2>2. ~(i > j) /\ i # j
    BY <1>2, <1>3
  <2>3. v = PrefixedMeaning(f, i, j)
    BY Zenon, <1>3, <1>7, <2>1, <2>2, SpanMeaningIs
  <2> QED
    BY Zenon, <1>7, <1>8, <2>3 DEF PrefixedMeaning
<1>10. SUFFICES ASSUME v # UNSUPPORTED
                PROVE  v = mean[n] /\ \A l \in built[n].first .. n : NodeSupported(built, mean, l)
  BY Zenon, <1>1, <1>8 DEF ValueAgrees, Agrees
<1>11. It!Ref!SupportedUnary(kind, a) /\ v = It!Ref!UnaryMeaning(kind, a)
  BY <1>9, <1>10 DEF Checked
<1>12. a # UNSUPPORTED
  BY <1>7, <1>11, NoneSupported
<1>13. Agrees(mean, a, n - 1)
  <2>1. AgreesAt(mean, f, d, n - 1) /\ Pp!Spanned(built, token, grouped, input, d, n - 1)
    BY <1>2, <1>5 DEF AgreeBelow
  <2>2. Agrees(mean, f[<<d[n - 1].lo, d[n - 1].hi>>], n - 1)
    BY <2>1, OperandAgrees
  <2> QED
    BY <1>4, <1>8, <2>2
<1>14. a = mean[n - 1] /\ \A l \in built[n - 1].first .. n - 1 : NodeSupported(built, mean, l)
  BY <1>12, <1>13 DEF Agrees
<1>15. v = mean[n]
  <2>1. mean[n] = It!Ref!UnaryMeaning(kind, mean[n - 1])
    BY <1>2, <1>6 DEF IsParsed, Means
  <2> QED
    BY <1>11, <1>14, <2>1
<1>16. NodeSupported(built, mean, n)
  BY <1>6, <1>11, <1>14 DEF NodeSupported
<1>17. \A l \in built[n].first .. n : l = n \/ l \in built[n - 1].first .. n - 1
  BY <1>2, <1>5
<1> QED
  BY <1>14, <1>15, <1>16, <1>17

LEMMA BinaryAgrees ==
  ASSUME NEW d, NEW mean, IsParsed(d, mean), NEW f, MeansSpans(f, Len(input)), NEW n \in 1 .. Len(built),
         built[n].kind \in It!BinaryKinds, AgreeBelow(mean, f, d, n)
  PROVE  ValueAgrees(mean, f, d, n, 0)
<1>1. PICK i, j, k, left : /\ i = Pp!First(d, n, 0) /\ j = Pp!Final(d, n, 0)
                           /\ k = token[n] /\ left = built[n - 1].first - 1
  OBVIOUS
<1>2. /\ built \in Trees /\ n \in DOMAIN built /\ n \in Nat \ {0}
      /\ i \in 1 .. Len(input) /\ j \in 1 .. Len(input) /\ i <= j
      /\ i = d[n].lo + d[n].depth /\ j = d[n].hi - d[n].depth
      /\ Pp!ReadsWith(built, token, input, d, n, 0) /\ Pp!Made(built, token, input, n)
      /\ Pp!FormedUpTo(built, n)
      /\ \A m \in 1 .. n : Pp!Spanned(built, token, grouped, input, d, m)
  BY <1>1, ParsedNode
<1>3. Splits(i, j) # {} /\ Root(Splits(i, j)) = k
  <2>1. Pp!Splits(input, Splits(i, j), k)
    BY <1>1, <1>2, SameSplits, SameNodes DEF Pp!ReadsWith
  <2>2. Splits(i, j) \subseteq i + 1 .. j - 1
    BY DEF Splits
  <2>3. i \in Int /\ j \in Int
    BY <1>2
  <2> QED
    BY <2>1, <2>2, <2>3, RootIs
<1>4. /\ d[left].lo = i /\ d[left].hi = k - 1
      /\ d[n - 1].lo = k + 1 /\ d[n - 1].hi = j
  <2>1. Pp!Spanned(built, token, grouped, input, d, n)
    BY <1>2
  <2> QED
    BY <1>1, <1>2, <2>1, SameNodes DEF Pp!Spanned
<1>5. /\ n - 1 \in 1 .. n - 1 /\ left \in 1 .. n - 2 /\ built[n].first = built[left].first
  BY <1>1, <1>2, Pp!OperandsBefore, SameNodes DEF Pp!FormedUpTo
<1>6. n - 1 \in 1 .. n /\ left \in 1 .. n - 1 /\ left \in 1 .. n /\ built[n - 1].first = left + 1
  <2>1. Pp!Formed(built, n - 1)
    BY <1>2, <1>5 DEF Pp!FormedUpTo
  <2>2. built[n - 1].first \in Int
    BY <2>1 DEF Pp!Formed
  <2> QED
    BY <1>1, <1>2, <1>5, <2>2
<1>7. PICK kind : kind = built[n].kind
  OBVIOUS
<1>8. kind = Ps!BinaryKind(input[k].kind)
  BY <1>1, <1>2, <1>7, SameNodes, SameRules DEF Pp!Made
<1>9. PICK a, b, v : a = f[<<i, k - 1>>] /\ b = f[<<k + 1, j>>] /\ v = f[<<i, j>>]
  OBVIOUS
<1>10. v = Checked(It!Ref!SupportedBinary(kind, a, b), It!Ref!BinaryMeaning(kind, a, b))
  <2>1. v = SpanMeaning(f, <<i, j>>)
    BY <1>2, <1>9 DEF MeansSpans
  <2>2. ~(i > j)
    BY <1>2
  <2>3. v = JoinedMeaning(f, i, k, j)
    BY Zenon, <1>3, <2>1, <2>2, SpanMeaningIs
  <2> QED
    BY Zenon, <1>8, <1>9, <2>3 DEF JoinedMeaning
<1>11. SUFFICES ASSUME v # UNSUPPORTED
                PROVE  v = mean[n] /\ \A l \in built[n].first .. n : NodeSupported(built, mean, l)
  BY Zenon, <1>1, <1>9 DEF ValueAgrees, Agrees
<1>12. It!Ref!SupportedBinary(kind, a, b) /\ v = It!Ref!BinaryMeaning(kind, a, b)
  BY <1>10, <1>11 DEF Checked
<1>13. a # UNSUPPORTED /\ b # UNSUPPORTED
  BY <1>12, NoneSupported
<1>14. Agrees(mean, a, left) /\ Agrees(mean, b, n - 1)
  <2>1. AgreesAt(mean, f, d, left) /\ Pp!Spanned(built, token, grouped, input, d, left)
    BY <1>2, <1>6 DEF AgreeBelow
  <2>2. AgreesAt(mean, f, d, n - 1) /\ Pp!Spanned(built, token, grouped, input, d, n - 1)
    BY <1>2, <1>5, <1>6 DEF AgreeBelow
  <2>3. Agrees(mean, f[<<d[left].lo, d[left].hi>>], left)
    BY <2>1, OperandAgrees
  <2>4. Agrees(mean, f[<<d[n - 1].lo, d[n - 1].hi>>], n - 1)
    BY <2>2, OperandAgrees
  <2> QED
    BY <1>4, <1>9, <2>3, <2>4
<1>15. /\ a = mean[left] /\ \A l \in built[left].first .. left : NodeSupported(built, mean, l)
       /\ b = mean[n - 1] /\ \A l \in left + 1 .. n - 1 : NodeSupported(built, mean, l)
  BY <1>6, <1>13, <1>14 DEF Agrees
<1>16. v = mean[n]
  <2>1. mean[n] =
          It!Ref!BinaryMeaning(kind, mean[left], mean[n - 1])
    BY <1>1, <1>2, <1>7 DEF IsParsed, Means
  <2> QED
    BY <1>12, <1>15, <2>1
<1>17. NodeSupported(built, mean, n)
  BY <1>1, <1>7, <1>12, <1>15 DEF NodeSupported
<1>18. \A l \in built[n].first .. n : l = n \/ l \in built[left].first .. left \/ l \in left + 1 .. n - 1
  BY <1>2, <1>5
<1> QED
  BY <1>15, <1>16, <1>17, <1>18

(* One more pair of parentheses changes nothing.                           *)
LEMMA OuterAgrees ==
  ASSUME NEW d, NEW mean, IsParsed(d, mean), NEW f, MeansSpans(f, Len(input)), NEW n \in 1 .. Len(built),
         NEW e \in Nat, e < d[n].depth, ValueAgrees(mean, f, d, n, e)
  PROVE  ValueAgrees(mean, f, d, n, e + 1)
<1>1. PICK i, j : i = Pp!First(d, n, e + 1) /\ j = Pp!Final(d, n, e + 1)
  OBVIOUS
<1>2. PICK s : s = d[n] /\ s.depth \in Nat /\ s.lo \in Int /\ s.hi \in Int
  <2>1. Pp!Spanned(built, token, grouped, input, d, n)
    BY DEF IsParsed, Pp!IsReading, Pp!AllSpanned
  <2> QED
    BY <2>1 DEF Pp!Spanned
<1>3. e + 1 \in 0 .. s.depth /\ e + 1 > 0
  BY <1>2
<1>4. Pp!ReadsWith(built, token, input, d, n, e + 1)
  <2>1. Pp!ReadsAs(built, token, input, d, n)
    BY DEF IsParsed, Pp!IsReading, Pp!AllRead
  <2> QED
    BY <1>2, <1>3, <2>1 DEF Pp!ReadsAs
<1>5. Splits(i, j) = {} /\ i < j /\ input[i].kind = "OP_PAREN_OPEN" /\ Pp!Whole(input, i, j)
  BY <1>1, <1>3, <1>4, SameSplits DEF Pp!ReadsWith
<1>6. Len(input) \in Nat
  BY Pp!Found DEF IsParsed, ParserInStep
<1>7. i \in 1 .. Len(input) /\ j \in 1 .. Len(input) /\ ~(i > j) /\ i # j
  BY <1>5, <1>6 DEF Pp!Whole
<1>8. f[<<i, j>>] = f[<<i + 1, j - 1>>]
  <2>1. f[<<i, j>>] = SpanMeaning(f, <<i, j>>)
    BY <1>7 DEF MeansSpans
  <2> QED
    BY Zenon, <1>5, <1>7, <2>1, SpanMeaningIs
<1>9. Pp!First(d, n, e) = i + 1 /\ Pp!Final(d, n, e) = j - 1
  <2>1. PICK lo, hi, depth : lo = s.lo /\ hi = s.hi /\ depth = s.depth
    OBVIOUS
  <2>2. /\ Pp!First(d, n, e) = lo + depth - e /\ Pp!Final(d, n, e) = hi - depth + e
        /\ i = lo + depth - (e + 1) /\ j = hi - depth + (e + 1)
    BY <1>1, <1>2, <2>1 DEF Pp!First, Pp!Final
  <2>3. lo \in Int /\ hi \in Int /\ depth \in Int
    BY <1>2, <2>1
  <2> QED
    BY <2>2, <2>3
<1> QED
  BY Zenon, <1>1, <1>8, <1>9 DEF ValueAgrees

LEMMA NodeAgrees ==
  ASSUME NEW d, NEW mean, IsParsed(d, mean), NEW f, MeansSpans(f, Len(input)), NEW n \in 1 .. Len(built), ValueAgrees(mean, f, d, n, 0)
  PROVE  AgreesAt(mean, f, d, n)
<1> DEFINE S == {e \in 0 .. d[n].depth : ~ValueAgrees(mean, f, d, n, e)}
<1> SUFFICES ASSUME S # {} PROVE FALSE
  BY DEF AgreesAt
<1>1. PICK e \in S : \A k \in S : e <= k
  <2>1. S \subseteq Nat
    OBVIOUS
  <2> HIDE DEF S
  <2> QED
    BY <2>1, Pp!Least
<1>2. d[n].depth \in Nat
  <2>1. Pp!Spanned(built, token, grouped, input, d, n)
    BY DEF IsParsed, Pp!IsReading, Pp!AllSpanned
  <2> QED
    BY <2>1 DEF Pp!Spanned
<1>3. e \in Nat /\ e <= d[n].depth /\ e # 0
  BY <1>2
<1>4. PICK c : c = e - 1 /\ c \in Nat /\ c < d[n].depth /\ c + 1 = e
  BY <1>2, <1>3
<1>5. ValueAgrees(mean, f, d, n, c)
  BY <1>1, <1>2, <1>3, <1>4
<1>6. ValueAgrees(mean, f, d, n, e)
  BY <1>4, <1>5, OuterAgrees
<1> QED
  BY <1>6

LEMMA NodesAgree ==
  ASSUME NEW d, NEW mean, IsParsed(d, mean), NEW f, MeansSpans(f, Len(input))
  PROVE  \A n \in 1 .. Len(built) : AgreesAt(mean, f, d, n)
<1> DEFINE S == {n \in 1 .. Len(built) : ~AgreesAt(mean, f, d, n)}
<1> SUFFICES ASSUME S # {} PROVE FALSE
  OBVIOUS
<1>1. PICK n \in S : \A k \in S : n <= k
  <2>1. S \subseteq Nat
    OBVIOUS
  <2> HIDE DEF S
  <2> QED
    BY <2>1, Pp!Least
<1>2. n \in 1 .. Len(built) /\ ~AgreesAt(mean, f, d, n)
  OBVIOUS
<1>3. Len(built) \in Nat
  BY Pp!Found DEF IsParsed, ParserInStep
<1>4. AgreeBelow(mean, f, d, n)
  <2> SUFFICES ASSUME NEW m \in 1 .. n - 1 PROVE AgreesAt(mean, f, d, m)
    BY DEF AgreeBelow
  <2>1. m \in 1 .. Len(built) /\ ~(n <= m)
    BY <1>2, <1>3
  <2> QED
    BY <1>1, <2>1
<1>5. built[n].kind \in It!LiteralKinds \cup It!UnaryKinds \cup It!BinaryKinds
  <2>1. Pp!Formed(built, n)
    BY <1>2, ParsedNode
  <2> QED
    BY <2>1, SameNodes DEF Pp!Formed, It!NodeKinds
<1>6. ValueAgrees(mean, f, d, n, 0)
  BY <1>2, <1>4, <1>5, LiteralAgrees, UnaryAgrees, BinaryAgrees
<1>7. AgreesAt(mean, f, d, n)
  BY <1>2, <1>6, NodeAgrees
<1> QED
  BY <1>2, <1>7

(* A sentence that has a value is parsed to a tree of that value, for all  *)
(* of which the machine was written.                                       *)
LEMMA MeaningOfText ==
  ASSUME NEW d, NEW mean, IsParsed(d, mean), Meaning(Len(input)) # UNSUPPORTED
  PROVE  Meaning(Len(input)) = mean[Len(built)] /\ \A k \in DOMAIN built : NodeSupported(built, mean, k)
<1>1. PICK n, last : n = Len(built) /\ last = Len(input)
  OBVIOUS
<1>2. n \in Nat \ {0} /\ last \in Nat /\ built[n].first = 1 /\ DOMAIN built = 1 .. n
  BY <1>1, NodesAre, Pp!Found DEF IsParsed, ParserInStep, Pp!ParserIInv, Pp!Parses
<1>3. n \in 1 .. n
  BY <1>2
<1>4. d[n].lo = 1 /\ d[n].hi = last
  BY <1>1 DEF IsParsed, Pp!IsReading
<1>5. Pp!Spanned(built, token, grouped, input, d, n)
  BY <1>1, <1>3 DEF IsParsed, Pp!IsReading, Pp!AllSpanned
<1>6. PICK f : MeansSpans(f, last) /\ Meaning(last) = f[<<1, last>>]
  BY <1>2, MeaningIs
<1>7. AgreesAt(mean, f, d, n)
  BY <1>1, <1>3, <1>6, NodesAgree
<1>8. Agrees(mean, f[<<1, last>>], n)
  BY <1>4, <1>5, <1>7, OperandAgrees
<1>9. Meaning(last) = mean[n] /\ \A k \in 1 .. n : NodeSupported(built, mean, k)
  BY Zenon, <1>1, <1>2, <1>6, <1>8 DEF Agrees
<1> QED
  BY <1>1, <1>2, <1>9

LEMMA SupportedSentence == Ps!Supported => Pp!Sentence(input)
<1>1. \A i : Ps!Balance(i) = Pp!BalanceOf(input, i)
  BY SameSplits
<1>2. Ps!Literals \cup {"KW_NOT", "OP_SUBTRACTION"} \cup {"OP_PAREN_OPEN"}
        = Ps!Literals \cup {"KW_NOT", "OP_SUBTRACTION", "OP_PAREN_OPEN"}
  OBVIOUS
<1> QED
  BY <1>1, <1>2, SameRules DEF Ps!Supported, Ps!IsSentence, Pp!Sentence, Pp!Ends

-----------------------------------------------------------------------------
(* What is proved of compiler and machine, for these trees.                *)
Ip == INSTANCE Interpreter_proofs WITH Programs <- Trees

(* What the machine needs of its constants, for these trees.               *)
LEMMA SameBasics ==
  /\ Ip!Kinds = It!Kinds /\ Ip!NodeKinds = It!NodeKinds /\ Ip!MinInteger = It!MinInteger
  /\ \A b : Ip!Bool(b) = It!Bool(b)
  /\ \A p : Ip!IsTree(p) <=> It!IsTree(p)
<1>1. /\ Ip!LiteralKinds = It!LiteralKinds /\ Ip!UnaryKinds = It!UnaryKinds /\ Ip!BinaryKinds = It!BinaryKinds
      /\ Ip!Kinds = It!Kinds /\ Ip!MinInteger = It!MinInteger /\ \A b : Ip!Bool(b) = It!Bool(b)
  BY DEF Ip!LiteralKinds, It!LiteralKinds, Ip!UnaryKinds, It!UnaryKinds, Ip!BinaryKinds, It!BinaryKinds,
         Ip!Kinds, It!Kinds, Ip!MinInteger, It!MinInteger, Ip!Bool, It!Bool, Ip!Value, It!Value
<1>2. Ip!NodeKinds = It!NodeKinds
  BY <1>1 DEF Ip!NodeKinds, It!NodeKinds
<1>3. ASSUME NEW p PROVE Ip!IsTree(p) <=> It!IsTree(p)
  BY <1>1, <1>2 DEF Ip!IsTree, It!IsTree
<1> QED
  BY <1>1, <1>2, <1>3

LEMMA TreesArePrograms ==
  ASSUME NEW p \in Trees
  PROVE  /\ p \in Seq([kind : Ip!NodeKinds, line : Nat, value : [kind : Ip!Kinds, num : Int, den : Int],
                       chars : {p[n].chars : n \in DOMAIN p}, first : Nat])
         /\ Ip!IsTree(p)
         /\ \A n \in DOMAIN p : p[n].kind \in {"CHAR", "REAL", "INTEGER"} => p[n].value.kind = p[n].kind
<1>1. p \in Seq(TreeNodes) /\ It!IsTree(p)
      /\ \A n \in DOMAIN p : p[n].kind \in {"CHAR", "REAL", "INTEGER"} => p[n].value.kind = p[n].kind
  BY DEF Trees
<1>2. PICK T : T = [kind : Ip!NodeKinds, line : Nat, value : [kind : Ip!Kinds, num : Int, den : Int],
                    chars : {p[n].chars : n \in DOMAIN p}, first : Nat]
  OBVIOUS
<1>3. Len(p) \in Nat /\ DOMAIN p = 1 .. Len(p) /\ \A n \in 1 .. Len(p) : p[n] \in TreeNodes
  BY <1>1
<1>4. ASSUME NEW n \in 1 .. Len(p) PROVE p[n] \in T
  <2>1. PICK y : y = p[n] /\ y \in TreeNodes /\ y.chars \in {p[m].chars : m \in DOMAIN p}
    BY <1>3
  <2>2. y \in [kind : It!NodeKinds, line : Nat, value : [kind : It!Kinds, num : Int, den : Int],
               chars : Excerpts, first : Nat]
    BY <2>1 DEF TreeNodes
  <2>3. y = [kind |-> y.kind, line |-> y.line, value |-> y.value, chars |-> y.chars, first |-> y.first]
        /\ y.kind \in It!NodeKinds /\ y.line \in Nat /\ y.first \in Nat
        /\ y.value \in [kind : It!Kinds, num : Int, den : Int]
    BY <2>2
  <2> QED
    BY <1>2, <2>1, <2>3, SameBasics
<1>5. p = [n \in 1 .. Len(p) |-> p[n]]
  BY <1>1, <1>3
<1>6. p \in Seq(T)
  BY <1>3, <1>4, <1>5
<1> QED
  BY <1>1, <1>2, <1>6, SameBasics

LEMMA TreesAreGiven ==
  /\ \A p \in Trees : \A n \in DOMAIN p :
       p[n].kind = "INTEGER" => p[n].value.num \in Ip!MinInteger .. -Ip!MinInteger - 1
  /\ \A p \in Trees : \A n \in DOMAIN p :
       /\ p[n].kind = "BOOL" => p[n].value \in {Ip!Bool(TRUE), Ip!Bool(FALSE)}
       /\ p[n].kind \in {"CHAR", "INTEGER"} => p[n].value.den = 1
       /\ p[n].kind = "REAL" => p[n].value.den > 0
  /\ \A p \in Trees :
       /\ p \in Seq([kind : Ip!NodeKinds, line : Nat, value : [kind : Ip!Kinds, num : Int, den : Int],
                     chars : {p[n].chars : n \in DOMAIN p}, first : Nat])
       /\ Ip!IsTree(p)
       /\ \A n \in DOMAIN p : p[n].kind \in {"CHAR", "REAL", "INTEGER"} => p[n].value.kind = p[n].kind
<1>1. \A p \in Trees : \A n \in DOMAIN p :
        p[n].kind = "INTEGER" => p[n].value.num \in Ip!MinInteger .. -Ip!MinInteger - 1
  BY SameBasics DEF Trees
<1>2. \A p \in Trees : \A n \in DOMAIN p :
        /\ p[n].kind = "BOOL" => p[n].value \in {Ip!Bool(TRUE), Ip!Bool(FALSE)}
        /\ p[n].kind \in {"CHAR", "INTEGER"} => p[n].value.den = 1
        /\ p[n].kind = "REAL" => p[n].value.den > 0
  BY SameBasics DEF Trees
<1> QED
  BY Zenon, <1>1, <1>2, TreesArePrograms

LEMMA MachineBegins == ASSUME Ip!Init PROVE Ip!RunIInv
BY Zenon, MachineIsGiven, TreesAreGiven, Ip!RunBegins

LEMMA MachineGoesOn ==
  ASSUME Ip!Hashed, Ip!LowByteFirst, Ip!RunIInv, [Ip!Next]_(Ip!vars)
  PROVE  Ip!RunIInv'
BY Zenon, MachineIsGiven, TreesAreGiven, Ip!RunGoesOn

LEMMA MachinePrints ==
  ASSUME Ip!MeaningIInv, Ip!ConstantCount(chunk) <= 256
  PROVE  Ip!PrintsItsMeaning
BY Zenon, MachineIsGiven, TreesAreGiven, Ip!RunPrints

-----------------------------------------------------------------------------
(* The machine of Main is that of Interpreter_proofs.                      *)
LEMMA SameCodes ==
  /\ Ip!OPCODE_CONSTANT = It!OPCODE_CONSTANT /\ Ip!OPCODE_CONSTANT_LONG = It!OPCODE_CONSTANT_LONG
  /\ Ip!OPCODE_TRUE = It!OPCODE_TRUE /\ Ip!OPCODE_FALSE = It!OPCODE_FALSE
  /\ Ip!OPCODE_ADD = It!OPCODE_ADD /\ Ip!OPCODE_SUB = It!OPCODE_SUB /\ Ip!OPCODE_MUL = It!OPCODE_MUL
  /\ Ip!OPCODE_DIV = It!OPCODE_DIV /\ Ip!OPCODE_CONCAT = It!OPCODE_CONCAT
  /\ Ip!OPCODE_NEGATE = It!OPCODE_NEGATE /\ Ip!OPCODE_NOT = It!OPCODE_NOT
  /\ Ip!OPCODE_EQUAL = It!OPCODE_EQUAL /\ Ip!OPCODE_NOT_EQUAL = It!OPCODE_NOT_EQUAL
  /\ Ip!OPCODE_LESS = It!OPCODE_LESS /\ Ip!OPCODE_LESS_EQUAL = It!OPCODE_LESS_EQUAL
  /\ Ip!OPCODE_GREATER = It!OPCODE_GREATER /\ Ip!OPCODE_GREATER_EQUAL = It!OPCODE_GREATER_EQUAL
  /\ Ip!OPCODE_RETURN = It!OPCODE_RETURN /\ Ip!Opcodes = It!Opcodes
BY DEF Ip!OPCODE_CONSTANT, It!OPCODE_CONSTANT, Ip!OPCODE_CONSTANT_LONG, It!OPCODE_CONSTANT_LONG,
       Ip!OPCODE_TRUE, It!OPCODE_TRUE, Ip!OPCODE_FALSE, It!OPCODE_FALSE, Ip!OPCODE_ADD, It!OPCODE_ADD,
       Ip!OPCODE_SUB, It!OPCODE_SUB, Ip!OPCODE_MUL, It!OPCODE_MUL, Ip!OPCODE_DIV, It!OPCODE_DIV,
       Ip!OPCODE_CONCAT, It!OPCODE_CONCAT, Ip!OPCODE_NEGATE, It!OPCODE_NEGATE, Ip!OPCODE_NOT, It!OPCODE_NOT,
       Ip!OPCODE_EQUAL, It!OPCODE_EQUAL, Ip!OPCODE_NOT_EQUAL, It!OPCODE_NOT_EQUAL,
       Ip!OPCODE_LESS, It!OPCODE_LESS, Ip!OPCODE_LESS_EQUAL, It!OPCODE_LESS_EQUAL,
       Ip!OPCODE_GREATER, It!OPCODE_GREATER, Ip!OPCODE_GREATER_EQUAL, It!OPCODE_GREATER_EQUAL,
       Ip!OPCODE_RETURN, It!OPCODE_RETURN, Ip!Opcodes, It!Opcodes

LEMMA SameValues ==
  /\ \A kind, n : Ip!Value(kind, n) = It!Value(kind, n)
  /\ \A n, d : Ip!Real(n, d) = It!Real(n, d)
  /\ \A kind : Ip!Junk(kind) = It!Junk(kind)
  /\ \A b : Ip!Bool(b) = It!Bool(b)
  /\ \A v : (Ip!IsJunk(v) <=> It!IsJunk(v)) /\ (Ip!IsTrue(v) <=> It!IsTrue(v))
  /\ \A v, kind : Ip!Holds(v, kind) <=> It!Holds(v, kind)
BY DEF Ip!Value, It!Value, Ip!Real, It!Real, Ip!Junk, It!Junk, Ip!Bool, It!Bool, Ip!IsJunk, It!IsJunk,
       Ip!IsTrue, It!IsTrue, Ip!Holds, It!Holds

LEMMA SameWriting ==
  /\ \A c, byte, l : Ip!ChunkWrite(c, byte, l) = It!ChunkWrite(c, byte, l)
  /\ \A c, v, l : Ip!WriteValue(c, v, l) = It!WriteValue(c, v, l)
  /\ \A c : Ip!ConstantCount(c) = It!ConstantCount(c)
  /\ \A c, o : Ip!CodeAt(c, o) = It!CodeAt(c, o)
  /\ Ip!chunk_init = It!chunk_init
<1>1. ASSUME NEW c, NEW byte, NEW l PROVE Ip!ChunkWrite(c, byte, l) = It!ChunkWrite(c, byte, l)
  BY DEF It!ChunkWrite, Ip!ChunkWrite, It!Pushed, Ip!Pushed, It!Grown, Ip!Grown, It!ToByte, Ip!ToByte,
         It!LineWrite, Ip!LineWrite, It!ContinuesRun, Ip!ContinuesRun, It!Run, Ip!Run,
         It!WordCount, Ip!WordCount
<1>2. ASSUME NEW c, NEW v PROVE Ip!AddConstant(c, v) = It!AddConstant(c, v)
  BY DEF It!AddConstant, Ip!AddConstant, It!Pushed, Ip!Pushed, It!Grown, Ip!Grown
<1>3. /\ \A c : (Ip!TakesShortForm(c) <=> It!TakesShortForm(c)) /\ Ip!ConstantCount(c) = It!ConstantCount(c)
      /\ \A n, unit : Ip!MaskByte(n, unit) = It!MaskByte(n, unit)
      /\ \A c, o : Ip!CodeAt(c, o) = It!CodeAt(c, o)
  BY DEF It!TakesShortForm, Ip!TakesShortForm, It!ConstantCount, Ip!ConstantCount, It!MaskByte, Ip!MaskByte,
         It!CodeAt, Ip!CodeAt
<1>4. ASSUME NEW c, NEW v, NEW l PROVE Ip!WriteValue(c, v, l) = It!WriteValue(c, v, l)
  BY <1>1, <1>2, <1>3, SameCodes DEF It!WriteValue, Ip!WriteValue, It!WriteConstant, Ip!WriteConstant
<1>5. Ip!chunk_init = It!chunk_init
  BY DEF It!chunk_init, Ip!chunk_init, It!EmptyArray, Ip!EmptyArray
<1> QED
  BY <1>1, <1>3, <1>4, <1>5

LEMMA SameTables ==
  /\ \A table, key, value, hashes : Ip!TableInsert(table, key, value, hashes) = It!TableInsert(table, key, value, hashes)
  /\ \A table, chars, hash, charsOf, hashes :
       Ip!FindString(table, chars, hash, charsOf, hashes) = It!FindString(table, chars, hash, charsOf, hashes)
  /\ Ip!NULL = It!NULL /\ Ip!TABLE_NIL = It!TABLE_NIL /\ Ip!table_init = It!table_init
<1>1. Ip!NULL = It!NULL /\ Ip!SPIN = It!SPIN
  BY DEF Ip!NULL, It!NULL, Ip!SPIN, It!SPIN
<1>2. Ip!TABLE_NIL = It!TABLE_NIL /\ Ip!Tombstone = It!Tombstone
  BY SameValues DEF Ip!TABLE_NIL, It!TABLE_NIL, Ip!Tombstone, It!Tombstone
<1>3. Ip!table_init = It!table_init
  BY <1>1, <1>2 DEF Ip!table_init, It!table_init, Ip!EmptyEntries, It!EmptyEntries
<1>4. \A S : Ip!Min(S) = It!Min(S) /\ Ip!Max(S) = It!Max(S)
  BY DEF Ip!Min, It!Min, Ip!Max, It!Max
<1>5. \A entries, capacity, key, hash : Ip!FindEntry(entries, capacity, key, hash) = It!FindEntry(entries, capacity, key, hash)
  <2> TAKE entries, capacity, key, hash
  <2> DEFINE stops == {j \in 0 .. capacity - 1 :
                         \/ entries[(hash + j) % capacity].value = It!TABLE_NIL
                         \/ /\ entries[(hash + j) % capacity].value.kind # "BOOL"
                            /\ entries[(hash + j) % capacity].key = key}
             deleted(m) == {j \in 0 .. m - 1 : entries[(hash + j) % capacity].value = It!Tombstone}
             found(m, n) == IF stops = {} THEN It!SPIN
                            ELSE IF entries[(hash + m) % capacity].value = It!TABLE_NIL /\ deleted(m) # {}
                            THEN (hash + n) % capacity ELSE (hash + m) % capacity
  <2>1. It!FindEntry(entries, capacity, key, hash) = found(It!Min(stops), It!Min(deleted(It!Min(stops))))
    BY Zenon DEF It!FindEntry
  <2>2. Ip!FindEntry(entries, capacity, key, hash) = found(Ip!Min(stops), Ip!Min(deleted(Ip!Min(stops))))
    BY Zenon DEF Ip!FindEntry, Ip!SPIN, It!SPIN, Ip!TABLE_NIL, It!TABLE_NIL,
                 Ip!Tombstone, It!Tombstone, Ip!Bool, It!Bool, Ip!Value, It!Value
  <2> HIDE DEF stops, deleted, found
  <2> QED
    BY <1>4, <2>1, <2>2
<1>6. \A o, table : Ip!Outcome(o, table) = It!Outcome(o, table)
  BY DEF Ip!Outcome, It!Outcome
<1>7. \A table, capacity, hashes : Ip!AdjustCapacity(table, capacity, hashes) = It!AdjustCapacity(table, capacity, hashes)
  BY Zenon DEF Ip!AdjustCapacity, It!AdjustCapacity, Ip!Max, It!Max, Ip!NULL, It!NULL, Ip!TABLE_NIL, It!TABLE_NIL,
               Ip!Bool, It!Bool, Ip!Value, It!Value, Ip!Outcome, It!Outcome
<1>8. \A table : Ip!NeedsToGrow(table) <=> It!NeedsToGrow(table)
  BY DEF Ip!NeedsToGrow, It!NeedsToGrow
<1>9. \A table, slot, key, value : Ip!Stored(table, slot, key, value) = It!Stored(table, slot, key, value)
  BY DEF Ip!Stored, It!Stored
<1>10. \A table, key, value, hash : Ip!Filled(table, key, value, hash) = It!Filled(table, key, value, hash)
  BY <1>1, <1>5, <1>6, <1>9 DEF Ip!Filled, It!Filled
<1>11. \A table, key, value, hashes : Ip!TableInsert(table, key, value, hashes) = It!TableInsert(table, key, value, hashes)
  BY <1>6, <1>7, <1>8, <1>10 DEF Ip!TableInsert, It!TableInsert
<1>12. \A table, chars, hash, charsOf, hashes :
         Ip!FindString(table, chars, hash, charsOf, hashes) = It!FindString(table, chars, hash, charsOf, hashes)
  <2> TAKE table, chars, hash, charsOf, hashes
  <2> DEFINE key(j) == table.entries[(hash + j) % table.capacity].key
             crash  == {j \in 0 .. table.capacity - 1 : key(j) = It!NULL}
             match  == {j \in (0 .. table.capacity - 1) \ crash :
                          /\ Len(charsOf[key(j)]) = Len(chars)
                          /\ hashes[key(j)] = hash
                          /\ charsOf[key(j)] # chars}
             found(m) == IF table.count = 0 \/ crash \cup match = {}
                         THEN [outcome |-> IF table.count = 0 THEN "ok" ELSE "spin", key |-> It!NULL]
                         ELSE IF m \in crash THEN [outcome |-> "crash", key |-> It!NULL]
                         ELSE [outcome |-> "ok", key |-> key(m)]
  <2>1. It!FindString(table, chars, hash, charsOf, hashes) = found(It!Min(crash \cup match))
    BY Zenon DEF It!FindString
  <2>2. Ip!FindString(table, chars, hash, charsOf, hashes) = found(Ip!Min(crash \cup match))
    BY Zenon DEF Ip!FindString, Ip!NULL, It!NULL
  <2> HIDE DEF key, crash, match, found
  <2> QED
    BY <1>4, <2>1, <2>2
<1> QED
  BY <1>1, <1>2, <1>3, <1>11, <1>12

LEMMA SameStrings ==
  /\ \A s, chars : /\ Ip!obj_string_ref(s, chars) = It!obj_string_ref(s, chars)
                   /\ Ip!obj_string_copy(s, chars) = It!obj_string_copy(s, chars)
  /\ Ip!EmptyStore = It!EmptyStore
<1>1. \A heap : Ip!HashOf(heap) = It!HashOf(heap)
  BY DEF Ip!HashOf, It!HashOf
<1>2. \A s, chars : Ip!Interned(s, chars) = It!Interned(s, chars)
  BY <1>1, SameTables DEF Ip!Interned, It!Interned
<1>3. \A objects, id, owned : Ip!Linked(objects, id, owned) = It!Linked(objects, id, owned)
  BY DEF Ip!Linked, It!Linked
<1>4. \A s, chars, owned : Ip!NewString(s, chars, owned) = It!NewString(s, chars, owned)
  BY <1>1, <1>3, SameTables DEF Ip!NewString, It!NewString
<1>5. \A s, chars, owned : Ip!ObjString(s, chars, owned) = It!ObjString(s, chars, owned)
  BY <1>2, <1>4, SameTables DEF Ip!ObjString, It!ObjString
<1>6. Ip!EmptyStore = It!EmptyStore
  BY SameTables DEF Ip!EmptyStore, It!EmptyStore
<1> QED
  BY <1>5, <1>6 DEF Ip!obj_string_ref, It!obj_string_ref, Ip!obj_string_copy, It!obj_string_copy

-----------------------------------------------------------------------------
LEMMA SameWalk ==
  /\ Ip!LiteralKinds = It!LiteralKinds /\ Ip!UnaryKinds = It!UnaryKinds /\ Ip!BinaryKinds = It!BinaryKinds
  /\ Ip!SilentKinds = It!SilentKinds /\ Ip!ROOT = It!ROOT /\ Ip!RETURN_LINE = It!RETURN_LINE
  /\ \A kind : Ip!OperatorOpcode(kind) = It!OperatorOpcode(kind)
  /\ \A n : Ip!Visit(n) = It!Visit(n) /\ Ip!Emit(n) = It!Emit(n) /\ (Ip!Visiting(n) <=> It!Visiting(n))
  /\ \A n : (Ip!Emitted(n) <=> It!Emitted(n)) /\ Ip!Operands(n) = It!Operands(n) /\ Ip!BlamedLine(n) = It!BlamedLine(n)
  /\ \A p, n : Ip!Expr(p, n) = It!Expr(p, n) /\ Ip!Lhs(p, n) = It!Lhs(p, n) /\ Ip!Rhs(p, n) = It!Rhs(p, n)
  /\ Ip!Top = It!Top
<1>1. /\ Ip!LiteralKinds = It!LiteralKinds /\ Ip!UnaryKinds = It!UnaryKinds /\ Ip!BinaryKinds = It!BinaryKinds
      /\ Ip!SilentKinds = It!SilentKinds /\ Ip!ROOT = It!ROOT /\ Ip!RETURN_LINE = It!RETURN_LINE
  BY DEF Ip!LiteralKinds, It!LiteralKinds, Ip!UnaryKinds, It!UnaryKinds, Ip!BinaryKinds, It!BinaryKinds,
         Ip!SilentKinds, It!SilentKinds, Ip!ROOT, It!ROOT, Ip!RETURN_LINE, It!RETURN_LINE
<1>2. \A kind : Ip!OperatorOpcode(kind) = It!OperatorOpcode(kind)
  BY SameCodes DEF Ip!OperatorOpcode, It!OperatorOpcode
<1>3. Ip!Top = It!Top
  BY DEF Ip!Top, It!Top
<1>4. \A n : Ip!Visit(n) = It!Visit(n) /\ Ip!Emit(n) = It!Emit(n) /\ (Ip!Visiting(n) <=> It!Visiting(n))
  BY <1>3 DEF Ip!Visit, It!Visit, Ip!Emit, It!Emit, Ip!Visiting, It!Visiting
<1>5. \A p, n : Ip!Expr(p, n) = It!Expr(p, n) /\ Ip!Lhs(p, n) = It!Lhs(p, n) /\ Ip!Rhs(p, n) = It!Rhs(p, n)
  BY DEF Ip!Expr, It!Expr, Ip!Lhs, It!Lhs, Ip!Rhs, It!Rhs
<1>6. \A n : (Ip!Emitted(n) <=> It!Emitted(n)) /\ Ip!Operands(n) = It!Operands(n) /\ Ip!BlamedLine(n) = It!BlamedLine(n)
  BY <1>4, <1>5 DEF Ip!Emitted, It!Emitted, Ip!Operands, It!Operands, Ip!BlamedLine, It!BlamedLine
<1> QED
  BY <1>1, <1>2, <1>3, <1>4, <1>5, <1>6

LEMMA SameCompile == It!Compile => Ip!Compile
<1>1. ASSUME NEW n, It!WriteBool(n) PROVE Ip!WriteBool(n)
  BY <1>1, SameWalk, SameCodes, SameValues, SameWriting DEF It!WriteBool, Ip!WriteBool
<1>2. ASSUME NEW n, It!WriteNumber(n) PROVE Ip!WriteNumber(n)
  BY <1>2, SameWalk, SameWriting DEF It!WriteNumber, Ip!WriteNumber
<1>3. ASSUME NEW n, It!WriteString(n) PROVE Ip!WriteString(n)
  BY <1>3, SameWalk, SameWriting, SameStrings, SameValues DEF It!WriteString, Ip!WriteString, It!StringChars, Ip!StringChars
<1>4. ASSUME NEW n, It!VisitUnary(n) PROVE Ip!VisitUnary(n)
  BY <1>4, SameWalk DEF It!VisitUnary, Ip!VisitUnary
<1>5. ASSUME NEW n, It!VisitBinary(n) PROVE Ip!VisitBinary(n)
  BY <1>5, SameWalk DEF It!VisitBinary, Ip!VisitBinary
<1>6. ASSUME NEW n, It!VisitSilent(n) PROVE Ip!VisitSilent(n)
  BY <1>6, SameWalk DEF It!VisitSilent, Ip!VisitSilent
<1>7. ASSUME NEW n, It!WriteOperator(n) PROVE Ip!WriteOperator(n)
  BY <1>7, SameWalk, SameWriting DEF It!WriteOperator, Ip!WriteOperator
<1>8. It!Finish => Ip!Finish
  BY SameWalk, SameWriting, SameCodes DEF It!Finish, Ip!Finish
<1> QED
  BY <1>1, <1>2, <1>3, <1>4, <1>5, <1>6, <1>7, <1>8 DEF It!Compile, Ip!Compile

LEMMA SameArithmetic ==
  /\ \A n : Ip!Wrap(n) = It!Wrap(n) /\ Ip!AsResult(n) = It!AsResult(n)
  /\ \A op, a, b : /\ Ip!Number(op, a, b) = It!Number(op, a, b)
                   /\ Ip!MayTrap(op, a, b) <=> It!MayTrap(op, a, b)
                   /\ Ip!MustTrap(op, a, b) <=> It!MustTrap(op, a, b)
                   /\ Ip!Compared(op, a, b) = It!Compared(op, a, b)
  /\ \A a, b : Ip!Equal(a, b) = It!Equal(a, b)
<1>1. Ip!MinInteger = It!MinInteger
  BY SameBasics
<1>2. \A n : Ip!Wrap(n) = It!Wrap(n) /\ Ip!AsResult(n) = It!AsResult(n) /\ Ip!Abs(n) = It!Abs(n)
  BY <1>1 DEF Ip!Wrap, It!Wrap, Ip!AsResult, It!AsResult, Ip!Abs, It!Abs
<1>3. \A a, b : Ip!TruncDiv(a, b) = It!TruncDiv(a, b) /\ Ip!RealQuotient(a, b) = It!RealQuotient(a, b)
  BY <1>2, SameValues DEF Ip!TruncDiv, It!TruncDiv, Ip!RealQuotient, It!RealQuotient
<1>4. \A op, a, b : Ip!RealOp(op, a, b) = It!RealOp(op, a, b)
  BY <1>3, SameValues, SameCodes DEF Ip!RealOp, It!RealOp
<1>5. \A op, m, n : Ip!IntegerOp(op, m, n) = It!IntegerOp(op, m, n)
  BY <1>2, <1>3, SameCodes DEF Ip!IntegerOp, It!IntegerOp
<1>6. \A op, a, b : Ip!Number(op, a, b) = It!Number(op, a, b)
  BY <1>4, <1>5, SameValues DEF Ip!Number, It!Number
<1>7. \A op, a, b : (Ip!MayTrap(op, a, b) <=> It!MayTrap(op, a, b)) /\ (Ip!MustTrap(op, a, b) <=> It!MustTrap(op, a, b))
  BY <1>1, SameValues, SameCodes DEF Ip!MayTrap, It!MayTrap, Ip!MustTrap, It!MustTrap
<1>8. \A op, m, n : Ip!Ordered(op, m, n) = It!Ordered(op, m, n)
  BY SameCodes DEF Ip!Ordered, It!Ordered
<1>9. \A op, a, b : Ip!Compared(op, a, b) = It!Compared(op, a, b)
  BY <1>8, SameValues DEF Ip!Compared, It!Compared
<1>10. \A a, b : Ip!Equal(a, b) = It!Equal(a, b)
  BY Zenon DEF Ip!Equal, It!Equal, Ip!IsJunk, It!IsJunk, Ip!LowBytes, It!LowBytes, Ip!BoolLoads, It!BoolLoads
<1> QED
  BY <1>2, <1>6, <1>7, <1>9, <1>10

LEMMA SameStack ==
  /\ Ip!Op = It!Op /\ \A d : Ip!Peek(d) = It!Peek(d)
  /\ \A k : Ip!Popped(k) = It!Popped(k)
  /\ \A op : Ip!Pops(op) = It!Pops(op)
  /\ \A ops : Ip!Executing(ops) <=> It!Executing(ops)
  /\ \A s : Ip!Leave(s) <=> It!Leave(s)
  /\ \A v : Ip!Push(v) <=> It!Push(v)
  /\ \A bytes : Ip!Advance(bytes) <=> It!Advance(bytes)
  /\ Ip!Depth = It!Depth
<1>1. Ip!Op = It!Op
  BY SameWriting DEF Ip!Op, It!Op
<1>2. Ip!Depth = It!Depth
  BY DEF Ip!Depth, It!Depth
<1>3. (\A d : Ip!Peek(d) = It!Peek(d)) /\ (\A k : Ip!Popped(k) = It!Popped(k))
  BY <1>2 DEF Ip!Peek, It!Peek, Ip!Popped, It!Popped
<1>4. \A op : Ip!Pops(op) = It!Pops(op)
  BY SameCodes DEF Ip!Pops, It!Pops
<1>5. \A ops : Ip!Executing(ops) <=> It!Executing(ops)
  BY <1>1, <1>2, <1>4 DEF Ip!Executing, It!Executing
<1>6. \A s : Ip!Leave(s) <=> It!Leave(s)
  BY SameValues DEF Ip!Leave, It!Leave
<1>7. \A v : Ip!Push(v) <=> It!Push(v)
  BY <1>1, <1>3, <1>4, <1>6 DEF Ip!Push, It!Push
<1>8. \A bytes : Ip!Advance(bytes) <=> It!Advance(bytes)
  BY DEF Ip!Advance, It!Advance
<1> QED
  BY <1>1, <1>2, <1>3, <1>4, <1>5, <1>6, <1>7, <1>8

LEMMA SameExecute == It!Execute => Ip!Execute
<1>1. \A index : It!PushConstant(index) => Ip!PushConstant(index)
  BY SameStack, SameWriting DEF It!PushConstant, Ip!PushConstant
<1>2. It!Constant => Ip!Constant
  BY <1>1, SameStack, SameWriting, SameCodes DEF It!Constant, Ip!Constant
<1>3. It!ConstantLong => Ip!ConstantLong
  BY <1>1, SameStack, SameWriting, SameCodes
     DEF It!ConstantLong, Ip!ConstantLong, It!LongIndexBytes, Ip!LongIndexBytes
<1>4. It!Truth => Ip!Truth
  BY SameStack, SameValues, SameCodes DEF It!Truth, Ip!Truth
<1>5. It!Arithmetic => Ip!Arithmetic
  BY SameStack, SameArithmetic, SameCodes DEF It!Arithmetic, Ip!Arithmetic
<1>6. It!Trap => Ip!Trap
  BY SameStack, SameArithmetic, SameCodes DEF It!Trap, Ip!Trap
<1>7. It!NegateReal => Ip!NegateReal
  BY SameStack, SameCodes DEF It!NegateReal, Ip!NegateReal
<1>8. It!NegateInteger => Ip!NegateInteger
  BY SameStack, SameArithmetic, SameValues, SameCodes DEF It!NegateInteger, Ip!NegateInteger
<1>9. It!NegateOther => Ip!NegateOther
  BY SameStack, SameCodes DEF It!NegateOther, Ip!NegateOther,
     It!INTERPRET_RESULT_RUNTIME_ERROR, Ip!INTERPRET_RESULT_RUNTIME_ERROR
<1>10. It!Not => Ip!Not
  BY SameStack, SameValues, SameCodes DEF It!Not, Ip!Not
<1>11. It!Equality => Ip!Equality
  BY SameStack, SameArithmetic, SameValues, SameCodes DEF It!Equality, Ip!Equality
<1>12. It!Comparison => Ip!Comparison
  BY SameStack, SameArithmetic, SameValues, SameCodes DEF It!Comparison, Ip!Comparison, It!Uncompared, Ip!Uncompared
<1>13. It!Concat => Ip!Concat
  BY SameStack, SameStrings, SameValues, SameCodes DEF It!Concat, Ip!Concat, It!Joined, Ip!Joined
<1>14. It!Return => Ip!Return
  BY SameStack, SameCodes DEF It!Return, Ip!Return, It!INTERPRET_RESULT_OK, Ip!INTERPRET_RESULT_OK
<1>15. It!Underflow => Ip!Underflow
  BY SameStack, SameCodes DEF It!Underflow, Ip!Underflow
<1> QED
  BY <1>2, <1>3, <1>4, <1>5, <1>6, <1>7, <1>8, <1>9, <1>10, <1>11, <1>12, <1>13, <1>14, <1>15
     DEF It!Execute, Ip!Execute

-----------------------------------------------------------------------------
LEMMA SameMeanings ==
  /\ \A v : Ip!Ref!Meant(v) = It!Ref!Meant(v)
  /\ \A chars : Ip!Ref!MeantString(chars) = It!Ref!MeantString(chars)
  /\ \A node : Ip!Ref!LiteralMeaning(node) = It!Ref!LiteralMeaning(node)
  /\ \A kind, a : /\ Ip!Ref!UnaryMeaning(kind, a) = It!Ref!UnaryMeaning(kind, a)
                  /\ Ip!Ref!SupportedUnary(kind, a) <=> It!Ref!SupportedUnary(kind, a)
  /\ \A kind, a, b : /\ Ip!Ref!BinaryMeaning(kind, a, b) = It!Ref!BinaryMeaning(kind, a, b)
                     /\ Ip!Ref!SupportedBinary(kind, a, b) <=> It!Ref!SupportedBinary(kind, a, b)
  /\ \A a, b : Ip!Ref!SameMeaning(a, b) <=> It!Ref!SameMeaning(a, b)
  /\ \A v : Ip!Denoted(v) = It!Denoted(v)
  /\ Ip!INTERPRET_RESULT_OK = It!INTERPRET_RESULT_OK
<1>1. /\ \A kind, n : Ip!Ref!Value(kind, n) = It!Ref!Value(kind, n)
      /\ \A n, d : Ip!Ref!Real(n, d) = It!Ref!Real(n, d)
      /\ \A b : Ip!Ref!Bool(b) = It!Ref!Bool(b)
  BY DEF Ip!Ref!Value, It!Ref!Value, Ip!Ref!Real, It!Ref!Real, Ip!Ref!Bool, It!Ref!Bool
<1>2. /\ \A v : Ip!Ref!Meant(v) = It!Ref!Meant(v)
      /\ \A chars : Ip!Ref!MeantString(chars) = It!Ref!MeantString(chars)
  BY <1>1 DEF Ip!Ref!Meant, It!Ref!Meant, Ip!Ref!MeantString, It!Ref!MeantString
<1>3. \A m : Ip!Ref!Kind(m) = It!Ref!Kind(m) /\ Ip!Ref!Num(m) = It!Ref!Num(m) /\ Ip!Ref!Den(m) = It!Ref!Den(m)
  BY DEF Ip!Ref!Kind, It!Ref!Kind, Ip!Ref!Num, It!Ref!Num, Ip!Ref!Den, It!Ref!Den
<1>4. \A node : Ip!Ref!LiteralMeaning(node) = It!Ref!LiteralMeaning(node)
  BY <1>2 DEF Ip!Ref!LiteralMeaning, It!Ref!LiteralMeaning, Ip!Ref!Unquoted, It!Ref!Unquoted
<1>5. \A kind, a : Ip!Ref!UnaryMeaning(kind, a) = It!Ref!UnaryMeaning(kind, a)
  BY <1>1, <1>2, <1>3 DEF Ip!Ref!UnaryMeaning, It!Ref!UnaryMeaning
<1>6. /\ \A m, n : Ip!Ref!Quotient(m, n) = It!Ref!Quotient(m, n)
      /\ \A n : Ip!Ref!Fits(n) <=> It!Ref!Fits(n)
  BY DEF Ip!Ref!Quotient, It!Ref!Quotient, Ip!Ref!Fits, It!Ref!Fits
<1>7. /\ \A a, b : /\ Ip!Ref!SumOf(a, b) = It!Ref!SumOf(a, b) /\ Ip!Ref!Product(a, b) = It!Ref!Product(a, b)
                   /\ Ip!Ref!Over(a, b) = It!Ref!Over(a, b)
      /\ \A a, b, kinds : Ip!Ref!BothOf(a, b, kinds) <=> It!Ref!BothOf(a, b, kinds)
  BY <1>3 DEF Ip!Ref!SumOf, It!Ref!SumOf, Ip!Ref!Product, It!Ref!Product, Ip!Ref!Over, It!Ref!Over,
              Ip!Ref!BothOf, It!Ref!BothOf
<1>8. \A kind, f : Ip!Ref!MeantNumber(kind, f) = It!Ref!MeantNumber(kind, f)
  BY <1>2 DEF Ip!Ref!MeantNumber, It!Ref!MeantNumber
<1>9. \A kind, a, b : Ip!Ref!BinaryMeaning(kind, a, b) = It!Ref!BinaryMeaning(kind, a, b)
  BY <1>1, <1>2, <1>3, <1>6, <1>7, <1>8 DEF Ip!Ref!BinaryMeaning, It!Ref!BinaryMeaning
<1>10. \A kind, a : Ip!Ref!SupportedUnary(kind, a) <=> It!Ref!SupportedUnary(kind, a)
  BY <1>3 DEF Ip!Ref!SupportedUnary, It!Ref!SupportedUnary
<1>11. \A kind, a, b : Ip!Ref!SupportedBinary(kind, a, b) <=> It!Ref!SupportedBinary(kind, a, b)
  BY <1>3, <1>6, <1>7, <1>9 DEF Ip!Ref!SupportedBinary, It!Ref!SupportedBinary
<1>12. \A a, b : Ip!Ref!SameMeaning(a, b) <=> It!Ref!SameMeaning(a, b)
  BY <1>3 DEF Ip!Ref!SameMeaning, It!Ref!SameMeaning
<1>13. \A v : Ip!Denoted(v) = It!Denoted(v)
  BY <1>2 DEF Ip!Denoted, It!Denoted
<1>14. Ip!INTERPRET_RESULT_OK = It!INTERPRET_RESULT_OK
  BY DEF Ip!INTERPRET_RESULT_OK, It!INTERPRET_RESULT_OK
<1> QED
  BY <1>2, <1>4, <1>5, <1>9, <1>10, <1>11, <1>12, <1>13, <1>14

-----------------------------------------------------------------------------
(* Until the tree is handed over nothing is compiled and the machine is as *)
(* it began; from then on the tree is the program that is compiled and     *)
(* run, as Interpreter_proofs has it.                                      *)
Unbegun ==
  /\ It!VmInit
  /\ chunk = It!chunk_init /\ store = It!EmptyStore /\ phase = "compile" /\ emitted = <<>>

PipelineIInv ==
  /\ stage \in {"scan", "parse", "run"}
  /\ stage # "scan" => Scanned /\ Len(tokens) \in Nat /\ Len(input) = Len(tokens) - 1
  /\ stage # "run" => Unbegun
  /\ stage = "run" => state = "parsed" /\ program = built /\ Ip!RunIInv
  /\ state = "parsed" => frames = <<>>

LEMMA RunVars ==
  ASSUME Ip!RunIInv, UNCHANGED <<compilerVars, sharedVars, vmVars>>, Ip!Hashed, Ip!LowByteFirst
  PROVE  Ip!RunIInv'
<1>1. UNCHANGED Ip!vars
  BY DEF Ip!vars, Ip!compilerVars, Ip!vmVars, compilerVars, sharedVars, vmVars
<1>2. [Ip!Next]_(Ip!vars)
  BY <1>1
<1> QED
  BY <1>2, MachineGoesOn

LEMMA TreeIsCompiled ==
  ASSUME ScannerIInv, ParserInStep, Pp!NodesMade, LexemesIInv, PipelineIInv, chunk_write_from_ast
  PROVE  Ip!RunIInv'
<1>1. /\ stage = "parse" /\ state = "parsed" /\ program' = built /\ work' = <<It!Visit(Len(built))>>
      /\ emitted' = emitted /\ UNCHANGED sharedVars /\ UNCHANGED vmVars
  BY DEF chunk_write_from_ast
<1>2. Unbegun
  BY <1>1 DEF PipelineIInv
<1>3. built \in Trees
  BY <1>1, BuiltIsGiven
<1>4. PICK trees : trees = Trees
  OBVIOUS
<1>5. Ip!VmInit'
  BY <1>1, <1>2 DEF Unbegun, It!VmInit, Ip!VmInit, vmVars, It!INTERPRET_RESULT_OK, Ip!INTERPRET_RESULT_OK
<1>6. Trees' = Trees
  OBVIOUS
<1>7. Ip!CompilerInit'
  BY <1>1, <1>2, <1>3, <1>6, SameWalk, SameWriting, SameStrings DEF Unbegun, Ip!CompilerInit, sharedVars
<1>8. Ip!Init'
  BY <1>5, <1>7 DEF Ip!Init
<1>9. (Ip!Init => Ip!RunIInv)'
  BY MachineBegins, PTL
<1> QED
  BY <1>8, <1>9

LEMMA RunIsMachine ==
  ASSUME Run
  PROVE  Ip!Next
<1>1. CASE It!Compile /\ UNCHANGED vmVars
  <2>1. Ip!Compile
    BY <1>1, SameCompile
  <2>2. UNCHANGED Ip!vmVars
    BY <1>1 DEF vmVars, Ip!vmVars
  <2> QED
    BY <2>1, <2>2 DEF Ip!Next
<1>2. CASE It!Execute /\ UNCHANGED compilerVars
  <2>1. Ip!Execute
    BY <1>2, SameExecute
  <2>2. UNCHANGED Ip!compilerVars
    BY <1>2 DEF compilerVars, Ip!compilerVars
  <2> QED
    BY <2>1, <2>2 DEF Ip!Next
<1> QED
  BY <1>1, <1>2 DEF Run

LEMMA PipelineKept ==
  ASSUME ScannerIInv, ParserInStep, Pp!NodesMade, LexemesIInv, PipelineIInv, [Next]_vars,
         Ip!Hashed, Ip!LowByteFirst
  PROVE  PipelineIInv'
<1>1. CASE Scan
  <2>1. stage = "scan" /\ stage' = "scan" /\ UNCHANGED <<state, frames>>
        /\ UNCHANGED emitted /\ UNCHANGED sharedVars /\ UNCHANGED vmVars
    BY <1>1 DEF Scan, parserVars, compilerVars
  <2>2. Unbegun'
    BY <2>1 DEF PipelineIInv, Unbegun, sharedVars, vmVars, It!VmInit
  <2> QED
    BY <2>1, <2>2 DEF PipelineIInv
<1>2. CASE parser_init
  <2>1. /\ stage = "scan" /\ stage' = "parse" /\ Scanned /\ tokens' = tokens
        /\ UNCHANGED <<state, frames>> /\ UNCHANGED emitted /\ UNCHANGED sharedVars /\ UNCHANGED vmVars
        /\ input' = [n \in 1 .. Len(tokens) - 1 |-> ParserToken(tokens[n])]
    BY <1>2 DEF parser_init, scannerVars, compilerVars
  <2>2. PICK len, x : len = Len(tokens) - 1 /\ x = input' /\ x = [n \in 1 .. len |-> ParserToken(tokens[n])]
    BY <2>1
  <2>3. len \in Nat /\ Len(tokens) \in Nat /\ Len(tokens) = len + 1
    <3>1. tokens # <<>> /\ \E S : tokens \in Seq(S)
      BY <2>1 DEF ScannerIInv, Scanned
    <3> QED
      BY <2>2, <3>1
  <2>4. Len(x) = len
    <3>1. x \in Seq({ParserToken(tokens[n]) : n \in 1 .. len})
      BY <2>2, <2>3
    <3> QED
      BY <2>2, <2>3, <3>1
  <2>5. Unbegun'
    BY <2>1 DEF PipelineIInv, Unbegun, sharedVars, vmVars, It!VmInit
  <2>6. Scanned'
    BY <2>1 DEF Scanned
  <2> QED
    BY <2>1, <2>2, <2>3, <2>4, <2>5, <2>6 DEF PipelineIInv
<1>3. CASE Parse
  <2>1. /\ Ps!Step /\ stage = "parse" /\ stage' = "parse" /\ tokens' = tokens
        /\ UNCHANGED emitted /\ UNCHANGED sharedVars /\ UNCHANGED vmVars
    BY <1>3 DEF Parse, ParserStep, Ps!Step, scannerVars, compilerVars
  <2>2. input' = input /\ (state' = "parsed" => frames' = <<>>)
    BY <2>1 DEF Ps!Step, Ps!At, Ps!Literal, Ps!_unary, Ps!_group, Ps!_binary, Ps!EndOfOperators, Ps!Node,
                Ps!EndOfGroup, Ps!parser_parse, Ps!CallNull, Ps!ReadBeyond
  <2>3. Unbegun'
    BY <2>1 DEF PipelineIInv, Unbegun, sharedVars, vmVars, It!VmInit
  <2>4. Scanned'
    BY <2>1 DEF Scanned, PipelineIInv
  <2> QED
    BY <2>1, <2>2, <2>3, <2>4 DEF PipelineIInv
<1>4. CASE chunk_write_from_ast
  <2>1. /\ stage = "parse" /\ stage' = "run" /\ state = "parsed" /\ program' = built
        /\ UNCHANGED <<tokens, input, state, frames, built>>
    BY <1>4 DEF chunk_write_from_ast, scannerVars, parserVars
  <2>2. Ip!RunIInv'
    BY <1>4, TreeIsCompiled
  <2>3. Scanned'
    BY <2>1 DEF Scanned, PipelineIInv
  <2> QED
    BY <2>1, <2>2, <2>3 DEF PipelineIInv
<1>5. CASE Run
  <2>1. /\ stage = "run" /\ stage' = "run" /\ UNCHANGED <<tokens, input, state, frames, built>>
    BY <1>5 DEF Run, scannerVars, parserVars
  <2>2. program' = program
    BY <1>5 DEF Run, It!Compile, It!WriteBool, It!WriteNumber, It!WriteString, It!VisitUnary, It!VisitBinary,
                It!VisitSilent, It!WriteOperator, It!Finish, compilerVars
  <2>3. Ip!RunIInv'
    <3>1. [Ip!Next]_(Ip!vars)
      BY <1>5, RunIsMachine
    <3> QED
      BY <2>1, <3>1, MachineGoesOn DEF PipelineIInv
  <2>4. Scanned'
    BY <2>1 DEF Scanned, PipelineIInv
  <2> QED
    BY <2>1, <2>2, <2>3, <2>4 DEF PipelineIInv
<1>6. CASE Free \/ Ended \/ UNCHANGED vars
  <2>1. /\ UNCHANGED <<stage, tokens, input, state, frames, built, program, emitted>>
        /\ UNCHANGED <<compilerVars, sharedVars, vmVars>>
    BY <1>6 DEF Free, Ended, vars, scannerVars, parserVars, compilerVars
  <2>2. Unbegun' <=> Unbegun
    BY <2>1 DEF Unbegun, sharedVars, vmVars, It!VmInit
  <2>3. Ip!RunIInv => Ip!RunIInv'
    BY <2>1, RunVars
  <2>4. Scanned' <=> Scanned
    BY <2>1 DEF Scanned
  <2> QED
    BY <2>1, <2>2, <2>3, <2>4 DEF PipelineIInv
<1> QED
  BY <1>1, <1>2, <1>3, <1>4, <1>5, <1>6 DEF Next, Step

LEMMA PipelineBegins == Init => PipelineIInv
BY DEF Init, PipelineIInv, Unbegun

WholeIInv ==
  /\ ScannerIInv /\ ParserInStep /\ Pp!NodesMade /\ LexemesIInv
  /\ PipelineIInv /\ ReadingIInv

LEMMA WholeInvariant ==
  ASSUME Ip!Hashed, Ip!LowByteFirst
  PROVE  Spec => []WholeIInv
<1>1. ScannerIInv /\ ParserInStep /\ Pp!NodesMade /\ LexemesIInv /\ PipelineIInv /\ [Next]_vars => PipelineIInv'
  BY PipelineKept
<1>2. ParserInStep /\ Pp!NodesMade /\ ReadingIInv /\ [Next]_vars => ReadingIInv'
  BY ReadingKept
<1>3. ScannerIInv /\ ParserInStep /\ Pp!NodesMade /\ LexemesIInv /\ PipelineIInv /\ ReadingIInv => WholeIInv
  BY DEF WholeIInv
<1> QED
  BY <1>1, <1>2, <1>3, PipelineBegins, ReadingBegins, MadeInvariant, LexemesInvariant, PTL DEF Spec

-----------------------------------------------------------------------------
LEMMA SameKinds ==
  /\ Ip!LiteralKinds = It!LiteralKinds /\ Ip!UnaryKinds = It!UnaryKinds /\ Ip!BinaryKinds = It!BinaryKinds
  /\ Ip!Ref!LiteralKinds = It!LiteralKinds /\ Ip!Ref!UnaryKinds = It!UnaryKinds
  /\ Ip!Ref!BinaryKinds = It!BinaryKinds
  /\ \A kind : kind \in It!LiteralKinds => kind \notin It!UnaryKinds /\ kind \notin It!BinaryKinds
  /\ \A kind : kind \in It!UnaryKinds => kind \notin It!BinaryKinds
<1>1. /\ Ip!LiteralKinds = It!LiteralKinds /\ Ip!UnaryKinds = It!UnaryKinds /\ Ip!BinaryKinds = It!BinaryKinds
      /\ Ip!Ref!LiteralKinds = It!LiteralKinds /\ Ip!Ref!UnaryKinds = It!UnaryKinds
      /\ Ip!Ref!BinaryKinds = It!BinaryKinds
  BY DEF Ip!LiteralKinds, It!LiteralKinds, Ip!UnaryKinds, It!UnaryKinds, Ip!BinaryKinds, It!BinaryKinds,
         Ip!Ref!LiteralKinds, Ip!Ref!UnaryKinds, Ip!Ref!BinaryKinds
<1>2. \A kind : kind \in It!LiteralKinds => kind \notin It!UnaryKinds /\ kind \notin It!BinaryKinds
  BY DEF It!LiteralKinds, It!UnaryKinds, It!BinaryKinds
<1>3. \A kind : kind \in It!UnaryKinds => kind \notin It!BinaryKinds
  BY DEF It!UnaryKinds, It!BinaryKinds
<1> QED
  BY <1>1, <1>2, <1>3

(* Reference unfolds as it was written, and asks the same of every node.   *)
LEMMA NodesMean ==
  ASSUME NEW p \in Trees
  PROVE  Means(p, Ip!Ref!Meaning(p))
<1>1. PICK m : m = Ip!Ref!Meaning(p)
  OBVIOUS
<1>2. ASSUME NEW n \in DOMAIN p
      PROVE  /\ p[n].kind \in It!LiteralKinds => m[n] = It!Ref!LiteralMeaning(p[n])
             /\ p[n].kind \in It!UnaryKinds => m[n] = It!Ref!UnaryMeaning(p[n].kind, m[n - 1])
             /\ p[n].kind \in It!BinaryKinds =>
                  m[n] = It!Ref!BinaryMeaning(p[n].kind, m[p[n - 1].first - 1], m[n - 1])
  <2>1. m[n] = Ip!MeaningOf(p, m, n)
    <3>1. Ip!Ref!Meaning(p)[n] = Ip!MeaningOf(p, Ip!Ref!Meaning(p), n)
      BY Zenon, MachineIsGiven, TreesAreGiven, Ip!MeaningUnfolds
    <3> QED
      BY Zenon, <1>1, <3>1
  <2>2. /\ Ip!Ref!Expr(p, n) = n - 1 /\ Ip!Ref!Rhs(p, n) = n - 1 /\ Ip!Ref!Lhs(p, n) = p[n - 1].first - 1
    BY DEF Ip!Ref!Expr, Ip!Ref!Rhs, Ip!Ref!Lhs
  <2>3. m[n] = IF p[n].kind \in It!LiteralKinds THEN Ip!Ref!LiteralMeaning(p[n])
               ELSE IF p[n].kind \in It!UnaryKinds THEN Ip!Ref!UnaryMeaning(p[n].kind, m[n - 1])
               ELSE Ip!Ref!BinaryMeaning(p[n].kind, m[p[n - 1].first - 1], m[n - 1])
    BY Zenon, <2>1, <2>2, SameKinds DEF Ip!MeaningOf
  <2>4. m[n] = IF p[n].kind \in It!LiteralKinds THEN It!Ref!LiteralMeaning(p[n])
               ELSE IF p[n].kind \in It!UnaryKinds THEN It!Ref!UnaryMeaning(p[n].kind, m[n - 1])
               ELSE It!Ref!BinaryMeaning(p[n].kind, m[p[n - 1].first - 1], m[n - 1])
    BY Zenon, <2>3, SameMeanings
  <2> QED
    BY Zenon, <2>4, SameKinds
<1> QED
  BY Zenon, <1>1, <1>2 DEF Means

LEMMA SupportedIs ==
  ASSUME NEW p \in Trees, NEW m, m = Ip!Ref!Meaning(p), \A n \in DOMAIN p : NodeSupported(p, m, n)
  PROVE  Ip!Ref!Supported(p)
<1>1. ASSUME NEW n \in DOMAIN p
      PROVE  \/ p[n].kind \in Ip!Ref!LiteralKinds
             \/ p[n].kind \in Ip!Ref!UnaryKinds /\ Ip!Ref!SupportedUnary(p[n].kind, m[Ip!Ref!Expr(p, n)])
             \/ p[n].kind \in Ip!Ref!BinaryKinds
                  /\ Ip!Ref!SupportedBinary(p[n].kind, m[Ip!Ref!Lhs(p, n)], m[Ip!Ref!Rhs(p, n)])
  <2>1. NodeSupported(p, m, n)
    OBVIOUS
  <2>2. /\ Ip!Ref!Expr(p, n) = n - 1 /\ Ip!Ref!Rhs(p, n) = n - 1 /\ Ip!Ref!Lhs(p, n) = p[n - 1].first - 1
    BY DEF Ip!Ref!Expr, Ip!Ref!Rhs, Ip!Ref!Lhs
  <2>3. \/ p[n].kind \in It!LiteralKinds
        \/ p[n].kind \in It!UnaryKinds /\ It!Ref!SupportedUnary(p[n].kind, m[n - 1])
        \/ p[n].kind \in It!BinaryKinds
             /\ It!Ref!SupportedBinary(p[n].kind, m[p[n - 1].first - 1], m[n - 1])
    BY Zenon, <2>1 DEF NodeSupported
  <2>4. CASE p[n].kind \in It!LiteralKinds
    BY Zenon, <2>4, SameKinds
  <2>5. CASE p[n].kind \in It!UnaryKinds /\ It!Ref!SupportedUnary(p[n].kind, m[n - 1])
    BY Zenon, <2>2, <2>5, SameKinds, SameMeanings
  <2>6. CASE p[n].kind \in It!BinaryKinds
             /\ It!Ref!SupportedBinary(p[n].kind, m[p[n - 1].first - 1], m[n - 1])
    BY Zenon, <2>2, <2>6, SameKinds, SameMeanings
  <2> QED
    BY Zenon, <2>3, <2>4, <2>5, <2>6
<1> QED
  BY Zenon, <1>1 DEF Ip!Ref!Supported

-----------------------------------------------------------------------------
(* A sentence that is over was run, and before that parsed.                *)
LEMMA OverIsRun ==
  ASSUME WholeIInv, Over, Pp!Sentence(input)
  PROVE  /\ stage = "run" /\ state = "parsed" /\ phase \in {"trap", "wild", "returned"}
         /\ program = built /\ Ip!RunIInv
<1>1. state \in {"parse", "parsed"}
  <2>1. CASE stage = "scan"
    BY <2>1 DEF WholeIInv, ParserInStep, NotBegun
  <2>2. CASE stage # "scan"
    BY <2>2 DEF WholeIInv, ReadingIInv, Pp!FollowsIInv, Pp!Follows
  <2> QED
    BY <2>1, <2>2
<1>2. phase \in {"trap", "wild", "returned"}
  BY <1>1 DEF Over
<1>3. stage = "run"
  BY <1>2 DEF WholeIInv, PipelineIInv, Unbegun
<1> QED
  BY <1>2, <1>3 DEF WholeIInv, PipelineIInv

LEMMA OverPrints ==
  ASSUME WholeIInv, WordsIInv, Over, Ps!Supported, Meaning(Len(input)) # UNSUPPORTED,
         It!ConstantCount(chunk) <= 256
  PROVE  /\ phase = "returned" /\ result = It!INTERPRET_RESULT_OK
         /\ Len(printed) = 1 /\ It!Ref!SameMeaning(It!Denoted(printed[1]), Meaning(Len(input)))
<1>1. Pp!Sentence(input)
  BY SupportedSentence
<1>2. /\ stage = "run" /\ state = "parsed" /\ phase \in {"trap", "wild", "returned"}
      /\ program = built /\ Ip!RunIInv
  BY <1>1, OverIsRun
<1>3. PICK d : Pp!IsReading(built, token, grouped, input, d)
  <2>1. Pp!ParserIInv /\ Pp!FollowsIInv /\ Pp!NodesMade /\ Pp!SpansIInv /\ frames = <<>>
    BY <1>2 DEF WholeIInv, ParserInStep, ReadingIInv, PipelineIInv
  <2>2. Pp!TreeIsReading
    BY <2>1, Pp!ReadingFound
  <2> QED
    BY <1>1, <1>2, <2>2 DEF Pp!TreeIsReading
<1>4. built \in Trees
  BY <1>2, BuiltIsGiven DEF WholeIInv
<1>5. Ip!Ref!Supported(program) /\ Meaning(Len(input)) = Ip!Ref!Meaning(program)[Len(program)]
  <2>1. PICK mean : mean = Ip!Ref!Meaning(built)
    OBVIOUS
  <2>2. Means(built, mean)
    BY Zenon, <1>4, <2>1, NodesMean
  <2>3. IsParsed(d, mean)
    BY <1>1, <1>2, <1>3, <2>2 DEF IsParsed, WholeIInv, PipelineIInv, TokensRead
  <2>4. Meaning(Len(input)) = mean[Len(built)] /\ \A k \in DOMAIN built : NodeSupported(built, mean, k)
    BY <2>3, MeaningOfText
  <2>5. Ip!Ref!Supported(built)
    BY Zenon, <1>4, <2>1, <2>4, SupportedIs
  <2> QED
    BY Zenon, <1>2, <2>1, <2>4, <2>5
<1>6. Ip!PrintsItsMeaning
  <2>1. Ip!MeaningIInv
    BY <1>2 DEF Ip!RunIInv
  <2>2. Ip!ConstantCount(chunk) <= 256
    BY SameWriting
  <2> QED
    BY <2>1, <2>2, MachinePrints
<1>7. phase \notin {"compile", "run"}
  BY <1>2
<1>8. /\ phase = "returned" /\ result = Ip!INTERPRET_RESULT_OK /\ Len(printed) = 1
      /\ Ip!Ref!SameMeaning(Ip!Denoted(printed[1]), Ip!Ref!Meaning(program)[Len(program)])
  BY Zenon, <1>5, <1>6, <1>7 DEF Ip!PrintsItsMeaning
<1> QED
  BY Zenon, <1>5, <1>8, SameMeanings

LEMMA WholePrints ==
  ASSUME WholeIInv, WordsIInv
  PROVE  It!ConstantCount(chunk) <= 256 => PrintsTheText
BY Zenon, OverPrints DEF PrintsTheText

(* Scanner, parser, compiler and machine agree with what the text says:    *)
(* whatever sentence the bytes are, if it has a value and not more than    *)
(* 256 constants (chunk_write_constant drops the high bytes of an index),  *)
(* interpret ends with INTERPRET_RESULT_OK and has printed that value and  *)
(* no more.  The value of a string is what stands between its quotes.      *)
THEOREM TextsPrintTheirMeaning ==
  ASSUME Ip!Hashed, Ip!LowByteFirst
  PROVE  Spec => [](It!ConstantCount(chunk) <= 256 => PrintsTheText)
<1>1. WholeIInv /\ WordsIInv => (It!ConstantCount(chunk) <= 256 => PrintsTheText)
  BY WholePrints
<1> QED
  BY <1>1, WholeInvariant, WordsInvariant, PTL
=============================================================================
