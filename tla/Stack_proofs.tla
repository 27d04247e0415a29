---------------------------- MODULE Stack_proofs ----------------------------
(***************************************************************************)
(* The stack in memory implements the abstract one, whatever its values,   *)
(* its first capacity and the depth it is driven to.                       *)
(***************************************************************************)
EXTENDS Stack, TLAPS

USE DEF NULL_BLOCK

(* Every step of the code keeps top inside the block it points into.       *)
LEMMA NextPreservesIInv == IInv /\ [Next]_vars => IInv'
<1> SUFFICES ASSUME IInv, [Next]_vars PROVE IInv'
  OBVIOUS
<1> USE StackCapacityAssumption, MaxDepthAssumption DEF IInv, TypeOK, TopInBlock
<1>1. ASSUME NEW v \in Values, PutInPlace(v) PROVE IInv'
  BY <1>1 DEF PutInPlace, Full
<1>2. ASSUME NEW v \in Values, PutGrowing(v) PROVE IInv'
  <2>1. PICK b \in {block, block + 1} :
          /\ phase = "live" /\ Full
          /\ block' = b
          /\ capacity' = 2 * capacity
          /\ cells' = [k \in 0 .. 2 * capacity - 1 |->
                         IF k = top.index THEN v ELSE IF k < capacity THEN cells[k] ELSE UNSET]
          /\ top' = [block |-> b, index |-> top.index + 1]
          /\ UNCHANGED <<returned, phase>>
    BY <1>2 DEF PutGrowing, Rebased
  <2>2. top.index = capacity
    BY <2>1 DEF Full
  <2>3. cells' \in [0 .. capacity' - 1 -> Values \cup {UNSET}]
    BY <2>1
  <2>4. \A k \in 0 .. top'.index - 1 : cells'[k] \in Values
    BY <2>1, <2>2
  <2> QED
    BY <2>1, <2>2, <2>3, <2>4
<1>3. ASSUME NEW v \in Values, Replace(v) PROVE IInv'
  BY <1>3 DEF Replace
<1>4. CASE Pop
  BY <1>4 DEF Pop
<1>5. CASE UseHeader
  BY <1>5 DEF UseHeader
<1>6. CASE stack_reset
  BY <1>6 DEF stack_reset
<1>7. CASE stack_free
  BY <1>7 DEF stack_free
<1>8. CASE UNCHANGED vars
  BY <1>8 DEF vars
<1> QED
  BY <1>1, <1>2, <1>3, <1>4, <1>5, <1>6, <1>7, <1>8 DEF Next, Ended

LEMMA InitIInv == stack_init => IInv
BY StackCapacityAssumption DEF stack_init, IInv, TypeOK, TopInBlock

(* TopInBlock holds in every state: no growth leaves top behind.           *)
THEOREM StackTopInBlock == Spec => []IInv
<1> QED
  BY InitIInv, NextPreservesIInv, PTL DEF Spec

-----------------------------------------------------------------------------
(* The contents after a put, a pop and a write through top[-1].            *)
LEMMA LiveContents ==
  ASSUME IInv, phase = "live"
  PROVE  /\ Contents = [k \in 1 .. top.index |-> cells[k - 1]]
         /\ Contents \in Seq(Values)
         /\ Len(Contents) = top.index
BY DEF IInv, TypeOK, TopInBlock, Contents

LEMMA AppendIsFunction ==
  ASSUME NEW S, NEW s \in Seq(S), NEW e \in S, NEW n \in Nat, Len(s) + 1 = n
  PROVE  Append(s, e) = [k \in 1 .. n |-> IF k = n THEN e ELSE s[k]]
<1>1. PICK t : t = Append(s, e)
  OBVIOUS
<1>2. t \in Seq(S) /\ Len(t) = n
  BY <1>1
<1>3. t = [k \in 1 .. n |-> t[k]]
  BY <1>2
<1>4. \A k \in 1 .. n : t[k] = IF k = n THEN e ELSE s[k]
  BY <1>1
<1> QED
  BY <1>1, <1>3, <1>4

LEMMA PutAppends ==
  ASSUME IInv, NEW v \in Values, PutInPlace(v) \/ PutGrowing(v)
  PROVE  Abstract!LifoPut(v)
<1>1. /\ phase = "live" /\ phase' = "live" /\ returned' = returned
      /\ top'.index = top.index + 1
      /\ cells'[top.index] = v
      /\ \A k \in 0 .. top.index - 1 : cells'[k] = cells[k]
  <2>1. CASE PutInPlace(v)
    BY <2>1 DEF PutInPlace, Full, IInv, TypeOK, TopInBlock
  <2>2. CASE PutGrowing(v)
    <3>1. PICK b \in {block, block + 1} :
            /\ phase = "live" /\ Full
            /\ cells' = [k \in 0 .. 2 * capacity - 1 |->
                           IF k = top.index THEN v ELSE IF k < capacity THEN cells[k] ELSE UNSET]
            /\ top' = [block |-> b, index |-> top.index + 1]
            /\ UNCHANGED <<returned, phase>>
      BY <2>2 DEF PutGrowing, Rebased
    <3>2. top.index = capacity /\ capacity \in Nat \ {0}
      BY <3>1 DEF Full, IInv, TypeOK, TopInBlock
    <3> QED
      BY <3>1, <3>2
  <2> QED
    BY <2>1, <2>2
<1>2. Contents' = [k \in 1 .. top.index + 1 |-> cells'[k - 1]]
  BY <1>1 DEF Contents
<1>3. Contents' = Append(Contents, v)
  <2>1. top.index \in Nat
    BY DEF IInv, TypeOK
  <2>2. Append(Contents, v)
          = [k \in 1 .. top.index + 1 |-> IF k = top.index + 1 THEN v ELSE Contents[k]]
    BY <1>1, <2>1, LiveContents, AppendIsFunction
  <2>3. ASSUME NEW k \in 1 .. top.index + 1
        PROVE  cells'[k - 1] = IF k = top.index + 1 THEN v ELSE Contents[k]
    <3>1. Contents = [j \in 1 .. top.index |-> cells[j - 1]]
      BY <1>1, LiveContents
    <3>2. CASE k = top.index + 1
      BY <1>1, <2>1, <3>2
    <3>3. CASE k \in 1 .. top.index
      BY <1>1, <2>1, <3>1, <3>3
    <3> QED
      BY <2>1, <3>2, <3>3
  <2> QED
    BY <1>2, <2>2, <2>3
<1> QED
  BY <1>1, <1>3 DEF Abstract!LifoPut

LEMMA LiveBelow ==
  ASSUME IInv, phase = "live", top.index > 0
  PROVE  /\ Contents # <<>>
         /\ Abstract!Below = [k \in 1 .. top.index - 1 |-> cells[k - 1]]
         /\ Abstract!Below \in Seq(Values)
         /\ Len(Abstract!Below) = top.index - 1
         /\ Contents[Len(Contents)] = cells[top.index - 1]
<1>1. top.index \in Nat
  BY DEF IInv, TypeOK
<1>2. \A k \in 1 .. top.index : Contents[k] = cells[k - 1]
  BY LiveContents
<1>3. Abstract!Below = [k \in 1 .. top.index - 1 |-> Contents[k]]
  BY <1>1, LiveContents DEF Abstract!Below
<1> QED
  BY <1>1, <1>2, <1>3, LiveContents

(* Every step of the code is a step of the abstract stack, or none at all. *)
LEMMA NextImplements ==
  ASSUME IInv, IInv', [Next]_vars
  PROVE  [Abstract!LifoNext]_(Abstract!lifoVars)
<1> USE DEF Abstract!LifoNext, Abstract!lifoVars
<1>0. top.index \in Nat
  BY DEF IInv, TypeOK
<1>1. ASSUME NEW v \in Values, PutInPlace(v) \/ PutGrowing(v) PROVE Abstract!LifoNext
  BY <1>1, PutAppends
<1>2. ASSUME NEW v \in Values, Replace(v) PROVE Abstract!LifoNext
  <2>1. /\ phase = "live" /\ phase' = "live" /\ returned' = returned
        /\ top' = top /\ top.index > 0
        /\ cells'[top.index - 1] = v
        /\ \A k \in 0 .. top.index - 2 : cells'[k] = cells[k]
    BY <1>2 DEF Replace, IInv, TypeOK, TopInBlock
  <2>2. Contents' = [k \in 1 .. top.index |-> cells'[k - 1]]
    BY <2>1 DEF Contents
  <2>3. Append(Abstract!Below, v)
          = [k \in 1 .. top.index |-> IF k = top.index THEN v ELSE cells[k - 1]]
    <3>1. PICK s : s = Abstract!Below
      OBVIOUS
    <3>2. s \in Seq(Values) /\ Len(s) + 1 = top.index
      BY <1>0, <2>1, <3>1, LiveBelow
    <3>3. \A k \in 1 .. top.index - 1 : s[k] = cells[k - 1]
      BY <1>0, <2>1, <3>1, LiveBelow
    <3>4. Append(s, v) = [k \in 1 .. top.index |-> IF k = top.index THEN v ELSE s[k]]
      BY <1>0, <3>2, AppendIsFunction
    <3> QED
      BY <1>0, <3>1, <3>3, <3>4
  <2>4. Contents' = Append(Abstract!Below, v)
    BY <1>0, <2>1, <2>2, <2>3
  <2> QED
    BY <2>1, <2>4, LiveBelow DEF Abstract!LifoReplace
<1>3. CASE Pop
  <2>1. /\ phase = "live" /\ phase' = "live" /\ cells' = cells /\ top.index > 0
        /\ top'.index = top.index - 1
        /\ returned' = cells[top.index - 1]
    BY <1>3 DEF Pop, IInv, TypeOK
  <2>2. Contents' = [k \in 1 .. top.index - 1 |-> cells[k - 1]]
    BY <2>1 DEF Contents
  <2> QED
    BY <2>1, <2>2, LiveBelow DEF Abstract!LifoPop
<1>4. CASE UseHeader
  <2>1. Contents = <<>> /\ Contents' = <<>>
    BY <1>0, <1>4, LiveContents DEF UseHeader, Contents
  <2> QED
    BY <1>4, <2>1 DEF UseHeader, Abstract!LifoMisuse
<1>5. CASE stack_reset
  <2>1. Contents' = <<>>
    BY <1>5 DEF stack_reset, Contents
  <2> QED
    BY <1>5, <2>1 DEF stack_reset, Abstract!LifoReset
<1>6. CASE stack_free
  BY <1>6 DEF stack_free, Contents, Abstract!LifoFree
<1>7. CASE UNCHANGED vars
  BY <1>7 DEF vars, Contents
<1> QED
  BY <1>1, <1>2, <1>3, <1>4, <1>5, <1>6, <1>7 DEF Next, Ended

LEMMA InitImplements == stack_init => Abstract!LifoInit
BY DEF stack_init, Abstract!LifoInit, Contents, NOTHING, Abstract!NOTHING

(* The value stack in memory behaves like a stack: put, pop, reset and the *)
(* write through top[-1], across every growth of its block (ImplementsLifo).*)
THEOREM StackImplementsLifo == Spec => ImplementsLifo
<1>1. Spec => []IInv
  BY StackTopInBlock
<1>2. IInv /\ IInv' /\ [Next]_vars => [Abstract!LifoNext]_(Abstract!lifoVars)
  BY NextImplements
<1> QED
  BY <1>1, <1>2, InitImplements, PTL DEF Spec, ImplementsLifo, Abstract!LifoSpec
=============================================================================
