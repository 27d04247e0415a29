------------------------------- MODULE MCWide -------------------------------
(***************************************************************************)
(* One chunk with the limits of the source: the sum of more literals than  *)
(* a byte can index, 1 + 2 + 3 + ..., grouped to the left.                 *)
(***************************************************************************)
EXTENDS Interpreter, MCPrograms

CONSTANT LITERALS   \* how many literals are added up

Hash(chars) == Len(chars)

InOrder == {<<1, 2, 3>>}

Sum ==
  [n \in 1 .. 2 * LITERALS - 1 |->
     IF n = 1 THEN Literal("INTEGER", 1, 1)
     ELSE IF n % 2 = 0 THEN [Literal("INTEGER", n \div 2 + 1, 1) EXCEPT !.first = n]
     ELSE Operator("ADD", 1, 1)]

WideSum == {Sum}
=============================================================================
