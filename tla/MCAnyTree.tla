----------------------------- MODULE MCAnyTree -----------------------------
(***************************************************************************)
(* Every tree of up to three nodes over literals of each kind and all the  *)
(* operators of enum node_kind, right or wrong for their operands; and     *)
(* every right- or left-leaning sum, product and concatenation of three    *)
(* literals, which is long enough for two forms of constant in one chunk   *)
(* and for a line table that comes back to nothing.                        *)
(***************************************************************************)
EXTENDS Interpreter, MCPrograms

Hash(chars) == Len(chars)

AnyOrder == {<<1, 2, 3>>, <<2, 1, 3>>, <<3, 2, 1>>}

AnyLiteral ==
  {Literal("BOOL", 0, 1), Literal("BOOL", 1, 1), OverTwoLines(Literal("CHAR", 0, 1)),
   Literal("REAL", 1, 2), Literal("INTEGER", 0, 1), Literal("INTEGER", 2, 1),
   StringLiteral(<<1>>), OverTwoLines(StringLiteral(<<1, 2>>))}

SomeLiteral == {Literal("INTEGER", 2, 1), StringLiteral(<<1>>), OverTwoLines(StringLiteral(<<2, 2>>))}

AnyTree ==
  TreesUpTo(3, AnyLiteral, UnaryKinds, BinaryKinds)
    \cup Trees(5, SomeLiteral, {}, {"ADD", "CONCAT"})
=============================================================================
