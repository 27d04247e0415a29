----------------------------- MODULE MCMeaning -----------------------------
(***************************************************************************)
(* Trees of up to five nodes, on the build that reads an operand from left *)
(* to right: all those over numbers and truth values, and those with a     *)
(* string in them that the compiler and the machine support.               *)
(***************************************************************************)
EXTENDS Interpreter, MCPrograms

Hash(chars) == Len(chars)

InOrder == {<<1, 2, 3>>}

NumberLiteral ==
  {Literal("BOOL", 1, 1), Literal("CHAR", 0, 1), Literal("REAL", 1, 2), Literal("INTEGER", 3, 1)}
TextLiteral == {StringLiteral(<<1>>), StringLiteral(<<1, 2>>), Literal("BOOL", 1, 1)}

Unaries  == {"NOT", "NEGATE"}
Binaries == {"ADD", "MUL", "DIV", "INT_DIV", "EQUAL", "GREATER", "LESS_EQUAL"}

SupportedTree ==
  TreesUpTo(4, NumberLiteral, Unaries, Binaries)
    \cup {p \in Trees(5, NumberLiteral, Unaries, Binaries \cup {"LESS"}) : Ref!Supported(p)}
    \cup {p \in TreesUpTo(5, TextLiteral, {"NOT", "GROUP"}, {"CONCAT", "EQUAL"}) : Ref!Supported(p)}
=============================================================================
