------------------------------ MODULE Program ------------------------------
(***************************************************************************)
(* The expression trees the parser hands to the compiler (struct ast,      *)
(* include/ast.h).  A tree is the sequence of its nodes in post-order, so  *)
(* an operator comes right after its last operand, the root is the last    *)
(* node, and a subtree is an interval.  A node has its kind and line, the  *)
(* value of a literal (the chars of a STRING), and the position of the     *)
(* first node of its subtree, from which its operands follow.              *)
(***************************************************************************)
EXTENDS Bytecode, Sequences

LiteralKinds == {"BOOL", "CHAR", "REAL", "INTEGER", "STRING"}
UnaryKinds   == {"NOT", "NEGATE", "POINTER", "GROUP"}
BinaryKinds  == {"ADD", "SUB", "MUL", "DIV", "INT_DIV", "MOD", "AND", "OR", "CONCAT",
                 "EQUAL", "NOT_EQUAL", "GREATER", "GREATER_EQUAL", "LESS", "LESS_EQUAL"}
NodeKinds    == LiteralKinds \cup UnaryKinds \cup BinaryKinds

(* ast->as.expr and ast->as.binary of node n.                              *)
Expr(program, n) == n - 1
Rhs(program, n)  == n - 1
Lhs(program, n)  == program[n - 1].first - 1

(* A tree: every node has the operands its kind asks for.                  *)
IsTree(program) ==
  /\ Len(program) > 0
  /\ program[Len(program)].first = 1
  /\ \A n \in 1 .. Len(program) :
       LET node == program[n]
       IN  /\ node.kind \in NodeKinds
           /\ node.line \in Nat \ {0}
           /\ node.first \in 1 .. n
           /\ node.kind \in LiteralKinds => node.first = n
           /\ node.kind \in UnaryKinds => n > 1 /\ node.first = program[n - 1].first
           /\ node.kind \in BinaryKinds =>
                /\ n > 1
                /\ program[n - 1].first > 1
                /\ node.first = program[program[n - 1].first - 1].first
=============================================================================
