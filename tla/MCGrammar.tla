----------------------------- MODULE MCGrammar -----------------------------
(***************************************************************************)
(* What grammer.txt and enum interpret_result say of the program, on the   *)
(* smallest expressions for which the code does something else.            *)
(***************************************************************************)
EXTENDS Interpreter, MCPrograms

Hash(chars) == Len(chars)

InOrder == {<<1, 2, 3>>}

Whole(n) == Literal("INTEGER", n, 1)

Negation  == {Unary("NEGATE", <<Whole(5)>>)}
TwoAndOne == {Binary("GREATER_EQUAL", <<Whole(2)>>, <<Whole(1)>>)}

(* vm_interpret is declared to return an enum interpret_result             *)
(* (include/vm.h:16-20): one of its three members.                         *)
ResultIsAResultCode ==
  result \in {INTERPRET_RESULT_OK, INTERPRET_RESULT_COMPILE_ERROR, INTERPRET_RESULT_RUNTIME_ERROR}

(* grammer.txt:61 has ">=" among the operators: what is printed for it is  *)
(* whether its operands stand in that relation.                            *)
Relation ==
  program[Lhs(program, Len(program))].value.num >= program[Rhs(program, Len(program))].value.num

PrintsTheRelation == phase = "returned" => printed = <<Bool(Relation)>>
=============================================================================
