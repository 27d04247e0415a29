---------------------------- MODULE MCSentences ----------------------------
(***************************************************************************)
(* What grammer.txt says of expressions, on the smallest sequence of       *)
(* tokens for which the parser does something else.                        *)
(***************************************************************************)
EXTENDS Parser

Token(kind, num) ==
  [kind |-> kind, line |-> 1, value |-> Value("INTEGER", num), chars |-> <<>>]

Inequality == {<<Token("LT_INTEGER", 1), Token("OP_NOT_EQUAL_TO", 0), Token("LT_INTEGER", 2)>>}

(* grammer.txt:57-62 lists the operators: an expression made with any of   *)
(* them is parsed, not crashed on.                                         *)
ParsesEverySentence ==
  IsSentence({"KW_NOT", "OP_SUBTRACTION", "OP_ADDITION"}, Operators) => state # "crash"
=============================================================================
