------------------------------ MODULE MCParser ------------------------------
(***************************************************************************)
(* Short sequences of arbitrary tokens, right or wrong; the sentences of   *)
(* up to seven tokens over operators of three precedences, both unary      *)
(* operators and parentheses; and chains of every operator there is.       *)
(***************************************************************************)
EXTENDS Parser

CONSTANTS
  ARBITRARY,   \* the longest sequence of arbitrary tokens
  SENTENCE,    \* the longest sentence
  CHAIN        \* how many literals the chains of operators join

Token(kind) == [kind |-> kind, line |-> 1, value |-> Value("INTEGER", 9), chars |-> <<>>]

AnyKind == {"LT_INTEGER", "LT_CHAR", "OP_SUBTRACTION", "OP_MULTIPLICATION", "OP_NOT_EQUAL_TO",
            "OP_ADDITION", "KW_NOT", "OP_PAREN_OPEN", "OP_PAREN_CLOSE", "NO_RULE", "BEYOND"}

AnyTokens == UNION {[1 .. n -> {Token(kind) : kind \in AnyKind}] : n \in 0 .. ARBITRARY}

RECURSIVE Sentences(_)
Sentences(length) ==
  IF length = 1 THEN {<<Token("LT_INTEGER")>>}
  ELSE {<<Token(u)>> \o s : u \in {"KW_NOT", "OP_SUBTRACTION"}, s \in Sentences(length - 1)}
    \cup UNION {{s \o <<Token(op)>> \o t : op \in {"OP_SUBTRACTION", "OP_MULTIPLICATION", "KW_OR"},
                                          s \in Sentences(k), t \in Sentences(length - 1 - k)}
                  : k \in 1 .. length - 2}
    \cup IF length < 3 THEN {}
         ELSE {<<Token("OP_PAREN_OPEN")>> \o s \o <<Token("OP_PAREN_CLOSE")>>
                 : s \in Sentences(length - 2)}

(* literal operator literal operator ... literal                           *)
Chains ==
  {[i \in 1 .. 2 * CHAIN - 1 |->
      IF i % 2 = 1 THEN Token("LT_INTEGER") ELSE Token(operators[i \div 2])] :
        operators \in [1 .. CHAIN - 1 -> Operators]}

AnyInput == AnyTokens \cup UNION {Sentences(n) : n \in 1 .. SENTENCE} \cup Chains
=============================================================================
