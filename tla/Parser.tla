------------------------------- MODULE Parser -------------------------------
(***************************************************************************)
(* parser.c: precedence climbing over the tokens of one expression.  The   *)
(* functions of the source call each other; their stack is the sequence    *)
(* frames, top first.  A node is finished after its operands, so the tree  *)
(* comes out in the post-order of module Program.                          *)
(***************************************************************************)
EXTENDS Program, FiniteSets

CONSTANTS
  Inputs,     \* token sequences; a token is [kind, line, value, chars]
  INT_BITS    \* width of an INTEGER

Operators == {"OP_ADDITION", "OP_SUBTRACTION", "OP_CONCAT", "OP_MULTIPLICATION", "OP_DIVISION",
              "KW_DIV", "KW_MOD", "OP_EQUAL_TO", "OP_NOT_EQUAL_TO", "OP_GREATER_THAN",
              "OP_GREATER_OR_EQUAL_TO", "OP_LESS_THAN", "OP_LESS_OR_EQUAL_TO", "KW_AND", "KW_OR"}
Literals  == {"LT_CHAR", "LT_TRUE", "LT_FALSE", "LT_INTEGER", "LT_REAL", "LT_STRING"}

(* NO_RULE stands for every kind whose entry of g_RULES is all zero, and   *)
(* BEYOND for the kinds declared after the last entry.                     *)
TokenKinds == Operators \cup Literals
                \cup {"KW_NOT", "OP_PAREN_OPEN", "OP_PAREN_CLOSE", "SP_EOF", "NO_RULE", "BEYOND"}

(* The scanner counts lines from 1.                                        *)
IsInput(tokens) ==
  /\ Len(tokens) \in Nat
  /\ \A i \in 1 .. Len(tokens) : tokens[i].kind \in TokenKinds /\ tokens[i].line \in Nat \ {0}

ASSUME InputsAssumption == \A tokens \in Inputs : IsInput(tokens)

VARIABLES
  input,      \* the tokens
  position,   \* parser->current is token number position
  frames,     \* the functions that are under way, innermost first
  built,      \* the nodes that are finished
  state,      \* "parse", "parsed", "crash": a call through a NULL pointer,
              \* "wild": a rule is read behind the end of g_RULES
  token,      \* history: for each node, the number of its token
  grouped     \* history: the nodes that stood in parentheses

vars == <<input, position, frames, built, state, token, grouped>>

Current == IF position <= Len(input) THEN input[position].kind ELSE "SP_EOF"

-----------------------------------------------------------------------------
(* g_RULES and enum precedence.                                            *)
PRECEDENCE_ASSIGNMENT == 1
PRECEDENCE_UNARY      == 8

HasPrefix(kind) == kind \in Literals \cup {"KW_NOT", "OP_SUBTRACTION", "OP_PAREN_OPEN"}
HasInfix(kind)  == kind \in Operators \ {"OP_NOT_EQUAL_TO"}

Precedence(kind) ==
  CASE kind = "KW_OR"                                                -> 2
    [] kind = "KW_AND"                                               -> 3
    [] kind \in {"OP_EQUAL_TO", "OP_NOT_EQUAL_TO"}                   -> 4
    [] kind \in {"OP_GREATER_OR_EQUAL_TO", "OP_GREATER_THAN",
                 "OP_LESS_OR_EQUAL_TO", "OP_LESS_THAN"}              -> 5
    [] kind \in {"OP_ADDITION", "OP_CONCAT", "OP_SUBTRACTION"}       -> 6
    [] kind \in {"OP_MULTIPLICATION", "OP_DIVISION", "KW_DIV", "KW_MOD"} -> 7
    [] OTHER                                                         -> 0

\* Mutant: a minus sign has the node kind of the binary operator.
UnaryKindOfBinary(kind) == IF kind = "KW_NOT" THEN "NOT" ELSE "SUB"

UnaryKind(kind) == IF kind = "KW_NOT" THEN "NOT" ELSE "NEGATE"

(* g_NODE_KIND.                                                            *)
BinaryKind(kind) ==
  CASE kind = "OP_CONCAT"              -> "CONCAT"
    [] kind = "OP_ADDITION"            -> "ADD"
    [] kind = "KW_AND"                 -> "AND"
    [] kind = "KW_OR"                  -> "OR"
    [] kind = "OP_DIVISION"            -> "DIV"
    [] kind = "KW_DIV"                 -> "INT_DIV"
    [] kind = "OP_MULTIPLICATION"      -> "MUL"
    [] kind = "OP_SUBTRACTION"         -> "SUB"
    [] kind = "KW_MOD"                 -> "MOD"
    [] kind = "OP_EQUAL_TO"            -> "EQUAL"
    [] kind = "OP_GREATER_OR_EQUAL_TO" -> "GREATER_EQUAL"
    [] kind = "OP_GREATER_THAN"        -> "GREATER"
    [] kind = "OP_LESS_OR_EQUAL_TO"    -> "LESS_EQUAL"
    [] kind = "OP_LESS_THAN"           -> "LESS"
    [] kind = "OP_NOT_EQUAL_TO"        -> "NOT_EQUAL"

(* strtoll stops at the largest integer.                                   *)
LARGEST == 2 ^ (INT_BITS - 1) - 1

Saturated(v) == IF v.num > LARGEST THEN Value("INTEGER", LARGEST) ELSE v

(* The node of a literal.  _prefix_char reads a number from a token that   *)
(* starts with a quote, which is 0.                                        *)
LiteralNode(t, n) ==
  LET node(kind, value, chars) ==
        [kind |-> kind, line |-> t.line, value |-> value, chars |-> chars, first |-> n]
  IN  CASE t.kind \in {"LT_TRUE", "LT_FALSE"} -> node("BOOL", Bool(t.kind = "LT_TRUE"), <<>>)
        [] t.kind = "LT_CHAR"    -> node("CHAR", Value("CHAR", 0), <<>>)
        [] t.kind = "LT_INTEGER" -> node("INTEGER", Saturated(t.value), <<>>)
        [] t.kind = "LT_REAL"    -> node("REAL", t.value, <<>>)
        [] t.kind = "LT_STRING"  -> node("STRING", Value("OBJ", 0), t.chars)

-----------------------------------------------------------------------------
(* Frames.  "operand" and "operators" are the two halves of                *)
(* _parse_precedence, "unary", "binary" and "group" what waits for an      *)
(* operand: the token it came from and the first node of its subtree.      *)
Frame(task, precedence, at, first) ==
  [task |-> task, precedence |-> precedence, at |-> at, first |-> first]

Operand(precedence)   == Frame("operand", precedence, 0, 0)
OperatorsOf(precedence) == Frame("operators", precedence, 0, 0)

Init ==
  /\ input \in Inputs
  /\ position = 1
  /\ frames = <<Operand(PRECEDENCE_ASSIGNMENT)>>
  /\ built = <<>> /\ token = <<>> /\ grouped = {}
  /\ state = "parse"

Top  == Head(frames)
Rest == Tail(frames)

At(task) == state = "parse" /\ frames # <<>> /\ Top.task = task

(* The scanner stays at the end of the source once it is there.            *)
\* Mutant: a token is lost.
_advanceTwice == position' = IF position + 1 <= Len(input) THEN position + 2 ELSE Len(input) + 1

_advance == position' = IF position <= Len(input) THEN position + 1 ELSE position

(* _parse_precedence calls the prefix function of the current token.       *)
Literal ==
  /\ At("operand") /\ Current \in Literals
  /\ built' = Append(built, LiteralNode(input[position], Len(built) + 1))
  /\ token' = Append(token, position)
  /\ frames' = <<OperatorsOf(Top.precedence)>> \o Rest
  /\ _advance
  /\ UNCHANGED <<input, state, grouped>>

_unary ==
  /\ At("operand") /\ Current \in {"KW_NOT", "OP_SUBTRACTION"}
  /\ frames' = <<Operand(PRECEDENCE_UNARY),
                 Frame("unary", 0, position, Len(built) + 1),
                 OperatorsOf(Top.precedence)>> \o Rest
  /\ _advance
  /\ UNCHANGED <<input, built, state, token, grouped>>

_group ==
  /\ At("operand") /\ Current = "OP_PAREN_OPEN"
  /\ frames' = <<Operand(PRECEDENCE_ASSIGNMENT),
                 Frame("group", 0, position, Len(built) + 1),
                 OperatorsOf(Top.precedence)>> \o Rest
  /\ _advance
  /\ UNCHANGED <<input, built, state, token, grouped>>

(* The loop of _parse_precedence: another operator, as long as it binds    *)
(* tightly enough; its right operand is one that binds more tightly.       *)
\* Mutant: the right operand may bind as tightly as the operator.
RightOperandAsTight(kind) == Operand(Precedence(kind))

RightOperand(kind) == Operand(Precedence(kind) + 1)

Binds == Top.precedence <= Precedence(Current)

_binary ==
  /\ At("operators") /\ Current # "BEYOND" /\ Binds /\ HasInfix(Current)
  /\ frames' = <<RightOperand(Current),
                 Frame("binary", 0, position, built[Len(built)].first)>> \o frames
  /\ _advance
  /\ UNCHANGED <<input, built, state, token, grouped>>

EndOfOperators ==
  /\ At("operators") /\ Current # "BEYOND" /\ ~Binds
  /\ frames' = Rest
  /\ UNCHANGED <<input, position, built, state, token, grouped>>

(* An operand has been returned to the operator that waited for it.        *)
OperatorNode(kind, at, first) ==
  [kind |-> kind, line |-> input[at].line, value |-> Junk("BOOL"), chars |-> <<>>, first |-> first]

Node ==
  /\ At(Top.task) /\ Top.task \in {"unary", "binary"}
  /\ LET kind == input[Top.at].kind
     IN  built' = Append(built, OperatorNode(
                    IF Top.task = "unary" THEN UnaryKind(kind) ELSE BinaryKind(kind), Top.at, Top.first))
  /\ token' = Append(token, Top.at)
  /\ frames' = Rest
  /\ UNCHANGED <<input, position, state, grouped>>

(* _group takes whatever token comes for the closing parenthesis.          *)
\* Mutant: it skips tokens until the parenthesis comes.
EndOfGroupSkips ==
  /\ At("group")
  /\ grouped' = grouped \cup {Len(built)}
  /\ frames' = IF Current = "OP_PAREN_CLOSE" THEN Rest ELSE frames
  /\ _advance
  /\ UNCHANGED <<input, built, state, token>>

\* Mutant: it leaves the token where it is.
EndOfGroupKeeps ==
  /\ At("group")
  /\ grouped' = grouped \cup {Len(built)}
  /\ frames' = Rest
  /\ UNCHANGED <<input, position, built, state, token>>

EndOfGroup ==
  /\ At("group")
  /\ grouped' = grouped \cup {Len(built)}
  /\ frames' = Rest
  /\ _advance
  /\ UNCHANGED <<input, built, state, token>>

(* parser_parse takes whatever token comes for the end of the file.        *)
parser_parse ==
  /\ state = "parse" /\ frames = <<>>
  /\ state' = "parsed"
  /\ _advance
  /\ UNCHANGED <<input, frames, built, token, grouped>>

(* A prefix or infix function that is NULL is called.                      *)
CallNull ==
  /\ \/ At("operand") /\ ~HasPrefix(Current)
     \/ At("operators") /\ Binds /\ ~HasInfix(Current)
  /\ Current # "BEYOND"
  /\ state' = "crash"
  /\ UNCHANGED <<input, position, frames, built, token, grouped>>

ReadBeyond ==
  /\ At("operand") \/ At("operators")
  /\ Current = "BEYOND"
  /\ state' = "wild"
  /\ UNCHANGED <<input, position, frames, built, token, grouped>>

Ended == state # "parse" /\ UNCHANGED vars

Step ==
  \/ Literal \/ _unary \/ _group \/ _binary \/ EndOfOperators
  \/ Node \/ EndOfGroup \/ parser_parse \/ CallNull \/ ReadBeyond

Next == Step \/ Ended

Spec == Init /\ [][Next]_vars /\ WF_vars(Step)

-----------------------------------------------------------------------------
(* Unary and binary nodes, and the operands of one.                        *)
OperandsOf(n) ==
  CASE built[n].kind \in UnaryKinds  -> {Expr(built, n)}
    [] built[n].kind \in BinaryKinds -> {Lhs(built, n), Rhs(built, n)}
    [] OTHER                         -> {}

(* What a successful parse hands to the compiler is one tree, the only     *)
(* kind of program chunk_write_from_ast is specified for.                  *)
ParsesToTree == state = "parsed" => IsTree(built)

(* An operand that was not parenthesised binds more tightly than its       *)
(* operator, or equally tightly on the left; so operators of one           *)
(* precedence group to the left, and NOT and - take the shortest operand.  *)
BindsByPrecedence ==
  \A n \in DOMAIN built : \A m \in OperandsOf(n) \ grouped :
    built[m].kind \in BinaryKinds =>
      /\ built[n].kind \in BinaryKinds
      /\ LET inner == Precedence(input[token[m]].kind)
             outer == Precedence(input[token[n]].kind)
         IN  IF m = Rhs(built, n) THEN inner > outer ELSE inner >= outer

(***************************************************************************)
(* The expressions of grammer.txt without identifiers, by their tokens:    *)
(* operands and operators alternate, and the parentheses balance.          *)
(***************************************************************************)
Balance(i) ==
  Cardinality({j \in 1 .. i : input[j].kind = "OP_PAREN_OPEN"})
    - Cardinality({j \in 1 .. i : input[j].kind = "OP_PAREN_CLOSE"})

IsSentence(prefixes, infixes) ==
  LET last == Len(input)
      ends(i) == i > 0 /\ input[i].kind \in Literals \cup {"OP_PAREN_CLOSE"}
  IN  /\ last > 0 /\ ends(last) /\ Balance(last) = 0
      /\ \A i \in 1 .. last :
           /\ Balance(i) >= 0
           /\ input[i].kind \in IF ends(i - 1) THEN infixes \cup {"OP_PAREN_CLOSE"}
                                ELSE Literals \cup prefixes \cup {"OP_PAREN_OPEN"}

(* Every sentence made with the operators that have a rule is parsed, and  *)
(* to its end.                                                             *)
Supported == IsSentence({"KW_NOT", "OP_SUBTRACTION"}, Operators \ {"OP_NOT_EQUAL_TO"})

AcceptsSentences ==
  Supported => /\ state \in {"parse", "parsed"}
               /\ frames = <<>> => position = Len(input) + 1

(* Read from left to right the tree has the tokens of the sentence, every  *)
(* one of them and in their order, save the parentheses.                   *)
Subtree(n) == built[n].first .. n

InReadingOrder ==
  /\ \A n \in DOMAIN built :
       /\ built[n].kind \in UnaryKinds => \A m \in Subtree(n) \ {n} : token[n] < token[m]
       /\ built[n].kind \in BinaryKinds =>
            /\ \A m \in Subtree(Lhs(built, n)) : token[m] < token[n]
            /\ \A m \in Subtree(Rhs(built, n)) : token[n] < token[m]
  /\ \A m, n \in DOMAIN token : token[m] = token[n] => m = n
  /\ Supported => \A i \in 1 .. position - 1 :
       \/ input[i].kind \in {"OP_PAREN_OPEN", "OP_PAREN_CLOSE"}
       \/ i \in {token[n] : n \in DOMAIN token} \cup {frames[f].at : f \in DOMAIN frames}

(* Every sequence of tokens, right or wrong, is parsed or given up.        *)
ParseEnds == <>(state # "parse")
=============================================================================
