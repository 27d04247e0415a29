-------------------------------- MODULE Main --------------------------------
(***************************************************************************)
(* main.c from end to end: a text is scanned, parsed into an arena,        *)
(* compiled and run, and the arena is freed.  The scanner depends on       *)
(* nothing but the text, so that all its tokens can be taken before the    *)
(* parser asks for the first one.                                          *)
(***************************************************************************)
EXTENDS Scanner, Arena

CONSTANTS INT_BITS, CAPACITY_INIT, SHORT_LIMIT, TABLE_CAPACITY_INIT, RESULT_BITS,
          StringHash(_), READ_ORDERS

(* As module ChunkOps has them.                                            *)
ASSUME ChunkAssumption == CAPACITY_INIT \in Nat \ {0} /\ SHORT_LIMIT \in 0 .. 512

(* As modules TableOps and Vm have them.                                   *)
ASSUME MachineAssumption ==
  /\ TABLE_CAPACITY_INIT \in Nat \ {0} /\ INT_BITS \in Nat \ {0}
  /\ 2 ^ (INT_BITS - 1) \in Nat \ {0} /\ 2 ^ INT_BITS = 2 * 2 ^ (INT_BITS - 1)
  /\ RESULT_BITS \in Nat /\ RESULT_BITS >= 2 /\ 2 ^ RESULT_BITS \in Nat /\ 2 ^ RESULT_BITS >= 4
  /\ \A order \in READ_ORDERS : order \in [1 .. 3 -> 1 .. 3] /\ {order[k] : k \in 1 .. 3} = 1 .. 3

VARIABLES
  stage,                                                    \* "scan", "parse", "run"
  input, position, frames, built, state, token, grouped,    \* of Parser
  program, work, emitted, chunk, store, phase,              \* of Compiler
  ip, stack, result, printed                                \* of Vm

Ps == INSTANCE Parser WITH Inputs <- {}
It == INSTANCE Interpreter WITH Programs <- {}

parserVars   == <<input, position, frames, built, state, token, grouped>>
compilerVars == <<program, work, emitted>>
sharedVars   == <<chunk, store, phase>>
vmVars       == <<ip, stack, result, printed>>

vars == <<scannerVars, stage, parserVars, arenaVars, compilerVars, sharedVars, vmVars>>

-----------------------------------------------------------------------------
(* What the parser makes of a token.  strtoll and strtod read from the     *)
(* start of the token on; the second goes on behind its end when letters   *)
(* follow that look like an exponent.                                      *)
Digit(c) == CHOOSE d \in 0 .. 9 : <<"0", "1", "2", "3", "4", "5", "6", "7", "8", "9">>[d + 1] = c

Numeral(first, last) ==
  LET upTo[i \in 0 .. last] ==
        IF i < first THEN 0
        ELSE IF Char(i) = "." THEN upTo[i - 1] ELSE 10 * upTo[i - 1] + Digit(Char(i))
  IN  upTo[last]

TenTo(n) ==
  LET power[i \in 0 .. n] == IF i = 0 THEN 1 ELSE 10 * power[i - 1]
  IN  power[n]

(* The digits of an exponent that begins behind a token: its sign and      *)
(* where it ends, or nothing.                                              *)
Signed(i) == Char(i + 1) \in {"+", "-"}
ExponentStart(i) == IF Signed(i) THEN i + 2 ELSE i + 1
HasExponent(i) == Char(i) \in {"e", "E"} /\ Char(ExponentStart(i)) \in Digits

Exponent(i) ==
  LET digits == Numeral(ExponentStart(i), After(ExponentStart(i), Digits) - 1)
  IN  IF Char(i + 1) = "-" THEN -digits ELSE digits

\* Mutant: the exponent is left to the scanner.
strtodToken(t, fraction) == Ps!Real(Numeral(t.first, t.last), TenTo(fraction))

strtod(t, fraction) ==
  LET exponent == IF HasExponent(t.last + 1) THEN Exponent(t.last + 1) - fraction ELSE -fraction
      digits   == Numeral(t.first, t.last)
  IN  IF exponent < 0 THEN Ps!Real(digits, TenTo(-exponent)) ELSE Ps!Real(digits * TenTo(exponent), 1)

Fraction(t) == t.last - (CHOOSE p \in t.first .. t.last : Char(p) = ".")

(* g_RULES ends with KW_OR; other kinds without a rule are alike.          *)
Beyond(kind) ==
  \E i, j \in DOMAIN Keywords : Keywords[i] = "OR" /\ i < j /\ kind = "KW_" \o Keywords[j]

RuleOf(kind) ==
  IF kind \in Ps!TokenKinds THEN kind ELSE IF Beyond(kind) THEN "BEYOND" ELSE "NO_RULE"

(* The chars of a STRING are those of the token, its quotes included.      *)
ParserToken(t) ==
  [kind  |-> RuleOf(t.kind), line |-> t.line,
   value |-> CASE t.kind = "LT_INTEGER" -> Ps!Value("INTEGER", Numeral(t.first, t.last))
               [] t.kind = "LT_REAL"    -> strtod(t, Fraction(t))
               [] OTHER                 -> Ps!Junk("BOOL"),
   chars |-> IF t.kind = "LT_STRING" THEN SubSeq(text, t.first, t.last) ELSE <<>>]

-----------------------------------------------------------------------------
Init ==
  /\ ScannerInit /\ stage = "scan"
  /\ ast_arena_new
  /\ input = <<>> /\ position = 1 /\ frames = <<Ps!Operand(Ps!PRECEDENCE_ASSIGNMENT)>>
  /\ built = <<>> /\ token = <<>> /\ grouped = {} /\ state = "parse"
  /\ program = <<>> /\ work = <<>> /\ emitted = <<>>
  /\ chunk = It!chunk_init /\ store = It!EmptyStore /\ phase = "compile"
  /\ It!VmInit

Scan ==
  /\ stage = "scan" /\ interpret
  /\ UNCHANGED <<stage, parserVars, arenaVars, compilerVars, sharedVars, vmVars>>

parser_init ==
  /\ stage = "scan" /\ Scanned
  /\ stage' = "parse"
  /\ input' = [n \in 1 .. Len(tokens) - 1 |-> ParserToken(tokens[n])]
  /\ UNCHANGED <<scannerVars, position, frames, built, state, token, grouped,
                 arenaVars, compilerVars, sharedVars, vmVars>>

(***************************************************************************)
(* The parser and its arena; a node is known there by the number of its    *)
(* token.  A literal is made and filled at once, an operator is made before*)
(* its (right) operand and filled in after it.                             *)
(***************************************************************************)
Children(nodes, n) ==
  CASE nodes[n].kind \in Ps!UnaryKinds  -> <<Ps!Expr(nodes, n)>>
    [] nodes[n].kind \in Ps!BinaryKinds -> <<Ps!Lhs(nodes, n), Ps!Rhs(nodes, n)>>
    [] OTHER                            -> <<>>

Cell(kind, ln, operands) == [kind |-> kind, line |-> ln, operands |-> operands]

UNSET == Cell("UNSET", 0, <<>>)

Filled(nodes, n) ==
  LET operands == Children(nodes, n)
  IN  Cell(nodes[n].kind, nodes[n].line, [k \in DOMAIN operands |-> made[token[operands[k]]]])

ParserStep ==
  \/ Ps!Literal /\ ast_arena_make(position, Filled(built', Len(built')))
  \/ Ps!_unary /\ ast_arena_make(position, Cell(Ps!UnaryKind(Ps!Current), input[position].line, <<>>))
  \/ Ps!_binary /\ ast_arena_make(position, UNSET)
  \/ Ps!Node /\ Store(Ps!Top.at, Filled(built', Len(built')))
  \/ /\ \/ Ps!_group \/ Ps!EndOfOperators \/ Ps!EndOfGroup
        \/ Ps!parser_parse \/ Ps!CallNull \/ Ps!ReadBeyond
     /\ UNCHANGED arenaVars

Parse ==
  /\ stage = "parse" /\ ParserStep
  /\ UNCHANGED <<scannerVars, stage, compilerVars, sharedVars, vmVars>>

chunk_write_from_ast ==
  /\ stage = "parse" /\ state = "parsed"
  /\ stage' = "run"
  /\ program' = built /\ work' = <<It!Visit(Len(built))>>
  /\ UNCHANGED <<scannerVars, parserVars, arenaVars, emitted, sharedVars, vmVars>>

Run ==
  /\ stage = "run"
  /\ \/ It!Compile /\ UNCHANGED vmVars
     \/ It!Execute /\ UNCHANGED compilerVars
  /\ UNCHANGED <<scannerVars, stage, parserVars, arenaVars>>

Free ==
  /\ phase = "returned" /\ ast_arena_free
  /\ UNCHANGED <<scannerVars, stage, parserVars, compilerVars, sharedVars, vmVars>>

Over ==
  \/ state \in {"crash", "wild"} \/ phase \in {"trap", "wild"}
  \/ phase = "returned" /\ arena.blocks = NULL

Ended == Over /\ UNCHANGED vars

Step == Scan \/ parser_init \/ Parse \/ chunk_write_from_ast \/ Run \/ Free

Next == Step \/ Ended

(* One thread that waits for nothing.                                      *)
Spec == Init /\ [][Next]_vars /\ WF_vars(Step)

-----------------------------------------------------------------------------
(***************************************************************************)
(* The value of the tokens i .. j of a sentence, said without a parser:    *)
(* split at the last of the operators that bind least, outside all         *)
(* parentheses; failing that, apply the prefix operator; failing that,     *)
(* take off the parentheses.  UNSUPPORTED is the value of an operator on   *)
(* operands the machine was not written for.                               *)
(***************************************************************************)
UNSUPPORTED == It!Ref!Meant([kind |-> "NONE", num |-> 0, den |-> 1])

Splits(i, j) ==
  {k \in i + 1 .. j - 1 : /\ input[k].kind \in Ps!Operators
                          /\ input[k - 1].kind \in Ps!Literals \cup {"OP_PAREN_CLOSE"}
                          /\ Ps!Balance(k) = Ps!Balance(i - 1)}

Root(splits) ==
  CHOOSE k \in splits : \A l \in splits :
    \/ Ps!Precedence(input[k].kind) < Ps!Precedence(input[l].kind)
    \/ Ps!Precedence(input[k].kind) = Ps!Precedence(input[l].kind) /\ l <= k

LiteralValue(k) ==
  LET t == tokens[k]
      number == Numeral(t.first, t.last)
  IN  CASE t.kind \in {"LT_TRUE", "LT_FALSE"} -> It!Ref!Meant(It!Bool(t.kind = "LT_TRUE"))
        [] t.kind = "LT_INTEGER" /\ It!Ref!Fits(number) -> It!Ref!Meant(It!Value("INTEGER", number))
        [] t.kind = "LT_REAL"   -> It!Ref!Meant(It!Real(number, TenTo(Fraction(t))))
        [] t.kind = "LT_STRING" -> It!Ref!MeantString(SubSeq(text, t.first + 1, t.last - 1))
        [] OTHER                -> UNSUPPORTED

Checked(supported, meaning) == IF supported THEN meaning ELSE UNSUPPORTED

Meaning(last) ==
  LET of[span \in (1 .. last) \X (1 .. last)] ==
        LET i == span[1]  j == span[2]  splits == Splits(i, j)
        IN  IF i > j THEN UNSUPPORTED
            ELSE IF splits # {}
            THEN LET k == Root(splits)  kind == Ps!BinaryKind(input[k].kind)
                     a == of[<<i, k - 1>>]  b == of[<<k + 1, j>>]
                 IN  Checked(It!Ref!SupportedBinary(kind, a, b), It!Ref!BinaryMeaning(kind, a, b))
            ELSE IF i = j THEN LiteralValue(i)
            ELSE IF input[i].kind = "OP_PAREN_OPEN" THEN of[<<i + 1, j - 1>>]
            ELSE LET kind == Ps!UnaryKind(input[i].kind)  a == of[<<i + 1, j>>]
                 IN  Checked(It!Ref!SupportedUnary(kind, a), It!Ref!UnaryMeaning(kind, a))
  IN  of[<<1, last>>]

(* A text that is a sentence and has a value prints that value, and no     *)
(* more: scanner, parser, compiler and machine agree on it.  A string's    *)
(* value is what stands between its quotes.                                *)
PrintsTheText ==
  Over /\ Ps!Supported =>
    LET meaning == Meaning(Len(input))
    IN  meaning # UNSUPPORTED =>
          /\ phase = "returned" /\ result = It!INTERPRET_RESULT_OK
          /\ Len(printed) = 1 /\ It!Ref!SameMeaning(It!Denoted(printed[1]), meaning)

(* The tree is in the arena as it was built: every finished node is in its *)
(* cell, which no other node has written to, and points to the cells of    *)
(* its operands.                                                           *)
TreeInArena ==
  Open => \A n \in DOMAIN built : cells[made[token[n]]] = Filled(built, n)

(* Every token has its line, and every byte of an instruction that of the  *)
(* token it was compiled from, which four components pass on.              *)
LinesOfText ==
  /\ LinesOfTokens
  /\ \A n \in DOMAIN emitted :
       LET source == emitted[n].node
       IN  \A offset \in emitted[n].offset .. It!NextOffset(n) - 1 :
             It!GetLine(chunk.lines, offset) =
               IF source = It!ROOT THEN It!RETURN_LINE ELSE LineOf(tokens[token[source]])

(* A number has the value its digits say, but that an INTEGER ends at the  *)
(* largest one, and that the parser reads the exponent behind a REAL, which*)
(* the scanner takes for the next token.                                   *)
NumbersAreTheirDigits ==
  \A n \in DOMAIN built :
    LET t == tokens[token[n]]
        value == built[n].value
        digits == Numeral(t.first, t.last)
        scaled == HasExponent(t.last + 1) /\ Exponent(t.last + 1) # 0
    IN  /\ built[n].kind = "REAL" /\ digits # 0 =>
             (value.num * TenTo(Fraction(t)) = digits * value.den <=> ~scaled)
        /\ built[n].kind = "INTEGER" => value.num = IF digits > Ps!LARGEST THEN Ps!LARGEST ELSE digits

(* Whatever the text, scanner, parser and machine come to an end.          *)
EveryTextEnds == <>Over
=============================================================================
