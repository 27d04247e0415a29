----------------------------- MODULE Reference -----------------------------
(***************************************************************************)
(* What an expression means, said without a machine: the meaning of each   *)
(* node from the meanings of its operands.  Meanings are values, but the   *)
(* meaning of a STRING is what stands between the quotes of its token.     *)
(* Only programs are given a meaning whose operators the compiler and the  *)
(* machine carry out on operands of the kinds they were written for;       *)
(* Supported says which these are.                                         *)
(***************************************************************************)
EXTENDS Program

CONSTANT INT_BITS

Meant(v)    == [value |-> v, chars |-> <<>>]
MeantString(chars) == [value |-> Value("OBJ", 0), chars |-> chars]

Kind(m) == m.value.kind
Num(m)  == m.value.num
Den(m)  == m.value.den

(* Each character between the first and the last.                          *)
Unquoted(chars) == [i \in 1 .. Len(chars) - 2 |-> chars[i + 1]]

LiteralMeaning(node) ==
  IF node.kind = "STRING" THEN MeantString(Unquoted(node.chars)) ELSE Meant(node.value)

UnaryMeaning(kind, a) ==
  CASE kind = "NOT"    -> Meant(Bool(Num(a) = 0))
    [] kind = "NEGATE" -> Meant(Real(-Num(a), Den(a)))
    [] OTHER           -> a

(* The sign of an integer quotient, and the quotient rounded towards zero. *)
Quotient(m, n) ==
  LET magnitude == (IF m < 0 THEN -m ELSE m) \div (IF n < 0 THEN -n ELSE n)
  IN  IF m * n < 0 THEN -magnitude ELSE magnitude

SumOf(a, b)  == [num |-> Num(a) * Den(b) + Num(b) * Den(a), den |-> Den(a) * Den(b)]
Product(a, b) == [num |-> Num(a) * Num(b), den |-> Den(a) * Den(b)]
Over(a, b)   ==
  LET sign == IF Num(b) < 0 THEN -1 ELSE 1
  IN  [num |-> sign * Num(a) * Den(b), den |-> sign * Den(a) * Num(b)]

MeantNumber(kind, f) == Meant([kind |-> kind, num |-> f.num, den |-> f.den])

BinaryMeaning(kind, a, b) ==
  LET left == Num(a) * Den(b)  right == Num(b) * Den(a)
  IN  CASE kind = "ADD"        -> MeantNumber(Kind(a), SumOf(a, b))
        [] kind = "MUL"        -> MeantNumber(Kind(a), Product(a, b))
        [] kind = "DIV"        -> MeantNumber("REAL", Over(a, b))
        [] kind = "INT_DIV"    -> Meant(Value("INTEGER", Quotient(Num(a), Num(b))))
        [] kind = "CONCAT"     -> MeantString(a.chars \o b.chars)
        [] kind = "EQUAL"      -> Meant(Bool(left = right))
        [] kind = "LESS"       -> Meant(Bool(left < right))
        [] kind = "LESS_EQUAL" -> Meant(Bool(~(right < left)))
        [] kind = "GREATER"    -> Meant(Bool(right < left))
        [] OTHER               -> a

Meaning(program) ==
  LET m[n \in DOMAIN program] ==
        LET node == program[n]
        IN  IF node.kind \in LiteralKinds THEN LiteralMeaning(node)
            ELSE IF node.kind \in UnaryKinds
            THEN UnaryMeaning(node.kind, m[Expr(program, n)])
            ELSE BinaryMeaning(node.kind, m[Lhs(program, n)], m[Rhs(program, n)])
  IN  m

SameMeaning(a, b) ==
  /\ Kind(a) = Kind(b) /\ a.chars = b.chars
  /\ Kind(a) # "OBJ" => Num(a) * Den(b) = Num(b) * Den(a)

-----------------------------------------------------------------------------
Fits(n) == -(2 ^ (INT_BITS - 1)) <= n /\ n < 2 ^ (INT_BITS - 1)

BothOf(a, b, kinds) == Kind(a) \in kinds /\ Kind(b) = Kind(a)

SupportedUnary(kind, a) ==
  \/ kind = "NOT" /\ Kind(a) = "BOOL"
  \/ kind = "NEGATE" /\ Kind(a) = "REAL"
  \/ kind = "GROUP"

(* EQUAL is left out for numbers, chars and strings: see Vm.Equal.         *)
SupportedBinary(kind, a, b) ==
  CASE kind \in {"ADD", "MUL"} ->
         /\ BothOf(a, b, {"REAL", "INTEGER"})
         /\ Kind(a) = "INTEGER" => Fits(Num(BinaryMeaning(kind, a, b)))
    [] kind = "DIV"     -> BothOf(a, b, {"REAL"}) /\ Num(b) # 0
    [] kind = "INT_DIV" -> BothOf(a, b, {"INTEGER"}) /\ Num(b) # 0 /\ Fits(Quotient(Num(a), Num(b)))
    [] kind = "CONCAT"  -> BothOf(a, b, {"OBJ"})
    [] kind = "EQUAL"   -> BothOf(a, b, {"BOOL"})
    [] kind \in {"LESS", "LESS_EQUAL", "GREATER"} -> BothOf(a, b, {"BOOL", "CHAR", "REAL", "INTEGER"})
    [] OTHER            -> FALSE

Supported(program) ==
  LET m == Meaning(program)
  IN  \A n \in DOMAIN program :
        LET node == program[n]
        IN  \/ node.kind \in LiteralKinds
            \/ node.kind \in UnaryKinds /\ SupportedUnary(node.kind, m[Expr(program, n)])
            \/ node.kind \in BinaryKinds
                 /\ SupportedBinary(node.kind, m[Lhs(program, n)], m[Rhs(program, n)])
=============================================================================
