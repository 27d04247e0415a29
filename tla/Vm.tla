--------------------------------- MODULE Vm ---------------------------------
(***************************************************************************)
(* vm.c: the loop of _run, one instruction per step.  The value stack is a *)
(* sequence, top last; the memory it lives in is module Stack.             *)
(***************************************************************************)
EXTENDS Session

CONSTANTS
  INT_BITS,     \* width of an INTEGER (64 in the source)
  RESULT_BITS,  \* width of the unsigned type of enum interpret_result (32)
  READ_ORDERS   \* the orders in which a build reads the operand of CONSTANT_LONG

ASSUME IntBitsAssumption == INT_BITS \in Nat \ {0}
(* What the proofs use of the powers of two.                               *)
ASSUME PowersAssumption ==
  2 ^ (INT_BITS - 1) \in Nat \ {0} /\ 2 ^ INT_BITS = 2 * 2 ^ (INT_BITS - 1)
ASSUME ResultBitsAssumption ==
  RESULT_BITS \in Nat /\ RESULT_BITS >= 2 /\ 2 ^ RESULT_BITS \in Nat /\ 2 ^ RESULT_BITS >= 4
ASSUME ReadOrdersAssumption ==
  \A order \in READ_ORDERS : order \in [1 .. 3 -> 1 .. 3] /\ {order[k] : k \in 1 .. 3} = 1 .. 3

VARIABLES
  ip,        \* vm->ip, as an offset into the code
  stack,     \* the values between vm->stack->values and vm->stack->top
  result,    \* what _run returned
  printed    \* the values OPCODE_RETURN printed

vmVars == <<ip, stack, result, printed>>

(* enum interpret_result.                                                  *)
INTERPRET_RESULT_OK            == 0
INTERPRET_RESULT_COMPILE_ERROR == 1
INTERPRET_RESULT_RUNTIME_ERROR == 2

VmInit == ip = 0 /\ stack = <<>> /\ result = INTERPRET_RESULT_OK /\ printed = <<>>

-----------------------------------------------------------------------------
(* Arithmetic.  Overflow of a signed INTEGER wraps; a double is exact.     *)
MinInteger == -(2 ^ (INT_BITS - 1))

\* Mutant: the result is kept at full width.
Unwrapped(n) == n

Wrap(n) == ((n - MinInteger) % (2 ^ INT_BITS)) + MinInteger

Abs(n) == IF n < 0 THEN -n ELSE n

TruncDiv(a, b) ==
  LET q == Abs(a) \div Abs(b) IN IF (a < 0) = (b < 0) THEN q ELSE -q

(* The member of the union for this kind holds something the model knows.  *)
Holds(v, kind) == v.kind = kind /\ ~IsJunk(v)

RealQuotient(a, b) ==
  LET n == a.num * b.den  d == a.den * b.num
  IN  IF d = 0 THEN Junk("REAL") ELSE IF d < 0 THEN Real(-n, -d) ELSE Real(n, d)

RealOp(op, a, b) ==
  CASE op = OPCODE_ADD -> Real(a.num * b.den + b.num * a.den, a.den * b.den)
    [] op = OPCODE_SUB -> Real(a.num * b.den - b.num * a.den, a.den * b.den)
    [] op = OPCODE_MUL -> Real(a.num * b.num, a.den * b.den)
    [] op = OPCODE_DIV -> RealQuotient(a, b)

IntegerOp(op, m, n) ==
  CASE op = OPCODE_ADD -> Wrap(m + n)
    [] op = OPCODE_SUB -> Wrap(m - n)
    [] op = OPCODE_MUL -> Wrap(m * n)
    [] op = OPCODE_DIV -> TruncDiv(m, n)

(* NUMBER_BINARY_OP looks at a's tag only, and keeps it in the result.     *)
Number(op, a, b) ==
  IF a.kind = "REAL"
  THEN IF Holds(a, "REAL") /\ Holds(b, "REAL") THEN RealOp(op, a, b) ELSE Junk("REAL")
  ELSE IF Holds(a, "INTEGER") /\ Holds(b, "INTEGER")
       THEN Value("INTEGER", IntegerOp(op, a.num, b.num)) ELSE Junk(a.kind)

(* The divisions the processor may, or does, refuse.                       *)
MayTrap(op, a, b) ==
  /\ op = OPCODE_DIV /\ a.kind # "REAL"
  /\ Holds(b, "INTEGER") => \/ b.num = 0
                            \/ b.num = -1 /\ (Holds(a, "INTEGER") => a.num = MinInteger)

MustTrap(op, a, b) ==
  MayTrap(op, a, b) /\ Holds(b, "INTEGER") /\ (b.num = 0 \/ Holds(a, "INTEGER"))

-----------------------------------------------------------------------------
(* Comparison: the truth values a build may push.                          *)
Ordered(op, m, n) ==
  CASE op = OPCODE_LESS          -> m < n
    [] op = OPCODE_LESS_EQUAL    -> m <= n
    [] op = OPCODE_GREATER       -> m > n
    [] op = OPCODE_GREATER_EQUAL -> m <= n   \* COMPARE_OP(<=)

Compared(op, a, b) ==
  IF Holds(a, a.kind) /\ Holds(b, a.kind)
  THEN {Ordered(op, a.num * b.den, b.num * a.den)} ELSE BOOLEAN

(***************************************************************************)
(* value_is_equal reads the second value of a CHAR, REAL or INTEGER pair   *)
(* through the bool member.  That is the low byte of the number (zero for  *)
(* a double with few binary digits), and a build may take a byte that is   *)
(* neither 0 nor 1 as it is, for its truth or for its lowest bit.          *)
(***************************************************************************)
LowBytes(v) ==
  IF v.kind # "REAL" THEN {v.num % 256}
  ELSE IF \E k \in 0 .. 8 : (2 ^ k * v.num) % v.den = 0 THEN {0} ELSE 0 .. 255

BoolLoads(byte) == {byte, byte % 2, IF byte = 0 THEN 0 ELSE 1}

Equal(a, b) ==
  CASE a.kind # b.kind                            -> {FALSE}
    [] a.kind = b.kind /\ (IsJunk(a) \/ IsJunk(b)) -> BOOLEAN
    [] OTHER ->
         IF a.kind \in {"BOOL", "OBJ"} THEN {a.num = b.num}
         ELSE {a.num = t * a.den : t \in UNION {BoolLoads(y) : y \in LowBytes(b)}}

-----------------------------------------------------------------------------
(* Fetching and the stack.                                                 *)
Op == CodeAt(chunk, ip)

Depth      == Len(stack)
Peek(d)    == stack[Depth - d]                 \* d = 0 is the top
Popped(k)  == SubSeq(stack, 1, Depth - k)

(* How many values an instruction takes off the stack, or reads on it.     *)
Pops(op) ==
  CASE op \in {OPCODE_CONSTANT, OPCODE_CONSTANT_LONG, OPCODE_TRUE, OPCODE_FALSE} -> 0
    [] op \in {OPCODE_NEGATE, OPCODE_NOT, OPCODE_RETURN}                         -> 1
    [] OTHER                                                                     -> 2

Executing(ops) ==
  phase = "run" /\ ip < Len(chunk.code.elems) /\ Op \in ops /\ Depth >= Pops(Op)

(* READ_BYTE moves ip over the opcode and each byte of its operand.        *)
Advance(bytes) == ip' = ip + bytes

(***************************************************************************)
(* The step leaves s on the stack.  The trace at the head of the loop, and *)
(* RETURN, print every value they meet, so an OBJ whose pointer was        *)
(* overwritten is followed before anything can take it off again.          *)
(***************************************************************************)
Leave(s) ==
  IF \E d \in DOMAIN s : s[d].kind = "OBJ" /\ IsJunk(s[d])
  THEN phase' = "wild" /\ UNCHANGED stack
  ELSE stack' = s /\ UNCHANGED phase

Push(v) == Leave(Append(Popped(Pops(Op)), v))

(* stack_pop and top[-1] have no guard: they read in front of the values.  *)
Underflow ==
  /\ phase = "run" /\ ip < Len(chunk.code.elems)
  /\ Op \in Opcodes /\ Depth < Pops(Op)
  /\ phase' = "wild"
  /\ UNCHANGED <<chunk, store, ip, stack, result, printed>>

-----------------------------------------------------------------------------
(* The instructions.                                                       *)
PushConstant(index) ==
  IF index < ConstantCount(chunk)
  THEN Push(chunk.constants.elems[index + 1])
  ELSE phase' = "wild" /\ UNCHANGED stack

Constant ==
  /\ Executing({OPCODE_CONSTANT})
  /\ PushConstant(CodeAt(chunk, ip + 1))
  /\ Advance(2)
  /\ UNCHANGED <<chunk, store, result, printed>>

(* The three reads of READ_CONSTANT_LONG are unsequenced: the build picks  *)
(* which byte gets which shift.                                            *)
\* Mutant: one operand byte is not read.
LongIndexBytesShort == 2

LongIndexBytes == 3

ConstantLong ==
  /\ Executing({OPCODE_CONSTANT_LONG})
  /\ \E order \in READ_ORDERS :
       PushConstant(CodeAt(chunk, ip + order[1]) + 256 * CodeAt(chunk, ip + order[2])
                      + 65536 * CodeAt(chunk, ip + order[3]))
  /\ Advance(1 + LongIndexBytes)
  /\ UNCHANGED <<chunk, store, result, printed>>

Truth ==
  /\ Executing({OPCODE_TRUE, OPCODE_FALSE})
  /\ Push(Bool(Op = OPCODE_TRUE))
  /\ Advance(1)
  /\ UNCHANGED <<chunk, store, result, printed>>

Arithmetic ==
  /\ Executing({OPCODE_ADD, OPCODE_SUB, OPCODE_MUL, OPCODE_DIV})
  /\ ~MustTrap(Op, Peek(1), Peek(0))
  /\ Push(Number(Op, Peek(1), Peek(0)))
  /\ Advance(1)
  /\ UNCHANGED <<chunk, store, result, printed>>

Trap ==
  /\ Executing({OPCODE_DIV})
  /\ MayTrap(Op, Peek(1), Peek(0))
  /\ phase' = "trap"
  /\ UNCHANGED <<chunk, store, ip, stack, result, printed>>

(* A REAL is negated where it is.                                          *)
\* Mutant: the instruction is executed again.
NegateRealAgain ==
  /\ Executing({OPCODE_NEGATE})
  /\ Peek(0).kind = "REAL"
  /\ Push([Peek(0) EXCEPT !.num = -@])
  /\ UNCHANGED <<chunk, store, ip, result, printed>>

NegateReal ==
  /\ Executing({OPCODE_NEGATE})
  /\ Peek(0).kind = "REAL"
  /\ Push([Peek(0) EXCEPT !.num = -@])
  /\ Advance(1)
  /\ UNCHANGED <<chunk, store, result, printed>>

(* An INTEGER is negated and the outcome returned from _run: the run ends  *)
(* with its low bits as result.  Junk may be anything: 3 is any other code.*)
AsResult(n) == n % (2 ^ RESULT_BITS)

NegateInteger ==
  /\ Executing({OPCODE_NEGATE})
  /\ Peek(0).kind = "INTEGER"
  /\ stack' = Append(Popped(1), [Peek(0) EXCEPT !.num = Wrap(-@)])
  /\ IF IsJunk(Peek(0)) THEN result' \in 0 .. 3 ELSE result' = AsResult(Wrap(-Peek(0).num))
  /\ phase' = "returned"
  /\ Advance(1)
  /\ UNCHANGED <<chunk, store, printed>>

NegateOther ==
  /\ Executing({OPCODE_NEGATE})
  /\ Peek(0).kind \in {"BOOL", "CHAR", "OBJ"}
  /\ result' = INTERPRET_RESULT_RUNTIME_ERROR
  /\ phase' = "returned"
  /\ Advance(1)
  /\ UNCHANGED <<chunk, store, stack, printed>>

(* NOT flips the bool member whatever the tag says.                        *)
Not ==
  /\ Executing({OPCODE_NOT})
  /\ Push(IF Holds(Peek(0), "BOOL") THEN Bool(~IsTrue(Peek(0))) ELSE Junk(Peek(0).kind))
  /\ Advance(1)
  /\ UNCHANGED <<chunk, store, result, printed>>

(* Both push value_is_equal; a is the value popped first.                  *)
Equality ==
  /\ Executing({OPCODE_EQUAL, OPCODE_NOT_EQUAL})
  /\ \E truth \in Equal(Peek(0), Peek(1)) : Push(Bool(truth))
  /\ Advance(1)
  /\ UNCHANGED <<chunk, store, result, printed>>

(* COMPARE_OP has no case for an OBJ: the operands go and nothing comes.   *)
\* Mutant: it has none for a CHAR either.
UncomparedWithChar == {"CHAR", "OBJ"}

Uncompared == {"OBJ"}

Comparison ==
  /\ Executing({OPCODE_LESS, OPCODE_LESS_EQUAL, OPCODE_GREATER, OPCODE_GREATER_EQUAL})
  /\ IF Peek(1).kind \in Uncompared
     THEN Leave(Popped(2))
     ELSE \E truth \in Compared(Op, Peek(1), Peek(0)) : Push(Bool(truth))
  /\ Advance(1)
  /\ UNCHANGED <<chunk, store, result, printed>>

(* _concat: both operands are taken for strings without a look at the tag. *)
\* Mutant: the operands are joined in the order they are popped.
JoinedReversed == store.heap[Peek(0).num].chars \o store.heap[Peek(1).num].chars

Joined == store.heap[Peek(1).num].chars \o store.heap[Peek(0).num].chars

Concat ==
  /\ Executing({OPCODE_CONCAT})
  /\ IF Peek(0).kind = "OBJ" /\ Peek(1).kind = "OBJ"
     THEN LET copy == obj_string_copy(store, Joined)
          IN  /\ store' = copy.store
              /\ IF copy.outcome = "ok" THEN Push(Value("OBJ", copy.string))
                 ELSE phase' = "wild" /\ UNCHANGED stack
     ELSE phase' = "wild" /\ UNCHANGED <<store, stack>>
  /\ Advance(1)
  /\ UNCHANGED <<chunk, result, printed>>

Return ==
  /\ Executing({OPCODE_RETURN})
  /\ printed' = Append(printed, Peek(0))
  /\ stack' = Popped(1)
  /\ result' = INTERPRET_RESULT_OK
  /\ phase' = "returned"
  /\ Advance(1)
  /\ UNCHANGED <<chunk, store>>

Execute ==
  \/ Constant \/ ConstantLong \/ Truth
  \/ Arithmetic \/ Trap \/ NegateReal \/ NegateInteger \/ NegateOther \/ Not
  \/ Equality \/ Comparison \/ Concat \/ Return \/ Underflow
=============================================================================
