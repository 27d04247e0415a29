------------------------- MODULE Interpreter_proofs -------------------------
(***************************************************************************)
(* For every set of programs, every width and every capacity: the code is  *)
(* tiled by the instructions that were written, the arrays of the chunk    *)
(* fit their blocks, and the machine is always at the start of an          *)
(* instruction (IInv).  The constants are the literals their operands name *)
(* and the objects of the list are those that & made (LiteralsIInv).  The  *)
(* instructions stand in the post-order of the tree (OrderIInv), so that   *)
(* the stack is as deep as the instruction needs and nothing undefined     *)
(* happens to numbers and truth values (TameIInv).  What lies among the    *)
(* constants and on the stack is no pointer that was never written         *)
(* (SoundIInv), so that a constant instruction pushes its constant.  Each  *)
(* instruction is the one its node asks for (SpokenIInv), and the stack    *)
(* holds the meanings of the subtrees that were computed (MeaningIInv), so *)
(* that a supported program prints what it means.  Every value is of the   *)
(* machine's width (TypedIInv).                                            *)
(***************************************************************************)
EXTENDS Interpreter, ChunkOps_proofs, FiniteSetTheorems, SequenceTheorems

(* The instructions of e tile the code of c.                               *)
Tiles(c, e) ==
  /\ e \in Seq([node : Nat, offset : Nat])
  /\ e = <<>> => Len(c.code.elems) = 0
  /\ e # <<>> => e[1].offset = 0
  /\ \A j \in 1 .. Len(e) :
       /\ e[j].offset < Len(c.code.elems)
       /\ (IF j < Len(e) THEN e[j + 1].offset ELSE Len(c.code.elems)) =
            e[j].offset + InstructionLength(CodeAt(c, e[j].offset))

(* What is still to be done of program p: calls for nodes of the tree, and *)
(* opcodes of operators that have one.                                     *)
OperatorKinds == (UnaryKinds \cup BinaryKinds) \ (SilentKinds \cup {"GROUP"})

Pending(p, w) ==
  /\ w \in Seq([task : {"visit", "emit"}, node : DOMAIN p])
  /\ \A i \in 1 .. Len(w) : w[i].task = "emit" => p[w[i].node].kind \in OperatorKinds

AtInstruction ==
  /\ emitted # <<>>
  /\ CodeAt(chunk, emitted[Len(emitted)].offset) = OPCODE_RETURN
  /\ \E j \in 1 .. Len(emitted) : emitted[j].offset = ip

IInv ==
  /\ program \in Programs
  /\ WellFormed(chunk)
  /\ Tiles(chunk, emitted)
  /\ Pending(program, work)
  /\ phase = "compile" => ip = 0
  /\ phase = "run" => AtInstruction

-----------------------------------------------------------------------------
LEMMA MemberOfSeq ==
  ASSUME NEW S, NEW s \in Seq(S), NEW j \in 1 .. Len(s)
  PROVE  s[j] \in S
  OBVIOUS

(* An instruction behind the others.                                       *)
LEMMA InstructionEmitted ==
  ASSUME NEW c, WellFormed(c), NEW d, NEW op, Extends(c, d, op),
         NEW e, Tiles(c, e), NEW n \in Nat
  PROVE  LET f == Append(e, [node |-> n, offset |-> Len(c.code.elems)])
         IN  /\ Tiles(d, f)
             /\ f # <<>>
             /\ CodeAt(d, f[Len(f)].offset) = op
             /\ f[1].offset = 0
<1> DEFINE size == Len(c.code.elems)
           i    == [node |-> n, offset |-> size]
           f    == Append(e, i)
           k    == Len(e)
<1>1. size \in Nat /\ k \in Nat
  BY DEF Tiles, Extends, Begins
<1>2. i \in [node : Nat, offset : Nat] /\ i.offset = size
  BY <1>1
<1> HIDE DEF i
<1>3. /\ f \in Seq([node : Nat, offset : Nat])
      /\ Len(f) = k + 1
      /\ f[k + 1] = i
      /\ \A j \in 1 .. k : f[j] = e[j]
  BY <1>2 DEF Tiles
<1>4. \A j \in 1 .. k : e[j].offset \in Nat /\ e[j].offset < size
  <2>1. e \in Seq([node : Nat, offset : Nat])
    BY DEF Tiles
  <2>2. \A j \in 1 .. k : e[j] \in [node : Nat, offset : Nat]
    BY <2>1, MemberOfSeq
  <2>3. \A j \in 1 .. k : e[j].offset \in Nat
    BY <2>2
  <2> QED
    BY <2>3 DEF Tiles
<1>5. InstructionLength(op) \in {1, 2, 4}
  BY DEF InstructionLength
<1>6. /\ Len(d.code.elems) = size + InstructionLength(op)
      /\ \A b \in 1 .. size : d.code.elems[b] = c.code.elems[b]
      /\ d.code.elems[size + 1] = op
  BY DEF Extends, Begins
<1>7. \A j \in 1 .. k : CodeAt(d, e[j].offset) = CodeAt(c, e[j].offset)
  <2> SUFFICES ASSUME NEW j \in 1 .. k
               PROVE  d.code.elems[e[j].offset + 1] = c.code.elems[e[j].offset + 1]
    BY DEF CodeAt
  <2>1. e[j].offset \in Nat /\ e[j].offset < size
    BY <1>4
  <2>2. e[j].offset + 1 \in 1 .. size
    BY <2>1, <1>1
  <2> QED
    BY <2>2, <1>6
<1>8. CodeAt(d, size) = op
  BY <1>6 DEF CodeAt
<1> HIDE DEF f, k, size
<1>9. f[1].offset = 0
  <2>1. CASE k = 0
    BY <2>1, <1>1, <1>2, <1>3 DEF Tiles, k, size
  <2>2. CASE k > 0
    <3>1. f[1] = e[1]
      BY <2>2, <1>1, <1>3
    <3>2. e # <<>>
      BY <2>2 DEF k
    <3> QED
      BY <3>1, <3>2 DEF Tiles
  <2> QED
    BY <2>1, <2>2, <1>1
<1>10. \A j \in 1 .. k : f[j].offset < Len(d.code.elems)
  <2> SUFFICES ASSUME NEW j \in 1 .. k PROVE f[j].offset < Len(d.code.elems)
    OBVIOUS
  <2>1. f[j].offset \in Nat /\ f[j].offset < size
    BY <1>3, <1>4
  <2>2. size < Len(d.code.elems) /\ Len(d.code.elems) \in Nat
    BY <1>1, <1>5, <1>6
  <2> QED
    BY <2>1, <2>2, <1>1
<1>11. \A j \in 1 .. k :
         f[j + 1].offset = f[j].offset + InstructionLength(CodeAt(d, f[j].offset))
  <2> SUFFICES ASSUME NEW j \in 1 .. k
               PROVE  f[j + 1].offset = f[j].offset + InstructionLength(CodeAt(d, f[j].offset))
    OBVIOUS
  <2>1. (IF j < k THEN e[j + 1].offset ELSE size) =
          e[j].offset + InstructionLength(CodeAt(c, e[j].offset))
    BY DEF Tiles, k, size
  <2>2. f[j] = e[j] /\ CodeAt(d, e[j].offset) = CodeAt(c, e[j].offset)
    BY <1>3, <1>7
  <2>3. f[j + 1].offset = IF j < k THEN e[j + 1].offset ELSE size
    <3>1. CASE j < k
      <4>1. j + 1 \in 1 .. k
        BY <3>1, <1>1
      <4> QED
        BY <3>1, <4>1, <1>3
    <3>2. CASE j = k
      BY <3>2, <1>1, <1>2, <1>3
    <3> QED
      BY <3>1, <3>2, <1>1
  <2> QED
    BY <2>1, <2>2, <2>3
<1>12. Tiles(d, f) /\ f # <<>> /\ CodeAt(d, f[Len(f)].offset) = op
  <2>1. f # <<>> /\ f[Len(f)].offset = size
    BY <1>1, <1>2, <1>3
  <2>2. \A j \in 1 .. Len(f) :
          /\ f[j].offset < Len(d.code.elems)
          /\ (IF j < Len(f) THEN f[j + 1].offset ELSE Len(d.code.elems)) =
               f[j].offset + InstructionLength(CodeAt(d, f[j].offset))
    <3> SUFFICES ASSUME NEW j \in 1 .. Len(f)
                 PROVE  /\ f[j].offset < Len(d.code.elems)
                        /\ (IF j < Len(f) THEN f[j + 1].offset ELSE Len(d.code.elems)) =
                             f[j].offset + InstructionLength(CodeAt(d, f[j].offset))
      OBVIOUS
    <3>1. CASE j \in 1 .. k
      BY <3>1, <1>1, <1>3, <1>10, <1>11
    <3>2. CASE j = k + 1
      <4>1. f[j].offset = size
        BY <3>2, <1>2, <1>3
      <4> QED
        BY <3>2, <4>1, <1>1, <1>3, <1>5, <1>6, <1>8
    <3> QED
      BY <3>1, <3>2, <1>1, <1>3
  <2> QED
    BY <2>1, <2>2, <1>3, <1>8, <1>9 DEF Tiles
<1> QED
  BY <1>9, <1>12 DEF f, i, size

-----------------------------------------------------------------------------
(* The walk over the tree.                                                 *)

LEMMA ProgramIsTree ==
  ASSUME NEW p \in Programs
  PROVE  IsTree(p) /\ DOMAIN p = 1 .. Len(p) /\ Len(p) \in Nat
<1>1. PICK S : p \in Seq(S)
  BY ProgramsAssumption
<1>2. IsTree(p)
  BY ProgramsAssumption
<1> QED
  BY <1>1, <1>2

(* What ProgramsAssumption says of a node and of its operands.             *)
LEMMA ProgramFacts ==
  ASSUME NEW p \in Programs
  PROVE  /\ Len(p) \in DOMAIN p
         /\ \A n \in DOMAIN p :
              /\ n \in Nat /\ p[n].line \in Nat /\ p[n].kind \in NodeKinds
              /\ p[n].kind \in UnaryKinds => Expr(p, n) \in DOMAIN p
              /\ p[n].kind \in BinaryKinds => Lhs(p, n) \in DOMAIN p /\ Rhs(p, n) \in DOMAIN p
<1> DEFINE size == Len(p)
<1>1. IsTree(p) /\ DOMAIN p = 1 .. size /\ size \in Nat
  BY ProgramIsTree
<1> HIDE DEF size
<1>2. size > 0
  BY <1>1 DEF IsTree, size
<1>3. \A n \in 1 .. size :
        /\ p[n].kind \in NodeKinds
        /\ p[n].line \in Nat \ {0}
        /\ p[n].first \in 1 .. n
        /\ p[n].kind \in UnaryKinds => n > 1
        /\ p[n].kind \in BinaryKinds => n > 1 /\ p[n - 1].first > 1
  BY <1>1 DEF IsTree, size
<1>4. ASSUME NEW n \in 1 .. size, p[n].kind \in UnaryKinds
      PROVE  Expr(p, n) \in 1 .. size
  BY <1>1, <1>3, <1>4 DEF Expr
<1>5. ASSUME NEW n \in 1 .. size, p[n].kind \in BinaryKinds
      PROVE  Lhs(p, n) \in 1 .. size /\ Rhs(p, n) \in 1 .. size
  <2>1. n - 1 \in 1 .. size /\ p[n - 1].first > 1
    BY <1>1, <1>3, <1>5
  <2>2. p[n - 1].first \in 1 .. n - 1
    BY <1>3, <2>1
  <2> QED
    BY <1>1, <2>1, <2>2 DEF Lhs, Rhs
<1> QED
  BY <1>1, <1>2, <1>3, <1>4, <1>5 DEF size

(* Work that is done, and work that is put in front of the rest.           *)
LEMMA PendingTail ==
  ASSUME NEW p, NEW w, Pending(p, w), w # <<>>
  PROVE  Pending(p, Tail(w)) /\ Head(w) = w[1] /\ 1 \in 1 .. Len(w)
<1> DEFINE S == [task : {"visit", "emit"}, node : DOMAIN p]
<1>1. w \in Seq(S)
  BY DEF Pending
<1> HIDE DEF S
<1>2. /\ Tail(w) \in Seq(S) /\ Len(w) \in Nat /\ Len(w) > 0
      /\ Len(Tail(w)) = Len(w) - 1
      /\ \A i \in 1 .. Len(w) - 1 : Tail(w)[i] = w[i + 1]
      /\ Head(w) = w[1]
  BY <1>1
<1>3. \A i \in 1 .. Len(w) - 1 : i + 1 \in 1 .. Len(w)
  BY <1>2
<1> QED
  BY <1>2, <1>3 DEF Pending, S

LEMMA PendingConcat ==
  ASSUME NEW p, NEW u, NEW w, Pending(p, u), Pending(p, w)
  PROVE  Pending(p, u \o w)
<1> DEFINE S == [task : {"visit", "emit"}, node : DOMAIN p]
<1>1. u \in Seq(S) /\ w \in Seq(S)
  BY DEF Pending
<1> HIDE DEF S
<1>2. /\ u \o w \in Seq(S) /\ Len(u) \in Nat /\ Len(w) \in Nat
      /\ Len(u \o w) = Len(u) + Len(w)
      /\ \A i \in 1 .. Len(u) : (u \o w)[i] = u[i]
      /\ \A i \in Len(u) + 1 .. Len(u) + Len(w) : (u \o w)[i] = w[i - Len(u)]
  BY <1>1
<1>3. ASSUME NEW i \in 1 .. Len(u \o w)
      PROVE  \/ i \in 1 .. Len(u) /\ (u \o w)[i] = u[i]
             \/ i - Len(u) \in 1 .. Len(w) /\ (u \o w)[i] = w[i - Len(u)]
  BY <1>2
<1>4. \A i \in 1 .. Len(u \o w) :
        (u \o w)[i].task = "emit" => p[(u \o w)[i].node].kind \in OperatorKinds
  BY <1>3 DEF Pending
<1> QED
  BY <1>2, <1>4 DEF Pending, S

LEMMA PendingVisit ==
  ASSUME NEW p, NEW n \in DOMAIN p
  PROVE  Pending(p, <<Visit(n)>>)
<1>1. Visit(n) \in [task : {"visit", "emit"}, node : DOMAIN p] /\ Visit(n).task = "visit"
  BY DEF Visit
<1> QED
  BY <1>1 DEF Pending

LEMMA PendingVisits ==
  ASSUME NEW p, NEW m \in DOMAIN p, NEW n \in DOMAIN p
  PROVE  Pending(p, <<Visit(m), Visit(n)>>)
<1>1. /\ Visit(m) \in [task : {"visit", "emit"}, node : DOMAIN p] /\ Visit(m).task = "visit"
      /\ Visit(n) \in [task : {"visit", "emit"}, node : DOMAIN p] /\ Visit(n).task = "visit"
  BY DEF Visit
<1> QED
  BY <1>1 DEF Pending

LEMMA PendingEmit ==
  ASSUME NEW p, NEW n \in DOMAIN p, p[n].kind \in OperatorKinds
  PROVE  Pending(p, <<Emit(n)>>)
<1>1. Emit(n) \in [task : {"visit", "emit"}, node : DOMAIN p] /\ Emit(n).node = n
  BY DEF Emit
<1> QED
  BY <1>1 DEF Pending

(* The opcode that is due is that of an operator that has one.             *)
LEMMA EmitIsOperator ==
  ASSUME NEW p, NEW w, Pending(p, w), w # <<>>, NEW n \in DOMAIN p, Head(w) = Emit(n)
  PROVE  OperatorOpcode(p[n].kind) \in Opcodes \ {OPCODE_CONSTANT, OPCODE_CONSTANT_LONG}
<1>1. p[n].kind \in OperatorKinds
  BY PendingTail DEF Pending, Emit
<1> QED
  BY <1>1 DEF OperatorKinds, UnaryKinds, BinaryKinds, SilentKinds, OperatorOpcode, Opcodes,
              OPCODE_CONSTANT, OPCODE_CONSTANT_LONG, OPCODE_NOT, OPCODE_NEGATE, OPCODE_ADD,
              OPCODE_MUL, OPCODE_DIV, OPCODE_CONCAT, OPCODE_EQUAL, OPCODE_NOT_EQUAL,
              OPCODE_GREATER, OPCODE_GREATER_EQUAL, OPCODE_LESS, OPCODE_LESS_EQUAL, OPCODE_RETURN

-----------------------------------------------------------------------------
(* What the invariant needs of a step of the compiler and of the machine.  *)
LEMMA InitialState == Init => IInv
<1> SUFFICES ASSUME Init PROVE IInv
  OBVIOUS
<1>1. program \in Programs /\ work = <<Visit(Len(program))>> /\ chunk = chunk_init
      /\ emitted = <<>> /\ phase = "compile" /\ ip = 0
  BY DEF Init, CompilerInit, VmInit
<1>2. Pending(program, work)
  BY <1>1, ProgramFacts, PendingVisit
<1>3. /\ chunk = [code |-> EmptyArray, constants |-> EmptyArray, lines |-> EmptyArray]
      /\ EmptyArray.elems = <<>> /\ EmptyArray.capacity \in Nat \ {0}
  BY <1>1, CapacityAssumption DEF chunk_init, EmptyArray
<1>4. WellFormed(chunk)
  <2>1. <<>> \in Seq(Byte) /\ <<>> \in Seq(Runs) /\ <<>> \in Seq(Nat) /\ Len(<<>>) = 0
    OBVIOUS
  <2>2. Fits(EmptyArray, 0) /\ Fits(EmptyArray, 2 * 0)
    BY <1>3 DEF Fits
  <2>3. chunk.code = EmptyArray /\ chunk.constants = EmptyArray /\ chunk.lines = EmptyArray
    BY <1>3
  <2>4. \E S : chunk.constants.elems \in Seq(S)
    BY <1>3, <2>1, <2>3
  <2>5. chunk = [code |-> chunk.code, constants |-> chunk.constants, lines |-> chunk.lines]
    BY <1>3, <2>3
  <2> QED
    BY <1>3, <2>1, <2>2, <2>3, <2>4, <2>5 DEF WellFormed, WordCount
<1>5. Tiles(chunk, emitted)
  BY <1>1, <1>3 DEF Tiles
<1> QED
  BY <1>1, <1>2, <1>4, <1>5 DEF IInv

(* An instruction for a node is written and its call is done.              *)
LEMMA InstructionStep ==
  ASSUME IInv, phase = "compile", phase' = "compile", ip' = ip, program' = program,
         NEW n \in Nat, NEW op, WellFormed(chunk'), Extends(chunk, chunk', op), Emitted(n),
         work # <<>>, work' = Tail(work)
  PROVE  IInv'
<1>1. Tiles(chunk', emitted')
  BY InstructionEmitted DEF IInv, Emitted
<1>2. Pending(program, work')
  BY PendingTail DEF IInv
<1> QED
  BY <1>1, <1>2 DEF IInv

(* A call puts others in front of those that wait.                         *)
LEMMA WorkStep ==
  ASSUME IInv, phase = "compile", phase' = "compile", ip' = ip, program' = program,
         chunk' = chunk, emitted' = emitted, Pending(program, work')
  PROVE  IInv'
  BY DEF IInv

LEMMA CompilePreservesIInv == IInv /\ Compile /\ UNCHANGED vmVars => IInv'
<1> SUFFICES ASSUME IInv, Compile, UNCHANGED vmVars PROVE IInv'
  OBVIOUS
<1>1. ip' = ip /\ program \in Programs /\ WellFormed(chunk) /\ Pending(program, work)
  BY DEF vmVars, IInv
<1>2. ASSUME NEW n \in DOMAIN program, Visiting(n)
      PROVE  /\ phase = "compile" /\ work # <<>>
             /\ n \in Nat /\ program[n].line \in Nat
             /\ Pending(program, Tail(work))
  BY <1>1, <1>2, ProgramFacts, PendingTail DEF Visiting
<1>3. ASSUME NEW n \in DOMAIN program, WriteBool(n) PROVE IInv'
  <2> DEFINE op == IF IsTrue(program[n].value) THEN OPCODE_TRUE ELSE OPCODE_FALSE
  <2>1. op \in Opcodes \ {OPCODE_CONSTANT, OPCODE_CONSTANT_LONG}
    BY DEF Opcodes, OPCODE_TRUE, OPCODE_FALSE, OPCODE_CONSTANT, OPCODE_CONSTANT_LONG, OPCODE_RETURN
  <2>2. /\ Visiting(n) /\ chunk' = ChunkWrite(chunk, op, program[n].line)
        /\ Emitted(n) /\ work' = Tail(work) /\ program' = program /\ phase' = phase
    BY <1>3 DEF WriteBool
  <2> HIDE DEF op
  <2>3. WellFormed(chunk') /\ Extends(chunk, chunk', op)
    BY <1>1, <1>2, <2>1, <2>2, OpcodeWritten
  <2> QED
    BY <1>1, <1>2, <2>2, <2>3, InstructionStep
<1>4. ASSUME NEW n \in DOMAIN program, WriteNumber(n) PROVE IInv'
  <2>1. /\ Visiting(n) /\ chunk' = WriteValue(chunk, program[n].value, program[n].line)
        /\ Emitted(n) /\ work' = Tail(work) /\ program' = program /\ phase' = phase
    BY <1>4 DEF WriteNumber
  <2>2. WellFormed(chunk') /\ \E op : Extends(chunk, chunk', op)
    BY <1>1, <1>2, <2>1, ValueWritten DEF Loads
  <2> QED
    BY <1>1, <1>2, <2>1, <2>2, InstructionStep
<1>5. ASSUME NEW n \in DOMAIN program, WriteString(n) PROVE IInv'
  <2> DEFINE ref == obj_string_ref(store, StringChars(program[n]))
  <2>1. CASE ref.outcome = "ok"
    <3>1. /\ Visiting(n)
          /\ chunk' = WriteValue(chunk, Value("OBJ", ref.string), program[n].line)
          /\ Emitted(n) /\ work' = Tail(work) /\ program' = program /\ phase' = phase
      BY <1>5, <2>1 DEF WriteString
    <3>2. WellFormed(chunk') /\ \E op : Extends(chunk, chunk', op)
      BY <1>1, <1>2, <3>1, ValueWritten DEF Loads
    <3> QED
      BY <1>1, <1>2, <3>1, <3>2, InstructionStep
  <2>2. CASE ref.outcome # "ok"
    <3>1. phase' = "wild" /\ UNCHANGED <<program, work, chunk, emitted>>
      BY <1>5, <2>2 DEF WriteString
    <3> QED
      BY <1>1, <3>1 DEF IInv
  <2> QED
    BY <2>1, <2>2
<1>6. ASSUME NEW n \in DOMAIN program, VisitUnary(n) PROVE IInv'
  <2>1. /\ Visiting(n) /\ program[n].kind \in UnaryKinds \ SilentKinds
        /\ work' = <<Visit(Expr(program, n))>>
                   \o (IF program[n].kind = "GROUP" THEN <<>> ELSE <<Emit(n)>>) \o Tail(work)
        /\ UNCHANGED <<program, chunk, emitted, phase>>
    BY <1>6 DEF VisitUnary
  <2>2. Pending(program, <<Visit(Expr(program, n))>>)
    BY <1>1, <2>1, ProgramFacts, PendingVisit
  <2>3. Pending(program, IF program[n].kind = "GROUP" THEN <<>> ELSE <<Emit(n)>>)
    <3>1. Pending(program, <<>>)
      BY DEF Pending
    <3>2. program[n].kind # "GROUP" => Pending(program, <<Emit(n)>>)
      BY <2>1, PendingEmit DEF OperatorKinds
    <3> QED
      BY <3>1, <3>2
  <2>4. Pending(program, work')
    BY <1>2, <2>1, <2>2, <2>3, PendingConcat
  <2> QED
    BY <1>1, <1>2, <2>1, <2>4, WorkStep
<1>7. ASSUME NEW n \in DOMAIN program, VisitBinary(n) PROVE IInv'
  <2>1. /\ Visiting(n) /\ program[n].kind \in BinaryKinds \ SilentKinds
        /\ work' = Operands(n) \o <<Emit(n)>> \o Tail(work)
        /\ UNCHANGED <<program, chunk, emitted, phase>>
    BY <1>7 DEF VisitBinary
  <2>2. Pending(program, Operands(n))
    BY <1>1, <2>1, ProgramFacts, PendingVisits DEF Operands
  <2>3. Pending(program, <<Emit(n)>>)
    BY <2>1, PendingEmit DEF OperatorKinds, BinaryKinds
  <2>4. Pending(program, work')
    BY <1>2, <2>1, <2>2, <2>3, PendingConcat
  <2> QED
    BY <1>1, <1>2, <2>1, <2>4, WorkStep
<1>8. ASSUME NEW n \in DOMAIN program, VisitSilent(n) PROVE IInv'
  BY <1>1, <1>2, <1>8, WorkStep DEF VisitSilent
<1>9. ASSUME NEW n \in DOMAIN program, WriteOperator(n) PROVE IInv'
  <2> DEFINE op == OperatorOpcode(program[n].kind)
  <2>1. /\ phase = "compile" /\ work # <<>> /\ Head(work) = Emit(n)
        /\ chunk' = ChunkWrite(chunk, op, BlamedLine(n))
        /\ Emitted(n) /\ work' = Tail(work) /\ program' = program /\ phase' = phase
    BY <1>9 DEF WriteOperator, Top
  <2>3. op \in Opcodes \ {OPCODE_CONSTANT, OPCODE_CONSTANT_LONG}
    BY <1>1, <2>1, EmitIsOperator
  <2> HIDE DEF op
  <2>4. n \in Nat /\ BlamedLine(n) \in Nat
    BY <1>1, ProgramFacts DEF BlamedLine
  <2>5. WellFormed(chunk') /\ Extends(chunk, chunk', op)
    BY <1>1, <2>1, <2>3, <2>4, OpcodeWritten
  <2> QED
    BY <1>1, <2>1, <2>4, <2>5, InstructionStep
<1>10. CASE Finish
  <2>1. /\ chunk' = ChunkWrite(chunk, OPCODE_RETURN, RETURN_LINE)
        /\ emitted' = Append(emitted, [node |-> ROOT, offset |-> Len(chunk.code.elems)])
        /\ phase = "compile" /\ phase' = "run" /\ UNCHANGED <<program, work>>
    BY <1>10 DEF Finish, Emitted
  <2>2. ROOT \in Nat /\ RETURN_LINE \in Nat
    BY DEF ROOT, RETURN_LINE
  <2>3. OPCODE_RETURN \in Opcodes \ {OPCODE_CONSTANT, OPCODE_CONSTANT_LONG}
    BY DEF Opcodes, OPCODE_CONSTANT, OPCODE_CONSTANT_LONG, OPCODE_RETURN
  <2>4. WellFormed(chunk') /\ Extends(chunk, chunk', OPCODE_RETURN)
    BY <1>1, <2>1, <2>2, <2>3, OpcodeWritten
  <2>5. /\ Tiles(chunk', emitted') /\ emitted' # <<>> /\ emitted'[1].offset = 0
        /\ CodeAt(chunk', emitted'[Len(emitted')].offset) = OPCODE_RETURN
    BY <1>1, <2>1, <2>2, <2>4, InstructionEmitted DEF IInv
  <2>6. 1 \in 1 .. Len(emitted')
    BY <2>5 DEF Tiles
  <2>7. ip' = 0
    BY <1>1, <2>1 DEF IInv
  <2> QED
    BY <1>1, <2>1, <2>4, <2>5, <2>6, <2>7 DEF IInv, AtInstruction
<1> QED
  BY <1>3, <1>4, <1>5, <1>6, <1>7, <1>8, <1>9, <1>10 DEF Compile

(* A step of the machine moves ip by the length of its instruction, or     *)
(* ends the run; RETURN ends it.                                           *)
LEMMA StepLength ==
  ASSUME Execute, phase' = "run"
  PROVE  ip' = ip + InstructionLength(Op) /\ Op # OPCODE_RETURN
<1> USE DEF Executing, Advance, InstructionLength
<1>1. CASE Constant
  BY <1>1 DEF Constant, OPCODE_CONSTANT, OPCODE_CONSTANT_LONG, OPCODE_RETURN
<1>2. CASE ConstantLong
  BY <1>2 DEF ConstantLong, LongIndexBytes, OPCODE_CONSTANT, OPCODE_CONSTANT_LONG, OPCODE_RETURN
<1>3. CASE Truth
  BY <1>3 DEF Truth, OPCODE_CONSTANT, OPCODE_CONSTANT_LONG, OPCODE_RETURN, OPCODE_TRUE, OPCODE_FALSE
<1>4. CASE Arithmetic
  BY <1>4 DEF Arithmetic, OPCODE_CONSTANT, OPCODE_CONSTANT_LONG, OPCODE_RETURN,
              OPCODE_ADD, OPCODE_SUB, OPCODE_MUL, OPCODE_DIV
<1>5. CASE Trap \/ NegateInteger \/ NegateOther \/ Return \/ Underflow
  BY <1>5 DEF Trap, NegateInteger, NegateOther, Return, Underflow
<1>6. CASE NegateReal
  BY <1>6 DEF NegateReal, OPCODE_CONSTANT, OPCODE_CONSTANT_LONG, OPCODE_RETURN, OPCODE_NEGATE
<1>7. CASE Not
  BY <1>7 DEF Not, OPCODE_CONSTANT, OPCODE_CONSTANT_LONG, OPCODE_RETURN, OPCODE_NOT
<1>8. CASE Equality
  BY <1>8 DEF Equality, OPCODE_CONSTANT, OPCODE_CONSTANT_LONG, OPCODE_RETURN,
              OPCODE_EQUAL, OPCODE_NOT_EQUAL
<1>9. CASE Comparison
  BY <1>9 DEF Comparison, OPCODE_CONSTANT, OPCODE_CONSTANT_LONG, OPCODE_RETURN,
              OPCODE_LESS, OPCODE_LESS_EQUAL, OPCODE_GREATER, OPCODE_GREATER_EQUAL
<1>10. CASE Concat
  BY <1>10 DEF Concat, OPCODE_CONSTANT, OPCODE_CONSTANT_LONG, OPCODE_RETURN, OPCODE_CONCAT
<1> QED
  BY <1>1, <1>2, <1>3, <1>4, <1>5, <1>6, <1>7, <1>8, <1>9, <1>10 DEF Execute

LEMMA ExecuteKeepsCode ==
  ASSUME Execute
  PROVE  chunk' = chunk /\ phase = "run" /\ phase' # "compile"
<1> USE DEF Executing, Push, PushConstant, Leave
<1>1. CASE Constant \/ ConstantLong \/ Truth \/ Arithmetic
  BY <1>1 DEF Constant, ConstantLong, Truth, Arithmetic
<1>2. CASE Trap \/ NegateReal \/ NegateInteger \/ NegateOther \/ Not
  BY <1>2 DEF Trap, NegateReal, NegateInteger, NegateOther, Not
<1>3. CASE Equality \/ Comparison
  BY <1>3 DEF Equality, Comparison
<1>4. CASE Concat \/ Return \/ Underflow
  BY <1>4 DEF Concat, Return, Underflow
<1> QED
  BY <1>1, <1>2, <1>3, <1>4 DEF Execute

LEMMA ExecutePreservesIInv == IInv /\ Execute /\ UNCHANGED compilerVars => IInv'
<1> SUFFICES ASSUME IInv, Execute, UNCHANGED compilerVars PROVE IInv'
  OBVIOUS
<1>1. /\ chunk' = chunk /\ phase = "run" /\ phase' # "compile"
      /\ program' = program /\ work' = work /\ emitted' = emitted
  BY ExecuteKeepsCode DEF compilerVars
<1>2. AtInstruction /\ Tiles(chunk, emitted)
  BY <1>1 DEF IInv
<1>3. ASSUME phase' = "run" PROVE \E j \in 1 .. Len(emitted) : emitted[j].offset = ip'
  <2>1. PICK j \in 1 .. Len(emitted) : emitted[j].offset = ip
    BY <1>2 DEF AtInstruction
  <2>2. ip' = ip + InstructionLength(CodeAt(chunk, ip)) /\ CodeAt(chunk, ip) # OPCODE_RETURN
    BY <1>3, StepLength DEF Op
  <2>3. j # Len(emitted)
    BY <1>2, <2>1, <2>2 DEF AtInstruction
  <2>4. Len(emitted) \in Nat
    BY <1>2 DEF Tiles
  <2>5. j < Len(emitted) /\ j + 1 \in 1 .. Len(emitted)
    BY <2>3, <2>4
  <2>6. emitted[j + 1].offset = ip'
    BY <1>2, <2>1, <2>2, <2>5 DEF Tiles
  <2> QED
    BY <2>5, <2>6
<1> QED
  BY <1>1, <1>2, <1>3 DEF IInv, AtInstruction

LEMMA IInvStep ==
  IInv /\ [Next]_vars => IInv'
<1> SUFFICES ASSUME IInv, [Next]_vars PROVE IInv'
  OBVIOUS
<1>1. CASE Compile /\ UNCHANGED vmVars
  BY <1>1, CompilePreservesIInv
<1>2. CASE Execute /\ UNCHANGED compilerVars
  BY <1>2, ExecutePreservesIInv
<1>3. CASE UNCHANGED vars
  BY <1>3 DEF vars, vmVars, compilerVars, IInv, AtInstruction
<1> QED
  BY <1>1, <1>2, <1>3 DEF Next, Terminated

LEMMA InductiveInvariant == Spec => []IInv
BY IInvStep, InitialState, PTL DEF Spec

-----------------------------------------------------------------------------
(* Strings.  Nothing is ever found in the intern table, so every call of   *)
(* obj.c makes a string of its own, and none is ever changed.              *)
TableKept(t) ==
  /\ DOMAIN t = {"count", "capacity", "entries"}
  /\ t.count = 0 /\ t.capacity = TABLE_CAPACITY_INIT
  /\ DOMAIN t.entries = 0 .. TABLE_CAPACITY_INIT - 1
  /\ \A i \in DOMAIN t.entries : t.entries[i].value = TABLE_NIL

StoreKept(s) == (\E S : s.heap \in Seq(S)) /\ TableKept(s.strings)

OwnedIds(s) == {id \in DOMAIN s.heap : s.heap[id].owned}

ListsOwned(s) ==
  /\ s.objects \in Seq(Nat)
  /\ {s.objects[k] : k \in DOMAIN s.objects} = OwnedIds(s)
  /\ \A k \in 1 .. Len(s.objects) - 1 : s.objects[k] > s.objects[k + 1]

Keeps(s, t) == \A id \in DOMAIN s.heap : id \in DOMAIN t.heap /\ t.heap[id] = s.heap[id]

LEMMA InternedNothing ==
  ASSUME NEW s, StoreKept(s), NEW chars
  PROVE  Interned(s, chars).outcome = "ok" /\ Interned(s, chars).key = NULL
BY Zenon DEF Interned, FindString, StoreKept, TableKept

(* Every slot looks empty, so a string goes where it hashes to.            *)
LEMMA FindsHome ==
  ASSUME NEW t, TableKept(t), NEW key, NEW hash \in Nat
  PROVE  FindEntry(t.entries, t.capacity, key, hash) # SPIN
<1> DEFINE slot(j)  == (hash + j) % t.capacity
           value(j) == t.entries[slot(j)].value
           stops    == {j \in 0 .. t.capacity - 1 :
                          \/ value(j) = TABLE_NIL
                          \/ value(j).kind # "BOOL" /\ t.entries[slot(j)].key = key}
           deleted  == {j \in 0 .. Min(stops) - 1 : value(j) = Tombstone}
<1>1. t.capacity \in Nat \ {0} /\ 0 \in 0 .. t.capacity - 1
  BY TableCapacityAssumption DEF TableKept
<1>2. slot(0) \in 0 .. t.capacity - 1
  BY <1>1
<1>3. 0 \in stops /\ stops \in SUBSET (0 .. t.capacity - 1)
  <2>1. value(0) = TABLE_NIL
    BY <1>2 DEF TableKept
  <2> HIDE DEF value
  <2> QED
    BY <1>1, <2>1
<1>4. FindEntry(t.entries, t.capacity, key, hash) =
        IF stops = {} THEN SPIN
        ELSE IF value(Min(stops)) = TABLE_NIL /\ deleted # {} THEN slot(Min(deleted))
        ELSE slot(Min(stops))
  BY Zenon DEF FindEntry
<1> HIDE DEF stops
<1>5. Min(stops) = 0
  <2>1. \A y \in stops : 0 <= y
    BY <1>1, <1>3
  <2>2. \A x \in stops : x <= 0 => x = 0
    BY <1>1, <1>3
  <2>3. Min(stops) \in stops /\ \A y \in stops : Min(stops) <= y
    BY <1>3, <2>1, Zenon DEF Min
  <2> QED
    BY <1>3, <2>2, <2>3
<1>6. deleted = {}
  <2>1. 0 .. Min(stops) - 1 = {}
    BY <1>5
  <2> QED
    BY <2>1
<1> HIDE DEF deleted, value
<1>7. FindEntry(t.entries, t.capacity, key, hash) = slot(0)
  BY <1>3, <1>4, <1>5, <1>6
<1> QED
  BY <1>2, <1>7 DEF SPIN

LEMMA TableKeeps ==
  ASSUME NEW t, TableKept(t), NEW key, NEW hashOf
  PROVE  /\ TableKept(TableInsert(t, key, TABLE_NIL, hashOf).table)
         /\ hashOf[key] \in Nat => TableInsert(t, key, TABLE_NIL, hashOf).outcome = "ok"
<1>1. ~NeedsToGrow(t)
  BY TableCapacityAssumption DEF NeedsToGrow, TableKept
<1>2. TableInsert(t, key, TABLE_NIL, hashOf) = Filled(t, key, TABLE_NIL, hashOf[key])
  BY <1>1, Zenon DEF TableInsert, Outcome
<1>3. PICK u, hash : u = Filled(t, key, TABLE_NIL, hash).table /\ hash = hashOf[key]
  OBVIOUS
<1>4. u = t \/ \E slot : u = Stored(t, slot, key, TABLE_NIL)
  BY <1>3, Zenon DEF Filled, Outcome
<1>5. ASSUME NEW slot, u = Stored(t, slot, key, TABLE_NIL)
      PROVE  TableKept(u)
  <2>1. PICK entry : entry = [key |-> key, value |-> TABLE_NIL]
    OBVIOUS
  <2>2. entry.value = TABLE_NIL /\ u = [t EXCEPT !.entries[slot] = entry]
    BY <1>5, <2>1 DEF Stored
  <2>3. /\ DOMAIN u = DOMAIN t /\ u.count = t.count /\ u.capacity = t.capacity
        /\ u.entries = [t.entries EXCEPT ![slot] = entry]
    BY <2>2 DEF TableKept
  <2> QED
    BY <2>2, <2>3 DEF TableKept
<1>6. ASSUME hash \in Nat PROVE Filled(t, key, TABLE_NIL, hash).outcome = "ok"
  <2>1. FindEntry(t.entries, t.capacity, key, hash) # SPIN
    BY <1>6, FindsHome
  <2> QED
    BY <2>1, Zenon DEF Filled, Outcome
<1> QED
  BY <1>2, <1>3, <1>4, <1>5, <1>6

LEMMA StringMade ==
  ASSUME NEW s, StoreKept(s), NEW chars, NEW owned \in BOOLEAN
  PROVE  LET made == ObjString(s, chars, owned)
             id   == Len(s.heap) + 1
         IN  /\ StoreKept(made.store) /\ Keeps(s, made.store)
             /\ made.string = id /\ id \in DOMAIN made.store.heap
             /\ made.store.heap = Append(s.heap, [chars |-> chars, owned |-> owned])
             /\ made.store.heap[id] = [chars |-> chars, owned |-> owned]
             /\ made.store.objects = Linked(s.objects, id, owned)
             /\ (\A x : StringHash(x) \in Nat) => made.outcome = "ok"
<1>1. PICK made : made = NewString(s, chars, owned)
  OBVIOUS
<1>2. ObjString(s, chars, owned) = made
  BY <1>1, InternedNothing, Zenon DEF ObjString
<1>3. PICK id, string : id = Len(s.heap) + 1 /\ string = [chars |-> chars, owned |-> owned]
  OBVIOUS
<1>4. PICK heap : heap = Append(s.heap, string)
  OBVIOUS
<1>5. PICK put : put = TableInsert(s.strings, id, TABLE_NIL, HashOf(heap))
  OBVIOUS
<1>6. made = [outcome |-> put.outcome, string |-> id,
              store |-> [heap    |-> heap,
                         objects |-> Linked(s.objects, id, owned),
                         strings |-> put.table]]
  BY <1>1, <1>3, <1>4, <1>5, Zenon DEF NewString
<1>7. /\ made.string = id /\ made.store.heap = heap /\ made.outcome = put.outcome
      /\ made.store.objects = Linked(s.objects, id, owned) /\ made.store.strings = put.table
  BY <1>6
<1>8. PICK S : s.heap \in Seq(S)
  BY DEF StoreKept
<1>9. /\ heap \in Seq(S \cup {string}) /\ id \in DOMAIN heap /\ heap[id] = string
      /\ \A i \in DOMAIN s.heap : i \in DOMAIN heap /\ heap[i] = s.heap[i]
  BY <1>3, <1>4, <1>8
<1>10. /\ TableKept(put.table)
       /\ HashOf(heap)[id] \in Nat => put.outcome = "ok"
  BY <1>5, TableKeeps DEF StoreKept
<1>11. StoreKept(made.store)
  BY <1>7, <1>9, <1>10 DEF StoreKept
<1>12. Keeps(s, made.store)
  BY <1>7, <1>9 DEF Keeps
<1>13. (\A x : StringHash(x) \in Nat) => HashOf(heap)[id] \in Nat
  BY <1>9 DEF HashOf
<1> QED
  BY <1>2, <1>3, <1>4, <1>7, <1>9, <1>10, <1>11, <1>12, <1>13

(* A string that owns its chars is put in front of the list.               *)
LEMMA StringListed ==
  ASSUME NEW s, StoreKept(s), ListsOwned(s), NEW chars, NEW owned \in BOOLEAN
  PROVE  ListsOwned(ObjString(s, chars, owned).store)
<1>1. PICK t : t = ObjString(s, chars, owned).store
  OBVIOUS
<1>2. PICK id : id = Len(s.heap) + 1
  OBVIOUS
<1>3. PICK string : string = [chars |-> chars, owned |-> owned]
  OBVIOUS
<1>4. string.owned = owned
  BY <1>3
<1>5. t.heap = Append(s.heap, string) /\ t.objects = Linked(s.objects, id, owned)
  BY <1>1, <1>2, <1>3, StringMade
<1>6. PICK S : s.heap \in Seq(S)
  BY DEF StoreKept
<1>7. /\ DOMAIN t.heap = DOMAIN s.heap \cup {id} /\ t.heap[id] = string
      /\ \A i \in DOMAIN s.heap : i < id /\ t.heap[i] = s.heap[i]
      /\ id \in Nat
  BY <1>2, <1>5, <1>6
<1>8. OwnedIds(t) = IF owned THEN OwnedIds(s) \cup {id} ELSE OwnedIds(s)
  BY <1>4, <1>7 DEF OwnedIds
<1>9. CASE ~owned
  BY <1>5, <1>8, <1>9, <1>1 DEF Linked, ListsOwned
<1>10. CASE owned
  <2>1. PICK old, new : old = s.objects /\ new = <<id>> \o old
    OBVIOUS
  <2>2. t.objects = new
    BY <1>5, <1>10, <2>1 DEF Linked
  <2>3. old \in Seq(Nat) /\ {old[k] : k \in DOMAIN old} = OwnedIds(s)
        /\ \A k \in 1 .. Len(old) - 1 : old[k] > old[k + 1]
    BY <2>1 DEF ListsOwned
  <2>4. /\ new \in Seq(Nat) /\ Len(new) = Len(old) + 1 /\ Len(old) \in Nat
        /\ new[1] = id /\ \A k \in 1 .. Len(old) : new[k + 1] = old[k]
    BY <1>7, <2>1, <2>3
  <2>5. \A k \in 1 .. Len(old) : old[k] < id /\ old[k] \in Nat
    <3>1. DOMAIN old = 1 .. Len(old)
      BY <2>3
    <3>2. \A k \in 1 .. Len(old) : old[k] \in OwnedIds(s)
      BY <2>3, <3>1
    <3>3. \A k \in 1 .. Len(old) : old[k] \in DOMAIN s.heap /\ old[k] \in Nat
      BY <2>3, <3>1, <3>2 DEF OwnedIds
    <3> QED
      BY <1>7, <3>3
  <2>6. {new[k] : k \in DOMAIN new} = OwnedIds(s) \cup {id}
    <3>1. \A k \in 1 .. Len(old) + 1 : k = 1 \/ (k - 1 \in 1 .. Len(old) /\ new[k] = old[k - 1])
      <4> SUFFICES ASSUME NEW k \in 1 .. Len(old) + 1, k # 1
                   PROVE  k - 1 \in 1 .. Len(old) /\ new[k] = old[k - 1]
        OBVIOUS
      <4>1. k - 1 \in 1 .. Len(old) /\ (k - 1) + 1 = k
        BY <2>4
      <4> QED
        BY <2>4, <4>1
    <3>2. DOMAIN new = 1 .. Len(old) + 1 /\ DOMAIN old = 1 .. Len(old)
      BY <2>3, <2>4
    <3>3. \A k \in DOMAIN new : new[k] \in OwnedIds(s) \cup {id}
      BY <2>3, <2>4, <3>1, <3>2
    <3>4. \A x \in OwnedIds(s) : \E k \in DOMAIN new : new[k] = x
      <4> SUFFICES ASSUME NEW x \in OwnedIds(s) PROVE \E k \in DOMAIN new : new[k] = x
        OBVIOUS
      <4>1. PICK k \in 1 .. Len(old) : old[k] = x
        BY <2>3, <3>2
      <4>2. k + 1 \in DOMAIN new
        BY <2>4, <3>2
      <4> QED
        BY <2>4, <4>1, <4>2
    <3>5. 1 \in DOMAIN new
      BY <2>4, <3>2
    <3> QED
      BY <2>4, <3>3, <3>4, <3>5
  <2>7. \A k \in 1 .. Len(new) - 1 : new[k] > new[k + 1]
    <3> SUFFICES ASSUME NEW k \in 1 .. Len(old) PROVE new[k] > new[k + 1]
      BY <2>4
    <3>1. new[k + 1] = old[k] /\ old[k] < id /\ old[k] \in Nat
      BY <2>4, <2>5
    <3>2. CASE k = 1
      BY <1>7, <2>4, <3>1, <3>2
    <3>3. CASE k > 1
      <4>1. k - 1 \in 1 .. Len(old) - 1 /\ k - 1 \in 1 .. Len(old) /\ (k - 1) + 1 = k
        BY <2>4, <3>3
      <4>2. new[k] = old[k - 1] /\ old[k - 1] > old[k]
        BY <2>3, <2>4, <4>1
      <4> QED
        BY <3>1, <4>2
    <3> QED
      BY <3>2, <3>3
  <2> QED
    <3>1. {t.objects[k] : k \in DOMAIN t.objects} = OwnedIds(t)
      BY <1>8, <1>10, <2>2, <2>6
    <3>2. ListsOwned(t)
      BY <2>2, <2>4, <2>7, <3>1 DEF ListsOwned
    <3> QED
      BY <1>1, <3>2
<1> QED
  BY <1>9, <1>10

-----------------------------------------------------------------------------
(* Constants.  Loaded counts the constant instructions before number j.    *)
LoadOpcodes == {OPCODE_CONSTANT, OPCODE_CONSTANT_LONG}

IsLoad(c, e, j) == CodeAt(c, e[j].offset) \in LoadOpcodes
LoadsBefore(c, e, j) == {i \in 1 .. j - 1 : IsLoad(c, e, i)}
Loaded(c, e, j) == Cardinality(LoadsBefore(c, e, j))

ShownIn(heap, v) ==
  IF v.kind = "OBJ" THEN [kind |-> "OBJ", chars |-> heap[v.num].chars]
  ELSE [kind |-> v.kind, chars |-> <<v.num, v.den>>]

LiteralAt(p, n) ==
  IF p[n].kind = "STRING" THEN [kind |-> "OBJ", chars |-> Ref!Unquoted(p[n].chars)]
  ELSE [kind |-> p[n].kind, chars |-> <<p[n].value.num, p[n].value.den>>]

(* The pointer and the length a string is made from are of what stands     *)
(* between the quotes of its token.                                        *)
LEMMA StringCharsUnquoted == \A node : StringChars(node) = Ref!Unquoted(node.chars)
<1>1. \A s : SubSeq(s, 2, Len(s) - 1) = [i \in 1 .. Len(s) - 2 |-> s[i + 1]]
  OBVIOUS
<1> QED
  BY <1>1 DEF StringChars, Ref!Unquoted

(* What OperandNamesLiteral says of instruction j, and that its constant   *)
(* is there.                                                               *)
NamesLiteral(c, e, p, heap, j) ==
  LET op == CodeAt(c, e[j].offset)
  IN  /\ Loaded(c, e, j) < Len(c.constants.elems)
      /\ CodeAt(c, e[j].offset + 1) = Loaded(c, e, j) % 256
      /\ op = OPCODE_CONSTANT_LONG =>
           CodeAt(c, e[j].offset + 2) = 0 /\ CodeAt(c, e[j].offset + 3) = 0
      /\ op = OPCODE_CONSTANT => Loaded(c, e, j) < 256
      /\ ShownIn(heap, c.constants.elems[Loaded(c, e, j) + 1]) = LiteralAt(p, e[j].node)

(* The constants are one per instruction that loads one; as each of these  *)
(* has an operand they are fewer than half the bytes of the code.          *)
ConstantsCounted(c, e) ==
  /\ Len(c.constants.elems) = Loaded(c, e, Len(e) + 1)
  /\ 2 * Len(c.constants.elems) <= Len(c.code.elems)

StringsInHeap(c, heap) ==
  \A k \in 1 .. Len(c.constants.elems) :
    c.constants.elems[k].kind = "OBJ" => c.constants.elems[k].num \in DOMAIN heap

ConstantsNamed(c, e, p, heap) ==
  /\ ConstantsCounted(c, e)
  /\ StringsInHeap(c, heap)
  /\ \A j \in 1 .. Len(e) : IsLoad(c, e, j) => NamesLiteral(c, e, p, heap, j)

LEMMA LoadsFinite ==
  ASSUME NEW c, NEW e, NEW j \in Nat
  PROVE  IsFiniteSet(LoadsBefore(c, e, j)) /\ Loaded(c, e, j) \in Nat
<1>1. IsFiniteSet(1 .. j - 1)
  BY FS_Interval
<1>2. LoadsBefore(c, e, j) \in SUBSET (1 .. j - 1)
  BY DEF LoadsBefore
<1>3. IsFiniteSet(LoadsBefore(c, e, j))
  BY <1>1, <1>2, FS_Subset
<1> QED
  BY <1>3, FS_CardinalityType DEF Loaded

(* One instruction more is counted if it loads a constant.                 *)
LEMMA LoadedNext ==
  ASSUME NEW c, NEW e, NEW j \in Nat \ {0}
  PROVE  Loaded(c, e, j + 1) = IF IsLoad(c, e, j) THEN Loaded(c, e, j) + 1 ELSE Loaded(c, e, j)
<1>1. IsFiniteSet(LoadsBefore(c, e, j)) /\ j \notin LoadsBefore(c, e, j)
  <2>1. j \in Nat /\ j \notin 1 .. j - 1
    OBVIOUS
  <2> QED
    BY <2>1, LoadsFinite DEF LoadsBefore
<1>2. LoadsBefore(c, e, j + 1) = IF IsLoad(c, e, j) THEN LoadsBefore(c, e, j) \cup {j} ELSE LoadsBefore(c, e, j)
  <2>1. 1 .. (j + 1) - 1 = (1 .. j - 1) \cup {j}
    OBVIOUS
  <2> QED
    BY <2>1 DEF LoadsBefore
<1>3. Cardinality(LoadsBefore(c, e, j) \cup {j}) = Cardinality(LoadsBefore(c, e, j)) + 1
  BY <1>1, FS_AddElement
<1> QED
  BY <1>2, <1>3 DEF Loaded

(* An instruction is in the code, with all its bytes.                      *)
LEMMA InstructionInCode ==
  ASSUME NEW c, WellFormed(c), NEW e, Tiles(c, e), NEW j \in 1 .. Len(e)
  PROVE  /\ e[j].offset \in Nat
         /\ \A x \in 0 .. InstructionLength(CodeAt(c, e[j].offset)) - 1 :
              (e[j].offset + x) + 1 \in 1 .. Len(c.code.elems)
<1>1. PICK size : size = Len(c.code.elems)
  OBVIOUS
<1>2. PICK length : length = InstructionLength(CodeAt(c, e[j].offset))
  OBVIOUS
<1>3. e \in Seq([node : Nat, offset : Nat]) /\ Len(e) \in Nat /\ size \in Nat
  BY <1>1 DEF Tiles, WellFormed
<1>4. \A i \in 1 .. Len(e) : e[i].offset \in Nat
  <2>1. \A i \in 1 .. Len(e) : e[i] \in [node : Nat, offset : Nat]
    BY <1>3, MemberOfSeq
  <2> QED
    BY <2>1
<1>5. length \in {1, 2, 4}
  BY <1>2 DEF InstructionLength
<1>6. e[j].offset + length <= size
  <2>1. (IF j < Len(e) THEN e[j + 1].offset ELSE size) = e[j].offset + length
    BY <1>1, <1>2 DEF Tiles
  <2>2. CASE j < Len(e)
    <3>1. j + 1 \in 1 .. Len(e)
      BY <1>3, <2>2
    <3>2. e[j + 1].offset < size
      BY <1>1, <3>1 DEF Tiles
    <3> QED
      BY <1>3, <1>4, <2>1, <2>2, <3>1, <3>2
  <2>3. CASE ~(j < Len(e))
    BY <1>3, <2>1, <2>3
  <2> QED
    BY <2>2, <2>3
<1>7. PICK o : o = e[j].offset
  OBVIOUS
<1>8. o \in Nat /\ o + length <= size
  BY <1>4, <1>6, <1>7
<1>9. \A x \in 0 .. length - 1 : (o + x) + 1 \in 1 .. size
  BY <1>3, <1>5, <1>8
<1> QED
  BY <1>1, <1>2, <1>7, <1>8, <1>9

(* The instructions of a chunk are not touched by one that is added.       *)
LEMMA InstructionKept ==
  ASSUME NEW c, WellFormed(c), NEW e, Tiles(c, e), NEW d, NEW op, Extends(c, d, op),
         NEW j \in 1 .. Len(e)
  PROVE  /\ e[j].offset \in Nat
         /\ \A x \in 0 .. InstructionLength(CodeAt(c, e[j].offset)) - 1 :
              CodeAt(d, e[j].offset + x) = CodeAt(c, e[j].offset + x)
         /\ CodeAt(d, e[j].offset) = CodeAt(c, e[j].offset)
<1>1. PICK o, length : o = e[j].offset /\ length = InstructionLength(CodeAt(c, o))
  OBVIOUS
<1>2. o \in Nat /\ length \in {1, 2, 4}
  BY <1>1, InstructionInCode DEF InstructionLength
<1>3. \A x \in 0 .. length - 1 : (o + x) + 1 \in 1 .. Len(c.code.elems)
  BY <1>1, InstructionInCode
<1>4. \A b \in 1 .. Len(c.code.elems) : d.code.elems[b] = c.code.elems[b]
  BY DEF Extends, Begins
<1>5. \A x \in 0 .. length - 1 : CodeAt(d, o + x) = CodeAt(c, o + x)
  BY <1>3, <1>4 DEF CodeAt
<1>6. CodeAt(d, o) = CodeAt(c, o)
  <2>1. 0 \in 0 .. length - 1 /\ o + 0 = o
    BY <1>2
  <2> QED
    BY <1>5, <2>1
<1> QED
  BY <1>1, <1>2, <1>5, <1>6

Added(e, n, offset) == Append(e, [node |-> n, offset |-> offset])

(* The instruction of node n, behind those of e, in c and then in d.       *)
CountsOneMore(c, e, d, f, op, n) ==
  /\ Len(e) \in Nat /\ Len(f) = Len(e) + 1
  /\ f[Len(f)].node = n /\ f[Len(f)].offset = Len(c.code.elems)
  /\ CodeAt(d, Len(c.code.elems)) = op
  /\ \A j \in 1 .. Len(e) : f[j] = e[j] /\ (IsLoad(d, f, j) <=> IsLoad(c, e, j))
  /\ \A j \in 1 .. Len(f) : Loaded(d, f, j) = Loaded(c, e, j)
  /\ Loaded(d, f, Len(f) + 1) =
       IF op \in LoadOpcodes THEN Loaded(c, e, Len(f)) + 1 ELSE Loaded(c, e, Len(f))

LEMMA InstructionCounted ==
  ASSUME NEW c, WellFormed(c), NEW e, Tiles(c, e), NEW d, NEW op, Extends(c, d, op), NEW n \in Nat,
         NEW f, f = Added(e, n, Len(c.code.elems))
  PROVE  CountsOneMore(c, e, d, f, op, n)
<1>1. PICK i, size : i = [node |-> n, offset |-> size] /\ size = Len(c.code.elems)
  OBVIOUS
<1>2. i \in [node : Nat, offset : Nat] /\ i.node = n /\ i.offset = size
  BY <1>1 DEF WellFormed
<1>3. /\ Len(e) \in Nat /\ Len(f) = Len(e) + 1 /\ f[Len(e) + 1] = i
      /\ \A j \in 1 .. Len(e) : f[j] = e[j]
  <2>1. e \in Seq([node : Nat, offset : Nat]) /\ f = Append(e, i)
    BY <1>1 DEF Tiles, Added
  <2> QED
    BY <1>2, <2>1
<1>4. CodeAt(d, size) = op
  BY <1>1 DEF CodeAt, Extends, Begins
<1>5. \A j \in 1 .. Len(e) : IsLoad(d, f, j) <=> IsLoad(c, e, j)
  BY <1>3, InstructionKept DEF IsLoad
<1>6. ASSUME NEW j \in 1 .. Len(f) PROVE Loaded(d, f, j) = Loaded(c, e, j)
  <2>1. \A b \in 1 .. j - 1 : b \in 1 .. Len(e)
    BY <1>3
  <2>2. LoadsBefore(d, f, j) = LoadsBefore(c, e, j)
    BY <1>5, <2>1 DEF LoadsBefore
  <2> QED
    BY <2>2 DEF Loaded
<1>7. Loaded(d, f, Len(f) + 1) =
        IF op \in LoadOpcodes THEN Loaded(c, e, Len(f)) + 1 ELSE Loaded(c, e, Len(f))
  <2>1. IsLoad(d, f, Len(f)) <=> op \in LoadOpcodes
    BY <1>2, <1>3, <1>4 DEF IsLoad
  <2>2. Len(f) \in Nat \ {0} /\ Len(f) \in 1 .. Len(f)
    BY <1>3
  <2> QED
    BY <1>6, <2>1, <2>2, LoadedNext
<1> QED
  BY <1>1, <1>2, <1>3, <1>4, <1>5, <1>6, <1>7 DEF CountsOneMore

(* The constants of d are those of c with others behind.                   *)
ConstantsKept(c, d) ==
  /\ Len(c.constants.elems) \in Nat /\ Len(d.constants.elems) \in Nat
  /\ Len(c.constants.elems) <= Len(d.constants.elems)
  /\ \A k \in 1 .. Len(c.constants.elems) : d.constants.elems[k] = c.constants.elems[k]

LEMMA NamesKept ==
  ASSUME NEW c, WellFormed(c), NEW e, Tiles(c, e), NEW d, NEW op, Extends(c, d, op), NEW n \in Nat,
         NEW f, f = Added(e, n, Len(c.code.elems)), ConstantsKept(c, d),
         NEW p, NEW heap, NEW j \in 1 .. Len(e), IsLoad(c, e, j), NamesLiteral(c, e, p, heap, j)
  PROVE  NamesLiteral(d, f, p, heap, j)
<1>1. PICK o, index, code : o = e[j].offset /\ index = Loaded(c, e, j) /\ code = CodeAt(c, o)
  OBVIOUS
<1>2. f[j] = e[j] /\ Loaded(d, f, j) = index /\ index \in Nat
  <2>1. CountsOneMore(c, e, d, f, op, n)
    BY InstructionCounted
  <2>2. j \in Nat /\ f[j] = e[j] /\ Loaded(d, f, j) = Loaded(c, e, j)
    BY <2>1 DEF CountsOneMore
  <2>3. Loaded(c, e, j) \in Nat
    BY <2>2, LoadsFinite
  <2> QED
    BY <1>1, <2>2, <2>3
<1>3. code \in LoadOpcodes /\ CodeAt(d, o) = code
      /\ \A x \in 0 .. InstructionLength(code) - 1 : CodeAt(d, o + x) = CodeAt(c, o + x)
  BY <1>1, InstructionKept DEF IsLoad
<1>4. InstructionLength(code) = IF code = OPCODE_CONSTANT_LONG THEN 4 ELSE 2
  BY <1>3 DEF InstructionLength, LoadOpcodes, OPCODE_CONSTANT, OPCODE_CONSTANT_LONG
<1>5. CodeAt(d, o + 1) = CodeAt(c, o + 1)
  BY <1>3, <1>4
<1>6. ASSUME code = OPCODE_CONSTANT_LONG
      PROVE  CodeAt(d, o + 2) = CodeAt(c, o + 2) /\ CodeAt(d, o + 3) = CodeAt(c, o + 3)
  BY <1>3, <1>4, <1>6
<1>7. index < Len(c.constants.elems)
  BY <1>1 DEF NamesLiteral
<1>8. index < Len(d.constants.elems) /\ d.constants.elems[index + 1] = c.constants.elems[index + 1]
  <2>1. index + 1 \in 1 .. Len(c.constants.elems)
    BY <1>2, <1>7 DEF ConstantsKept
  <2> QED
    BY <1>2, <1>7, <2>1 DEF ConstantsKept
<1> QED
  BY <1>1, <1>2, <1>3, <1>5, <1>6, <1>8 DEF NamesLiteral

(* An instruction without a constant.                                      *)
LEMMA OpcodeNamed ==
  ASSUME NEW c, WellFormed(c), NEW e, Tiles(c, e), NEW p, NEW heap, ConstantsNamed(c, e, p, heap),
         NEW d, NEW op, Extends(c, d, op), op \notin LoadOpcodes, d.constants = c.constants,
         NEW n \in Nat
  PROVE  ConstantsNamed(d, Added(e, n, Len(c.code.elems)), p, heap)
<1>1. PICK f : f = Added(e, n, Len(c.code.elems))
  OBVIOUS
<1>2. /\ Len(e) \in Nat /\ Len(f) = Len(e) + 1
      /\ f[Len(f)].offset = Len(c.code.elems) /\ CodeAt(d, Len(c.code.elems)) = op
      /\ \A j \in 1 .. Len(e) : f[j] = e[j] /\ (IsLoad(d, f, j) <=> IsLoad(c, e, j))
      /\ Loaded(d, f, Len(f) + 1) = Loaded(c, e, Len(f))
  <2>1. CountsOneMore(c, e, d, f, op, n)
    BY <1>1, InstructionCounted
  <2> QED
    BY <2>1 DEF CountsOneMore
<1>3. ConstantCount(c) \in Nat /\ ConstantCount(c) = Len(c.constants.elems)
  BY CountIsNat DEF ConstantCount
<1>4. ConstantsKept(c, d) /\ StringsInHeap(d, heap)
  BY <1>3 DEF ConstantsKept, ConstantsNamed, StringsInHeap
<1>5. ConstantsCounted(d, f)
  <2>1. Len(d.code.elems) >= Len(c.code.elems) /\ Len(c.code.elems) \in Nat /\ Len(d.code.elems) \in Nat
    <3>1. InstructionLength(op) \in Nat
      BY DEF InstructionLength
    <3> QED
      BY <3>1 DEF Extends, Begins
  <2>2. /\ Len(c.constants.elems) = Loaded(c, e, Len(f))
        /\ 2 * Len(c.constants.elems) <= Len(c.code.elems)
    BY <1>2 DEF ConstantsNamed, ConstantsCounted
  <2>3. Len(d.constants.elems) = Loaded(d, f, Len(f) + 1)
    BY <1>2, <2>2
  <2>4. 2 * Len(d.constants.elems) <= Len(d.code.elems)
    BY <1>3, <2>1, <2>2
  <2> QED
    BY <2>3, <2>4 DEF ConstantsCounted
<1>6. ASSUME NEW j \in 1 .. Len(f), IsLoad(d, f, j) PROVE NamesLiteral(d, f, p, heap, j)
  <2>1. j # Len(f)
    BY <1>2, <1>6 DEF IsLoad
  <2>2. j \in 1 .. Len(e) /\ IsLoad(c, e, j)
    BY <1>2, <1>6, <2>1
  <2> QED
    BY <1>1, <1>4, <2>2, NamesKept DEF ConstantsNamed
<1> QED
  BY <1>1, <1>4, <1>5, <1>6 DEF ConstantsNamed

(* An instruction that loads v, the value of the literal n.                *)
LEMMA ConstantNamed ==
  ASSUME NEW c, WellFormed(c), NEW e, Tiles(c, e), NEW p, NEW heap, ConstantsNamed(c, e, p, heap),
         NEW d, NEW op \in LoadOpcodes, NEW v, Loads(c, d, op, v), NEW n \in Nat,
         v.kind = "OBJ" => v.num \in DOMAIN heap, ShownIn(heap, v) = LiteralAt(p, n)
  PROVE  ConstantsNamed(d, Added(e, n, Len(c.code.elems)), p, heap)
<1>1. PICK f, size : f = Added(e, n, size) /\ size = Len(c.code.elems)
  OBVIOUS
<1>2. Extends(c, d, op)
  BY DEF Loads
<1>3. /\ Len(e) \in Nat /\ Len(f) = Len(e) + 1
      /\ f[Len(f)].node = n /\ f[Len(f)].offset = size /\ CodeAt(d, size) = op
      /\ \A j \in 1 .. Len(e) : f[j] = e[j] /\ (IsLoad(d, f, j) <=> IsLoad(c, e, j))
      /\ Loaded(d, f, Len(f)) = Loaded(c, e, Len(f))
      /\ Loaded(d, f, Len(f) + 1) = Loaded(c, e, Len(f)) + 1
  <2>1. CountsOneMore(c, e, d, f, op, n)
    BY <1>1, <1>2, InstructionCounted
  <2> QED
    BY <1>1, <2>1 DEF CountsOneMore
<1>4. PICK old, new : old = c.constants.elems /\ new = d.constants.elems
  OBVIOUS
<1>5. new = Append(old, v) /\ Len(old) \in Nat
  BY <1>4, CountIsNat DEF Loads, ConstantCount
<1>6. Len(new) = Len(old) + 1 /\ new[Len(old) + 1] = v /\ \A k \in 1 .. Len(old) : new[k] = old[k]
  <2>1. PICK S : old \in Seq(S)
    BY <1>4 DEF WellFormed
  <2>2. old \in Seq(S \cup {v}) /\ v \in S \cup {v}
    BY <2>1
  <2> QED
    BY <1>5, <2>2
<1>7. ConstantsKept(c, d)
  BY <1>4, <1>5, <1>6 DEF ConstantsKept
<1>8. StringsInHeap(d, heap)
  <2> SUFFICES ASSUME NEW k \in 1 .. Len(new), new[k].kind = "OBJ"
               PROVE  new[k].num \in DOMAIN heap
    BY <1>4 DEF StringsInHeap
  <2>1. CASE k \in 1 .. Len(old)
    BY <1>4, <1>6, <2>1 DEF ConstantsNamed, StringsInHeap
  <2>2. CASE k = Len(old) + 1
    BY <1>6, <2>2
  <2> QED
    BY <1>5, <1>6, <2>1, <2>2
<1>9. Len(old) = Loaded(c, e, Len(f)) /\ 2 * Len(old) <= size /\ size \in Nat
  BY <1>1, <1>3, <1>4 DEF ConstantsNamed, ConstantsCounted, WellFormed
<1>10. ConstantsCounted(d, f)
  <2>1. Len(d.code.elems) >= size + 2 /\ Len(d.code.elems) \in Nat
    <3>1. InstructionLength(op) \in {2, 4}
      BY DEF InstructionLength, LoadOpcodes, OPCODE_CONSTANT, OPCODE_CONSTANT_LONG
    <3> QED
      <4>1. Len(d.code.elems) = size + InstructionLength(op)
        BY <1>1, <1>2 DEF Extends, Begins
      <4> QED
        BY <1>9, <3>1, <4>1
  <2> QED
    BY <1>3, <1>4, <1>5, <1>6, <1>9, <2>1 DEF ConstantsCounted
<1>11. NamesLiteral(d, f, p, heap, Len(f))
  <2>1. /\ CodeAt(d, size + 1) = Len(old) % 256
        /\ op = OPCODE_CONSTANT => size < SHORT_LIMIT
        /\ op = OPCODE_CONSTANT_LONG => CodeAt(d, size + 2) = 0 /\ CodeAt(d, size + 3) = 0
    BY <1>1, <1>4 DEF Loads, ConstantCount
  <2>2. op = OPCODE_CONSTANT => Len(old) < 256
    BY <1>5, <1>9, <2>1, ShortLimitAssumption
  <2>3. Loaded(d, f, Len(f)) = Len(old) /\ Len(old) < Len(new)
    BY <1>3, <1>5, <1>6, <1>9
  <2>4. ShownIn(heap, new[Len(old) + 1]) = LiteralAt(p, f[Len(f)].node)
    BY <1>3, <1>6
  <2> QED
    BY <1>3, <1>4, <2>1, <2>2, <2>3, <2>4 DEF NamesLiteral
<1>12. ASSUME NEW j \in 1 .. Len(f), IsLoad(d, f, j) PROVE NamesLiteral(d, f, p, heap, j)
  <2>1. CASE j \in 1 .. Len(e)
    <3>1. IsLoad(c, e, j) /\ NamesLiteral(c, e, p, heap, j)
      BY <1>3, <1>12, <2>1 DEF ConstantsNamed
    <3> QED
      BY <1>1, <1>2, <1>7, <2>1, <3>1, NamesKept
  <2>2. CASE j = Len(f)
    BY <1>11, <2>2
  <2> QED
    BY <1>3, <2>1, <2>2
<1> QED
  BY <1>1, <1>8, <1>10, <1>12 DEF ConstantsNamed

(* More strings in the heap, and those that were there unchanged.          *)
LEMMA HeapGrown ==
  ASSUME NEW c, WellFormed(c), NEW e, Tiles(c, e), NEW p, NEW heap, ConstantsNamed(c, e, p, heap),
         NEW more, \A id \in DOMAIN heap : id \in DOMAIN more /\ more[id] = heap[id]
  PROVE  ConstantsNamed(c, e, p, more)
<1>1. StringsInHeap(c, more)
  BY DEF ConstantsNamed, StringsInHeap
<1>2. ASSUME NEW j \in 1 .. Len(e), IsLoad(c, e, j) PROVE NamesLiteral(c, e, p, more, j)
  <2>1. NamesLiteral(c, e, p, heap, j)
    BY <1>2 DEF ConstantsNamed
  <2>2. PICK v : v = c.constants.elems[Loaded(c, e, j) + 1]
    OBVIOUS
  <2>3. v.kind = "OBJ" => v.num \in DOMAIN heap
    <3>1. ConstantCount(c) \in Nat /\ ConstantCount(c) = Len(c.constants.elems)
      BY CountIsNat DEF ConstantCount
    <3>2. j \in Nat
      BY DEF Tiles
    <3>3. Loaded(c, e, j) \in Nat /\ Loaded(c, e, j) < Len(c.constants.elems)
      BY <2>1, <3>2, LoadsFinite DEF NamesLiteral
    <3>4. Loaded(c, e, j) + 1 \in 1 .. Len(c.constants.elems)
      BY <3>1, <3>3
    <3> QED
      BY <2>2, <3>4 DEF ConstantsNamed, StringsInHeap
  <2>4. ShownIn(more, v) = ShownIn(heap, v)
    BY <2>3 DEF ShownIn
  <2> QED
    BY <2>1, <2>2, <2>4 DEF NamesLiteral
<1> QED
  BY <1>1, <1>2 DEF ConstantsNamed

LiteralsIInv ==
  /\ StoreKept(store)
  /\ ListsOwned(store)
  /\ ConstantsNamed(chunk, emitted, program, store.heap)

LEMMA LiteralsInit == Init => LiteralsIInv
<1> SUFFICES ASSUME Init PROVE LiteralsIInv
  OBVIOUS
<1>1. chunk = chunk_init /\ emitted = <<>> /\ store = EmptyStore
  BY DEF Init, CompilerInit
<1>2. store.heap = <<>> /\ store.objects = <<>> /\ store.strings = table_init
  BY <1>1 DEF EmptyStore
<1>3. StoreKept(store)
  <2>1. \E S : store.heap \in Seq(S)
    BY <1>2
  <2>2. /\ DOMAIN table_init = {"count", "capacity", "entries"}
        /\ table_init.count = 0 /\ table_init.capacity = TABLE_CAPACITY_INIT
        /\ DOMAIN table_init.entries = 0 .. TABLE_CAPACITY_INIT - 1
        /\ \A i \in DOMAIN table_init.entries : table_init.entries[i].value = TABLE_NIL
    BY DEF table_init, EmptyEntries
  <2> QED
    BY <1>2, <2>1, <2>2 DEF StoreKept, TableKept
<1>4. ListsOwned(store)
  BY <1>2 DEF ListsOwned, OwnedIds
<1>5. Len(emitted) = 0 /\ Len(chunk.code.elems) = 0 /\ Len(chunk.constants.elems) = 0
  BY <1>1 DEF chunk_init, EmptyArray
<1>6. Loaded(chunk, emitted, 0 + 1) = 0
  <2>1. LoadsBefore(chunk, emitted, 0 + 1) = {}
    BY DEF LoadsBefore
  <2> QED
    BY <2>1, FS_EmptySet DEF Loaded
<1>7. ConstantsNamed(chunk, emitted, program, store.heap)
  BY <1>5, <1>6 DEF ConstantsNamed, ConstantsCounted, StringsInHeap
<1> QED
  BY <1>3, <1>4, <1>7 DEF LiteralsIInv

(* A step of the compiler adds an instruction or changes nothing here.     *)
LEMMA OpcodeStep ==
  ASSUME IInv, LiteralsIInv, NEW op \in Opcodes \ LoadOpcodes, NEW l \in Nat, NEW n \in Nat,
         chunk' = ChunkWrite(chunk, op, l), Emitted(n), UNCHANGED <<program, store>>
  PROVE  LiteralsIInv'
<1>1. Extends(chunk, chunk', op) /\ chunk'.constants = chunk.constants
  <2>1. WellFormed(chunk) /\ op \in Nat /\ op \in Opcodes \ {OPCODE_CONSTANT, OPCODE_CONSTANT_LONG}
    BY OpcodeIsByte DEF IInv, LoadOpcodes
  <2> QED
    BY <2>1, OpcodeWritten, ByteWritten
<1>2. ConstantsNamed(chunk', emitted', program, store.heap)
  BY <1>1, OpcodeNamed DEF IInv, LiteralsIInv, Emitted, Added
<1> QED
  BY <1>2 DEF LiteralsIInv

LEMMA ValueStep ==
  ASSUME IInv, LiteralsIInv, NEW v, NEW l \in Nat, NEW n \in Nat,
         chunk' = WriteValue(chunk, v, l), Emitted(n), program' = program,
         StoreKept(store'), ListsOwned(store'), Keeps(store, store'),
         v.kind = "OBJ" => v.num \in DOMAIN store'.heap,
         ShownIn(store'.heap, v) = LiteralAt(program, n)
  PROVE  LiteralsIInv'
<1>1. PICK op \in LoadOpcodes : Loads(chunk, chunk', op, v)
  BY ValueWritten DEF IInv, LoadOpcodes
<1>2. ConstantsNamed(chunk, emitted, program, store'.heap)
  BY HeapGrown DEF IInv, LiteralsIInv, Keeps
<1>3. ConstantsNamed(chunk', emitted', program, store'.heap)
  BY <1>1, <1>2, ConstantNamed DEF IInv, Emitted, Added
<1> QED
  BY <1>3 DEF LiteralsIInv

LEMMA CompileNames ==
  ASSUME IInv, LiteralsIInv, Compile
  PROVE  LiteralsIInv' /\ Keeps(store, store')
<1>1. program \in Programs /\ WellFormed(chunk) /\ Pending(program, work)
  BY DEF IInv
<1>2. \A n \in DOMAIN program : n \in Nat /\ program[n].line \in Nat
  BY <1>1, ProgramFacts
<1>3. Keeps(store, store)
  BY DEF Keeps
<1>4. ASSUME NEW n \in DOMAIN program, WriteBool(n) PROVE LiteralsIInv' /\ Keeps(store, store')
  <2>1. PICK op : op = IF IsTrue(program[n].value) THEN OPCODE_TRUE ELSE OPCODE_FALSE
    OBVIOUS
  <2>2. op \in Opcodes \ LoadOpcodes
    BY <2>1 DEF Opcodes, LoadOpcodes, OPCODE_TRUE, OPCODE_FALSE, OPCODE_CONSTANT,
                OPCODE_CONSTANT_LONG, OPCODE_RETURN
  <2>3. /\ chunk' = ChunkWrite(chunk, op, program[n].line) /\ Emitted(n)
        /\ UNCHANGED <<program, store>>
    BY <1>4, <2>1 DEF WriteBool
  <2> QED
    BY <1>2, <1>3, <2>2, <2>3, OpcodeStep
<1>5. ASSUME NEW n \in DOMAIN program, WriteNumber(n) PROVE LiteralsIInv' /\ Keeps(store, store')
  <2>1. /\ chunk' = WriteValue(chunk, program[n].value, program[n].line) /\ Emitted(n)
        /\ UNCHANGED <<program, store>> /\ program[n].kind \in {"CHAR", "REAL", "INTEGER"}
    BY <1>5 DEF WriteNumber
  <2>2. PICK v : v = program[n].value
    OBVIOUS
  <2>3. v.kind = program[n].kind
    BY <1>1, <2>1, <2>2, ProgramsAssumption
  <2>4. v.kind # "OBJ" /\ ShownIn(store.heap, v) = LiteralAt(program, n)
    BY <2>1, <2>2, <2>3 DEF ShownIn, LiteralAt
  <2>5. StoreKept(store) /\ ListsOwned(store) /\ store' = store
    BY <2>1 DEF LiteralsIInv
  <2> QED
    BY <1>2, <1>3, <2>1, <2>2, <2>4, <2>5, ValueStep
<1>6. ASSUME NEW n \in DOMAIN program, WriteString(n) PROVE LiteralsIInv' /\ Keeps(store, store')
  <2>1. PICK ref : ref = obj_string_ref(store, StringChars(program[n]))
    OBVIOUS
  <2>2. CASE ref.outcome = "ok"
    <3>1. /\ chunk' = WriteValue(chunk, Value("OBJ", ref.string), program[n].line) /\ Emitted(n)
          /\ program' = program /\ store' = ref.store /\ program[n].kind = "STRING"
      BY <1>6, <2>1, <2>2 DEF WriteString
    <3>2. PICK v : v = Value("OBJ", ref.string)
      OBVIOUS
    <3>3. v.kind = "OBJ" /\ v.num = ref.string
      BY <3>2 DEF Value
    <3>4. PICK chars : chars = StringChars(program[n])
      OBVIOUS
    <3>5. /\ StoreKept(ref.store) /\ Keeps(store, ref.store)
          /\ v.num \in DOMAIN ref.store.heap
          /\ ref.store.heap[v.num] = [chars |-> chars, owned |-> FALSE]
      <4>1. StoreKept(store) /\ FALSE \in BOOLEAN /\ ref = ObjString(store, chars, FALSE)
        BY <2>1, <3>4 DEF LiteralsIInv, obj_string_ref
      <4>2. /\ StoreKept(ref.store) /\ Keeps(store, ref.store)
            /\ ref.string \in DOMAIN ref.store.heap
            /\ ref.store.heap[ref.string] = [chars |-> chars, owned |-> FALSE]
        BY <4>1, StringMade
      <4> QED
        BY <3>3, <4>2
    <3>6. ListsOwned(ref.store)
      BY <2>1, StringListed DEF LiteralsIInv, obj_string_ref
    <3>7. ShownIn(ref.store.heap, v) = LiteralAt(program, n)
      BY <3>1, <3>3, <3>4, <3>5, StringCharsUnquoted DEF ShownIn, LiteralAt
    <3> QED
      BY <1>2, <3>1, <3>2, <3>5, <3>6, <3>7, ValueStep
  <2>3. CASE ref.outcome # "ok"
    <3>1. UNCHANGED <<program, chunk, emitted, store>>
      BY <1>6, <2>1, <2>3 DEF WriteString
    <3> QED
      BY <1>3, <3>1 DEF LiteralsIInv
  <2> QED
    BY <2>2, <2>3
<1>7. ASSUME NEW n \in DOMAIN program, VisitUnary(n) \/ VisitBinary(n) \/ VisitSilent(n)
      PROVE  LiteralsIInv' /\ Keeps(store, store')
  <2>1. UNCHANGED <<program, chunk, emitted, store>>
    BY <1>7 DEF VisitUnary, VisitBinary, VisitSilent
  <2> QED
    BY <1>3, <2>1 DEF LiteralsIInv
<1>8. ASSUME NEW n \in DOMAIN program, WriteOperator(n) PROVE LiteralsIInv' /\ Keeps(store, store')
  <2>1. PICK op : op = OperatorOpcode(program[n].kind)
    OBVIOUS
  <2>2. /\ chunk' = ChunkWrite(chunk, op, BlamedLine(n)) /\ Emitted(n)
        /\ UNCHANGED <<program, store>> /\ work # <<>> /\ Top = Emit(n)
    BY <1>8, <2>1 DEF WriteOperator
  <2>3. op \in Opcodes \ LoadOpcodes
    BY <1>1, <2>1, <2>2, EmitIsOperator DEF LoadOpcodes, Top
  <2>4. BlamedLine(n) \in Nat
    BY <1>2 DEF BlamedLine
  <2> QED
    BY <1>2, <1>3, <2>2, <2>3, <2>4, OpcodeStep
<1>9. CASE Finish
  <2>1. /\ chunk' = ChunkWrite(chunk, OPCODE_RETURN, RETURN_LINE) /\ Emitted(ROOT)
        /\ UNCHANGED <<program, store>>
    BY <1>9 DEF Finish
  <2>2. OPCODE_RETURN \in Opcodes \ LoadOpcodes /\ RETURN_LINE \in Nat /\ ROOT \in Nat
    BY DEF Opcodes, LoadOpcodes, OPCODE_CONSTANT, OPCODE_CONSTANT_LONG, OPCODE_RETURN,
           RETURN_LINE, ROOT
  <2> QED
    BY <1>3, <2>1, <2>2, OpcodeStep
<1> QED
  BY <1>4, <1>5, <1>6, <1>7, <1>8, <1>9 DEF Compile

(* The machine may make a string, and leaves the code as it is.            *)
LEMMA ExecuteNames ==
  ASSUME IInv, LiteralsIInv, Execute, UNCHANGED compilerVars
  PROVE  LiteralsIInv' /\ Keeps(store, store')
<1>1. chunk' = chunk /\ program' = program /\ emitted' = emitted
  BY ExecuteKeepsCode DEF compilerVars
<1>2. StoreKept(store') /\ ListsOwned(store') /\ Keeps(store, store')
  <2>1. CASE store' = store
    BY <2>1 DEF LiteralsIInv, Keeps
  <2>2. CASE Concat /\ store' # store
    <3>1. store' = obj_string_copy(store, Joined).store
      BY <2>2 DEF Concat
    <3>2. PICK chars : chars = Joined
      OBVIOUS
    <3> QED
      BY <3>1, <3>2, StringMade, StringListed DEF obj_string_copy, LiteralsIInv
  <2>3. ~Concat => store' = store
    BY DEF Execute, Constant, ConstantLong, Truth, Arithmetic, Trap, NegateReal, NegateInteger,
           NegateOther, Not, Equality, Comparison, Return, Underflow
  <2> QED
    BY <2>1, <2>2, <2>3
<1>3. ConstantsNamed(chunk, emitted, program, store'.heap)
  BY <1>2, HeapGrown DEF IInv, LiteralsIInv, Keeps
<1> QED
  BY <1>1, <1>2, <1>3 DEF LiteralsIInv

LEMMA LiteralsStep ==
  IInv /\ LiteralsIInv /\ [Next]_vars => LiteralsIInv'
<1> SUFFICES ASSUME IInv, LiteralsIInv, [Next]_vars PROVE LiteralsIInv'
  OBVIOUS
<1>1. CASE Compile
  BY <1>1, CompileNames
<1>2. CASE Execute /\ UNCHANGED compilerVars
  BY <1>2, ExecuteNames
<1>3. CASE UNCHANGED vars
  BY <1>3 DEF vars, compilerVars, LiteralsIInv
<1> QED
  BY <1>1, <1>2, <1>3 DEF Next, Terminated

LEMMA LiteralsInvariant == Spec => []LiteralsIInv
BY LiteralsStep, LiteralsInit, InductiveInvariant, PTL DEF Spec

-----------------------------------------------------------------------------
(* Order and depth.  A mark tells how far the walk has come: the nodes     *)
(* that are done, and the values that their code leaves on the stack.  A   *)
(* call moves the mark over its nodes, and over the GROUPs around them.    *)
Marks == [done : Nat, height : Nat]

Mark(done, height) == [done |-> done, height |-> height]

Takes(kind) == IF kind \in BinaryKinds THEN 2 ELSE 1

Call(p, x, s, t) ==
  /\ (IF x.task = "visit" THEN p[x.node].first ELSE x.node) = s.done + 1
  /\ s.done < x.node /\ x.node <= t.done
  /\ \A m \in x.node + 1 .. t.done : p[m].kind = "GROUP"
  /\ x.task = "visit" => t.height = s.height + 1
  /\ x.task = "emit" => s.height >= Takes(p[x.node].kind)
                        /\ t.height = s.height + 1 - Takes(p[x.node].kind)

(* From mark s on, the calls that wait come to the end of the tree, with   *)
(* one value on the stack.                                                 *)
ChainBy(p, w, s, g) ==
  /\ g \in [0 .. Len(w) -> Marks]
  /\ g[0] = s /\ g[Len(w)].done = Len(p) /\ g[Len(w)].height = 1
  /\ \A i \in 1 .. Len(w) : Call(p, w[i], g[i - 1], g[i])

Chain(p, w, s) == \E g : ChainBy(p, w, s, g)

LEMMA ChainEnds ==
  ASSUME NEW p, NEW s, Chain(p, <<>>, s)
  PROVE  s.done = Len(p) /\ s.height = 1
BY DEF Chain, ChainBy

(* The first call is done.                                                 *)
LEMMA ChainHead ==
  ASSUME NEW p, NEW w, Pending(p, w), w # <<>>, NEW s, Chain(p, w, s)
  PROVE  \E t \in Marks : Call(p, Head(w), s, t) /\ Chain(p, Tail(w), t)
<1>1. PICK g : ChainBy(p, w, s, g)
  BY DEF Chain
<1>2. /\ Len(w) \in Nat /\ Len(w) > 0 /\ Len(Tail(w)) = Len(w) - 1 /\ Head(w) = w[1]
      /\ \A i \in 1 .. Len(w) - 1 : Tail(w)[i] = w[i + 1]
  BY DEF Pending
<1> DEFINE h == [i \in 0 .. Len(w) - 1 |-> g[i + 1]]
<1>3. g[1] \in Marks /\ Call(p, w[1], s, g[1])
  <2>1. 1 \in 1 .. Len(w) /\ 1 \in 0 .. Len(w) /\ 1 - 1 = 0
    BY <1>2
  <2>2. Call(p, w[1], g[1 - 1], g[1])
    BY <1>1, <2>1 DEF ChainBy
  <2> QED
    BY <1>1, <2>1, <2>2 DEF ChainBy
<1>4. ChainBy(p, Tail(w), g[1], h)
  <2>1. h \in [0 .. Len(Tail(w)) -> Marks]
    BY <1>1, <1>2 DEF ChainBy
  <2>2. h[0] = g[1] /\ h[Len(Tail(w))] = g[Len(w)]
    BY <1>2
  <2>3. ASSUME NEW i \in 1 .. Len(Tail(w)) PROVE Call(p, Tail(w)[i], h[i - 1], h[i])
    <3>1. i + 1 \in 1 .. Len(w) /\ Tail(w)[i] = w[i + 1] /\ (i + 1) - 1 = i
      BY <1>2
    <3>2. h[i - 1] = g[i] /\ h[i] = g[i + 1]
      BY <1>2
    <3>3. Call(p, w[i + 1], g[(i + 1) - 1], g[i + 1])
      BY <1>1, <3>1 DEF ChainBy
    <3> QED
      BY <3>1, <3>2, <3>3
  <2> HIDE DEF h
  <2> QED
    BY <1>1, <2>1, <2>2, <2>3 DEF ChainBy
<1> QED
  BY <1>2, <1>3, <1>4 DEF Chain

(* A call is put in front of the others.                                   *)
LEMMA ChainCons ==
  ASSUME NEW p, NEW w, Pending(p, w), NEW s \in Marks, NEW t \in Marks, Chain(p, w, t),
         NEW x, Pending(p, <<x>>), Call(p, x, s, t)
  PROVE  Chain(p, <<x>> \o w, s)
<1>1. PICK g : ChainBy(p, w, t, g)
  BY DEF Chain
<1>2. PICK v : v = <<x>> \o w
  OBVIOUS
<1>3. /\ Len(w) \in Nat /\ Len(v) = Len(w) + 1 /\ v[1] = x
      /\ \A i \in 2 .. Len(v) : v[i] = w[i - 1]
  <2>1. PICK S : w \in Seq(S) /\ <<x>> \in Seq(S)
    BY DEF Pending
  <2> QED
    BY <1>2, <2>1
<1> DEFINE h == [i \in 0 .. Len(v) |-> IF i = 0 THEN s ELSE g[i - 1]]
<1>4. h \in [0 .. Len(v) -> Marks]
  BY <1>1, <1>3 DEF ChainBy
<1>5. h[0] = s /\ h[Len(v)] = g[Len(w)] /\ h[1] = g[0]
  BY <1>3
<1>6. ASSUME NEW i \in 1 .. Len(v) PROVE Call(p, v[i], h[i - 1], h[i])
  <2>1. CASE i = 1
    BY <1>1, <1>3, <1>5, <2>1 DEF ChainBy
  <2>2. CASE i # 1
    <3>1. i - 1 \in 1 .. Len(w) /\ v[i] = w[i - 1] /\ h[i - 1] = g[(i - 1) - 1] /\ h[i] = g[i - 1]
      BY <1>3, <2>2
    <3> QED
      BY <1>1, <3>1 DEF ChainBy
  <2> QED
    BY <2>1, <2>2
<1> HIDE DEF h
<1>7. ChainBy(p, v, s, h)
  BY <1>1, <1>4, <1>5, <1>6 DEF ChainBy
<1> QED
  BY <1>2, <1>7 DEF Chain

(* What is emitted up to a mark: the nodes of the tree that have an        *)
(* instruction, in order.                                                  *)
Silent(p) == \E n \in DOMAIN p : p[n].kind \in SilentKinds

NodesOf(e) == {e[j].node : j \in 1 .. Len(e)}
Coded(p, k) == {n \in 1 .. k : p[n].kind # "GROUP"}

InOrder(p, e, k) ==
  /\ \A i, j \in 1 .. Len(e) : i < j => e[i].node < e[j].node
  /\ \A j \in 1 .. Len(e) : e[j].node \in 1 .. k
  /\ ~Silent(p) => NodesOf(e) = Coded(p, k)

(* The depths of the stack before and after each instruction.              *)
Left(op) == IF op = OPCODE_RETURN THEN 0 ELSE 1

HeightsBy(c, e, h, k) ==
  /\ h \in [0 .. Len(e) -> Nat]
  /\ h[0] = 0 /\ h[Len(e)] = k
  /\ \A j \in 1 .. Len(e) :
       LET op == CodeAt(c, e[j].offset)
       IN  h[j - 1] >= Pops(op) /\ h[j] = h[j - 1] - Pops(op) + Left(op)

Heights(c, e, k) == \E h : HeightsBy(c, e, h, k)

(* The instruction of node n, which a call has moved the mark over.        *)
LEMMA OrderGrows ==
  ASSUME NEW c, WellFormed(c), NEW e, Tiles(c, e), NEW p, NEW x, NEW s \in Marks, NEW t \in Marks,
         Call(p, x, s, t), NEW n \in Nat, n = x.node, n = s.done + 1,
         p[n].kind # "GROUP", InOrder(p, e, s.done)
  PROVE  InOrder(p, Added(e, n, Len(c.code.elems)), t.done)
<1>1. PICK f : f = Added(e, n, Len(c.code.elems))
  OBVIOUS
<1>2. /\ Len(e) \in Nat /\ Len(f) = Len(e) + 1 /\ f[Len(f)].node = n
      /\ \A j \in 1 .. Len(e) : f[j] = e[j]
  <2>1. PICK i : i = [node |-> n, offset |-> Len(c.code.elems)]
    OBVIOUS
  <2>2. i \in [node : Nat, offset : Nat] /\ i.node = n /\ f = Append(e, i)
    BY <1>1, <2>1 DEF WellFormed, Added
  <2>3. e \in Seq([node : Nat, offset : Nat])
    BY DEF Tiles
  <2> QED
    BY <2>2, <2>3
<1>3. PICK a, b : a = s.done /\ b = t.done /\ a \in Nat /\ b \in Nat
  BY DEF Marks
<1>4. /\ n = a + 1 /\ n <= b
      /\ \A m \in n + 1 .. b : p[m].kind = "GROUP"
  BY <1>3 DEF Call
<1>5. \A j \in 1 .. Len(e) : f[j].node \in 1 .. a
  BY <1>2, <1>3 DEF InOrder
<1>6. \A i, j \in 1 .. Len(f) : i < j => f[i].node < f[j].node
  <2> SUFFICES ASSUME NEW i \in 1 .. Len(f), NEW j \in 1 .. Len(f), i < j
               PROVE  f[i].node < f[j].node
    OBVIOUS
  <2>1. CASE j \in 1 .. Len(e)
    <3>1. i \in 1 .. Len(e)
      BY <1>2, <2>1
    <3> QED
      BY <1>2, <2>1, <3>1 DEF InOrder
  <2>2. CASE j = Len(f)
    <3>1. i \in 1 .. Len(e)
      BY <1>2, <2>2
    <3> QED
      BY <1>2, <1>3, <1>4, <1>5, <2>2, <3>1
  <2> QED
    BY <1>2, <2>1, <2>2
<1>7. \A j \in 1 .. Len(f) : f[j].node \in 1 .. b
  <2> SUFFICES ASSUME NEW j \in 1 .. Len(f) PROVE f[j].node \in 1 .. b
    OBVIOUS
  <2>1. CASE j \in 1 .. Len(e)
    BY <1>3, <1>4, <1>5, <2>1
  <2>2. CASE j = Len(f)
    BY <1>2, <1>3, <1>4, <2>2
  <2> QED
    BY <1>2, <2>1, <2>2
<1>8. ASSUME ~Silent(p) PROVE NodesOf(f) = Coded(p, b)
  <2>1. NodesOf(e) = Coded(p, a)
    BY <1>3, <1>8 DEF InOrder
  <2>2. NodesOf(f) = NodesOf(e) \cup {n}
    <3>1. 1 .. Len(f) = (1 .. Len(e)) \cup {Len(f)}
      BY <1>2
    <3> QED
      BY <1>2, <3>1 DEF NodesOf
  <2>3. Coded(p, b) = Coded(p, a) \cup {n}
    <3>1. 1 .. b = (1 .. a) \cup {n} \cup (n + 1 .. b)
      BY <1>3, <1>4
    <3> QED
      BY <1>4, <3>1 DEF Coded
  <2> QED
    BY <2>1, <2>2, <2>3
<1> QED
  BY <1>1, <1>3, <1>6, <1>7, <1>8 DEF InOrder

LEMMA HeightsGrow ==
  ASSUME NEW c, WellFormed(c), NEW e, Tiles(c, e), NEW d, NEW op, Extends(c, d, op), NEW n \in Nat,
         NEW k \in Nat, Heights(c, e, k), k >= Pops(op)
  PROVE  Heights(d, Added(e, n, Len(c.code.elems)), k - Pops(op) + Left(op))
<1>1. PICK f, size : f = Added(e, n, size) /\ size = Len(c.code.elems)
  OBVIOUS
<1>2. PICK h : HeightsBy(c, e, h, k)
  BY DEF Heights
<1>3. /\ Len(e) \in Nat /\ Len(f) = Len(e) + 1
      /\ f[Len(f)].offset = size /\ CodeAt(d, size) = op
      /\ \A j \in 1 .. Len(e) : f[j] = e[j]
  <2>1. CountsOneMore(c, e, d, f, op, n)
    BY <1>1, InstructionCounted
  <2> QED
    BY <1>1, <2>1 DEF CountsOneMore
<1>4. \A j \in 1 .. Len(e) : CodeAt(d, f[j].offset) = CodeAt(c, e[j].offset)
  BY <1>3, InstructionKept
<1>5. PICK last : last = k - Pops(op) + Left(op)
  OBVIOUS
<1>6. last \in Nat
  BY <1>5 DEF Left, Pops
<1> DEFINE g == [j \in 0 .. Len(f) |-> IF j = Len(f) THEN last ELSE h[j]]
<1>7. g \in [0 .. Len(f) -> Nat] /\ g[0] = 0 /\ g[Len(f)] = last
      /\ \A j \in 0 .. Len(e) : g[j] = h[j]
  BY <1>2, <1>3, <1>6 DEF HeightsBy
<1> HIDE DEF g
<1>8. ASSUME NEW j \in 1 .. Len(f)
      PROVE  LET o == CodeAt(d, f[j].offset)
             IN  g[j - 1] >= Pops(o) /\ g[j] = g[j - 1] - Pops(o) + Left(o)
  <2>1. CASE j \in 1 .. Len(e)
    <3>1. j \in 0 .. Len(e) /\ j - 1 \in 0 .. Len(e)
      BY <1>3, <2>1
    <3> QED
      BY <1>2, <1>4, <1>7, <2>1, <3>1 DEF HeightsBy
  <2>2. CASE j = Len(f)
    <3>1. j - 1 = Len(e) /\ g[j - 1] = k /\ g[j] = last
      BY <1>2, <1>3, <1>7, <2>2 DEF HeightsBy
    <3> QED
      BY <1>3, <1>5, <2>2, <3>1
  <2> QED
    BY <1>3, <2>1, <2>2
<1>9. HeightsBy(d, f, g, last)
  BY <1>7, <1>8 DEF HeightsBy
<1> QED
  BY <1>1, <1>5, <1>9 DEF Heights

(* What is written when the walk has come to a mark.                       *)
WrittenTo(c, e, p, s) ==
  /\ InOrder(p, e, s.done)
  /\ ~Silent(p) => Heights(c, e, s.height)

LEMMA WrittenGrows ==
  ASSUME NEW c, WellFormed(c), NEW e, Tiles(c, e), NEW d, NEW op, Extends(c, d, op),
         NEW p, NEW x, NEW s \in Marks, NEW t \in Marks, Call(p, x, s, t), WrittenTo(c, e, p, s),
         NEW n \in Nat, n = x.node, n = s.done + 1, p[n].kind # "GROUP",
         s.height >= Pops(op), t.height = s.height - Pops(op) + Left(op)
  PROVE  WrittenTo(d, Added(e, n, Len(c.code.elems)), p, t)
<1>1. InOrder(p, Added(e, n, Len(c.code.elems)), t.done)
  BY OrderGrows DEF WrittenTo
<1>2. ASSUME ~Silent(p) PROVE Heights(d, Added(e, n, Len(c.code.elems)), t.height)
  <2>1. PICK k : k = s.height /\ k \in Nat
    BY DEF Marks
  <2>2. Heights(c, e, k)
    BY <1>2, <2>1 DEF WrittenTo
  <2> QED
    BY <2>1, <2>2, HeightsGrow
<1> QED
  BY <1>1, <1>2 DEF WrittenTo

(* Where the operands of a node are.                                       *)
LEMMA TreeFacts ==
  ASSUME NEW p \in Programs, NEW n \in DOMAIN p
  PROVE  /\ n \in Nat /\ n >= 1 /\ p[n].first \in Nat /\ 1 <= p[n].first /\ p[n].first <= n
         /\ p[n].kind \in LiteralKinds => p[n].first = n
         /\ p[n].kind \in UnaryKinds => n - 1 \in DOMAIN p /\ p[n].first = p[n - 1].first
         /\ p[n].kind \in BinaryKinds =>
              \E m \in DOMAIN p : /\ m = Lhs(p, n) /\ p[n].first = p[m].first
                                  /\ n - 1 \in DOMAIN p /\ p[n - 1].first = m + 1 /\ m + 1 < n
<1>1. IsTree(p) /\ DOMAIN p = 1 .. Len(p) /\ Len(p) \in Nat
  BY ProgramIsTree
<1>2. \A m \in 1 .. Len(p) :
        /\ p[m].first \in 1 .. m
        /\ p[m].kind \in LiteralKinds => p[m].first = m
        /\ p[m].kind \in UnaryKinds => m > 1 /\ p[m].first = p[m - 1].first
        /\ p[m].kind \in BinaryKinds => /\ m > 1 /\ p[m - 1].first > 1
                                        /\ p[m].first = p[p[m - 1].first - 1].first
  BY <1>1 DEF IsTree
<1>3. ASSUME p[n].kind \in BinaryKinds
      PROVE  \E m \in DOMAIN p : /\ m = Lhs(p, n) /\ p[n].first = p[m].first
                                 /\ n - 1 \in DOMAIN p /\ p[n - 1].first = m + 1 /\ m + 1 < n
  <2>1. n > 1 /\ p[n - 1].first > 1 /\ n - 1 \in 1 .. Len(p)
    BY <1>1, <1>2, <1>3
  <2>2. PICK f : f = p[n - 1].first
    OBVIOUS
  <2>3. f \in 1 .. n - 1 /\ f > 1 /\ p[n].first = p[f - 1].first
    BY <1>1, <1>2, <1>3, <2>1, <2>2
  <2>4. f - 1 \in 1 .. Len(p) /\ (f - 1) + 1 = f /\ f - 1 = Lhs(p, n)
    BY <1>1, <2>1, <2>2, <2>3 DEF Lhs
  <2> QED
    BY <1>1, <2>1, <2>2, <2>3, <2>4
<1> QED
  BY <1>1, <1>2, <1>3

LEMMA VisitMoves ==
  ASSUME NEW p, NEW n, NEW s, NEW t, p[n].first = s.done + 1, s.done < n, n <= t.done,
         \A m \in n + 1 .. t.done : p[m].kind = "GROUP", t.height = s.height + 1
  PROVE  Call(p, Visit(n), s, t)
<1>1. Visit(n).task = "visit" /\ Visit(n).node = n
  BY DEF Visit
<1> QED
  BY <1>1 DEF Call

LEMMA UnaryOpened ==
  ASSUME NEW p \in Programs, NEW n \in DOMAIN p, p[n].kind \in UnaryKinds \ SilentKinds,
         NEW w, Pending(p, w), NEW s \in Marks, NEW t \in Marks, Call(p, Visit(n), s, t),
         Chain(p, w, t)
  PROVE  IF p[n].kind = "GROUP" THEN Chain(p, <<Visit(n - 1)>> \o w, s)
         ELSE Chain(p, <<Visit(n - 1)>> \o (<<Emit(n)>> \o w), s)
<1>1. n \in Nat /\ n - 1 \in DOMAIN p /\ p[n].first = p[n - 1].first /\ p[n].first <= n - 1
      /\ p[n - 1].first \in Nat /\ n - 1 >= 1
  <2>1. n \in Nat /\ n - 1 \in DOMAIN p /\ p[n].first = p[n - 1].first
    BY TreeFacts
  <2> QED
    BY <2>1, TreeFacts
<1>2. PICK a, b, k : a = s.done /\ b = t.done /\ k = s.height
                     /\ a \in Nat /\ b \in Nat /\ k \in Nat /\ t.height \in Nat
  BY DEF Marks
<1>3. /\ p[n].first = a + 1 /\ n <= b /\ t.height = k + 1
      /\ \A m \in n + 1 .. b : p[m].kind = "GROUP"
  BY <1>2 DEF Call, Visit
<1>4. Pending(p, <<Visit(n - 1)>>)
  BY <1>1, PendingVisit
<1>5. CASE p[n].kind = "GROUP"
  <2>1. Call(p, Visit(n - 1), s, t)
    <3>1. \A m \in (n - 1) + 1 .. b : p[m].kind = "GROUP"
      BY <1>1, <1>2, <1>3, <1>5
    <3>2. p[n - 1].first = a + 1 /\ a < n - 1 /\ n - 1 <= b
      BY <1>1, <1>2, <1>3
    <3> QED
      BY <1>2, <1>3, <3>1, <3>2, VisitMoves
  <2> QED
    BY <1>4, <1>5, <2>1, ChainCons
<1>6. CASE p[n].kind # "GROUP"
  <2>1. PICK u : u = Mark(n - 1, k + 1)
    OBVIOUS
  <2>2. u \in Marks /\ u.done = n - 1 /\ u.height = k + 1
    BY <1>1, <1>2, <2>1 DEF Mark, Marks
  <2>3. Call(p, Visit(n - 1), s, u)
    <3>1. (n - 1) + 1 .. u.done = {}
      BY <1>1, <2>2
    <3>2. p[n - 1].first = a + 1 /\ a < n - 1 /\ n - 1 <= n - 1
      BY <1>1, <1>2, <1>3
    <3> QED
      BY <1>2, <2>2, <3>1, <3>2, VisitMoves
  <2>4. Call(p, Emit(n), u, t)
    <3>1. Takes(p[n].kind) = 1
      BY DEF Takes, UnaryKinds, BinaryKinds
    <3> QED
      BY <1>1, <1>2, <1>3, <2>2, <3>1 DEF Call, Emit
  <2>5. Pending(p, <<Emit(n)>>)
    BY <1>6, PendingEmit DEF OperatorKinds
  <2>6. Chain(p, <<Emit(n)>> \o w, u) /\ Pending(p, <<Emit(n)>> \o w)
    BY <2>2, <2>4, <2>5, ChainCons, PendingConcat
  <2> QED
    BY <1>4, <1>6, <2>2, <2>3, <2>6, ChainCons
<1> QED
  BY <1>5, <1>6

LEMMA BinaryOpened ==
  ASSUME NEW p \in Programs, NEW n \in DOMAIN p, p[n].kind \in BinaryKinds \ SilentKinds,
         NEW w, Pending(p, w), NEW s \in Marks, NEW t \in Marks, Call(p, Visit(n), s, t),
         Chain(p, w, t)
  PROVE  Chain(p, <<Visit(Lhs(p, n))>> \o (<<Visit(n - 1)>> \o (<<Emit(n)>> \o w)), s)
<1>1. PICK l \in DOMAIN p : /\ l = Lhs(p, n) /\ p[n].first = p[l].first
                            /\ n - 1 \in DOMAIN p /\ p[n - 1].first = l + 1 /\ l + 1 < n
  BY TreeFacts
<1>2. n \in Nat /\ l \in Nat /\ n - 1 >= 1 /\ p[l].first <= l /\ p[l].first \in Nat
  BY <1>1, TreeFacts
<1>3. PICK a, b, k : a = s.done /\ b = t.done /\ k = s.height
                     /\ a \in Nat /\ b \in Nat /\ k \in Nat /\ t.height \in Nat
  BY DEF Marks
<1>4. /\ p[n].first = a + 1 /\ n <= b /\ t.height = k + 1
      /\ \A m \in n + 1 .. b : p[m].kind = "GROUP"
  BY <1>3 DEF Call, Visit
<1>5. PICK u, v : u = Mark(l, k + 1) /\ v = Mark(n - 1, k + 2)
  OBVIOUS
<1>6. /\ u \in Marks /\ u.done = l /\ u.height = k + 1
      /\ v \in Marks /\ v.done = n - 1 /\ v.height = k + 2
  BY <1>2, <1>3, <1>5 DEF Mark, Marks
<1>7. Call(p, Visit(l), s, u)
  <2>1. l + 1 .. u.done = {}
    BY <1>2, <1>6
  <2>2. p[l].first = a + 1 /\ a < l /\ l <= l
    BY <1>1, <1>2, <1>3, <1>4
  <2> QED
    BY <1>3, <1>6, <2>1, <2>2, VisitMoves
<1>8. Call(p, Visit(n - 1), u, v)
  <2>1. (n - 1) + 1 .. v.done = {}
    BY <1>2, <1>6
  <2> QED
    BY <1>1, <1>2, <1>3, <1>6, <2>1 DEF Call, Visit
<1>9. Call(p, Emit(n), v, t)
  <2>1. Takes(p[n].kind) = 2
    BY DEF Takes
  <2> QED
    BY <1>2, <1>3, <1>4, <1>6, <2>1 DEF Call, Emit
<1>10. Pending(p, <<Visit(l)>>) /\ Pending(p, <<Visit(n - 1)>>) /\ Pending(p, <<Emit(n)>>)
  BY <1>1, PendingVisit, PendingEmit DEF OperatorKinds, BinaryKinds
<1>11. Chain(p, <<Emit(n)>> \o w, v) /\ Pending(p, <<Emit(n)>> \o w)
  BY <1>6, <1>9, <1>10, ChainCons, PendingConcat
<1>12. PICK z : z = <<Emit(n)>> \o w
  OBVIOUS
<1>13. Chain(p, <<Visit(n - 1)>> \o z, u) /\ Pending(p, <<Visit(n - 1)>> \o z)
  BY <1>6, <1>8, <1>10, <1>11, <1>12, ChainCons, PendingConcat
<1> QED
  BY <1>1, <1>6, <1>7, <1>10, <1>12, <1>13, ChainCons

(* The rest of a walk is the same however the calls are put together.      *)
LEMMA PendingAssociative ==
  ASSUME NEW p, NEW u, NEW v, NEW w, Pending(p, u), Pending(p, v), Pending(p, w)
  PROVE  (u \o v) \o w = u \o (v \o w)
BY ConcatAssociative DEF Pending

LEMMA Associative == \A S : \A a, b, c \in Seq(S) : (a \o b) \o c = a \o (b \o c)
BY ConcatAssociative

LEMMA FourConcatenated ==
  ASSUME NEW S, NEW a \in Seq(S), NEW b \in Seq(S), NEW c \in Seq(S), NEW w \in Seq(S)
  PROVE  ((a \o b) \o c) \o w = a \o (b \o (c \o w))
<1>1. ASSUME NEW u \in Seq(S) PROVE (u \o c) \o w = u \o (c \o w)
  BY SMTT(60), ConcatAssociative
<1>2. ASSUME NEW v \in Seq(S) PROVE (a \o b) \o v = a \o (b \o v)
  BY SMTT(60), ConcatAssociative
<1>3. a \o b \in Seq(S) /\ c \o w \in Seq(S)
  BY ConcatProperties
<1> QED
  BY <1>1, <1>2, <1>3

LEMMA PairConcatenated ==
  ASSUME NEW S, NEW x \in S, NEW y \in S
  PROVE  <<x, y>> = <<x>> \o <<y>>
<1>1. <<x>> \in Seq(S) /\ <<y>> \in Seq(S) /\ <<x, y>> \in Seq(S)
  OBVIOUS
<1>2. Len(<<x, y>>) = 2 /\ Len(<<x>>) = 1 /\ Len(<<y>>) = 1
  OBVIOUS
<1>3. <<x>> \o <<y>> \in Seq(S) /\ Len(<<x>> \o <<y>>) = 2
  BY <1>1, <1>2, ConcatProperties
<1>4. (<<x>> \o <<y>>)[1] = x /\ (<<x>> \o <<y>>)[2] = y
  BY <1>1, <1>2
<1>5. \A i \in 1 .. 2 : <<x, y>>[i] = (<<x>> \o <<y>>)[i]
  BY <1>4
<1> QED
  BY <1>1, <1>2, <1>3, <1>5, SeqEqual

LEMMA ThreeCalls ==
  ASSUME NEW S, NEW x \in S, NEW y \in S, NEW z \in S, NEW w \in Seq(S), NEW all,
         all = <<x, y>> \o <<z>> \o w
  PROVE  all = <<x>> \o (<<y>> \o (<<z>> \o w))
<1>1. <<x>> \in Seq(S) /\ <<y>> \in Seq(S) /\ <<z>> \in Seq(S)
  OBVIOUS
<1>2. <<x, y>> = <<x>> \o <<y>>
  BY PairConcatenated
<1>3. ((<<x>> \o <<y>>) \o <<z>>) \o w = <<x>> \o (<<y>> \o (<<z>> \o w))
  BY <1>1, FourConcatenated
<1> QED
  BY <1>2, <1>3

-----------------------------------------------------------------------------
(* The invariant: while the chunk is written, a mark tells how far.        *)
OrderIInv ==
  /\ phase = "compile" =>
       \E s \in Marks : Chain(program, work, s) /\ WrittenTo(chunk, emitted, program, s)
  /\ phase # "compile" =>
       CodeIsPostOrder /\ (~HasSilent => Heights(chunk, emitted, 0))

LEMMA OrderInit == Init => OrderIInv
<1> SUFFICES ASSUME Init PROVE OrderIInv
  OBVIOUS
<1>1. /\ program \in Programs /\ work = <<Visit(Len(program))>>
      /\ emitted = <<>> /\ phase = "compile"
  BY DEF Init, CompilerInit
<1>2. PICK n : n = Len(program)
  OBVIOUS
<1>3. n \in DOMAIN program /\ n \in Nat /\ n >= 1 /\ program[n].first = 1
  <2>1. n \in DOMAIN program
    BY <1>1, <1>2, ProgramFacts
  <2>2. program[n].first = 1
    BY <1>1, <1>2, ProgramsAssumption DEF IsTree
  <2> QED
    BY <1>1, <2>1, <2>2, TreeFacts
<1>4. Mark(0, 0) \in Marks /\ Mark(n, 1) \in Marks
  BY <1>3 DEF Mark, Marks
<1>5. Chain(program, work, Mark(0, 0))
  <2> DEFINE g == [i \in 0 .. 1 |-> IF i = 0 THEN Mark(0, 0) ELSE Mark(n, 1)]
  <2>1. g \in [0 .. 1 -> Marks] /\ g[0] = Mark(0, 0) /\ g[1] = Mark(n, 1)
    BY <1>4
  <2>2. Call(program, Visit(n), Mark(0, 0), Mark(n, 1))
    <3>1. n + 1 .. n = {}
      BY <1>3
    <3> QED
      BY <1>3, <3>1 DEF Call, Visit, Mark
  <2> HIDE DEF g
  <2>3. Len(work) = 1 /\ work[1] = Visit(n)
    BY <1>1, <1>2
  <2>4. ChainBy(program, work, Mark(0, 0), g)
    <3>1. g[1].done = Len(program) /\ g[1].height = 1
      BY <1>2, <2>1 DEF Mark
    <3>2. \A i \in 1 .. 1 : i = 1 /\ i - 1 = 0
      OBVIOUS
    <3> QED
      BY <2>1, <2>2, <2>3, <3>1, <3>2 DEF ChainBy
  <2> QED
    BY <2>4 DEF Chain
<1>6. WrittenTo(chunk, emitted, program, Mark(0, 0))
  <2>1. Len(emitted) = 0 /\ 1 .. 0 = {}
    BY <1>1
  <2>2. InOrder(program, emitted, 0)
    BY <2>1 DEF InOrder, NodesOf, Coded
  <2>3. Heights(chunk, emitted, 0)
    <3>1. HeightsBy(chunk, emitted, [j \in 0 .. 0 |-> 0], 0)
      BY <2>1 DEF HeightsBy
    <3> QED
      BY <3>1 DEF Heights
  <2> QED
    BY <2>2, <2>3 DEF WrittenTo, Mark
<1> QED
  BY <1>1, <1>4, <1>5, <1>6 DEF OrderIInv

(* The instruction of the call that is due.                                *)
LEMMA InstructionMoves ==
  ASSUME IInv, phase' = "compile", program' = program,
         NEW s \in Marks, NEW t \in Marks, WrittenTo(chunk, emitted, program, s),
         Call(program, Head(work), s, t), Chain(program, Tail(work), t),
         NEW n \in Nat, n = Head(work).node, n = s.done + 1, program[n].kind # "GROUP",
         NEW op, Extends(chunk, chunk', op), Emitted(n), work' = Tail(work),
         s.height >= Pops(op), t.height = s.height - Pops(op) + Left(op)
  PROVE  OrderIInv'
<1>1. WrittenTo(chunk', emitted', program, t)
  BY WrittenGrows DEF IInv, Emitted, Added
<1> QED
  BY <1>1 DEF OrderIInv

(* A visit that writes one: that of a literal.                             *)
LEMMA LiteralMoves ==
  ASSUME IInv, OrderIInv, phase' = "compile", program' = program,
         NEW n \in DOMAIN program, Visiting(n), program[n].kind \in LiteralKinds,
         NEW op, Pops(op) = 0, op # OPCODE_RETURN,
         Extends(chunk, chunk', op), Emitted(n), work' = Tail(work)
  PROVE  OrderIInv'
<1>1. phase = "compile" /\ work # <<>> /\ Head(work) = Visit(n) /\ Pending(program, work)
  BY DEF Visiting, Top, IInv
<1>2. PICK s \in Marks : Chain(program, work, s) /\ WrittenTo(chunk, emitted, program, s)
  BY <1>1 DEF OrderIInv
<1>3. PICK t \in Marks : Call(program, Visit(n), s, t) /\ Chain(program, Tail(work), t)
  BY <1>1, <1>2, ChainHead
<1>4. n \in Nat /\ n = s.done + 1 /\ t.height = s.height + 1 /\ Visit(n).node = n
  BY <1>3, TreeFacts DEF Call, Visit, IInv
<1>5. s.height >= Pops(op) /\ t.height = s.height - Pops(op) + Left(op)
  BY <1>4 DEF Left, Marks
<1>6. program[n].kind # "GROUP"
  BY DEF LiteralKinds
<1> QED
  BY <1>1, <1>2, <1>3, <1>4, <1>5, <1>6, InstructionMoves

LEMMA PopsOf ==
  /\ \A op \in {OPCODE_CONSTANT, OPCODE_CONSTANT_LONG, OPCODE_TRUE, OPCODE_FALSE} : Pops(op) = 0
  /\ \A op \in {OPCODE_NEGATE, OPCODE_NOT, OPCODE_RETURN} : Pops(op) = 1
  /\ \A op \in (OPCODE_ADD .. OPCODE_CONCAT) \cup (OPCODE_EQUAL .. OPCODE_GREATER_EQUAL) :
       Pops(op) = 2 /\ op # OPCODE_RETURN
BY DEF Pops, OPCODE_CONSTANT, OPCODE_CONSTANT_LONG, OPCODE_TRUE, OPCODE_FALSE, OPCODE_NEGATE,
       OPCODE_NOT, OPCODE_RETURN, OPCODE_ADD, OPCODE_CONCAT, OPCODE_EQUAL, OPCODE_GREATER_EQUAL

LEMMA OperatorPops ==
  ASSUME NEW kind \in OperatorKinds
  PROVE  /\ Pops(OperatorOpcode(kind)) = Takes(kind)
         /\ OperatorOpcode(kind) # OPCODE_RETURN
<1>1. CASE kind \in UnaryKinds
  <2>1. kind \in {"NOT", "NEGATE"}
    BY <1>1 DEF OperatorKinds, UnaryKinds, SilentKinds
  <2>2. Takes(kind) = 1
    BY <2>1 DEF Takes, BinaryKinds
  <2>3. OperatorOpcode(kind) \in {OPCODE_NEGATE, OPCODE_NOT}
    BY <2>1 DEF OperatorOpcode
  <2> QED
    BY <2>2, <2>3, PopsOf DEF OPCODE_NEGATE, OPCODE_NOT, OPCODE_RETURN
<1>2. CASE kind \notin UnaryKinds
  <2>1. kind \in {"ADD", "MUL", "DIV", "INT_DIV", "CONCAT", "EQUAL", "NOT_EQUAL", "GREATER",
                  "GREATER_EQUAL", "LESS", "LESS_EQUAL"}
    BY <1>2 DEF OperatorKinds, BinaryKinds, SilentKinds
  <2>2. Takes(kind) = 2
    BY <2>1 DEF Takes, BinaryKinds
  <2>3. OperatorOpcode(kind) \in
          (OPCODE_ADD .. OPCODE_CONCAT) \cup (OPCODE_EQUAL .. OPCODE_GREATER_EQUAL)
    BY <2>1 DEF OperatorOpcode, OPCODE_ADD, OPCODE_MUL, OPCODE_DIV, OPCODE_CONCAT, OPCODE_EQUAL,
                OPCODE_NOT_EQUAL, OPCODE_GREATER, OPCODE_GREATER_EQUAL, OPCODE_LESS,
                OPCODE_LESS_EQUAL
  <2> QED
    BY <2>2, <2>3, PopsOf
<1> QED
  BY <1>1, <1>2

(* The RETURN, after the whole tree.                                       *)
LEMMA ReturnMoves ==
  ASSUME IInv, OrderIInv, Finish
  PROVE  OrderIInv'
<1>1. /\ phase = "compile" /\ phase' = "run" /\ work = <<>> /\ program' = program
      /\ chunk' = ChunkWrite(chunk, OPCODE_RETURN, RETURN_LINE)
      /\ emitted' = Added(emitted, ROOT, Len(chunk.code.elems))
      /\ WellFormed(chunk) /\ Tiles(chunk, emitted) /\ program \in Programs
  BY DEF Finish, IInv, Emitted, Added
<1>2. PICK s \in Marks : Chain(program, <<>>, s) /\ WrittenTo(chunk, emitted, program, s)
  BY <1>1 DEF OrderIInv
<1>3. s.done = Len(program) /\ s.height = 1
  BY <1>2, ChainEnds
<1>4. Extends(chunk, chunk', OPCODE_RETURN)
  <2>1. OPCODE_RETURN \in Opcodes \ {OPCODE_CONSTANT, OPCODE_CONSTANT_LONG} /\ RETURN_LINE \in Nat
    BY DEF Opcodes, OPCODE_CONSTANT, OPCODE_CONSTANT_LONG, OPCODE_RETURN, RETURN_LINE
  <2> QED
    BY <1>1, <2>1, OpcodeWritten
<1>5. PICK e, f : e = emitted /\ f = emitted'
  OBVIOUS
<1>6. /\ Len(e) \in Nat /\ Len(f) = Len(e) + 1 /\ f[Len(f)].node = ROOT
      /\ \A j \in 1 .. Len(e) : f[j] = e[j]
  <2>1. CountsOneMore(chunk, e, chunk', f, OPCODE_RETURN, ROOT)
    BY <1>1, <1>4, <1>5, InstructionCounted DEF ROOT
  <2> QED
    BY <2>1 DEF CountsOneMore
<1>7. ASSUME ~HasSilent PROVE Heights(chunk', f, 0)
  <2>1. Heights(chunk, emitted, 1)
    BY <1>2, <1>3, <1>7 DEF WrittenTo, Silent, HasSilent
  <2>2. Pops(OPCODE_RETURN) = 1 /\ Left(OPCODE_RETURN) = 0 /\ ROOT \in Nat
    BY DEF Pops, Left, ROOT, OPCODE_CONSTANT, OPCODE_CONSTANT_LONG, OPCODE_TRUE, OPCODE_FALSE,
           OPCODE_NEGATE, OPCODE_NOT, OPCODE_RETURN
  <2>3. Heights(chunk', Added(emitted, ROOT, Len(chunk.code.elems)),
                1 - Pops(OPCODE_RETURN) + Left(OPCODE_RETURN))
    BY <1>1, <1>4, <2>1, <2>2, HeightsGrow
  <2> QED
    BY <1>1, <1>5, <2>2, <2>3
<1>8. InOrder(program, e, Len(program))
  BY <1>2, <1>3, <1>5 DEF WrittenTo
<1>9. \A i, j \in 1 .. Len(f) : i < j /\ f[j].node # ROOT => f[i].node < f[j].node
  <2> SUFFICES ASSUME NEW i \in 1 .. Len(f), NEW j \in 1 .. Len(f), i < j, f[j].node # ROOT
               PROVE  f[i].node < f[j].node
    OBVIOUS
  <2>1. i \in 1 .. Len(e) /\ j \in 1 .. Len(e)
    BY <1>6
  <2> QED
    BY <1>6, <1>8, <2>1 DEF InOrder
<1>10. ASSUME ~HasSilent
       PROVE  /\ f[Len(f)].node = ROOT
              /\ {f[j].node : j \in 1 .. Len(f) - 1} =
                   {n \in DOMAIN program : program[n].kind # "GROUP"}
  <2>1. NodesOf(e) = Coded(program, Len(program))
    BY <1>8, <1>10 DEF InOrder, Silent, HasSilent
  <2>2. {f[j].node : j \in 1 .. Len(f) - 1} = NodesOf(e)
    <3>1. Len(f) - 1 = Len(e)
      BY <1>6
    <3> QED
      BY <1>6, <3>1 DEF NodesOf
  <2>3. DOMAIN program = 1 .. Len(program)
    BY <1>1, ProgramsAssumption
  <2> QED
    BY <1>6, <2>1, <2>2, <2>3 DEF Coded
<1>11. CodeIsPostOrder'
  BY <1>1, <1>5, <1>9, <1>10 DEF CodeIsPostOrder, HasSilent
<1> QED
  BY <1>1, <1>5, <1>7, <1>11 DEF OrderIInv, HasSilent

(* table_hash has a number for every string.                               *)
Hashed == \A chars : StringHash(chars) \in Nat

LEMMA CompileInOrder ==
  ASSUME Hashed, IInv, LiteralsIInv, OrderIInv, Compile
  PROVE  OrderIInv'
<1>1. /\ program \in Programs /\ WellFormed(chunk) /\ Pending(program, work)
      /\ \A n \in DOMAIN program : n \in Nat /\ program[n].line \in Nat
  BY ProgramFacts DEF IInv
<1>2. ASSUME NEW n \in DOMAIN program, WriteBool(n) PROVE OrderIInv'
  <2>1. PICK op : op = IF IsTrue(program[n].value) THEN OPCODE_TRUE ELSE OPCODE_FALSE
    OBVIOUS
  <2>2. /\ op \in Opcodes \ {OPCODE_CONSTANT, OPCODE_CONSTANT_LONG}
        /\ Pops(op) = 0 /\ op # OPCODE_RETURN
    BY <2>1, PopsOf DEF Opcodes, OPCODE_TRUE, OPCODE_FALSE, OPCODE_CONSTANT, OPCODE_CONSTANT_LONG,
                        OPCODE_RETURN
  <2>3. /\ chunk' = ChunkWrite(chunk, op, program[n].line) /\ Emitted(n) /\ work' = Tail(work)
        /\ program' = program /\ phase' = "compile" /\ Visiting(n) /\ program[n].kind = "BOOL"
    BY <1>2, <2>1 DEF WriteBool, Visiting
  <2>4. Extends(chunk, chunk', op)
    BY <1>1, <2>2, <2>3, OpcodeWritten
  <2> QED
    BY <2>2, <2>3, <2>4, LiteralMoves DEF LiteralKinds
<1>3. ASSUME NEW n \in DOMAIN program, NEW v, chunk' = WriteValue(chunk, v, program[n].line),
             Emitted(n), work' = Tail(work), program' = program, phase' = phase, Visiting(n),
             program[n].kind \in LiteralKinds
      PROVE  OrderIInv'
  <2>1. PICK op \in LoadOpcodes : Extends(chunk, chunk', op)
    BY <1>1, <1>3, ValueWritten DEF Loads, LoadOpcodes
  <2>2. Pops(op) = 0 /\ op # OPCODE_RETURN
    BY PopsOf DEF LoadOpcodes, OPCODE_CONSTANT, OPCODE_CONSTANT_LONG, OPCODE_RETURN
  <2>3. phase' = "compile"
    BY <1>3 DEF Visiting
  <2> QED
    BY <1>3, <2>1, <2>2, <2>3, LiteralMoves
<1>4. ASSUME NEW n \in DOMAIN program, WriteNumber(n) PROVE OrderIInv'
  BY <1>3, <1>4 DEF WriteNumber, LiteralKinds
<1>5. ASSUME NEW n \in DOMAIN program, WriteString(n) PROVE OrderIInv'
  <2>1. PICK ref : ref = obj_string_ref(store, StringChars(program[n]))
    OBVIOUS
  <2>2. ref.outcome = "ok"
    BY <2>1, StringMade DEF LiteralsIInv, obj_string_ref, Hashed
  <2>3. /\ chunk' = WriteValue(chunk, Value("OBJ", ref.string), program[n].line)
        /\ Emitted(n) /\ work' = Tail(work) /\ program' = program /\ phase' = phase
        /\ Visiting(n) /\ program[n].kind = "STRING"
    BY <1>5, <2>1, <2>2 DEF WriteString
  <2> QED
    BY <1>3, <2>3 DEF LiteralKinds
<1>6. ASSUME NEW n \in DOMAIN program, Visiting(n), program' = program, chunk' = chunk,
             emitted' = emitted, phase' = phase
      PROVE  /\ phase' = "compile" /\ Pending(program, Tail(work))
             /\ \E s, t \in Marks : /\ Call(program, Visit(n), s, t)
                                    /\ Chain(program, Tail(work), t)
                                    /\ WrittenTo(chunk, emitted, program, s)
                                    /\ Chain(program, work', s) => OrderIInv'
  <2>1. phase = "compile" /\ work # <<>> /\ Head(work) = Visit(n)
    BY <1>6 DEF Visiting, Top
  <2>2. PICK s \in Marks : Chain(program, work, s) /\ WrittenTo(chunk, emitted, program, s)
    BY <2>1 DEF OrderIInv
  <2>3. PICK t \in Marks : Call(program, Visit(n), s, t) /\ Chain(program, Tail(work), t)
    BY <1>1, <2>1, <2>2, ChainHead
  <2>4. Chain(program, work', s) => OrderIInv'
    BY <1>6, <2>1, <2>2 DEF OrderIInv
  <2> QED
    BY <1>1, <1>6, <2>1, <2>2, <2>3, <2>4, PendingTail
<1>7. ASSUME NEW n \in DOMAIN program, VisitUnary(n) PROVE OrderIInv'
  <2>1. /\ Visiting(n) /\ program[n].kind \in UnaryKinds \ SilentKinds
        /\ work' = <<Visit(n - 1)>>
                   \o (IF program[n].kind = "GROUP" THEN <<>> ELSE <<Emit(n)>>) \o Tail(work)
        /\ program' = program /\ chunk' = chunk /\ emitted' = emitted /\ phase' = phase
    BY <1>7 DEF VisitUnary, Expr
  <2>2. PICK s, t \in Marks :
          /\ Call(program, Visit(n), s, t) /\ Chain(program, Tail(work), t)
          /\ Chain(program, work', s) => OrderIInv'
    BY <1>6, <2>1
  <2>3. Pending(program, Tail(work))
    BY <1>6, <2>1
  <2>4. n - 1 \in DOMAIN program
    BY <1>1, <2>1, TreeFacts
  <2>5. Pending(program, <<Visit(n - 1)>>)
    BY <2>4, PendingVisit
  <2>6. CASE program[n].kind = "GROUP"
    <3>1. work' = <<Visit(n - 1)>> \o <<>> \o Tail(work)
      BY <2>1, <2>6
    <3>2. work' = <<Visit(n - 1)>> \o Tail(work)
      BY <2>5, <3>1 DEF Pending
    <3> QED
      BY <1>1, <2>1, <2>2, <2>3, <2>6, <3>2, UnaryOpened
  <2>7. CASE program[n].kind # "GROUP"
    <3>1. Pending(program, <<Emit(n)>>)
      BY <2>1, <2>7, PendingEmit DEF OperatorKinds
    <3>2. work' = <<Visit(n - 1)>> \o <<Emit(n)>> \o Tail(work)
      BY <2>1, <2>7
    <3>3. work' = <<Visit(n - 1)>> \o (<<Emit(n)>> \o Tail(work))
      BY <2>3, <2>5, <3>1, <3>2, PendingAssociative
    <3> QED
      BY <1>1, <2>1, <2>2, <2>3, <2>7, <3>3, UnaryOpened
  <2> QED
    BY <2>6, <2>7
<1>8. ASSUME NEW n \in DOMAIN program, VisitBinary(n) PROVE OrderIInv'
  <2>1. /\ Visiting(n) /\ program[n].kind \in BinaryKinds \ SilentKinds
        /\ work' = Operands(n) \o <<Emit(n)>> \o Tail(work)
        /\ program' = program /\ chunk' = chunk /\ emitted' = emitted /\ phase' = phase
    BY <1>8 DEF VisitBinary
  <2>2. PICK s, t \in Marks :
          /\ Call(program, Visit(n), s, t) /\ Chain(program, Tail(work), t)
          /\ Chain(program, work', s) => OrderIInv'
    BY <1>6, <2>1
  <2>3. Pending(program, Tail(work))
    BY <1>6, <2>1
  <2>4. PICK l \in DOMAIN program : l = Lhs(program, n) /\ n - 1 \in DOMAIN program
    BY <1>1, <2>1, TreeFacts
  <2>5. /\ Pending(program, <<Visit(l)>>) /\ Pending(program, <<Visit(n - 1)>>)
        /\ Pending(program, <<Emit(n)>>)
    BY <2>1, <2>4, PendingVisit, PendingEmit DEF OperatorKinds, BinaryKinds
  <2>6. work' = <<Visit(l)>> \o (<<Visit(n - 1)>> \o (<<Emit(n)>> \o Tail(work)))
    <3>1. PICK S : S = [task : {"visit", "emit"}, node : DOMAIN program]
      OBVIOUS
    <3>2. Visit(l) \in S /\ Visit(n - 1) \in S /\ Emit(n) \in S
      BY <2>4, <3>1 DEF Visit, Emit
    <3>3. Tail(work) \in Seq(S)
      BY <2>3, <3>1 DEF Pending
    <3>4. work' = <<Visit(l), Visit(n - 1)>> \o <<Emit(n)>> \o Tail(work)
      BY <2>1, <2>4 DEF Operands, Rhs
    <3>5. PICK x, y, z : x = Visit(l) /\ y = Visit(n - 1) /\ z = Emit(n)
      OBVIOUS
    <3> QED
      BY <3>2, <3>3, <3>4, <3>5, ThreeCalls
  <2> QED
    BY <1>1, <2>1, <2>2, <2>3, <2>4, <2>6, BinaryOpened
<1>9. ASSUME NEW n \in DOMAIN program, VisitSilent(n) PROVE OrderIInv'
  <2>1. /\ Visiting(n) /\ program[n].kind \in SilentKinds /\ work' = Tail(work)
        /\ program' = program /\ chunk' = chunk /\ emitted' = emitted /\ phase' = phase
    BY <1>9 DEF VisitSilent
  <2>2. PICK s, t \in Marks :
          /\ Call(program, Visit(n), s, t) /\ Chain(program, Tail(work), t)
          /\ WrittenTo(chunk, emitted, program, s)
    BY <1>6, <2>1
  <2>3. Silent(program) /\ phase' = "compile"
    BY <1>6, <2>1 DEF Silent
  <2>4. InOrder(program, emitted, t.done)
    <3>1. PICK a, b : a = s.done /\ b = t.done /\ a \in Nat /\ b \in Nat
      BY DEF Marks
    <3>2. a <= b
      BY <1>1, <2>2, <3>1 DEF Call, Visit
    <3>3. 1 .. a \subseteq 1 .. b
      BY <3>1, <3>2
    <3> QED
      BY <2>2, <2>3, <3>1, <3>3 DEF WrittenTo, InOrder
  <2> QED
    BY <2>1, <2>2, <2>3, <2>4 DEF OrderIInv, WrittenTo
<1>10. ASSUME NEW n \in DOMAIN program, WriteOperator(n) PROVE OrderIInv'
  <2>1. /\ phase = "compile" /\ phase' = "compile" /\ work # <<>> /\ Head(work) = Emit(n)
        /\ chunk' = ChunkWrite(chunk, OperatorOpcode(program[n].kind), BlamedLine(n))
        /\ Emitted(n) /\ work' = Tail(work) /\ program' = program
    BY <1>10 DEF WriteOperator, Top
  <2>2. program[n].kind \in OperatorKinds
    BY <1>1, <2>1, PendingTail DEF Pending, Emit
  <2>3. PICK op : op = OperatorOpcode(program[n].kind)
    OBVIOUS
  <2>4. /\ op \in Opcodes \ {OPCODE_CONSTANT, OPCODE_CONSTANT_LONG} /\ BlamedLine(n) \in Nat
        /\ Pops(op) = Takes(program[n].kind) /\ Left(op) = 1
    BY <1>1, <2>1, <2>2, <2>3, EmitIsOperator, OperatorPops DEF BlamedLine, Left
  <2>5. Extends(chunk, chunk', op)
    BY <1>1, <2>1, <2>3, <2>4, OpcodeWritten
  <2>6. PICK s \in Marks : Chain(program, work, s) /\ WrittenTo(chunk, emitted, program, s)
    BY <2>1 DEF OrderIInv
  <2>7. PICK t \in Marks : Call(program, Emit(n), s, t) /\ Chain(program, Tail(work), t)
    BY <1>1, <2>1, <2>6, ChainHead
  <2>8. /\ n = s.done + 1 /\ s.height >= Takes(program[n].kind)
        /\ t.height = s.height + 1 - Takes(program[n].kind) /\ Emit(n).node = n
    BY <2>7 DEF Call, Emit
  <2>9. s.height >= Pops(op) /\ t.height = s.height - Pops(op) + Left(op)
    BY <2>4, <2>8 DEF Marks, Takes
  <2>10. program[n].kind # "GROUP"
    BY <2>2 DEF OperatorKinds
  <2> QED
    BY <1>1, <2>1, <2>5, <2>6, <2>7, <2>8, <2>9, <2>10, InstructionMoves
<1>11. CASE Finish
  BY <1>11, ReturnMoves
<1> QED
  BY <1>2, <1>4, <1>5, <1>7, <1>8, <1>9, <1>10, <1>11 DEF Compile

LEMMA OrderStep ==
  ASSUME Hashed
  PROVE  IInv /\ LiteralsIInv /\ OrderIInv /\ [Next]_vars => OrderIInv'
<1> SUFFICES ASSUME IInv, LiteralsIInv, OrderIInv, [Next]_vars PROVE OrderIInv'
  OBVIOUS
<1>1. CASE Compile
  BY <1>1, CompileInOrder
<1>2. CASE Execute /\ UNCHANGED compilerVars
  <2>1. chunk' = chunk /\ program' = program /\ emitted' = emitted
    BY <1>2, ExecuteKeepsCode DEF compilerVars
  <2>2. phase # "compile" /\ phase' # "compile"
    BY <1>2, ExecuteKeepsCode
  <2> QED
    BY <2>1, <2>2 DEF OrderIInv, CodeIsPostOrder, HasSilent
<1>3. CASE UNCHANGED vars
  BY <1>3 DEF vars, compilerVars, OrderIInv, CodeIsPostOrder, HasSilent
<1> QED
  BY <1>1, <1>2, <1>3 DEF Next, Terminated

LEMMA OrderInvariant == ASSUME Hashed PROVE Spec => []OrderIInv
BY OrderStep, OrderInit, InductiveInvariant, LiteralsInvariant, PTL DEF Spec

-----------------------------------------------------------------------------
(* A program of numbers and truth values, none of whose operators is       *)
(* dropped, on a build that takes the first byte of a long operand for its *)
(* low one.                                                                *)
Tame == ~HasSilent /\ ~HasString /\ ~HasConcat

LowByteFirst == \A order \in READ_ORDERS : order[1] = 1

PlainValue(v) == v = [kind |-> v.kind, num |-> v.num, den |-> v.den] /\ v.kind # "OBJ"

Plain(c, e) ==
  /\ \A k \in 1 .. Len(c.constants.elems) : PlainValue(c.constants.elems[k])
  /\ \A j \in 1 .. Len(e) : CodeAt(c, e[j].offset) # OPCODE_CONCAT

PlainStack(s) == \E S : s \in Seq(S) /\ \A v \in S : PlainValue(v)

(* The depth of the stack is that of the instruction that is next.         *)
AtDepth(c, e, o, depth) ==
  \E h, j : HeightsBy(c, e, h, 0) /\ j \in 1 .. Len(e) /\ e[j].offset = o /\ h[j - 1] = depth

TameIInv ==
  /\ phase = "compile" => stack = <<>>
  /\ Tame =>
       /\ phase # "wild"
       /\ Plain(chunk, emitted)
       /\ phase = "run" => PlainStack(stack) /\ AtDepth(chunk, emitted, ip, Len(stack))

LEMMA TameInit == Init => TameIInv
<1> SUFFICES ASSUME Init PROVE TameIInv
  OBVIOUS
<1>1. chunk = chunk_init /\ emitted = <<>> /\ stack = <<>> /\ phase = "compile"
  BY DEF Init, CompilerInit, VmInit
<1>2. Len(emitted) = 0 /\ Len(chunk.constants.elems) = 0
  BY <1>1 DEF chunk_init, EmptyArray
<1> QED
  BY <1>1, <1>2 DEF TameIInv, Plain

LEMMA EmptyIsPlain == PlainStack(<<>>) /\ Len(<<>>) = 0
<1>1. PICK S, s : S = {} /\ s = <<>>
  OBVIOUS
<1>2. s \in Seq(S) /\ \A v \in S : PlainValue(v)
  BY <1>1
<1>3. PlainStack(s)
  BY <1>2 DEF PlainStack
<1> QED
  BY <1>1, <1>3

(* What is written for a program of this kind.                             *)
LEMMA PlainGrows ==
  ASSUME NEW c, WellFormed(c), NEW e, Tiles(c, e), Plain(c, e), NEW d, NEW op, Extends(c, d, op),
         op # OPCODE_CONCAT, NEW n \in Nat,
         \A k \in 1 .. Len(d.constants.elems) : PlainValue(d.constants.elems[k])
  PROVE  Plain(d, Added(e, n, Len(c.code.elems)))
<1>1. PICK f, size : f = Added(e, n, size) /\ size = Len(c.code.elems)
  OBVIOUS
<1>2. /\ Len(e) \in Nat /\ Len(f) = Len(e) + 1
      /\ f[Len(f)].offset = size /\ CodeAt(d, size) = op
      /\ \A j \in 1 .. Len(e) : f[j] = e[j]
  <2>1. CountsOneMore(c, e, d, f, op, n)
    BY <1>1, InstructionCounted
  <2> QED
    BY <1>1, <2>1 DEF CountsOneMore
<1>3. ASSUME NEW j \in 1 .. Len(f) PROVE CodeAt(d, f[j].offset) # OPCODE_CONCAT
  <2>1. CASE j \in 1 .. Len(e)
    <3>1. CodeAt(d, f[j].offset) = CodeAt(c, e[j].offset)
      BY <1>2, <2>1, InstructionKept
    <3> QED
      BY <2>1, <3>1 DEF Plain
  <2>2. CASE j = Len(f)
    BY <1>2, <2>2
  <2> QED
    BY <1>2, <2>1, <2>2
<1> QED
  BY <1>1, <1>3 DEF Plain

LEMMA OpcodeIsPlain ==
  ASSUME NEW c, WellFormed(c), NEW e, Tiles(c, e), Plain(c, e), NEW n \in Nat, NEW l \in Nat,
         NEW op \in Opcodes \ {OPCODE_CONSTANT, OPCODE_CONSTANT_LONG}, op # OPCODE_CONCAT
  PROVE  Plain(ChunkWrite(c, op, l), Added(e, n, Len(c.code.elems)))
<1>1. PICK d : d = ChunkWrite(c, op, l)
  OBVIOUS
<1>2. Extends(c, d, op) /\ d.constants = c.constants
  BY <1>1, OpcodeWritten, OpcodeIsByte, ByteWritten
<1> QED
  BY <1>1, <1>2, PlainGrows DEF Plain

LEMMA ValueIsPlain ==
  ASSUME NEW c, WellFormed(c), NEW e, Tiles(c, e), Plain(c, e), NEW n \in Nat, NEW l \in Nat,
         NEW v, PlainValue(v)
  PROVE  Plain(WriteValue(c, v, l), Added(e, n, Len(c.code.elems)))
<1>1. PICK d, old, new : /\ d = WriteValue(c, v, l)
                         /\ old = c.constants.elems /\ new = d.constants.elems
  OBVIOUS
<1>2. PICK op \in LoadOpcodes : Loads(c, d, op, v)
  BY <1>1, ValueWritten DEF LoadOpcodes
<1>3. Extends(c, d, op) /\ new = Append(old, v) /\ op # OPCODE_CONCAT
  BY <1>1, <1>2 DEF Loads, LoadOpcodes, OPCODE_CONSTANT, OPCODE_CONSTANT_LONG, OPCODE_CONCAT
<1>4. \A k \in 1 .. Len(new) : PlainValue(new[k])
  <2>1. PICK S : old \in Seq(S)
    BY <1>1 DEF WellFormed
  <2>2. old \in Seq(S \cup {v}) /\ v \in S \cup {v}
    BY <2>1
  <2>3. \A k \in 1 .. Len(new) : IF k \in 1 .. Len(old) THEN new[k] = old[k] ELSE new[k] = v
    BY <1>3, <2>2
  <2> QED
    BY <1>1, <2>3 DEF Plain
<1> QED
  BY <1>1, <1>3, <1>4, PlainGrows

LEMMA CompileIsTame ==
  ASSUME Hashed, IInv, LiteralsIInv, OrderIInv, TameIInv, Compile, UNCHANGED vmVars
  PROVE  TameIInv'
<1>1. /\ program \in Programs /\ WellFormed(chunk) /\ Tiles(chunk, emitted)
      /\ Pending(program, work) /\ DOMAIN program = 1 .. Len(program)
      /\ \A n \in DOMAIN program : n \in Nat /\ program[n].line \in Nat
  <2>1. program \in Programs /\ WellFormed(chunk) /\ Tiles(chunk, emitted) /\ Pending(program, work)
    BY DEF IInv
  <2>2. \A p \in Programs : DOMAIN p = 1 .. Len(p)
    BY ProgramsAssumption
  <2>3. \A n \in DOMAIN program : n \in Nat /\ program[n].line \in Nat
    BY <2>1, ProgramFacts
  <2> QED
    BY <2>1, <2>2, <2>3
<1>2. /\ phase = "compile" /\ stack' = <<>> /\ program' = program /\ ip' = 0
      /\ Tame' = Tame
  <2>1. phase = "compile" /\ program' = program
    BY DEF Compile, WriteBool, WriteNumber, WriteString, WriteOperator, VisitUnary, VisitBinary,
           VisitSilent, Visiting, Finish
  <2> QED
    BY <2>1 DEF vmVars, IInv, TameIInv, Tame, HasSilent, HasString, HasConcat
<1> SUFFICES ASSUME Tame
             PROVE  /\ phase' # "wild"
                    /\ Plain(chunk', emitted')
                    /\ phase' = "run" =>
                         PlainStack(stack') /\ AtDepth(chunk', emitted', ip', Len(stack'))
  BY <1>2 DEF TameIInv
<1>3. Plain(chunk, emitted)
  BY DEF TameIInv
<1>4. ASSUME NEW n \in DOMAIN program, WriteBool(n) PROVE Plain(chunk', emitted') /\ phase' = "compile"
  <2>1. PICK op : op = IF IsTrue(program[n].value) THEN OPCODE_TRUE ELSE OPCODE_FALSE
    OBVIOUS
  <2>2. op \in Opcodes \ {OPCODE_CONSTANT, OPCODE_CONSTANT_LONG} /\ op # OPCODE_CONCAT
    BY <2>1 DEF Opcodes, OPCODE_TRUE, OPCODE_FALSE, OPCODE_CONSTANT, OPCODE_CONSTANT_LONG,
                OPCODE_RETURN, OPCODE_CONCAT
  <2>3. /\ chunk' = ChunkWrite(chunk, op, program[n].line) /\ phase' = phase
        /\ emitted' = Added(emitted, n, Len(chunk.code.elems))
    BY <1>4, <2>1 DEF WriteBool, Emitted, Added
  <2> QED
    BY <1>1, <1>2, <1>3, <2>2, <2>3, OpcodeIsPlain
<1>5. ASSUME NEW n \in DOMAIN program, WriteNumber(n) PROVE Plain(chunk', emitted') /\ phase' = "compile"
  <2>1. PICK v : v = program[n].value
    OBVIOUS
  <2>2. /\ chunk' = WriteValue(chunk, v, program[n].line) /\ phase' = phase
        /\ emitted' = Added(emitted, n, Len(chunk.code.elems))
        /\ program[n].kind \in {"CHAR", "REAL", "INTEGER"}
    BY <1>5, <2>1 DEF WriteNumber, Emitted, Added
  <2>3. PlainValue(v)
    <3>1. v \in [kind : Kinds, num : Int, den : Int]
      <4>1. PICK C : program \in Seq([kind : NodeKinds, line : Nat,
                                     value : [kind : Kinds, num : Int, den : Int], chars : C, first : Nat])
        BY <1>1, ProgramsAssumption
      <4>2. program[n] \in [kind : NodeKinds, line : Nat, value : [kind : Kinds, num : Int, den : Int],
                            chars : C, first : Nat]
        BY <1>1, <4>1, MemberOfSeq
      <4> QED
        BY <2>1, <4>2
    <3>2. v.kind = program[n].kind
      BY <1>1, <2>1, <2>2, ProgramsAssumption
    <3> QED
      BY <2>2, <3>1, <3>2 DEF PlainValue
  <2> QED
    BY <1>1, <1>2, <1>3, <2>2, <2>3, ValueIsPlain
<1>6. ASSUME NEW n \in DOMAIN program PROVE ~WriteString(n)
  BY <1>6 DEF WriteString, Tame, HasString
<1>7. ASSUME NEW n \in DOMAIN program, VisitUnary(n) \/ VisitBinary(n) \/ VisitSilent(n)
      PROVE  Plain(chunk', emitted') /\ phase' = "compile"
  BY <1>2, <1>3, <1>7 DEF VisitUnary, VisitBinary, VisitSilent
<1>8. ASSUME NEW n \in DOMAIN program, WriteOperator(n) PROVE Plain(chunk', emitted') /\ phase' = "compile"
  <2>1. PICK op, kind : op = OperatorOpcode(kind) /\ kind = program[n].kind
    OBVIOUS
  <2>2. /\ chunk' = ChunkWrite(chunk, op, BlamedLine(n)) /\ phase' = phase
        /\ emitted' = Added(emitted, n, Len(chunk.code.elems))
        /\ work # <<>> /\ Head(work) = Emit(n)
    BY <1>8, <2>1 DEF WriteOperator, Emitted, Added, Top
  <2>3. kind \in OperatorKinds /\ kind # "CONCAT"
    BY <1>1, <2>1, <2>2, PendingTail DEF Pending, Emit, Tame, HasConcat
  <2>4. op # OPCODE_CONCAT
    BY <2>1, <2>3 DEF OperatorKinds, UnaryKinds, BinaryKinds, SilentKinds, OperatorOpcode,
                OPCODE_NOT, OPCODE_NEGATE, OPCODE_ADD, OPCODE_MUL, OPCODE_DIV, OPCODE_CONCAT,
                OPCODE_EQUAL, OPCODE_NOT_EQUAL, OPCODE_GREATER, OPCODE_GREATER_EQUAL, OPCODE_LESS,
                OPCODE_LESS_EQUAL
  <2>5. op \in Opcodes \ {OPCODE_CONSTANT, OPCODE_CONSTANT_LONG} /\ BlamedLine(n) \in Nat
    BY <1>1, <2>1, <2>2, EmitIsOperator DEF BlamedLine
  <2> QED
    BY <1>1, <1>2, <1>3, <2>2, <2>4, <2>5, OpcodeIsPlain
<1>9. CASE Finish
  <2>1. /\ chunk' = ChunkWrite(chunk, OPCODE_RETURN, RETURN_LINE) /\ phase' = "run"
        /\ emitted' = Added(emitted, ROOT, Len(chunk.code.elems))
    BY <1>9 DEF Finish, Emitted, Added
  <2>2. /\ OPCODE_RETURN \in Opcodes \ {OPCODE_CONSTANT, OPCODE_CONSTANT_LONG}
        /\ OPCODE_RETURN # OPCODE_CONCAT /\ RETURN_LINE \in Nat /\ ROOT \in Nat
    BY DEF Opcodes, OPCODE_CONSTANT, OPCODE_CONSTANT_LONG, OPCODE_RETURN, OPCODE_CONCAT, RETURN_LINE,
           ROOT
  <2>3. Plain(chunk', emitted')
    BY <1>1, <1>3, <2>1, <2>2, OpcodeIsPlain
  <2>4. PlainStack(<<>>) /\ Len(<<>>) = 0
    BY EmptyIsPlain
  <2>5. AtDepth(chunk', emitted', 0, 0)
    <3>1. Heights(chunk', emitted', 0)
      BY <1>2, <2>1, CompileInOrder DEF OrderIInv, Tame
    <3>2. PICK h : HeightsBy(chunk', emitted', h, 0)
      BY <3>1 DEF Heights
    <3>3. Extends(chunk, chunk', OPCODE_RETURN)
      BY <1>1, <2>1, <2>2, OpcodeWritten
    <3>4. emitted'[1].offset = 0 /\ emitted' # <<>> /\ Tiles(chunk', emitted')
      BY <1>1, <2>1, <2>2, <3>3, InstructionEmitted DEF Added
    <3>5. 1 \in 1 .. Len(emitted') /\ h[1 - 1] = 0
      BY <3>2, <3>4 DEF Tiles, HeightsBy
    <3> QED
      BY <3>2, <3>4, <3>5 DEF AtDepth
  <2> QED
    BY <1>2, <2>1, <2>3, <2>4, <2>5
<1> QED
  BY <1>4, <1>5, <1>6, <1>7, <1>8, <1>9 DEF Compile

(* A value that is pushed, on what the instruction leaves of the stack.    *)
LEMMA Pushes ==
  ASSUME PlainStack(stack), Len(stack) >= Pops(Op), NEW v, PlainValue(v), Push(v)
  PROVE  /\ phase' = phase /\ PlainStack(stack')
         /\ Len(stack') = Len(stack) - Pops(Op) + 1
<1>1. PICK S : stack \in Seq(S) /\ \A x \in S : PlainValue(x)
  BY DEF PlainStack
<1>2. PICK k : k = Pops(Op) /\ k \in Nat
  BY DEF Pops
<1>3. PICK T : T = S \cup {v}
  OBVIOUS
<1>4. PICK s : s = Append(Popped(Pops(Op)), v)
  OBVIOUS
<1>5. s \in Seq(T) /\ Len(s) = Len(stack) - k + 1
  <2>1. stack \in Seq(T) /\ v \in T
    BY <1>1, <1>3
  <2>2. SubSeq(stack, 1, Len(stack) - k) \in Seq(T) /\ Len(SubSeq(stack, 1, Len(stack) - k)) = Len(stack) - k
    BY <1>2, <2>1
  <2> QED
    BY <1>2, <1>4, <2>1, <2>2 DEF Popped, Depth
<1>6. \A x \in T : PlainValue(x)
  BY <1>1, <1>3
<1>7. \A d \in DOMAIN s : s[d].kind # "OBJ"
  BY <1>5, <1>6 DEF PlainValue
<1>8. stack' = s /\ phase' = phase
  BY <1>4, <1>7 DEF Push, Leave
<1> QED
  BY <1>2, <1>5, <1>6, <1>8 DEF PlainStack

LEMMA PeekIsPlain ==
  ASSUME PlainStack(stack), NEW d \in Nat, d < Len(stack)
  PROVE  PlainValue(Peek(d))
<1>1. PICK S : stack \in Seq(S) /\ \A x \in S : PlainValue(x)
  BY DEF PlainStack
<1>2. Len(stack) - d \in 1 .. Len(stack)
  BY <1>1
<1> QED
  BY <1>1, <1>2 DEF Peek, Depth

LEMMA PlainMade ==
  /\ \A b : PlainValue(Bool(b))
  /\ \A n : PlainValue(Value("INTEGER", n))
  /\ \A n, d : PlainValue(Real(n, d))
  /\ \A kind : kind # "OBJ" => PlainValue(Junk(kind))
BY DEF PlainValue, Bool, Value, Real, Junk

LEMMA NumberIsPlain ==
  ASSUME NEW op \in {OPCODE_ADD, OPCODE_SUB, OPCODE_MUL, OPCODE_DIV}, NEW a, NEW b, PlainValue(a)
  PROVE  PlainValue(Number(op, a, b))
<1>1. PlainValue(Junk("REAL")) /\ PlainValue(Junk(a.kind))
  BY PlainMade DEF PlainValue
<1>2. PlainValue(RealQuotient(a, b))
  BY <1>1, PlainMade DEF RealQuotient
<1>3. PlainValue(RealOp(op, a, b))
  BY <1>2, PlainMade DEF RealOp, OPCODE_ADD, OPCODE_SUB, OPCODE_MUL, OPCODE_DIV
<1> QED
  BY <1>1, <1>3, PlainMade DEF Number

(* The constant that is read is there: number i of the chunk modulo 256,   *)
(* when i constants are loaded before it.                                  *)
LEMMA ReadsConstant ==
  ASSUME LowByteFirst, IInv, LiteralsIInv,
         NEW j \in 1 .. Len(emitted), emitted[j].offset = ip
  PROVE  /\ Constant => /\ CodeAt(chunk, ip + 1) \in Nat
                        /\ CodeAt(chunk, ip + 1) < ConstantCount(chunk)
                        /\ CodeAt(chunk, ip + 1) = Loaded(chunk, emitted, j) % 256
         /\ ConstantLong => \A order \in READ_ORDERS :
              LET index == CodeAt(chunk, ip + order[1]) + 256 * CodeAt(chunk, ip + order[2])
                             + 65536 * CodeAt(chunk, ip + order[3])
              IN  /\ index \in Nat /\ index < ConstantCount(chunk)
                  /\ index = Loaded(chunk, emitted, j) % 256
<1>1. PICK i, op : i = Loaded(chunk, emitted, j) /\ op = CodeAt(chunk, ip)
  OBVIOUS
<1>2. i \in Nat
  BY <1>1, LoadsFinite
<1>3. ASSUME op \in LoadOpcodes
      PROVE  /\ i < ConstantCount(chunk) /\ ConstantCount(chunk) \in Nat
             /\ CodeAt(chunk, ip + 1) = i % 256
             /\ op = OPCODE_CONSTANT_LONG => CodeAt(chunk, ip + 2) = 0 /\ CodeAt(chunk, ip + 3) = 0
  <2>1. NamesLiteral(chunk, emitted, program, store.heap, j)
    BY <1>1, <1>3 DEF LiteralsIInv, ConstantsNamed, IsLoad
  <2> QED
    BY <1>1, <2>1, CountIsNat DEF NamesLiteral, ConstantCount, IInv
<1>4. i % 256 \in Nat /\ i % 256 <= i
  BY <1>2
<1>5. ASSUME Constant
      PROVE  /\ CodeAt(chunk, ip + 1) \in Nat /\ CodeAt(chunk, ip + 1) < ConstantCount(chunk)
             /\ CodeAt(chunk, ip + 1) = Loaded(chunk, emitted, j) % 256
  <2>1. op \in LoadOpcodes
    BY <1>1, <1>5 DEF Constant, Executing, Op, LoadOpcodes
  <2> QED
    BY <1>1, <1>2, <1>3, <1>4, <2>1
<1>6. ASSUME ConstantLong, NEW order \in READ_ORDERS
      PROVE  LET index == CodeAt(chunk, ip + order[1]) + 256 * CodeAt(chunk, ip + order[2])
                             + 65536 * CodeAt(chunk, ip + order[3])
             IN  /\ index \in Nat /\ index < ConstantCount(chunk)
                 /\ index = Loaded(chunk, emitted, j) % 256
  <2>1. op = OPCODE_CONSTANT_LONG /\ op \in LoadOpcodes
    BY <1>1, <1>6 DEF ConstantLong, Executing, Op, LoadOpcodes
  <2>2. order[1] = 1 /\ order[2] \in {2, 3} /\ order[3] \in {2, 3}
    <3>1. order \in [1 .. 3 -> 1 .. 3] /\ {order[k] : k \in 1 .. 3} = 1 .. 3
      BY ReadOrdersAssumption
    <3>2. \A w \in 1 .. 3 : \E k \in 1 .. 3 : order[k] = w
      BY <3>1
    <3>3. order[1] = 1
      BY DEF LowByteFirst
    <3> QED
      BY <3>1, <3>2, <3>3
  <2>3. CodeAt(chunk, ip + order[2]) = 0 /\ CodeAt(chunk, ip + order[3]) = 0
    BY <1>3, <2>1, <2>2
  <2>4. CodeAt(chunk, ip + order[1]) = i % 256
    BY <1>3, <2>1, <2>2
  <2> QED
    BY <1>1, <1>2, <1>3, <1>4, <2>1, <2>3, <2>4
<1> QED
  BY <1>5, <1>6

(* A step of the machine, when the stack holds what the instruction takes: *)
(* it pushes one value for those, or ends the run where the code says so.  *)
PushedOne ==
  phase' = phase /\ PlainStack(stack') /\ Len(stack') = Len(stack) - Pops(Op) + 1

LEMMA ConstantPushes ==
  ASSUME Plain(chunk, emitted), PlainStack(stack), Len(stack) >= Pops(Op), WellFormed(chunk),
         NEW index \in Nat, index < ConstantCount(chunk), PushConstant(index)
  PROVE  PushedOne
<1>1. PICK v : v = chunk.constants.elems[index + 1]
  OBVIOUS
<1>2. Push(v)
  BY <1>1 DEF PushConstant
<1>3. PlainValue(v)
  <2>1. index + 1 \in 1 .. Len(chunk.constants.elems)
    BY CountIsNat DEF ConstantCount
  <2> QED
    BY <1>1, <2>1 DEF Plain
<1> QED
  BY <1>2, <1>3, Pushes DEF PushedOne

LEMMA ExecuteStep ==
  ASSUME LowByteFirst, IInv, LiteralsIInv, Plain(chunk, emitted), PlainStack(stack),
         NEW j \in 1 .. Len(emitted), emitted[j].offset = ip,
         Len(stack) >= Pops(Op), Op # OPCODE_CONCAT, Execute
  PROVE  PushedOne \/ phase' \in {"returned", "trap"}
<1>1. WellFormed(chunk) /\ Len(stack) \in Nat
  BY DEF IInv, PlainStack
<1>3. CASE Constant
  <2>1. PICK index : index = CodeAt(chunk, ip + 1)
    OBVIOUS
  <2>2. index \in Nat /\ index < ConstantCount(chunk) /\ PushConstant(index)
    <3>1. PushConstant(CodeAt(chunk, ip + 1))
      BY <1>3 DEF Constant
    <3> QED
      BY <1>3, <2>1, <3>1, ReadsConstant
  <2> QED
    BY <1>1, <2>2, ConstantPushes
<1>4. CASE ConstantLong
  <2>1. PICK order \in READ_ORDERS :
          PushConstant(CodeAt(chunk, ip + order[1]) + 256 * CodeAt(chunk, ip + order[2])
                         + 65536 * CodeAt(chunk, ip + order[3]))
    BY <1>4 DEF ConstantLong
  <2>2. PICK index : index = CodeAt(chunk, ip + order[1]) + 256 * CodeAt(chunk, ip + order[2])
                               + 65536 * CodeAt(chunk, ip + order[3])
    OBVIOUS
  <2>3. index \in Nat /\ index < ConstantCount(chunk)
    BY <1>4, <2>2, ReadsConstant
  <2>4. PushConstant(index)
    BY <2>1, <2>2
  <2> QED
    BY <1>1, <2>3, <2>4, ConstantPushes
<1>5. CASE Truth
  <2>1. PICK v : v = Bool(Op = OPCODE_TRUE)
    OBVIOUS
  <2>2. PlainValue(v) /\ Push(v)
    BY <1>5, <2>1, PlainMade DEF Truth
  <2> QED
    BY <2>2, Pushes DEF PushedOne
<1>6. CASE Arithmetic
  <2>1. PICK a, b : a = Peek(1) /\ b = Peek(0)
    OBVIOUS
  <2>2. Op \in {OPCODE_ADD, OPCODE_SUB, OPCODE_MUL, OPCODE_DIV} /\ Push(Number(Op, a, b))
    BY <1>6, <2>1 DEF Arithmetic, Executing
  <2>3. Pops(Op) = 2
    BY <2>2, PopsOf DEF OPCODE_ADD, OPCODE_SUB, OPCODE_MUL, OPCODE_DIV, OPCODE_CONCAT
  <2>4. PlainValue(a)
    BY <1>1, <2>1, <2>3, PeekIsPlain
  <2>5. PICK v : v = Number(Op, a, b)
    OBVIOUS
  <2>6. PlainValue(v) /\ Push(v)
    BY <2>2, <2>4, <2>5, NumberIsPlain
  <2> QED
    BY <2>6, Pushes DEF PushedOne
<1>7. CASE Trap \/ NegateInteger \/ NegateOther \/ Return
  BY <1>7 DEF Trap, NegateInteger, NegateOther, Return
<1>8. CASE NegateReal
  <2>1. PICK a, v : a = Peek(0) /\ v = [a EXCEPT !.num = -@]
    OBVIOUS
  <2>2. Op = OPCODE_NEGATE /\ Push(v)
    BY <1>8, <2>1 DEF NegateReal, Executing
  <2>3. Pops(Op) = 1
    BY <2>2, PopsOf
  <2>4. PlainValue(a)
    BY <1>1, <2>1, <2>3, PeekIsPlain
  <2>5. PlainValue(v)
    BY <2>1, <2>4 DEF PlainValue
  <2> QED
    BY <2>2, <2>5, Pushes DEF PushedOne
<1>9. CASE Not
  <2>1. PICK a, v : /\ a = Peek(0)
                    /\ v = IF Holds(a, "BOOL") THEN Bool(~IsTrue(a)) ELSE Junk(a.kind)
    OBVIOUS
  <2>2. Op = OPCODE_NOT /\ Push(v)
    BY <1>9, <2>1 DEF Not, Executing
  <2>3. Pops(Op) = 1
    BY <2>2, PopsOf
  <2>4. PlainValue(a)
    BY <1>1, <2>1, <2>3, PeekIsPlain
  <2>5. PlainValue(v)
    BY <2>1, <2>4, PlainMade DEF PlainValue
  <2> QED
    BY <2>2, <2>5, Pushes DEF PushedOne
<1>10. CASE Equality
  <2>1. PICK truth : Push(Bool(truth))
    BY <1>10 DEF Equality
  <2>2. PICK v : v = Bool(truth)
    OBVIOUS
  <2>3. PlainValue(v) /\ Push(v)
    BY <2>1, <2>2, PlainMade
  <2> QED
    BY <2>3, Pushes DEF PushedOne
<1>11. CASE Comparison
  <2>1. Op \in {OPCODE_LESS, OPCODE_LESS_EQUAL, OPCODE_GREATER, OPCODE_GREATER_EQUAL}
    BY <1>11 DEF Comparison, Executing
  <2>2. Pops(Op) = 2
    BY <2>1, PopsOf DEF OPCODE_LESS, OPCODE_LESS_EQUAL, OPCODE_GREATER, OPCODE_GREATER_EQUAL,
                        OPCODE_EQUAL
  <2>3. Peek(1).kind \notin Uncompared
    <3>1. PlainValue(Peek(1))
      BY <1>1, <2>2, PeekIsPlain
    <3> QED
      BY <3>1 DEF PlainValue, Uncompared
  <2>4. PICK truth : Push(Bool(truth))
    BY <1>11, <2>3 DEF Comparison
  <2>5. PICK v : v = Bool(truth)
    OBVIOUS
  <2>6. PlainValue(v) /\ Push(v)
    BY <2>4, <2>5, PlainMade
  <2> QED
    BY <2>6, Pushes DEF PushedOne
<1>12. ~Concat
  BY DEF Concat, Executing
<1>13. ~Underflow
  <2>1. Pops(Op) \in Nat
    BY DEF Pops
  <2> QED
    BY <1>1, <2>1 DEF Underflow, Depth
<1> QED
  BY <1>3, <1>4, <1>5, <1>6, <1>7, <1>8, <1>9, <1>10, <1>11, <1>12, <1>13 DEF Execute

LEMMA ExecuteIsTame ==
  ASSUME LowByteFirst, IInv, LiteralsIInv, TameIInv, Execute, UNCHANGED compilerVars
  PROVE  TameIInv'
<1>1. /\ chunk' = chunk /\ phase = "run" /\ phase' # "compile"
      /\ program' = program /\ emitted' = emitted
  BY ExecuteKeepsCode DEF compilerVars
<1>2. Tame' = Tame
  BY <1>1 DEF Tame, HasSilent, HasString, HasConcat
<1> SUFFICES ASSUME Tame
             PROVE  /\ phase' # "wild"
                    /\ phase' = "run" =>
                         PlainStack(stack') /\ AtDepth(chunk, emitted, ip', Len(stack'))
  BY <1>1, <1>2 DEF TameIInv
<1>3. Plain(chunk, emitted) /\ PlainStack(stack) /\ AtDepth(chunk, emitted, ip, Len(stack))
  BY <1>1 DEF TameIInv
<1>4. PICK h, j : /\ HeightsBy(chunk, emitted, h, 0) /\ j \in 1 .. Len(emitted)
                  /\ emitted[j].offset = ip /\ h[j - 1] = Len(stack)
  BY <1>3 DEF AtDepth
<1>5. /\ Op = CodeAt(chunk, emitted[j].offset)
      /\ h[j - 1] >= Pops(Op) /\ h[j] = h[j - 1] - Pops(Op) + Left(Op)
  BY <1>4 DEF HeightsBy, Op
<1>6. Op # OPCODE_CONCAT
  BY <1>3, <1>4, <1>5 DEF Plain
<1>7. PushedOne \/ phase' \in {"returned", "trap"}
  BY <1>3, <1>4, <1>5, <1>6, ExecuteStep
<1>8. ASSUME phase' = "run"
      PROVE  PlainStack(stack') /\ AtDepth(chunk, emitted, ip', Len(stack'))
  <2>1. PlainStack(stack') /\ Len(stack') = Len(stack) - Pops(Op) + 1
    BY <1>7, <1>8 DEF PushedOne
  <2>2. ip' = ip + InstructionLength(Op) /\ Op # OPCODE_RETURN
    BY <1>8, StepLength
  <2>3. /\ Len(emitted) \in Nat /\ Tiles(chunk, emitted)
        /\ CodeAt(chunk, emitted[Len(emitted)].offset) = OPCODE_RETURN
    BY <1>1 DEF IInv, AtInstruction, Tiles
  <2>4. j # Len(emitted) /\ j + 1 \in 1 .. Len(emitted) /\ (j + 1) - 1 = j
    <3>1. j # Len(emitted)
      BY <1>5, <2>2, <2>3
    <3> QED
      BY <1>4, <2>3, <3>1
  <2>5. emitted[j + 1].offset = ip'
    <3>1. j < Len(emitted)
      BY <1>4, <2>3, <2>4
    <3> QED
      BY <1>4, <1>5, <2>2, <2>3, <3>1 DEF Tiles
  <2>6. h[(j + 1) - 1] = Len(stack')
    <3>1. h[j] = Len(stack) - Pops(Op) + 1
      BY <1>4, <1>5, <2>2 DEF Left
    <3> QED
      BY <2>1, <2>4, <3>1
  <2> QED
    BY <1>4, <2>1, <2>4, <2>5, <2>6 DEF AtDepth
<1> QED
  BY <1>1, <1>7, <1>8 DEF PushedOne

LEMMA TameInvariant == ASSUME Hashed, LowByteFirst PROVE Spec => []TameIInv
<1>1. IInv /\ LiteralsIInv /\ OrderIInv /\ TameIInv /\ [Next]_vars => TameIInv'
  <2> SUFFICES ASSUME IInv, LiteralsIInv, OrderIInv, TameIInv, [Next]_vars PROVE TameIInv'
    OBVIOUS
  <2>1. CASE Compile /\ UNCHANGED vmVars
    BY <2>1, CompileIsTame
  <2>2. CASE Execute /\ UNCHANGED compilerVars
    BY <2>2, ExecuteIsTame
  <2>3. CASE UNCHANGED vars
    BY <2>3 DEF vars, compilerVars, vmVars, TameIInv, Tame, HasSilent, HasString, HasConcat
  <2> QED
    BY <2>1, <2>2, <2>3 DEF Next, Terminated
<1> QED
  BY <1>1, TameInit, InductiveInvariant, LiteralsInvariant, OrderInvariant, PTL DEF Spec

-----------------------------------------------------------------------------
(* No OBJ whose pointer was overwritten stays on the stack: the trace and  *)
(* RETURN follow every pointer they meet.                                  *)
Sound(v) == ~(v.kind = "OBJ" /\ IsJunk(v))

SoundIInv ==
  /\ \A k \in 1 .. Len(chunk.constants.elems) : Sound(chunk.constants.elems[k])
  /\ phase \in {"compile", "run"} =>
       (\E S : stack \in Seq(S)) /\ \A d \in DOMAIN stack : Sound(stack[d])

LEMMA SoundInit == Init => SoundIInv
<1> SUFFICES ASSUME Init PROVE SoundIInv
  OBVIOUS
<1>1. chunk = chunk_init /\ stack = <<>>
  BY DEF Init, CompilerInit, VmInit
<1>2. Len(chunk.constants.elems) = 0 /\ DOMAIN stack = {}
  BY <1>1 DEF chunk_init, EmptyArray
<1>3. stack \in Seq(Nat)
  BY <1>1
<1> QED
  BY <1>2, <1>3 DEF SoundIInv

(* The constants of the chunk are sound when one is added.                 *)
LEMMA ConstantsAreSound ==
  ASSUME WellFormed(chunk), \A k \in 1 .. Len(chunk.constants.elems) : Sound(chunk.constants.elems[k]),
         NEW v, Sound(v), NEW l \in Nat, chunk' = WriteValue(chunk, v, l)
  PROVE  \A k \in 1 .. Len(chunk'.constants.elems) : Sound(chunk'.constants.elems[k])
<1>1. PICK old, new : old = chunk.constants.elems /\ new = chunk'.constants.elems
  OBVIOUS
<1>2. new = Append(old, v)
  BY <1>1, ValueWritten DEF Loads
<1>3. PICK S : old \in Seq(S)
  BY <1>1 DEF WellFormed
<1>4. old \in Seq(S \cup {v}) /\ v \in S \cup {v}
  BY <1>3
<1>5. \A k \in 1 .. Len(new) : IF k \in 1 .. Len(old) THEN new[k] = old[k] ELSE new[k] = v
  BY <1>2, <1>4
<1> QED
  BY <1>1, <1>5

LEMMA CompileIsSound ==
  ASSUME IInv, SoundIInv, Compile, UNCHANGED vmVars
  PROVE  SoundIInv'
<1>1. /\ program \in Programs /\ WellFormed(chunk)
      /\ \A n \in DOMAIN program : n \in Nat /\ program[n].line \in Nat
  BY ProgramFacts DEF IInv
<1>2. /\ stack' = stack /\ (\E S : stack \in Seq(S)) /\ \A d \in DOMAIN stack : Sound(stack[d])
  <2>1. phase = "compile"
    BY DEF Compile, WriteBool, WriteNumber, WriteString, WriteOperator, VisitUnary, VisitBinary,
           VisitSilent, Visiting, Finish
  <2> QED
    BY <2>1 DEF SoundIInv, vmVars
<1> SUFFICES \A k \in 1 .. Len(chunk'.constants.elems) : Sound(chunk'.constants.elems[k])
  BY <1>2 DEF SoundIInv
<1>3. ASSUME NEW n \in DOMAIN program, NEW v, Sound(v), chunk' = WriteValue(chunk, v, program[n].line)
      PROVE  \A k \in 1 .. Len(chunk'.constants.elems) : Sound(chunk'.constants.elems[k])
  BY <1>1, <1>3, ConstantsAreSound DEF SoundIInv
<1>4. ASSUME NEW n \in DOMAIN program, WriteNumber(n)
      PROVE  \A k \in 1 .. Len(chunk'.constants.elems) : Sound(chunk'.constants.elems[k])
  <2>1. /\ chunk' = WriteValue(chunk, program[n].value, program[n].line)
        /\ program[n].kind \in {"CHAR", "REAL", "INTEGER"}
    BY <1>4 DEF WriteNumber
  <2>2. program[n].value.kind = program[n].kind
    BY <1>1, <2>1, ProgramsAssumption
  <2> QED
    BY <1>3, <2>1, <2>2 DEF Sound
<1>5. ASSUME NEW n \in DOMAIN program, WriteString(n)
      PROVE  \A k \in 1 .. Len(chunk'.constants.elems) : Sound(chunk'.constants.elems[k])
  <2>1. PICK ref : ref = obj_string_ref(store, StringChars(program[n]))
    OBVIOUS
  <2>2. CASE ref.outcome = "ok"
    <3>1. PICK v : v = Value("OBJ", ref.string)
      OBVIOUS
    <3>2. chunk' = WriteValue(chunk, v, program[n].line)
      BY <1>5, <2>1, <2>2, <3>1 DEF WriteString
    <3>3. Sound(v)
      BY <3>1 DEF Sound, Value, IsJunk
    <3> QED
      BY <1>3, <3>2, <3>3
  <2>3. CASE ref.outcome # "ok"
    BY <1>5, <2>1, <2>3 DEF WriteString, SoundIInv
  <2> QED
    BY <2>2, <2>3
<1>6. ASSUME NEW byte, NEW l, chunk' = ChunkWrite(chunk, byte, l)
      PROVE  \A k \in 1 .. Len(chunk'.constants.elems) : Sound(chunk'.constants.elems[k])
  <2>1. chunk'.constants = chunk.constants
    BY <1>1, <1>6 DEF ChunkWrite, WellFormed
  <2> QED
    BY <2>1 DEF SoundIInv
<1>7. CASE chunk' = chunk
  BY <1>7 DEF SoundIInv
<1> QED
  BY <1>4, <1>5, <1>6, <1>7
     DEF Compile, WriteBool, WriteOperator, VisitUnary, VisitBinary, VisitSilent, Finish

(* Whatever stays in its loop has left a stack without such a pointer.     *)
LEMMA LeftSound ==
  ASSUME phase = "run", phase' = "run", NEW s, NEW S, s \in Seq(S), Leave(s)
  PROVE  /\ stack' = s /\ (\E T : stack' \in Seq(T))
         /\ \A d \in DOMAIN stack' : Sound(stack'[d])
BY DEF Leave, Sound

LEMMA PushedSound ==
  ASSUME phase = "run", phase' = "run", NEW S, stack \in Seq(S), NEW v, Push(v)
  PROVE  (\E T : stack' \in Seq(T)) /\ \A d \in DOMAIN stack' : Sound(stack'[d])
<1>1. PICK k, s : k = Pops(Op) /\ s = Append(Popped(Pops(Op)), v)
  OBVIOUS
<1>2. k \in Nat
  BY <1>1 DEF Pops
<1>3. SubSeq(stack, 1, Len(stack) - k) \in Seq(S)
  <2>1. \A i \in 1 .. Len(stack) - k : stack[i] \in S
    BY <1>2
  <2> QED
    BY <1>2, <2>1, SubSeqProperties
<1>4. SubSeq(stack, 1, Len(stack) - k) \in Seq(S \cup {v}) /\ v \in S \cup {v}
  BY <1>3
<1>5. s \in Seq(S \cup {v})
  BY <1>1, <1>4 DEF Popped, Depth
<1>6. Leave(s)
  BY <1>1 DEF Push
<1> QED
  BY <1>5, <1>6, LeftSound

LEMMA ExecuteIsSound ==
  ASSUME IInv, SoundIInv, Execute
  PROVE  SoundIInv'
<1>1. chunk' = chunk /\ phase = "run" /\ phase' # "compile"
  BY ExecuteKeepsCode
<1>2. PICK S : stack \in Seq(S)
  BY <1>1 DEF SoundIInv
<1> SUFFICES ASSUME phase' = "run"
             PROVE  (\E T : stack' \in Seq(T)) /\ \A d \in DOMAIN stack' : Sound(stack'[d])
  BY <1>1 DEF SoundIInv
<1>3. ASSUME NEW v, Push(v)
      PROVE  (\E T : stack' \in Seq(T)) /\ \A d \in DOMAIN stack' : Sound(stack'[d])
  BY <1>1, <1>2, <1>3, PushedSound
<1>4. ASSUME NEW index, PushConstant(index)
      PROVE  (\E T : stack' \in Seq(T)) /\ \A d \in DOMAIN stack' : Sound(stack'[d])
  BY <1>3, <1>4 DEF PushConstant
<1>5. CASE Constant \/ ConstantLong
  BY <1>4, <1>5 DEF Constant, ConstantLong
<1>6. CASE Truth \/ Arithmetic \/ NegateReal \/ Not \/ Equality
  BY <1>3, <1>6 DEF Truth, Arithmetic, NegateReal, Not, Equality
<1>7. CASE Trap \/ NegateInteger \/ NegateOther \/ Return \/ Underflow
  BY <1>7 DEF Trap, NegateInteger, NegateOther, Return, Underflow
<1>8. CASE Comparison
  <2>1. CASE Peek(1).kind \in Uncompared
    <3>1. PICK s : s = Popped(2) /\ Leave(s)
      BY <1>8, <2>1 DEF Comparison
    <3>2. s \in Seq(S)
      <4>1. \A i \in 1 .. Len(stack) - 2 : stack[i] \in S
        BY <1>2
      <4>2. Len(stack) - 2 \in Int
        BY <1>2
      <4>3. SubSeq(stack, 1, Len(stack) - 2) \in Seq(S)
        BY <4>1, <4>2, SubSeqProperties
      <4> QED
        BY <3>1, <4>3 DEF Popped, Depth
    <3> QED
      BY <1>1, <3>1, <3>2, LeftSound
  <2>2. CASE Peek(1).kind \notin Uncompared
    BY <1>3, <1>8, <2>2 DEF Comparison
  <2> QED
    BY <2>1, <2>2
<1>9. CASE Concat
  BY <1>3, <1>9 DEF Concat
<1> QED
  BY <1>5, <1>6, <1>7, <1>8, <1>9 DEF Execute

LEMMA SoundStep ==
  IInv /\ SoundIInv /\ [Next]_vars => SoundIInv'
<1> SUFFICES ASSUME IInv, SoundIInv, [Next]_vars PROVE SoundIInv'
  OBVIOUS
<1>1. CASE Compile /\ UNCHANGED vmVars
  BY <1>1, CompileIsSound
<1>2. CASE Execute
  BY <1>2, ExecuteIsSound
<1>3. CASE UNCHANGED vars
  BY <1>3 DEF vars, compilerVars, vmVars, SoundIInv
<1> QED
  BY <1>1, <1>2, <1>3 DEF Next, Terminated

LEMMA SoundInvariant == Spec => []SoundIInv
BY SoundStep, SoundInit, InductiveInvariant, PTL DEF Spec

(* What a constant instruction does to the stack.                          *)
LEMMA ConstantRead ==
  ASSUME LowByteFirst, IInv, LiteralsIInv, Execute, Len(stack) \in Nat,
         NEW j \in 1 .. Len(emitted), emitted[j].offset = ip, Op \in LoadOpcodes,
         NEW index, index = Loaded(chunk, emitted, j) % 256
  PROVE  /\ index \in Nat /\ index < ConstantCount(chunk)
         /\ PushConstant(index) /\ UNCHANGED <<store, printed>>
<1>1. Pops(Op) = 0 /\ Depth \in Nat /\ ~(Depth < 0)
  BY PopsOf DEF LoadOpcodes, Depth
<1>2. Constant \/ ConstantLong
  <2>1. ~Underflow
    BY <1>1 DEF Underflow
  <2>2. PICK others :
          /\ others = {OPCODE_TRUE, OPCODE_FALSE, OPCODE_ADD, OPCODE_SUB, OPCODE_MUL, OPCODE_DIV,
                        OPCODE_NEGATE, OPCODE_NOT, OPCODE_EQUAL, OPCODE_NOT_EQUAL, OPCODE_LESS,
                        OPCODE_LESS_EQUAL, OPCODE_GREATER, OPCODE_GREATER_EQUAL, OPCODE_CONCAT,
                        OPCODE_RETURN}
    OBVIOUS
  <2>3. others \cap LoadOpcodes = {}
    BY <2>2 DEF LoadOpcodes, OPCODE_CONSTANT, OPCODE_CONSTANT_LONG,
       OPCODE_TRUE, OPCODE_FALSE, OPCODE_ADD, OPCODE_SUB, OPCODE_MUL, OPCODE_DIV,
       OPCODE_NEGATE, OPCODE_NOT, OPCODE_EQUAL, OPCODE_NOT_EQUAL, OPCODE_LESS,
       OPCODE_LESS_EQUAL, OPCODE_GREATER, OPCODE_GREATER_EQUAL, OPCODE_CONCAT, OPCODE_RETURN
  <2>4. ~(Op \in others)
    BY <2>3
  <2>5. \A ops : Executing(ops) => Op \in ops
    BY DEF Executing
  <2>6. ~Truth /\ ~Arithmetic /\ ~Trap
    BY <2>2, <2>4, <2>5 DEF Truth, Arithmetic, Trap
  <2>7. ~NegateReal /\ ~NegateInteger /\ ~NegateOther /\ ~Not
    BY <2>2, <2>4, <2>5 DEF NegateReal, NegateInteger, NegateOther, Not
  <2>8. ~Equality /\ ~Comparison
    BY <2>2, <2>4, <2>5 DEF Equality, Comparison
  <2>9. ~Concat /\ ~Return
    BY <2>2, <2>4, <2>5 DEF Concat, Return
  <2> QED
    BY <2>1, <2>6, <2>7, <2>8, <2>9 DEF Execute
<1>3. CASE Constant
  BY <1>3, ReadsConstant DEF Constant
<1>4. CASE ConstantLong
  <2>1. PICK order \in READ_ORDERS :
          PushConstant(CodeAt(chunk, ip + order[1]) + 256 * CodeAt(chunk, ip + order[2])
                         + 65536 * CodeAt(chunk, ip + order[3]))
    BY <1>4 DEF ConstantLong
  <2>2. PICK i : i = CodeAt(chunk, ip + order[1]) + 256 * CodeAt(chunk, ip + order[2])
                       + 65536 * CodeAt(chunk, ip + order[3])
    OBVIOUS
  <2>3. i = index /\ i \in Nat /\ i < ConstantCount(chunk)
    BY <1>4, <2>2, ReadsConstant
  <2>4. UNCHANGED <<store, printed>>
    BY <1>4 DEF ConstantLong
  <2> QED
    BY <2>1, <2>2, <2>3, <2>4
<1> QED
  BY <1>2, <1>3, <1>4

(* The disassembler, which puts the bytes of an operand together without   *)
(* shifting them, finds the index modulo 256: the other two bytes are 0.   *)
LEMMA IndexDisassembled ==
  ASSUME IInv, LiteralsIInv, NEW j \in 1 .. Len(emitted), emitted[j].offset = ip, Op \in LoadOpcodes
  PROVE  DisassembledIndex(chunk, ip) = Loaded(chunk, emitted, j) % 256
<1>1. PICK i : i = Loaded(chunk, emitted, j) % 256
  OBVIOUS
<1>2. i \in Byte /\ 0 \in Byte
  <2>1. Loaded(chunk, emitted, j) \in Nat
    BY LoadsFinite
  <2>2. (\A m \in Nat : m % 256 \in Byte) /\ 0 \in Byte
    BY DEF Byte
  <2> QED
    BY <1>1, <2>1, <2>2
<1>3. /\ CodeAt(chunk, ip + 1) = i
      /\ Op = OPCODE_CONSTANT_LONG => CodeAt(chunk, ip + 2) = 0 /\ CodeAt(chunk, ip + 3) = 0
  <2>1. NamesLiteral(chunk, emitted, program, store.heap, j)
    BY DEF LiteralsIInv, ConstantsNamed, IsLoad, Op
  <2> QED
    BY <1>1, <2>1 DEF NamesLiteral, Op
<1>4. CASE Op = OPCODE_CONSTANT
  BY <1>1, <1>3, <1>4 DEF DisassembledIndex, Op
<1>5. CASE Op = OPCODE_CONSTANT_LONG
  <2>1. ByteOr(i, ByteOr(0, 0)) = i
    BY <1>2, ByteOrZero
  <2>2. DisassembledIndex(chunk, ip) = ByteOr(i, ByteOr(0, 0))
    BY <1>3, <1>5 DEF DisassembledIndex, Op, OPCODE_CONSTANT, OPCODE_CONSTANT_LONG
  <2> QED
    BY <1>1, <2>1, <2>2
<1> QED
  BY <1>4, <1>5 DEF LoadOpcodes

LEMMA ConstantFetched ==
  ASSUME LowByteFirst, IInv, LiteralsIInv, SoundIInv, phase = "run", Execute,
         NEW j \in 1 .. Len(emitted), emitted[j].offset = ip, Op \in LoadOpcodes
  PROVE  /\ phase' = "run"
         /\ stack' = Append(stack, chunk.constants.elems[(Loaded(chunk, emitted, j) % 256) + 1])
<1>1. PICK S : stack \in Seq(S) /\ \A d \in DOMAIN stack : Sound(stack[d])
  BY DEF SoundIInv
<1>2. Pops(Op) = 0 /\ Depth \in Nat /\ ~(Depth < 0)
  BY <1>1, PopsOf DEF LoadOpcodes, Depth
<1>3. Popped(0) = stack
  <2>1. SubSeq(stack, 1, Len(stack)) = stack
    BY <1>1, SubSeqFull
  <2>2. Len(stack) - 0 = Len(stack)
    BY <1>1
  <2> QED
    BY <2>1, <2>2 DEF Popped, Depth
<1>4. PICK index : index = Loaded(chunk, emitted, j) % 256
  OBVIOUS
<1>5. index \in Nat /\ index < ConstantCount(chunk) /\ PushConstant(index)
  BY <1>1, <1>4, ConstantRead
<1>6. PICK v : v = chunk.constants.elems[index + 1]
  OBVIOUS
<1>7. Leave(Append(stack, v))
  BY <1>2, <1>3, <1>5, <1>6 DEF PushConstant, Push
<1>8. Sound(v)
  <2>1. index + 1 \in 1 .. Len(chunk.constants.elems)
    BY <1>5, CountIsNat DEF ConstantCount, IInv
  <2> QED
    BY <1>6, <2>1 DEF SoundIInv
<1>9. \A d \in DOMAIN Append(stack, v) : Sound(Append(stack, v)[d])
  <2>1. stack \in Seq(S \cup {v}) /\ v \in S \cup {v}
    BY <1>1
  <2>2. \A d \in 1 .. Len(stack) + 1 :
          Append(stack, v)[d] = IF d \in 1 .. Len(stack) THEN stack[d] ELSE v
    BY <2>1
  <2>3. DOMAIN Append(stack, v) = 1 .. Len(stack) + 1 /\ DOMAIN stack = 1 .. Len(stack)
    BY <2>1
  <2> QED
    BY <1>1, <1>8, <2>2, <2>3
<1> QED
  BY <1>4, <1>6, <1>7, <1>9 DEF Leave, Sound

-----------------------------------------------------------------------------
(* The meaning of a node from those of its operands, and the functions     *)
(* that give the first k nodes their meanings.                             *)
MeaningOf(p, m, n) ==
  IF p[n].kind \in Ref!LiteralKinds THEN Ref!LiteralMeaning(p[n])
  ELSE IF p[n].kind \in Ref!UnaryKinds THEN Ref!UnaryMeaning(p[n].kind, m[Ref!Expr(p, n)])
  ELSE Ref!BinaryMeaning(p[n].kind, m[Ref!Lhs(p, n)], m[Ref!Rhs(p, n)])

Means(p, k, m) == m = [n \in 1 .. k |-> MeaningOf(p, m, n)]

(* The Reference's trees are the compiler's.                               *)
LEMMA SameTrees ==
  /\ Ref!LiteralKinds = LiteralKinds /\ Ref!UnaryKinds = UnaryKinds /\ Ref!BinaryKinds = BinaryKinds
  /\ \A p, n : /\ Ref!Expr(p, n) = Expr(p, n)
               /\ Ref!Lhs(p, n) = Lhs(p, n) /\ Ref!Rhs(p, n) = Rhs(p, n)
<1>1. Ref!LiteralKinds = LiteralKinds /\ Ref!UnaryKinds = UnaryKinds /\ Ref!BinaryKinds = BinaryKinds
  BY DEF Ref!LiteralKinds, LiteralKinds, Ref!UnaryKinds, UnaryKinds, Ref!BinaryKinds, BinaryKinds
<1>2. ASSUME NEW p, NEW n
      PROVE  /\ Ref!Expr(p, n) = Expr(p, n)
             /\ Ref!Lhs(p, n) = Lhs(p, n) /\ Ref!Rhs(p, n) = Rhs(p, n)
  BY DEF Ref!Expr, Expr, Ref!Lhs, Lhs, Ref!Rhs, Rhs
<1> QED
  BY <1>1, <1>2

LEMMA MeaningCases ==
  ASSUME NEW p, NEW n, NEW m
  PROVE  MeaningOf(p, m, n) =
           IF p[n].kind \in LiteralKinds THEN Ref!LiteralMeaning(p[n])
           ELSE IF p[n].kind \in UnaryKinds THEN Ref!UnaryMeaning(p[n].kind, m[Expr(p, n)])
           ELSE Ref!BinaryMeaning(p[n].kind, m[Lhs(p, n)], m[Rhs(p, n)])
BY Zenon, SameTrees DEF MeaningOf

(* The meaning of a node needs those of earlier nodes only.                *)
LEMMA MeaningIsLocal ==
  ASSUME NEW p \in Programs, NEW n \in DOMAIN p, NEW l, NEW m,
         \A i \in 1 .. n - 1 : l[i] = m[i]
  PROVE  MeaningOf(p, l, n) = MeaningOf(p, m, n)
<1>1. n \in Nat /\ n >= 1 /\ DOMAIN p = 1 .. Len(p) /\ p[n].kind \in NodeKinds
  BY ProgramFacts, ProgramsAssumption
<1>2. CASE p[n].kind \in LiteralKinds
  BY Zenon, <1>2, MeaningCases
<1>3. CASE p[n].kind \in UnaryKinds
  <2>1. n - 1 \in DOMAIN p
    BY <1>3, TreeFacts
  <2>2. Expr(p, n) \in 1 .. n - 1
    BY <1>1, <2>1 DEF Expr
  <2> QED
    BY Zenon, <1>3, <2>2, MeaningCases
<1>4. CASE p[n].kind \in BinaryKinds
  <2>1. PICK a \in DOMAIN p : a = Lhs(p, n) /\ n - 1 \in DOMAIN p /\ a + 1 < n
    BY <1>4, TreeFacts
  <2>2. Lhs(p, n) \in 1 .. n - 1 /\ Rhs(p, n) \in 1 .. n - 1
    BY <1>1, <2>1 DEF Rhs
  <2>3. l[Lhs(p, n)] = m[Lhs(p, n)] /\ l[Rhs(p, n)] = m[Rhs(p, n)]
    BY <2>2
  <2>4. p[n].kind \notin UnaryKinds
    BY <1>4 DEF UnaryKinds, BinaryKinds
  <2> QED
    BY Zenon, <2>3, <2>4, MeaningCases
<1> QED
  BY <1>1, <1>2, <1>3, <1>4 DEF NodeKinds

(* So the meanings of a tree are a function of its nodes.                  *)
LEMMA MeaningsExist ==
  ASSUME NEW p \in Programs, NEW k \in Nat, k <= Len(p)
  PROVE  \E m : Means(p, k, m)
<1> DEFINE S == {j \in Nat : j <= Len(p) => \E m : Means(p, j, m)}
<1>1. DOMAIN p = 1 .. Len(p) /\ Len(p) \in Nat
  BY ProgramsAssumption
<1>2. 0 \in S
  <2>1. PICK m : m = [n \in 1 .. 0 |-> 0]
    OBVIOUS
  <2>2. m = [n \in 1 .. 0 |-> MeaningOf(p, m, n)]
    BY <2>1
  <2> QED
    BY <2>2 DEF Means
<1>3. ASSUME NEW j \in Nat, j \in S PROVE j + 1 \in S
  <2> SUFFICES ASSUME j + 1 <= Len(p) PROVE \E m : Means(p, j + 1, m)
    OBVIOUS
  <2>1. PICK m : Means(p, j, m)
    BY <1>1, <1>3
  <2>2. PICK last : last = MeaningOf(p, m, j + 1)
    OBVIOUS
  <2>3. PICK more : more = [n \in 1 .. j + 1 |-> IF n = j + 1 THEN last ELSE m[n]]
    OBVIOUS
  <2>4. \A n \in 1 .. j + 1 : more[n] = MeaningOf(p, more, n)
    <3> TAKE n \in 1 .. j + 1
    <3>1. n \in DOMAIN p /\ \A i \in 1 .. n - 1 : m[i] = more[i]
      BY <1>1, <2>3
    <3>2. MeaningOf(p, m, n) = MeaningOf(p, more, n)
      BY Zenon, <3>1, MeaningIsLocal
    <3>3. CASE n = j + 1
      BY <2>2, <2>3, <3>2, <3>3
    <3>4. CASE n # j + 1
      <4>1. n \in 1 .. j
        BY <3>4
      <4>2. m[n] = MeaningOf(p, m, n)
        BY Zenon, <2>1, <4>1 DEF Means
      <4> QED
        BY <2>3, <3>2, <3>4, <4>2
    <3> QED
      BY <3>3, <3>4
  <2>5. more = [n \in 1 .. j + 1 |-> more[n]]
    BY <2>3
  <2> QED
    BY Zenon, <2>4, <2>5 DEF Means
<1>4. Nat \subseteq S
  <2> HIDE DEF S
  <2> QED
    BY <1>2, <1>3, Induction
<1> QED
  BY <1>4

(* Reference!Meaning unfolds as it was written.                            *)
LEMMA MeaningUnfolds ==
  ASSUME NEW p \in Programs, NEW n \in DOMAIN p
  PROVE  Ref!Meaning(p)[n] = MeaningOf(p, Ref!Meaning(p), n)
<1>1. DOMAIN p = 1 .. Len(p) /\ Len(p) \in Nat
  BY ProgramsAssumption
<1>2. \E m : m = [i \in DOMAIN p |-> MeaningOf(p, m, i)]
  BY <1>1, MeaningsExist DEF Means
<1>3. PICK meaning : meaning = Ref!Meaning(p)
  OBVIOUS
<1>4. meaning = [i \in DOMAIN p |-> MeaningOf(p, meaning, i)]
  BY Zenon, <1>2, <1>3 DEF Ref!Meaning, MeaningOf
<1> QED
  BY Zenon, <1>3, <1>4

-----------------------------------------------------------------------------
(* The instruction of a node, and the constants there are.                 *)
Speaks(p, n, op) ==
  /\ n = ROOT => op = OPCODE_RETURN
  /\ n # ROOT =>
       /\ p[n].kind = "BOOL" => op = IF IsTrue(p[n].value) THEN OPCODE_TRUE ELSE OPCODE_FALSE
       /\ p[n].kind \in LiteralKinds \ {"BOOL"} => op \in LoadOpcodes
       /\ p[n].kind \in OperatorKinds => op = OperatorOpcode(p[n].kind)

Complete(v) == v = [kind |-> v.kind, num |-> v.num, den |-> v.den] /\ (v.kind = "OBJ" => v.den = 1)

CompleteIn(c) == \A k \in 1 .. Len(c.constants.elems) : Complete(c.constants.elems[k])

Spoken(c, e, p) ==
  /\ CompleteIn(c)
  /\ \A j \in 1 .. Len(e) :
       e[j].node \in {ROOT} \cup DOMAIN p /\ Speaks(p, e[j].node, CodeAt(c, e[j].offset))

SpokenIInv ==
  /\ Spoken(chunk, emitted, program)
  /\ phase = "compile" => stack = <<>> /\ printed = <<>>

LEMMA SpokenInit == Init => SpokenIInv
<1> SUFFICES ASSUME Init PROVE SpokenIInv
  OBVIOUS
<1>1. chunk = chunk_init /\ emitted = <<>> /\ stack = <<>> /\ printed = <<>>
  BY DEF Init, CompilerInit, VmInit
<1>2. Len(emitted) = 0 /\ Len(chunk.constants.elems) = 0
  BY <1>1 DEF chunk_init, EmptyArray
<1> QED
  BY <1>1, <1>2 DEF SpokenIInv, Spoken, CompleteIn

(* One instruction more, in the words of its node.                         *)
LEMMA SpokenGrows ==
  ASSUME NEW c, WellFormed(c), NEW e, Tiles(c, e), NEW p, Spoken(c, e, p),
         NEW d, NEW op, Extends(c, d, op), CompleteIn(d),
         NEW n \in Nat, n \in {ROOT} \cup DOMAIN p, Speaks(p, n, op)
  PROVE  Spoken(d, Added(e, n, Len(c.code.elems)), p)
<1>1. PICK f, size : f = Added(e, n, size) /\ size = Len(c.code.elems)
  OBVIOUS
<1>2. /\ Len(e) \in Nat /\ Len(f) = Len(e) + 1
      /\ f[Len(f)].offset = size /\ f[Len(f)].node = n /\ CodeAt(d, size) = op
      /\ \A j \in 1 .. Len(e) : f[j] = e[j]
  <2>1. CountsOneMore(c, e, d, f, op, n)
    BY <1>1, InstructionCounted
  <2> QED
    BY <1>1, <2>1 DEF CountsOneMore
<1>3. ASSUME NEW j \in 1 .. Len(f)
      PROVE  f[j].node \in {ROOT} \cup DOMAIN p /\ Speaks(p, f[j].node, CodeAt(d, f[j].offset))
  <2>1. CASE j \in 1 .. Len(e)
    <3>1. CodeAt(d, f[j].offset) = CodeAt(c, e[j].offset) /\ f[j].node = e[j].node
      BY <1>2, <2>1, InstructionKept
    <3> QED
      BY <2>1, <3>1 DEF Spoken
  <2>2. CASE j = Len(f)
    BY <1>2, <2>2
  <2> QED
    BY <1>2, <2>1, <2>2
<1> QED
  BY <1>1, <1>3 DEF Spoken

(* What the value of a node is.                                            *)
LEMMA NodeValues ==
  ASSUME NEW p \in Programs, NEW n \in DOMAIN p
  PROVE  p[n].value \in [kind : Kinds, num : Int, den : Int]
<1>1. PICK C : p \in Seq([kind : NodeKinds, line : Nat, value : [kind : Kinds, num : Int, den : Int],
                          chars : C, first : Nat])
  BY ProgramsAssumption
<1>2. n \in 1 .. Len(p)
  BY <1>1
<1>3. p[n] \in [kind : NodeKinds, line : Nat, value : [kind : Kinds, num : Int, den : Int],
                chars : C, first : Nat]
  BY <1>1, <1>2, MemberOfSeq
<1> QED
  BY <1>3

LEMMA OpcodeIsSpoken ==
  ASSUME NEW c, WellFormed(c), NEW e, Tiles(c, e), NEW p, Spoken(c, e, p), NEW l \in Nat,
         NEW op \in Opcodes \ {OPCODE_CONSTANT, OPCODE_CONSTANT_LONG},
         NEW n \in Nat, n \in {ROOT} \cup DOMAIN p, Speaks(p, n, op)
  PROVE  Spoken(ChunkWrite(c, op, l), Added(e, n, Len(c.code.elems)), p)
<1>1. PICK d : d = ChunkWrite(c, op, l)
  OBVIOUS
<1>2. Extends(c, d, op) /\ d.constants = c.constants
  BY <1>1, OpcodeWritten, OpcodeIsByte, ByteWritten
<1>3. CompleteIn(d)
  BY <1>2 DEF CompleteIn, Spoken
<1> QED
  BY <1>1, <1>2, <1>3, SpokenGrows

LEMMA ValueIsSpoken ==
  ASSUME NEW c, WellFormed(c), NEW e, Tiles(c, e), NEW p, Spoken(c, e, p), NEW l \in Nat,
         NEW v, Complete(v), NEW n \in Nat, n \in DOMAIN p, n # ROOT,
         p[n].kind \in LiteralKinds \ {"BOOL"}
  PROVE  Spoken(WriteValue(c, v, l), Added(e, n, Len(c.code.elems)), p)
<1>1. PICK d, old, new : /\ d = WriteValue(c, v, l)
                         /\ old = c.constants.elems /\ new = d.constants.elems
  OBVIOUS
<1>2. PICK op \in LoadOpcodes : Loads(c, d, op, v)
  BY <1>1, ValueWritten DEF LoadOpcodes
<1>3. Extends(c, d, op) /\ new = Append(old, v)
  BY <1>1, <1>2 DEF Loads
<1>4. \A k \in 1 .. Len(new) : Complete(new[k])
  <2>1. PICK S : old \in Seq(S)
    BY <1>1 DEF WellFormed
  <2>2. old \in Seq(S \cup {v}) /\ v \in S \cup {v}
    BY <2>1
  <2>3. \A k \in 1 .. Len(new) : IF k \in 1 .. Len(old) THEN new[k] = old[k] ELSE new[k] = v
    BY <1>3, <2>2
  <2> QED
    BY <1>1, <2>3 DEF Spoken, CompleteIn
<1>5. CompleteIn(d)
  BY <1>1, <1>4 DEF CompleteIn
<1>6. Speaks(p, n, op)
  BY DEF Speaks, OperatorKinds, LiteralKinds, UnaryKinds, BinaryKinds
<1> QED
  BY <1>1, <1>3, <1>5, <1>6, SpokenGrows

(* A step of the compiler, and the first state of the machine.             *)
LEMMA CompileSpeaks ==
  ASSUME Hashed, IInv, LiteralsIInv, SpokenIInv, Compile, UNCHANGED vmVars
  PROVE  /\ SpokenIInv' /\ phase' \in {"compile", "run"}
         /\ stack' = <<>> /\ printed' = <<>> /\ ip' = 0
         /\ phase' = "run" => emitted' # <<>> /\ emitted'[1].offset = 0
<1>1. /\ program \in Programs /\ WellFormed(chunk) /\ Tiles(chunk, emitted)
      /\ Pending(program, work)
      /\ \A n \in DOMAIN program : n \in Nat /\ n # ROOT /\ program[n].line \in Nat
  <2>1. program \in Programs /\ WellFormed(chunk) /\ Tiles(chunk, emitted) /\ Pending(program, work)
    BY DEF IInv
  <2>2. \A n \in DOMAIN program : n \in Nat /\ program[n].line \in Nat
    BY <2>1, ProgramFacts
  <2>3. \A n \in DOMAIN program : n >= 1
    BY <2>1, TreeFacts
  <2> QED
    BY <2>1, <2>2, <2>3 DEF ROOT
<1>2. phase = "compile" /\ stack' = <<>> /\ printed' = <<>> /\ program' = program /\ ip' = 0
  <2>1. phase = "compile" /\ program' = program
    BY DEF Compile, WriteBool, WriteNumber, WriteString, WriteOperator, VisitUnary, VisitBinary,
           VisitSilent, Visiting, Finish
  <2> QED
    BY <2>1 DEF vmVars, IInv, SpokenIInv
<1>3. Spoken(chunk, emitted, program)
  BY DEF SpokenIInv
<1>4. ASSUME NEW n \in DOMAIN program, WriteBool(n)
      PROVE  Spoken(chunk', emitted', program) /\ phase' = "compile"
  <2>1. PICK op : op = IF IsTrue(program[n].value) THEN OPCODE_TRUE ELSE OPCODE_FALSE
    OBVIOUS
  <2>2. op \in Opcodes \ {OPCODE_CONSTANT, OPCODE_CONSTANT_LONG}
    BY <2>1 DEF Opcodes, OPCODE_TRUE, OPCODE_FALSE, OPCODE_CONSTANT, OPCODE_CONSTANT_LONG,
                OPCODE_RETURN
  <2>3. /\ chunk' = ChunkWrite(chunk, op, program[n].line) /\ phase' = phase
        /\ emitted' = Added(emitted, n, Len(chunk.code.elems)) /\ program[n].kind = "BOOL"
    BY <1>4, <2>1 DEF WriteBool, Emitted, Added
  <2>4. Speaks(program, n, op)
    BY <1>1, <2>1, <2>3 DEF Speaks, OperatorKinds, UnaryKinds, BinaryKinds
  <2> QED
    BY <1>1, <1>2, <1>3, <2>2, <2>3, <2>4, OpcodeIsSpoken
<1>5. ASSUME NEW n \in DOMAIN program, WriteNumber(n)
      PROVE  Spoken(chunk', emitted', program) /\ phase' = "compile"
  <2>1. PICK v : v = program[n].value
    OBVIOUS
  <2>2. /\ chunk' = WriteValue(chunk, v, program[n].line) /\ phase' = phase
        /\ emitted' = Added(emitted, n, Len(chunk.code.elems))
        /\ program[n].kind \in {"CHAR", "REAL", "INTEGER"}
    BY <1>5, <2>1 DEF WriteNumber, Emitted, Added
  <2>3. Complete(v)
    <3>1. v \in [kind : Kinds, num : Int, den : Int]
      BY <1>1, <2>1, NodeValues
    <3>2. v.kind = program[n].kind
      BY <1>1, <2>1, <2>2, ProgramsAssumption
    <3> QED
      BY <2>2, <3>1, <3>2 DEF Complete
  <2>4. program[n].kind \in LiteralKinds \ {"BOOL"}
    BY <2>2 DEF LiteralKinds
  <2> QED
    BY <1>1, <1>2, <1>3, <2>2, <2>3, <2>4, ValueIsSpoken
<1>6. ASSUME NEW n \in DOMAIN program, WriteString(n)
      PROVE  Spoken(chunk', emitted', program) /\ phase' = "compile"
  <2>1. PICK ref, v : ref = obj_string_ref(store, StringChars(program[n])) /\ v = Value("OBJ", ref.string)
    OBVIOUS
  <2>2. ref.outcome = "ok"
    BY <2>1, StringMade DEF Hashed, LiteralsIInv, obj_string_ref
  <2>3. /\ chunk' = WriteValue(chunk, v, program[n].line) /\ phase' = phase
        /\ emitted' = Added(emitted, n, Len(chunk.code.elems)) /\ program[n].kind = "STRING"
    BY <1>6, <2>1, <2>2 DEF WriteString, Emitted, Added
  <2>4. Complete(v) /\ program[n].kind \in LiteralKinds \ {"BOOL"}
    BY <2>1, <2>3 DEF Complete, Value, LiteralKinds
  <2> QED
    BY <1>1, <1>2, <1>3, <2>3, <2>4, ValueIsSpoken
<1>7. ASSUME NEW n \in DOMAIN program, VisitUnary(n) \/ VisitBinary(n) \/ VisitSilent(n)
      PROVE  Spoken(chunk', emitted', program) /\ phase' = "compile"
  BY <1>2, <1>3, <1>7 DEF VisitUnary, VisitBinary, VisitSilent
<1>8. ASSUME NEW n \in DOMAIN program, WriteOperator(n)
      PROVE  Spoken(chunk', emitted', program) /\ phase' = "compile"
  <2>1. PICK op, kind : op = OperatorOpcode(kind) /\ kind = program[n].kind
    OBVIOUS
  <2>2. /\ chunk' = ChunkWrite(chunk, op, BlamedLine(n)) /\ phase' = phase
        /\ emitted' = Added(emitted, n, Len(chunk.code.elems))
        /\ work # <<>> /\ Head(work) = Emit(n)
    BY <1>8, <2>1 DEF WriteOperator, Emitted, Added, Top
  <2>3. kind \in OperatorKinds
    <3>1. work[1] = Emit(n) /\ 1 \in 1 .. Len(work)
      BY <1>1, <2>2, PendingTail
    <3>2. work[1].task = "emit" /\ work[1].node = n
      BY <3>1 DEF Emit
    <3> QED
      BY <1>1, <2>1, <3>1, <3>2 DEF Pending
  <2>4. Speaks(program, n, op)
    BY <1>1, <2>1, <2>3 DEF Speaks, OperatorKinds, UnaryKinds, BinaryKinds, LiteralKinds
  <2>5. op \in Opcodes \ {OPCODE_CONSTANT, OPCODE_CONSTANT_LONG} /\ BlamedLine(n) \in Nat
    BY <1>1, <2>1, <2>2, EmitIsOperator DEF BlamedLine
  <2> QED
    BY <1>1, <1>2, <1>3, <2>2, <2>4, <2>5, OpcodeIsSpoken
<1>9. ASSUME Finish
      PROVE  /\ Spoken(chunk', emitted', program) /\ phase' = "run"
             /\ emitted' # <<>> /\ emitted'[1].offset = 0
  <2>1. /\ chunk' = ChunkWrite(chunk, OPCODE_RETURN, RETURN_LINE) /\ phase' = "run"
        /\ emitted' = Added(emitted, ROOT, Len(chunk.code.elems))
    BY <1>9 DEF Finish, Emitted, Added
  <2>2. /\ OPCODE_RETURN \in Opcodes \ {OPCODE_CONSTANT, OPCODE_CONSTANT_LONG}
        /\ RETURN_LINE \in Nat /\ ROOT \in Nat
    BY DEF Opcodes, OPCODE_CONSTANT, OPCODE_CONSTANT_LONG, OPCODE_RETURN, RETURN_LINE, ROOT
  <2>3. Spoken(chunk', emitted', program)
    BY <1>1, <1>3, <2>1, <2>2, OpcodeIsSpoken DEF Speaks
  <2>4. Extends(chunk, chunk', OPCODE_RETURN)
    BY <1>1, <2>1, <2>2, OpcodeWritten
  <2>5. emitted'[1].offset = 0 /\ emitted' # <<>>
    BY <1>1, <2>1, <2>2, <2>4, InstructionEmitted DEF Added
  <2> QED
    BY <2>1, <2>3, <2>5
<1>10. /\ Spoken(chunk', emitted', program) /\ phase' \in {"compile", "run"}
       /\ phase' = "run" => emitted' # <<>> /\ emitted'[1].offset = 0
  <2>1. CASE Finish
    BY <1>9, <2>1
  <2>2. CASE ~Finish
    BY <1>4, <1>5, <1>6, <1>7, <1>8, <2>2 DEF Compile
  <2> QED
    BY <2>1, <2>2
<1> QED
  BY <1>2, <1>10 DEF SpokenIInv

-----------------------------------------------------------------------------
(* A value that stands for a meaning.                                      *)
Denotes(heap, v, x) ==
  /\ v = [kind |-> v.kind, num |-> v.num, den |-> v.den]
  /\ v.num \in Int /\ v.den \in Nat \ {0}
  /\ v.kind # "REAL" => v.den = 1
  /\ v.kind = "BOOL" => v.num \in {0, 1}
  /\ v.kind = "OBJ" => v.num \in DOMAIN heap
  /\ x = IF v.kind = "OBJ" THEN Ref!MeantString(heap[v.num].chars) ELSE Ref!Meant(v)

(* The stack s stands for the first k nodes: its values, bottom first, for *)
(* the meanings m of subtrees that follow each other, with roots r.        *)
StandsBy(heap, p, m, s, k, r) ==
  /\ r \in [0 .. Len(s) -> Nat]
  /\ r[0] = 0 /\ r[Len(s)] = k
  /\ \A d \in 1 .. Len(s) :
       /\ r[d] \in DOMAIN p /\ p[r[d]].first = r[d - 1] + 1
       /\ Denotes(heap, s[d], m[r[d]])

StandsFor(heap, p, m, s, k) == \E r : StandsBy(heap, p, m, s, k, r)

HeapKept(heap, more) == \A id \in DOMAIN heap : id \in DOMAIN more /\ more[id] = heap[id]

(* A value means what it did when the heap has grown.                      *)
LEMMA DenotesKept ==
  ASSUME NEW heap, NEW more, HeapKept(heap, more), NEW v, NEW x, Denotes(heap, v, x)
  PROVE  Denotes(more, v, x)
BY DEF HeapKept, Denotes

(* The empty stack stands for no nodes.                                    *)
LEMMA EmptyStands ==
  ASSUME NEW heap, NEW p, NEW m
  PROVE  StandsFor(heap, p, m, <<>>, 0)
<1>1. PICK r, s : r = [d \in 0 .. 0 |-> 0] /\ s = <<>>
  OBVIOUS
<1>2. Len(s) = 0 /\ r \in [0 .. 0 -> Nat] /\ r[0] = 0
  BY <1>1
<1>3. StandsBy(heap, p, m, s, 0, r)
  BY <1>2 DEF StandsBy
<1> QED
  BY <1>1, <1>3 DEF StandsFor

(* The value for node n takes the place of the q values it was made of.    *)
LEMMA StandsNext ==
  ASSUME NEW heap, NEW p, NEW m, NEW s, Len(s) \in Nat, NEW k, NEW r, StandsBy(heap, p, m, s, k, r),
         NEW q \in Nat, q <= Len(s), NEW n \in DOMAIN p, n \in Nat, p[n].first = r[Len(s) - q] + 1,
         NEW t, Len(t) = Len(s) - q + 1, \A d \in 1 .. Len(s) - q : t[d] = s[d],
         NEW more, HeapKept(heap, more), Denotes(more, t[Len(t)], m[n])
  PROVE  StandsFor(more, p, m, t, n)
<1>1. PICK a, b : a = Len(s) - q /\ b = Len(t)
  OBVIOUS
<1>2. a \in Nat /\ b = a + 1 /\ a <= Len(s)
  BY <1>1
<1>3. PICK u : u = [d \in 0 .. b |-> IF d = b THEN n ELSE r[d]]
  OBVIOUS
<1>4. u \in [0 .. b -> Nat] /\ u[0] = 0 /\ u[b] = n /\ \A d \in 0 .. a : u[d] = r[d]
  <2>1. \A d \in 0 .. a : d \in 0 .. Len(s) /\ d \in 0 .. b /\ d # b
    BY <1>2
  <2>2. \A d \in 0 .. a : u[d] = r[d] /\ r[d] \in Nat
    BY <1>3, <2>1 DEF StandsBy
  <2>3. u[b] = n /\ b \in 0 .. b /\ 0 \in 0 .. a
    BY <1>2, <1>3
  <2>4. \A d \in 0 .. b : d \in 0 .. a \/ d = b
    BY <1>2
  <2> QED
    BY <1>3, <2>2, <2>3, <2>4 DEF StandsBy
<1>5. ASSUME NEW d \in 1 .. b
      PROVE  /\ u[d] \in DOMAIN p /\ p[u[d]].first = u[d - 1] + 1
             /\ Denotes(more, t[d], m[u[d]])
  <2>1. CASE d = b
    <3>1. d - 1 = a /\ a \in 0 .. a
      BY <1>2, <2>1
    <3>2. u[d] = n /\ u[d - 1] = r[a]
      BY <1>4, <2>1, <3>1
    <3> QED
      BY <1>1, <2>1, <3>2
  <2>2. CASE d # b
    <3>1. d \in 0 .. a /\ d - 1 \in 0 .. a /\ d \in 1 .. Len(s) /\ d \in 1 .. a
      BY <1>2, <2>2
    <3>2. u[d] = r[d] /\ u[d - 1] = r[d - 1] /\ t[d] = s[d]
      BY <1>1, <1>4, <3>1
    <3>3. /\ r[d] \in DOMAIN p /\ p[r[d]].first = r[d - 1] + 1
          /\ Denotes(heap, s[d], m[r[d]])
      BY <3>1 DEF StandsBy
    <3> QED
      BY <3>2, <3>3, DenotesKept
  <2> QED
    BY <2>1, <2>2
<1> QED
  BY <1>1, <1>4, <1>5 DEF StandsFor, StandsBy

(* Where the operands of node n are on a stack for the nodes before it.    *)
LEMMA OperandsStand ==
  ASSUME NEW heap, NEW p \in Programs, NEW m, NEW s, Len(s) \in Nat, NEW n \in DOMAIN p, NEW r,
         StandsBy(heap, p, m, s, n - 1, r)
  PROVE  /\ p[n].kind \in LiteralKinds => p[n].first = r[Len(s)] + 1
         /\ p[n].kind \in UnaryKinds => /\ Len(s) >= 1 /\ p[n].first = r[Len(s) - 1] + 1
                                       /\ Denotes(heap, s[Len(s)], m[Expr(p, n)])
         /\ p[n].kind \in BinaryKinds => /\ Len(s) >= 2 /\ p[n].first = r[Len(s) - 2] + 1
                                        /\ Denotes(heap, s[Len(s)], m[Rhs(p, n)])
                                        /\ Denotes(heap, s[Len(s) - 1], m[Lhs(p, n)])
<1>1. n \in Nat /\ n >= 1 /\ p[n].kind \in LiteralKinds => p[n].first = n
  BY TreeFacts
<1>2. n \in Nat /\ n >= 1 /\ r[Len(s)] = n - 1 /\ r[0] = 0
  BY TreeFacts DEF StandsBy
<1>3. ASSUME n - 1 \in DOMAIN p
      PROVE  /\ Len(s) >= 1 /\ p[n - 1].first = r[Len(s) - 1] + 1
             /\ Denotes(heap, s[Len(s)], m[n - 1]) /\ r[Len(s) - 1] \in Nat
  <2>1. n - 1 >= 1
    BY <1>3, TreeFacts
  <2>2. Len(s) # 0
    BY <1>2, <2>1
  <2>3. Len(s) \in 1 .. Len(s) /\ Len(s) - 1 \in 0 .. Len(s)
    BY <2>2
  <2> QED
    BY <1>2, <2>3 DEF StandsBy
<1>4. ASSUME p[n].kind \in UnaryKinds
      PROVE  /\ Len(s) >= 1 /\ p[n].first = r[Len(s) - 1] + 1
             /\ Denotes(heap, s[Len(s)], m[Expr(p, n)])
  <2>1. n - 1 \in DOMAIN p /\ p[n].first = p[n - 1].first
    BY <1>4, TreeFacts
  <2> QED
    BY <1>3, <2>1 DEF Expr
<1>5. ASSUME p[n].kind \in BinaryKinds
      PROVE  /\ Len(s) >= 2 /\ p[n].first = r[Len(s) - 2] + 1
             /\ Denotes(heap, s[Len(s)], m[Rhs(p, n)])
             /\ Denotes(heap, s[Len(s) - 1], m[Lhs(p, n)])
  <2>1. PICK a \in DOMAIN p : /\ a = Lhs(p, n) /\ p[n].first = p[a].first
                              /\ n - 1 \in DOMAIN p /\ p[n - 1].first = a + 1
    BY <1>5, TreeFacts
  <2>2. a \in Nat /\ a >= 1
    BY TreeFacts
  <2>3. /\ Len(s) >= 1 /\ a = r[Len(s) - 1] /\ Denotes(heap, s[Len(s)], m[n - 1])
    <3>1. /\ Len(s) >= 1 /\ a + 1 = r[Len(s) - 1] + 1 /\ r[Len(s) - 1] \in Nat
          /\ Denotes(heap, s[Len(s)], m[n - 1])
      BY <1>3, <2>1
    <3> QED
      BY <2>2, <3>1
  <2>4. Len(s) - 1 # 0
    BY <1>2, <2>2, <2>3
  <2>5. Len(s) - 1 \in 1 .. Len(s) /\ Len(s) >= 2 /\ (Len(s) - 1) - 1 = Len(s) - 2
    <3>1. PICK size \in Nat : size = Len(s)
      OBVIOUS
    <3>2. size >= 1 /\ size - 1 # 0
      BY <2>3, <2>4, <3>1
    <3>3. size - 1 \in 1 .. size /\ size >= 2 /\ (size - 1) - 1 = size - 2
      BY <3>2
    <3> QED
      BY <3>1, <3>3
  <2>6. p[a].first = r[Len(s) - 2] + 1 /\ Denotes(heap, s[Len(s) - 1], m[a])
    BY <2>3, <2>5 DEF StandsBy
  <2> QED
    BY <2>1, <2>3, <2>5, <2>6 DEF Rhs
<1>6. p[n].kind \in LiteralKinds => p[n].first = r[Len(s)] + 1
  BY <1>1, <1>2
<1> QED
  BY <1>4, <1>5, <1>6

(* A GROUP means what it encloses, and has no instruction of its own.      *)
LEMMA GroupStands ==
  ASSUME NEW heap, NEW p \in Programs, NEW s, Len(s) \in Nat, NEW n \in DOMAIN p,
         p[n].kind = "GROUP", StandsFor(heap, p, Ref!Meaning(p), s, n - 1)
  PROVE  StandsFor(heap, p, Ref!Meaning(p), s, n)
<1>1. PICK m : m = Ref!Meaning(p)
  OBVIOUS
<1>2. PICK r : StandsBy(heap, p, m, s, n - 1, r)
  BY <1>1 DEF StandsFor
<1>3. p[n].kind \in UnaryKinds /\ p[n].kind \notin LiteralKinds
  BY DEF UnaryKinds, LiteralKinds
<1>4. /\ Len(s) >= 1 /\ p[n].first = r[Len(s) - 1] + 1
      /\ Denotes(heap, s[Len(s)], m[Expr(p, n)])
  BY <1>2, <1>3, OperandsStand
<1>5. m[n] = m[Expr(p, n)]
  <2>1. m[n] = Ref!UnaryMeaning(p[n].kind, m[Expr(p, n)])
    BY Zenon, <1>1, <1>3, MeaningUnfolds, MeaningCases
  <2> QED
    BY <2>1 DEF Ref!UnaryMeaning
<1>6. n \in Nat /\ HeapKept(heap, heap)
  BY TreeFacts DEF HeapKept
<1>7. 1 \in Nat /\ Len(s) = Len(s) - 1 + 1 /\ \A d \in 1 .. Len(s) - 1 : s[d] = s[d]
  OBVIOUS
<1>8. StandsFor(heap, p, m, s, n)
  BY <1>2, <1>4, <1>5, <1>6, <1>7, StandsNext
<1> QED
  BY <1>1, <1>8

(* So a stack for the first k nodes stands for the GROUPs after them too.  *)
LEMMA GroupsStand ==
  ASSUME NEW heap, NEW p \in Programs, NEW s, Len(s) \in Nat, NEW k \in Nat, NEW l \in Nat,
         k <= l, l <= Len(p), \A n \in k + 1 .. l : p[n].kind = "GROUP",
         StandsFor(heap, p, Ref!Meaning(p), s, k)
  PROVE  StandsFor(heap, p, Ref!Meaning(p), s, l)
<1> DEFINE S == {i \in Nat : k + i <= l => StandsFor(heap, p, Ref!Meaning(p), s, k + i)}
<1>1. DOMAIN p = 1 .. Len(p) /\ Len(p) \in Nat
  BY ProgramsAssumption
<1>2. 0 \in S
  OBVIOUS
<1>3. ASSUME NEW i \in Nat, i \in S PROVE i + 1 \in S
  <2> SUFFICES ASSUME k + (i + 1) <= l
               PROVE  StandsFor(heap, p, Ref!Meaning(p), s, k + (i + 1))
    OBVIOUS
  <2>1. PICK n : n = k + (i + 1)
    OBVIOUS
  <2>2. n \in 1 .. Len(p) /\ n - 1 = k + i /\ k + i <= l /\ n \in k + 1 .. l
    BY <1>1, <2>1
  <2>3. StandsFor(heap, p, Ref!Meaning(p), s, n - 1)
    BY <1>3, <2>2
  <2>4. StandsFor(heap, p, Ref!Meaning(p), s, n)
    BY <1>1, <2>2, <2>3, GroupStands
  <2> QED
    BY <2>1, <2>4
<1>4. l - k \in S
  <2>1. Nat \subseteq S
    <3> HIDE DEF S
    <3> QED
      BY <1>2, <1>3, Induction
  <2>2. l - k \in Nat
    OBVIOUS
  <2> QED
    BY <2>1, <2>2
<1>5. k + (l - k) = l
  OBVIOUS
<1> QED
  BY <1>4, <1>5

-----------------------------------------------------------------------------
(* Code in the post-order of a tree: instruction e[j] finds the values of  *)
(* the nodes up to Upto(p, e, j) on the stack.                             *)
PostOrder(p, e) ==
  /\ \A i, j \in 1 .. Len(e) : i < j /\ e[j].node # ROOT => e[i].node < e[j].node
  /\ e[Len(e)].node = ROOT
  /\ {e[j].node : j \in 1 .. Len(e) - 1} = {n \in DOMAIN p : p[n].kind # "GROUP"}

Upto(p, e, j) == IF e[j].node = ROOT THEN Len(p) ELSE e[j].node - 1

(* Every instruction but the last has a node, and every node but a GROUP   *)
(* one.                                                                    *)
LEMMA InstructionNodes ==
  ASSUME NEW p \in Programs, NEW e, Len(e) \in Nat, e # <<>>, Len(e) >= 1, PostOrder(p, e),
         NEW j \in 1 .. Len(e)
  PROVE  /\ j < Len(e) => e[j].node \in 1 .. Len(p) /\ p[e[j].node].kind # "GROUP"
         /\ j = Len(e) <=> e[j].node = ROOT
         /\ Upto(p, e, j) \in Nat /\ Upto(p, e, j) <= Len(p)
         /\ \A n \in 1 .. Len(p) : p[n].kind # "GROUP" =>
              \E i \in 1 .. Len(e) - 1 : e[i].node = n
<1>1. DOMAIN p = 1 .. Len(p) /\ Len(p) \in Nat
  BY ProgramsAssumption
<1>2. ASSUME j < Len(e) PROVE e[j].node \in 1 .. Len(p) /\ p[e[j].node].kind # "GROUP"
  <2>1. j \in 1 .. Len(e) - 1
    BY <1>2
  <2>2. e[j].node \in {n \in DOMAIN p : p[n].kind # "GROUP"}
    BY <2>1 DEF PostOrder
  <2> QED
    BY <1>1, <2>2
<1>3. j = Len(e) <=> e[j].node = ROOT
  <2>1. CASE j = Len(e)
    BY <2>1 DEF PostOrder
  <2>2. CASE j # Len(e)
    <3>1. e[j].node \in 1 .. Len(p)
      BY <1>2, <2>2
    <3> QED
      BY <1>1, <2>2, <3>1 DEF ROOT
  <2> QED
    BY <2>1, <2>2
<1>4. Upto(p, e, j) \in Nat /\ Upto(p, e, j) <= Len(p)
  <2>1. CASE j = Len(e)
    BY <1>1, <1>3, <2>1 DEF Upto
  <2>2. CASE j # Len(e)
    <3>1. e[j].node \in 1 .. Len(p) /\ e[j].node # ROOT
      BY <1>2, <1>3, <2>2
    <3> QED
      BY <1>1, <3>1 DEF Upto
  <2> QED
    BY <2>1, <2>2
<1>5. \A n \in 1 .. Len(p) : p[n].kind # "GROUP" => \E i \in 1 .. Len(e) - 1 : e[i].node = n
  BY <1>1 DEF PostOrder
<1> QED
  BY <1>2, <1>3, <1>4, <1>5

(* Only a GROUP lies between the nodes of two instructions.                *)
LEMMA FirstNodes ==
  ASSUME NEW p \in Programs, NEW e, Len(e) \in Nat, e # <<>>, Len(e) >= 1, PostOrder(p, e)
  PROVE  \A n \in 0 + 1 .. Upto(p, e, 1) : p[n].kind = "GROUP"
<1>1. Len(p) \in Nat /\ 1 \in 1 .. Len(e)
  BY ProgramsAssumption
<1> SUFFICES ASSUME NEW n \in 1 .. Upto(p, e, 1), p[n].kind # "GROUP" PROVE FALSE
  OBVIOUS
<1>2. n \in 1 .. Len(p) /\ n <= Upto(p, e, 1)
  BY <1>1, InstructionNodes
<1>3. PICK i \in 1 .. Len(e) - 1 : e[i].node = n
  BY <1>1, <1>2, InstructionNodes
<1>4. 1 < Len(e)
  BY <1>3
<1>5. e[1].node # ROOT /\ e[1].node \in 1 .. Len(p)
  BY <1>1, <1>4, InstructionNodes
<1>6. e[i].node # ROOT
  BY <1>2, <1>3 DEF ROOT
<1>7. e[1].node <= e[i].node
  <2>1. CASE i = 1
    BY <1>1, <1>5, <2>1
  <2>2. CASE i # 1
    <3>1. 1 < i /\ i \in 1 .. Len(e)
      BY <2>2
    <3>2. e[1].node < e[i].node
      BY <1>1, <1>6, <3>1 DEF PostOrder
    <3> QED
      BY <1>2, <1>3, <1>5, <3>2
  <2> QED
    BY <2>1, <2>2
<1>8. Upto(p, e, 1) = e[1].node - 1
  BY <1>5 DEF Upto
<1> QED
  BY <1>2, <1>3, <1>5, <1>7, <1>8

(* The same between an instruction and the next one.                       *)
LEMMA NextNodes ==
  ASSUME NEW p \in Programs, NEW e, Len(e) \in Nat, e # <<>>, Len(e) >= 1, PostOrder(p, e),
         NEW j \in 1 .. Len(e) - 1
  PROVE  /\ e[j].node <= Upto(p, e, j + 1)
         /\ \A n \in e[j].node + 1 .. Upto(p, e, j + 1) : p[n].kind = "GROUP"
<1>1. Len(p) \in Nat /\ j \in 1 .. Len(e) /\ j + 1 \in 1 .. Len(e) /\ j < Len(e) /\ j < j + 1
  BY ProgramsAssumption
<1>2. PICK a, k : a = e[j].node /\ k = Upto(p, e, j + 1)
  OBVIOUS
<1>3. a \in 1 .. Len(p) /\ k \in Nat /\ k <= Len(p)
  BY <1>1, <1>2, InstructionNodes
<1>4. ASSUME e[j + 1].node # ROOT
      PROVE  e[j + 1].node \in Nat /\ k = e[j + 1].node - 1 /\ a < e[j + 1].node
  <2>1. j + 1 # Len(e) /\ j + 1 < Len(e)
    BY <1>1, <1>4, InstructionNodes
  <2>2. e[j + 1].node \in 1 .. Len(p)
    BY <1>1, <2>1, InstructionNodes
  <2> QED
    BY <1>1, <1>2, <1>4, <2>2 DEF PostOrder, Upto
<1>5. a <= k
  <2>1. CASE e[j + 1].node = ROOT
    BY <1>2, <1>3, <2>1 DEF Upto
  <2>2. CASE e[j + 1].node # ROOT
    BY <1>3, <1>4, <2>2
  <2> QED
    BY <2>1, <2>2
<1>6. ASSUME NEW n \in a + 1 .. k, p[n].kind # "GROUP" PROVE FALSE
  <2>1. n \in 1 .. Len(p) /\ a < n /\ n <= k /\ n \in Nat
    BY <1>3
  <2>2. PICK i \in 1 .. Len(e) - 1 : e[i].node = n
    BY <1>1, <1>6, <2>1, InstructionNodes
  <2>3. i \in 1 .. Len(e) /\ i < Len(e) /\ e[i].node # ROOT
    BY <2>1, <2>2 DEF ROOT
  <2>4. ~(i < j)
    <3>1. ASSUME i < j PROVE e[i].node < a
      <4>1. a # ROOT
        BY <1>3 DEF ROOT
      <4> QED
        BY <1>1, <1>2, <2>3, <3>1, <4>1 DEF PostOrder
    <3> QED
      BY <1>3, <2>1, <2>2, <3>1
  <2>5. i # j
    BY <1>2, <1>3, <2>1, <2>2
  <2>6. j + 1 <= i
    BY <1>1, <2>4, <2>5
  <2>7. e[j + 1].node # ROOT /\ e[j + 1].node <= n
    <3>1. CASE i = j + 1
      BY <2>1, <2>2, <2>3, <3>1
    <3>2. CASE i # j + 1
      <4>1. j + 1 < i
        BY <2>6, <3>2
      <4>2. e[j + 1].node < n
        BY <1>1, <2>2, <2>3, <4>1 DEF PostOrder
      <4>3. j + 1 # Len(e)
        BY <2>3, <4>1
      <4>4. e[j + 1].node # ROOT
        BY <1>1, <4>3, InstructionNodes
      <4> QED
        BY <1>4, <2>1, <4>2, <4>4
    <3> QED
      BY <3>1, <3>2
  <2> QED
    BY <1>4, <2>1, <2>7
<1> QED
  BY <1>2, <1>5, <1>6

-----------------------------------------------------------------------------
(* The machine's operations, on values that stand for the operands.        *)
LEMMA ValueMeant ==
  ASSUME NEW heap, NEW v, NEW x, Denotes(heap, v, x)
  PROVE  /\ Ref!Kind(x) = v.kind
         /\ v.kind # "OBJ" => Ref!Num(x) = v.num /\ Ref!Den(x) = v.den
         /\ v.kind = "OBJ" => x.chars = heap[v.num].chars
<1>1. CASE v.kind = "OBJ"
  BY <1>1 DEF Denotes, Ref!Kind, Ref!MeantString, Ref!Value
<1>2. CASE v.kind # "OBJ"
  BY <1>2 DEF Denotes, Ref!Kind, Ref!Num, Ref!Den, Ref!Meant
<1> QED
  BY <1>1, <1>2

(* A number stands for itself.                                             *)
LEMMA NumberDenotes ==
  ASSUME NEW heap, NEW kind, kind \notin {"OBJ", "BOOL"}, NEW i \in Int, NEW d \in Nat \ {0},
         kind # "REAL" => d = 1
  PROVE  LET v == [kind |-> kind, num |-> i, den |-> d] IN Denotes(heap, v, Ref!Meant(v))
BY DEF Denotes

(* So does a truth value, however the two are written.                     *)
LEMMA TruthDenotes ==
  ASSUME NEW heap, NEW t, NEW u, t <=> u
  PROVE  Denotes(heap, Bool(t), Ref!Meant(Ref!Bool(u)))
<1>1. PICK v : v = [kind |-> "BOOL", num |-> IF t THEN 1 ELSE 0, den |-> 1]
  OBVIOUS
<1>2. Bool(t) = v /\ Ref!Bool(u) = v
  BY <1>1 DEF Bool, Value, Ref!Bool, Ref!Value
<1>3. v.num \in {0, 1} /\ v.den = 1 /\ v.kind = "BOOL"
  BY <1>1
<1>4. v = [kind |-> v.kind, num |-> v.num, den |-> v.den]
  BY <1>1
<1>5. Denotes(heap, v, Ref!Meant(v))
  BY <1>3, <1>4 DEF Denotes
<1> QED
  BY <1>2, <1>5

(* NOT of a truth value.                                                   *)
LEMMA NotDenotes ==
  ASSUME NEW heap, NEW a, NEW x, Denotes(heap, a, x), Ref!SupportedUnary("NOT", x)
  PROVE  Denotes(heap, IF Holds(a, "BOOL") THEN Bool(~IsTrue(a)) ELSE Junk(a.kind),
                 Ref!UnaryMeaning("NOT", x))
<1>1. Ref!Kind(x) = "BOOL"
  BY DEF Ref!SupportedUnary
<1>2. a.kind = "BOOL" /\ Ref!Num(x) = a.num /\ a.num \in {0, 1} /\ a.den = 1
  BY <1>1, ValueMeant DEF Denotes
<1>3. Holds(a, "BOOL")
  BY <1>2 DEF Holds, IsJunk
<1>4. ~IsTrue(a) <=> Ref!Num(x) = 0
  BY <1>2 DEF IsTrue
<1>5. Ref!UnaryMeaning("NOT", x) = Ref!Meant(Ref!Bool(Ref!Num(x) = 0))
  BY Zenon DEF Ref!UnaryMeaning
<1>6. Denotes(heap, Bool(~IsTrue(a)), Ref!Meant(Ref!Bool(Ref!Num(x) = 0)))
  BY <1>4, TruthDenotes
<1> QED
  BY <1>3, <1>5, <1>6

(* NEGATE of a REAL, in place.                                             *)
LEMMA NegateDenotes ==
  ASSUME NEW heap, NEW a, NEW x, Denotes(heap, a, x), Ref!SupportedUnary("NEGATE", x)
  PROVE  a.kind = "REAL" /\ Denotes(heap, [a EXCEPT !.num = -@], Ref!UnaryMeaning("NEGATE", x))
<1>1. Ref!Kind(x) = "REAL"
  BY DEF Ref!SupportedUnary
<1>2. a.kind = "REAL" /\ Ref!Num(x) = a.num /\ Ref!Den(x) = a.den
  BY <1>1, ValueMeant
<1>3. /\ a = [kind |-> "REAL", num |-> a.num, den |-> a.den]
      /\ a.num \in Int /\ a.den \in Nat \ {0}
  BY <1>2 DEF Denotes
<1>4. PICK i, d, v : i = -a.num /\ d = a.den /\ v = [kind |-> "REAL", num |-> i, den |-> d]
  OBVIOUS
<1>5. [a EXCEPT !.num = -@] = v
  BY <1>3, <1>4
<1>6. Ref!UnaryMeaning("NEGATE", x) = Ref!Meant(v)
  BY <1>2, <1>4 DEF Ref!UnaryMeaning, Ref!Real
<1>7. i \in Int /\ d \in Nat \ {0}
  BY <1>3, <1>4
<1>8. Denotes(heap, v, Ref!Meant(v))
  BY <1>4, <1>7, NumberDenotes
<1> QED
  BY <1>2, <1>5, <1>6, <1>8

(* A product of denominators is one.                                       *)
LEMMA Positive == \A m, n \in Nat \ {0} : m * n \in Nat \ {0}
<1> TAKE m, n \in Nat \ {0}
<1>1. m * n > 0 /\ m * n \in Int
  BY m > 0, n > 0
<1> QED
  BY <1>1

(* What fits an INTEGER is not changed by the wrap of its arithmetic.      *)
LEMMA WrapFits == ASSUME NEW i \in Int, Ref!Fits(i) PROVE Wrap(i) = i
<1>1. PICK h, w : h = 2 ^ (INT_BITS - 1) /\ w = 2 ^ INT_BITS
  OBVIOUS
<1>2. h \in Nat \ {0} /\ w = 2 * h /\ -h <= i /\ i < h
  BY <1>1, PowersAssumption DEF Ref!Fits
<1>3. i - (-h) \in Nat /\ i - (-h) < w /\ w \in Nat \ {0}
  BY <1>2
<1>4. (i - (-h)) % w = i - (-h)
  BY <1>3
<1>5. (i - (-h)) + (-h) = i
  BY <1>2
<1> QED
  BY <1>1, <1>4, <1>5 DEF Wrap, MinInteger

(* The opcodes of the arithmetic operators differ, but those of / and DIV. *)
LEMMA ArithmeticOpcodes ==
  /\ OperatorOpcode("ADD") = OPCODE_ADD /\ OperatorOpcode("MUL") = OPCODE_MUL
  /\ OperatorOpcode("DIV") = OPCODE_DIV /\ OperatorOpcode("INT_DIV") = OPCODE_DIV
  /\ OPCODE_ADD # OPCODE_DIV /\ OPCODE_MUL # OPCODE_DIV /\ OPCODE_ADD # OPCODE_MUL
  /\ OPCODE_SUB \notin {OPCODE_ADD, OPCODE_MUL, OPCODE_DIV}
BY DEF OperatorOpcode, OPCODE_ADD, OPCODE_SUB, OPCODE_MUL, OPCODE_DIV

(* Two numbers of a kind, and what they mean.                              *)
LEMMA BothNumbers ==
  ASSUME NEW heap, NEW a, NEW b, NEW x, NEW y, Denotes(heap, a, x), Denotes(heap, b, y),
         NEW kinds, "OBJ" \notin kinds, Ref!BothOf(x, y, kinds)
  PROVE  /\ a.kind \in kinds /\ b.kind = a.kind
         /\ Holds(a, a.kind) /\ Holds(b, a.kind)
         /\ Ref!Kind(x) = a.kind
         /\ Ref!Num(x) = a.num /\ Ref!Den(x) = a.den /\ Ref!Num(y) = b.num /\ Ref!Den(y) = b.den
         /\ a.num \in Int /\ b.num \in Int /\ a.den \in Nat \ {0} /\ b.den \in Nat \ {0}
         /\ a.kind # "REAL" => a.den = 1 /\ b.den = 1
<1>1. a.kind \in kinds /\ b.kind = a.kind /\ a.kind # "OBJ" /\ Ref!Kind(x) = a.kind
  BY ValueMeant DEF Ref!BothOf
<1>2. Ref!Num(x) = a.num /\ Ref!Den(x) = a.den /\ Ref!Num(y) = b.num /\ Ref!Den(y) = b.den
  BY <1>1, ValueMeant
<1>3. /\ a.num \in Int /\ b.num \in Int /\ a.den \in Nat \ {0} /\ b.den \in Nat \ {0}
      /\ a.kind # "REAL" => a.den = 1 /\ b.den = 1
  BY <1>1 DEF Denotes
<1>4. Holds(a, a.kind) /\ Holds(b, a.kind)
  BY <1>1, <1>3 DEF Holds, IsJunk
<1> QED
  BY <1>1, <1>2, <1>3, <1>4

(* ADD and MUL, of REALs or of INTEGERs that do not overflow.              *)
LEMMA SumDenotes ==
  ASSUME NEW heap, NEW a, NEW b, NEW x, NEW y, Denotes(heap, a, x), Denotes(heap, b, y),
         NEW kind \in {"ADD", "MUL"}, Ref!SupportedBinary(kind, x, y)
  PROVE  /\ ~MayTrap(OperatorOpcode(kind), a, b)
         /\ Denotes(heap, Number(OperatorOpcode(kind), a, b), Ref!BinaryMeaning(kind, x, y))
<1>1. PICK op : op = OperatorOpcode(kind)
  OBVIOUS
<1>2. op = (IF kind = "ADD" THEN OPCODE_ADD ELSE OPCODE_MUL) /\ op # OPCODE_DIV
  BY <1>1, ArithmeticOpcodes
<1>3. /\ Ref!BothOf(x, y, {"REAL", "INTEGER"})
      /\ Ref!Kind(x) = "INTEGER" => Ref!Fits(Ref!Num(Ref!BinaryMeaning(kind, x, y)))
  BY DEF Ref!SupportedBinary
<1>4. PICK i, j, c, d : i = a.num /\ j = b.num /\ c = a.den /\ d = b.den
  OBVIOUS
<1>5. /\ a.kind \in {"REAL", "INTEGER"} /\ Holds(a, a.kind) /\ Holds(b, a.kind)
      /\ Ref!Kind(x) = a.kind
      /\ Ref!Num(x) = i /\ Ref!Den(x) = c /\ Ref!Num(y) = j /\ Ref!Den(y) = d
      /\ i \in Int /\ j \in Int /\ c \in Nat \ {0} /\ d \in Nat \ {0}
      /\ a.kind # "REAL" => c = 1 /\ d = 1
  BY <1>3, <1>4, BothNumbers
<1>6. PICK num, den : /\ num = (IF kind = "ADD" THEN i * d + j * c ELSE i * j)
                      /\ den = c * d
  OBVIOUS
<1>7. num \in Int /\ den \in Nat \ {0}
  <2>1. i * d + j * c \in Int /\ i * j \in Int
    BY <1>5
  <2>2. c * d \in Nat \ {0}
    BY <1>5, Positive
  <2> QED
    BY <1>6, <2>1, <2>2
<1>8. PICK v : v = [kind |-> a.kind, num |-> num, den |-> den]
  OBVIOUS
<1>9. Ref!BinaryMeaning(kind, x, y) = Ref!Meant(v)
  <2>1. CASE kind = "ADD"
    <3>1. Ref!SumOf(x, y) = [num |-> num, den |-> den]
      BY <1>5, <1>6, <2>1 DEF Ref!SumOf
    <3>2. Ref!BinaryMeaning(kind, x, y) = Ref!MeantNumber(a.kind, Ref!SumOf(x, y))
      BY <1>5, <2>1 DEF Ref!BinaryMeaning
    <3> QED
      BY <1>8, <3>1, <3>2 DEF Ref!MeantNumber
  <2>2. CASE kind = "MUL"
    <3>1. Ref!Product(x, y) = [num |-> num, den |-> den]
      BY <1>5, <1>6, <2>2 DEF Ref!Product
    <3>2. Ref!BinaryMeaning(kind, x, y) = Ref!MeantNumber(a.kind, Ref!Product(x, y))
      BY <1>5, <2>2 DEF Ref!BinaryMeaning
    <3> QED
      BY <1>8, <3>1, <3>2 DEF Ref!MeantNumber
  <2> QED
    BY <2>1, <2>2
<1>10. Denotes(heap, v, Ref!Meant(v))
  <2>1. a.kind # "REAL" => den = 1
    BY <1>5, <1>6
  <2>2. a.kind \notin {"OBJ", "BOOL"}
    BY <1>5
  <2> QED
    BY <1>7, <1>8, <2>1, <2>2, NumberDenotes
<1>11. Number(op, a, b) = v
  <2>1. CASE a.kind = "REAL"
    <3>1. Number(op, a, b) = RealOp(op, a, b)
      BY <1>5, <2>1 DEF Number
    <3>2. RealOp(op, a, b) = Real(num, den)
      BY <1>2, <1>4, <1>6, ArithmeticOpcodes DEF RealOp
    <3> QED
      BY <1>8, <2>1, <3>1, <3>2 DEF Real
  <2>2. CASE a.kind = "INTEGER"
    <3>1. Number(op, a, b) = Value("INTEGER", IntegerOp(op, i, j))
      BY <1>4, <1>5, <2>2 DEF Number
    <3>2. c = 1 /\ d = 1 /\ i * d = i /\ j * c = j /\ den = 1
      BY <1>5, <1>6, <2>2
    <3>3. num = IF kind = "ADD" THEN i + j ELSE i * j
      BY <1>6, <3>2
    <3>4. IntegerOp(op, i, j) = Wrap(num)
      BY <1>2, <3>3, ArithmeticOpcodes DEF IntegerOp
    <3>5. Ref!Num(Ref!Meant(v)) = num
      BY <1>8 DEF Ref!Num, Ref!Meant
    <3>6. Wrap(num) = num
      BY <1>3, <1>5, <1>7, <1>9, <2>2, <3>5, WrapFits
    <3> QED
      BY <1>8, <2>2, <3>1, <3>2, <3>4, <3>6 DEF Value
  <2> QED
    BY <1>5, <2>1, <2>2
<1>12. ~MayTrap(op, a, b)
  BY <1>2 DEF MayTrap
<1> QED
  BY <1>1, <1>9, <1>10, <1>11, <1>12

(* When a quotient is negative.                                            *)
LEMMA SignOfProduct ==
  ASSUME NEW i \in Int, NEW j \in Int, j # 0
  PROVE  i * j < 0 <=> i # 0 /\ ((i < 0) # (j < 0))
<1>1. CASE i = 0
  BY <1>1
<1>2. CASE i > 0 /\ j > 0
  <2>1. i * j > 0
    BY <1>2
  <2> QED
    BY <1>2, <2>1
<1>3. CASE i < 0 /\ j < 0
  <2>1. i * j > 0
    BY <1>3
  <2> QED
    BY <1>3, <2>1
<1>4. CASE i > 0 /\ j < 0
  <2>1. i * j < 0
    BY <1>4
  <2> QED
    BY <1>4, <2>1
<1>5. CASE i < 0 /\ j > 0
  <2>1. i * j < 0
    BY <1>5
  <2> QED
    BY <1>5, <2>1
<1> QED
  BY <1>1, <1>2, <1>3, <1>4, <1>5

LEMMA QuotientIsInteger ==
  ASSUME NEW i \in Nat, NEW j \in Nat \ {0} PROVE i \div j \in Nat /\ 0 \div j = 0
OBVIOUS

(* The machine's division rounds towards zero, as the meaning's does.      *)
LEMMA QuotientsAgree ==
  ASSUME NEW i \in Int, NEW j \in Int, j # 0
  PROVE  TruncDiv(i, j) = Ref!Quotient(i, j) /\ TruncDiv(i, j) \in Int
<1>1. PICK m, n : m = Abs(i) /\ n = Abs(j)
  OBVIOUS
<1>2. m \in Nat /\ n \in Nat \ {0} /\ (i = 0 => m = 0)
  BY <1>1 DEF Abs
<1>3. PICK q : q = m \div n
  OBVIOUS
<1>4. q \in Nat /\ (i = 0 => q = 0)
  BY <1>2, <1>3, QuotientIsInteger
<1>5. TruncDiv(i, j) = IF (i < 0) = (j < 0) THEN q ELSE -q
  BY <1>1, <1>3 DEF TruncDiv
<1>6. Ref!Quotient(i, j) = IF i * j < 0 THEN -q ELSE q
  BY <1>1, <1>3 DEF Ref!Quotient, Abs
<1>7. CASE i = 0
  BY <1>4, <1>5, <1>6, <1>7
<1>8. CASE i # 0
  BY <1>4, <1>5, <1>6, <1>8, SignOfProduct
<1> QED
  BY <1>7, <1>8

(* The division of REALs, by what is not zero.                             *)
LEMMA RealDivisionDenotes ==
  ASSUME NEW heap, NEW a, NEW b, NEW x, NEW y, Denotes(heap, a, x), Denotes(heap, b, y),
         Ref!SupportedBinary("DIV", x, y)
  PROVE  /\ ~MayTrap(OPCODE_DIV, a, b)
         /\ Denotes(heap, Number(OPCODE_DIV, a, b), Ref!BinaryMeaning("DIV", x, y))
<1>1. Ref!BothOf(x, y, {"REAL"}) /\ Ref!Num(y) # 0
  BY DEF Ref!SupportedBinary
<1>2. PICK i, j, c, d : i = a.num /\ j = b.num /\ c = a.den /\ d = b.den
  OBVIOUS
<1>3. /\ a.kind = "REAL" /\ Holds(a, "REAL") /\ Holds(b, "REAL")
      /\ Ref!Num(x) = i /\ Ref!Den(x) = c /\ Ref!Num(y) = j /\ Ref!Den(y) = d
      /\ i \in Int /\ j \in Int /\ c \in Nat \ {0} /\ d \in Nat \ {0} /\ j # 0
  BY <1>1, <1>2, BothNumbers
<1>4. PICK n, e : n = i * d /\ e = c * j
  OBVIOUS
<1>5. n \in Int /\ e \in Int /\ e # 0 /\ (e < 0 <=> j < 0)
  <2>1. n \in Int /\ e \in Int
    BY <1>3, <1>4
  <2>2. CASE j > 0
    <3>1. e \in Nat \ {0}
      BY <1>3, <1>4, <2>2, Positive
    <3>2. ~(e < 0) /\ e # 0 /\ ~(j < 0)
      BY <1>3, <2>2, <3>1
    <3> QED
      BY <2>1, <3>2
  <2>3. CASE j < 0
    <3>1. c * (-j) \in Nat \ {0}
      BY <1>3, <2>3, Positive
    <3>2. e = -(c * (-j))
      BY <1>3, <1>4
    <3> QED
      BY <2>1, <2>3, <3>1, <3>2
  <2> QED
    BY <1>3, <2>1, <2>2, <2>3
<1>6. PICK num, den : num = (IF e < 0 THEN -n ELSE n) /\ den = (IF e < 0 THEN -e ELSE e)
  OBVIOUS
<1>7. num \in Int /\ den \in Nat \ {0}
  BY <1>5, <1>6
<1>8. PICK v : v = [kind |-> "REAL", num |-> num, den |-> den]
  OBVIOUS
<1>9. Number(OPCODE_DIV, a, b) = v
  <2>1. Number(OPCODE_DIV, a, b) = RealOp(OPCODE_DIV, a, b)
    BY <1>3 DEF Number
  <2>2. RealOp(OPCODE_DIV, a, b) = RealQuotient(a, b)
    BY DEF RealOp, OPCODE_ADD, OPCODE_SUB, OPCODE_MUL, OPCODE_DIV
  <2>3. RealQuotient(a, b) = IF e < 0 THEN Real(-n, -e) ELSE Real(n, e)
    BY <1>2, <1>4, <1>5 DEF RealQuotient
  <2> QED
    BY <1>6, <1>8, <2>1, <2>2, <2>3 DEF Real
<1>10. Ref!BinaryMeaning("DIV", x, y) = Ref!Meant(v)
  <2>1. Ref!BinaryMeaning("DIV", x, y) = Ref!MeantNumber("REAL", Ref!Over(x, y))
    BY DEF Ref!BinaryMeaning
  <2>2. Ref!Over(x, y) = [num |-> num, den |-> den]
    <3>1. CASE j < 0
      <4>1. Ref!Over(x, y) = [num |-> -1 * i * d, den |-> -1 * c * j]
        BY <1>3, <3>1 DEF Ref!Over
      <4>2. -1 * i * d = -n /\ -1 * c * j = -e
        BY <1>3, <1>4
      <4> QED
        BY <1>5, <1>6, <3>1, <4>1, <4>2
    <3>2. CASE ~(j < 0)
      <4>1. Ref!Over(x, y) = [num |-> 1 * i * d, den |-> 1 * c * j]
        BY <1>3, <3>2 DEF Ref!Over
      <4>2. 1 * i * d = n /\ 1 * c * j = e
        BY <1>3, <1>4
      <4> QED
        BY <1>5, <1>6, <3>2, <4>1, <4>2
    <3> QED
      BY <3>1, <3>2
  <2> QED
    BY <1>8, <2>1, <2>2 DEF Ref!MeantNumber
<1>11. Denotes(heap, v, Ref!Meant(v))
  BY <1>7, <1>8, NumberDenotes
<1>12. ~MayTrap(OPCODE_DIV, a, b)
  BY <1>3 DEF MayTrap
<1> QED
  BY <1>9, <1>10, <1>11, <1>12

(* DIV of INTEGERs, by what is not zero and without overflow.              *)
LEMMA IntegerDivisionDenotes ==
  ASSUME NEW heap, NEW a, NEW b, NEW x, NEW y, Denotes(heap, a, x), Denotes(heap, b, y),
         Ref!SupportedBinary("INT_DIV", x, y)
  PROVE  /\ ~MayTrap(OPCODE_DIV, a, b)
         /\ Denotes(heap, Number(OPCODE_DIV, a, b), Ref!BinaryMeaning("INT_DIV", x, y))
<1>1. /\ Ref!BothOf(x, y, {"INTEGER"}) /\ Ref!Num(y) # 0
      /\ Ref!Fits(Ref!Quotient(Ref!Num(x), Ref!Num(y)))
  BY DEF Ref!SupportedBinary
<1>2. PICK i, j : i = a.num /\ j = b.num
  OBVIOUS
<1>3. /\ a.kind = "INTEGER" /\ Holds(a, "INTEGER") /\ Holds(b, "INTEGER")
      /\ Ref!Num(x) = i /\ Ref!Num(y) = j /\ i \in Int /\ j \in Int /\ j # 0
  BY <1>1, <1>2, BothNumbers
<1>4. PICK q : q = TruncDiv(i, j)
  OBVIOUS
<1>5. q \in Int /\ q = Ref!Quotient(i, j) /\ Ref!Fits(q)
  BY <1>1, <1>3, <1>4, QuotientsAgree
<1>6. PICK v : v = [kind |-> "INTEGER", num |-> q, den |-> 1]
  OBVIOUS
<1>7. Number(OPCODE_DIV, a, b) = v
  <2>1. Number(OPCODE_DIV, a, b) = Value("INTEGER", IntegerOp(OPCODE_DIV, i, j))
    BY <1>2, <1>3 DEF Number
  <2>2. IntegerOp(OPCODE_DIV, i, j) = q
    BY <1>4 DEF IntegerOp, OPCODE_ADD, OPCODE_SUB, OPCODE_MUL, OPCODE_DIV
  <2> QED
    BY <1>6, <2>1, <2>2 DEF Value
<1>8. Ref!BinaryMeaning("INT_DIV", x, y) = Ref!Meant(v)
  <2>1. Ref!BinaryMeaning("INT_DIV", x, y) = Ref!Meant(Ref!Value("INTEGER", Ref!Quotient(i, j)))
    BY <1>3 DEF Ref!BinaryMeaning
  <2> QED
    BY <1>5, <1>6, <2>1 DEF Ref!Value
<1>9. Denotes(heap, v, Ref!Meant(v))
  BY <1>5, <1>6, NumberDenotes
<1>10. ASSUME j = -1, i = MinInteger PROVE FALSE
  <2>1. PICK h : h = 2 ^ (INT_BITS - 1)
    OBVIOUS
  <2>2. h \in Nat \ {0} /\ i = -h /\ q < h
    BY <1>5, <1>10, <2>1, PowersAssumption DEF MinInteger, Ref!Fits
  <2>3. Abs(i) = h /\ Abs(j) = 1 /\ (i < 0) = (j < 0)
    <3>1. h > 0 /\ -h < 0 /\ -(-h) = h
      BY <2>2
    <3>2. i < 0 /\ -i = h
      BY <2>2, <3>1
    <3>3. PICK one : one = 1
      OBVIOUS
    <3>4. one \in Nat /\ one > 0
      BY <3>3
    <3>5. j = -one
      BY Zenon, <1>10, <3>3
    <3>6. j < 0 /\ -j = one
      BY <3>4, <3>5
    <3>7. Abs(i) = h /\ Abs(j) = one
      BY <3>2, <3>6 DEF Abs
    <3> QED
      BY <3>2, <3>3, <3>6, <3>7
  <2>4. q = h \div 1
    BY <1>4, <2>3 DEF TruncDiv
  <2>5. h \div 1 = h
    BY <2>2
  <2> QED
    BY <2>2, <2>4, <2>5
<1>11. ~MayTrap(OPCODE_DIV, a, b)
  BY <1>2, <1>3, <1>10 DEF MayTrap
<1> QED
  BY <1>7, <1>8, <1>9, <1>11

(* value_is_equal of two truth values; b is the one popped first.          *)
LEMMA EqualDenotes ==
  ASSUME NEW heap, NEW a, NEW b, NEW x, NEW y, Denotes(heap, a, x), Denotes(heap, b, y),
         Ref!SupportedBinary("EQUAL", x, y), NEW t \in Equal(b, a)
  PROVE  Denotes(heap, Bool(t), Ref!BinaryMeaning("EQUAL", x, y))
<1>1. Ref!BothOf(x, y, {"BOOL"})
  BY DEF Ref!SupportedBinary
<1>2. /\ a.kind = "BOOL" /\ b.kind = "BOOL" /\ Holds(a, "BOOL") /\ Holds(b, "BOOL")
      /\ Ref!Num(x) = a.num /\ Ref!Den(x) = 1 /\ Ref!Num(y) = b.num /\ Ref!Den(y) = 1
      /\ a.num \in Int /\ b.num \in Int
  BY <1>1, BothNumbers
<1>3. t <=> b.num = a.num
  <2>1. Equal(b, a) = {b.num = a.num}
    BY <1>2 DEF Equal, Holds
  <2> QED
    BY <2>1
<1>4. Ref!Num(x) * Ref!Den(y) = a.num /\ Ref!Num(y) * Ref!Den(x) = b.num
  BY <1>2
<1>5. PICK u : u = (Ref!Num(x) * Ref!Den(y) = Ref!Num(y) * Ref!Den(x))
  OBVIOUS
<1>6. Ref!BinaryMeaning("EQUAL", x, y) = Ref!Meant(Ref!Bool(u))
  BY <1>5 DEF Ref!BinaryMeaning
<1>7. t <=> u
  <2>1. u <=> a.num = b.num
    BY <1>4, <1>5
  <2> QED
    BY Zenon, <1>3, <2>1
<1> QED
  BY Zenon, <1>6, <1>7, TruthDenotes

ComparisonKinds == {"LESS", "LESS_EQUAL", "GREATER"}

(* The comparisons of two values of a kind that has an order.              *)
LEMMA ComparisonDenotes ==
  ASSUME NEW heap, NEW a, NEW b, NEW x, NEW y, Denotes(heap, a, x), Denotes(heap, b, y),
         NEW kind \in ComparisonKinds, Ref!SupportedBinary(kind, x, y),
         NEW t \in Compared(OperatorOpcode(kind), a, b)
  PROVE  Denotes(heap, Bool(t), Ref!BinaryMeaning(kind, x, y))
<1>1. Ref!BothOf(x, y, {"BOOL", "CHAR", "REAL", "INTEGER"})
  BY DEF Ref!SupportedBinary, ComparisonKinds
<1>2. /\ Holds(a, a.kind) /\ Holds(b, a.kind)
      /\ Ref!Num(x) = a.num /\ Ref!Den(x) = a.den /\ Ref!Num(y) = b.num /\ Ref!Den(y) = b.den
      /\ a.num \in Int /\ b.num \in Int /\ a.den \in Nat \ {0} /\ b.den \in Nat \ {0}
  BY <1>1, BothNumbers
<1>3. PICK left, right : left = a.num * b.den /\ right = b.num * a.den
  OBVIOUS
<1>4. left \in Int /\ right \in Int
  BY <1>2, <1>3
<1>5. PICK u : u = Ordered(OperatorOpcode(kind), left, right)
  OBVIOUS
<1>6. t = u
  BY <1>2, <1>3, <1>5 DEF Compared
<1>7. CASE kind = "LESS"
  <2>1. u = (left < right)
    BY <1>5, <1>7 DEF Ordered, OperatorOpcode, OPCODE_LESS, OPCODE_LESS_EQUAL, OPCODE_GREATER,
                      OPCODE_GREATER_EQUAL
  <2>2. Ref!BinaryMeaning(kind, x, y) = Ref!Meant(Ref!Bool(left < right))
    BY <1>2, <1>3, <1>7 DEF Ref!BinaryMeaning
  <2> QED
    BY <1>6, <2>1, <2>2, TruthDenotes
<1>8. CASE kind = "LESS_EQUAL"
  <2>1. u = (left <= right)
    BY <1>5, <1>8 DEF Ordered, OperatorOpcode, OPCODE_LESS, OPCODE_LESS_EQUAL, OPCODE_GREATER,
                      OPCODE_GREATER_EQUAL
  <2>2. Ref!BinaryMeaning(kind, x, y) = Ref!Meant(Ref!Bool(~(right < left)))
    BY <1>2, <1>3, <1>8 DEF Ref!BinaryMeaning
  <2>3. t <=> ~(right < left)
    <3>1. t <=> left <= right
      BY Zenon, <1>6, <2>1
    <3>2. left <= right <=> ~(right < left)
      BY <1>4
    <3> QED
      BY Zenon, <3>1, <3>2
  <2> QED
    BY <2>2, <2>3, TruthDenotes
<1>9. CASE kind = "GREATER"
  <2>1. u = (left > right)
    BY <1>5, <1>9 DEF Ordered, OperatorOpcode, OPCODE_LESS, OPCODE_LESS_EQUAL, OPCODE_GREATER,
                      OPCODE_GREATER_EQUAL
  <2>2. Ref!BinaryMeaning(kind, x, y) = Ref!Meant(Ref!Bool(right < left))
    BY <1>2, <1>3, <1>9 DEF Ref!BinaryMeaning
  <2>3. t <=> right < left
    BY <1>4, <1>6, <2>1
  <2> QED
    BY <2>2, <2>3, TruthDenotes
<1> QED
  BY <1>7, <1>8, <1>9 DEF ComparisonKinds

(* What & of two strings means.                                            *)
LEMMA ConcatMeant ==
  ASSUME NEW heap, NEW a, NEW b, NEW x, NEW y, Denotes(heap, a, x), Denotes(heap, b, y),
         Ref!SupportedBinary("CONCAT", x, y)
  PROVE  /\ a.kind = "OBJ" /\ b.kind = "OBJ"
         /\ Ref!BinaryMeaning("CONCAT", x, y) =
              Ref!MeantString(heap[a.num].chars \o heap[b.num].chars)
<1>1. Ref!BothOf(x, y, {"OBJ"})
  BY DEF Ref!SupportedBinary
<1>2. a.kind = "OBJ" /\ b.kind = "OBJ"
  BY <1>1, ValueMeant DEF Ref!BothOf
<1>3. x.chars = heap[a.num].chars /\ y.chars = heap[b.num].chars
  BY <1>2, ValueMeant
<1>4. Ref!BinaryMeaning("CONCAT", x, y) = Ref!MeantString(x.chars \o y.chars)
  BY Zenon DEF Ref!BinaryMeaning
<1> QED
  BY <1>2, <1>3, <1>4

-----------------------------------------------------------------------------
(* The instructions of a supported program.                                *)
LEMMA SupportedNode ==
  ASSUME NEW p \in Programs, Ref!Supported(p), NEW n \in DOMAIN p
  PROVE  LET m == Ref!Meaning(p)
         IN  \/ p[n].kind \in LiteralKinds
             \/ p[n].kind \in UnaryKinds /\ Ref!SupportedUnary(p[n].kind, m[Expr(p, n)])
             \/ p[n].kind \in BinaryKinds
                  /\ Ref!SupportedBinary(p[n].kind, m[Lhs(p, n)], m[Rhs(p, n)])
BY Zenon, SameTrees DEF Ref!Supported

SupportedKinds ==
  LiteralKinds \cup {"GROUP", "NOT", "NEGATE", "ADD", "MUL", "DIV", "INT_DIV", "CONCAT", "EQUAL"}
    \cup ComparisonKinds

(* A supported program has these nodes only.                               *)
LEMMA SupportedKind ==
  ASSUME NEW p \in Programs, Ref!Supported(p), NEW n \in DOMAIN p
  PROVE  p[n].kind \in SupportedKinds
<1>1. PICK kind, a, b, c : /\ kind = p[n].kind /\ a = Ref!Meaning(p)[Expr(p, n)]
                           /\ b = Ref!Meaning(p)[Lhs(p, n)] /\ c = Ref!Meaning(p)[Rhs(p, n)]
  OBVIOUS
<1>2. \/ kind \in LiteralKinds
      \/ kind \in UnaryKinds /\ Ref!SupportedUnary(kind, a)
      \/ kind \in BinaryKinds /\ Ref!SupportedBinary(kind, b, c)
  BY <1>1, SupportedNode
<1>3. ASSUME Ref!SupportedUnary(kind, a) PROVE kind \in SupportedKinds
  BY <1>3 DEF Ref!SupportedUnary, SupportedKinds
<1>4. ASSUME kind \notin SupportedKinds PROVE ~Ref!SupportedBinary(kind, b, c)
  BY <1>4 DEF Ref!SupportedBinary, SupportedKinds, ComparisonKinds
<1> QED
  BY <1>1, <1>2, <1>3, <1>4 DEF SupportedKinds

(* None of its operators is dropped.                                       *)
LEMMA SupportedIsHeard ==
  ASSUME NEW p \in Programs, Ref!Supported(p)
  PROVE  ~Silent(p)
<1> SUFFICES ASSUME NEW n \in DOMAIN p, p[n].kind \in SilentKinds PROVE FALSE
  BY DEF Silent
<1> QED
  BY SupportedKind DEF SupportedKinds, ComparisonKinds, SilentKinds, LiteralKinds

(* The action that executes an opcode.                                     *)
LEMMA Dispatch ==
  ASSUME Execute, Len(stack) \in Nat, Len(stack) >= Pops(Op)
  PROVE  /\ Op \in LoadOpcodes => Constant \/ ConstantLong
         /\ Op \in {OPCODE_TRUE, OPCODE_FALSE} => Truth
         /\ Op \in {OPCODE_ADD, OPCODE_MUL} => Arithmetic
         /\ Op = OPCODE_DIV => Arithmetic \/ Trap
         /\ Op = OPCODE_NEGATE => NegateReal \/ NegateInteger \/ NegateOther
         /\ Op = OPCODE_NOT => Not
         /\ Op = OPCODE_EQUAL => Equality
         /\ Op \in {OPCODE_LESS, OPCODE_LESS_EQUAL, OPCODE_GREATER} => Comparison
         /\ Op = OPCODE_CONCAT => Concat
         /\ Op = OPCODE_RETURN => Return
<1>1. /\ Constant => Op = OPCODE_CONSTANT
      /\ ConstantLong => Op = OPCODE_CONSTANT_LONG
      /\ Truth => Op \in {OPCODE_TRUE, OPCODE_FALSE}
      /\ Arithmetic => Op \in {OPCODE_ADD, OPCODE_SUB, OPCODE_MUL, OPCODE_DIV}
      /\ Trap => Op = OPCODE_DIV
      /\ NegateReal \/ NegateInteger \/ NegateOther => Op = OPCODE_NEGATE
  BY DEF Constant, ConstantLong, Truth, Arithmetic, Trap, NegateReal, NegateInteger, NegateOther,
         Executing
<1>2. /\ Not => Op = OPCODE_NOT
      /\ Equality => Op \in {OPCODE_EQUAL, OPCODE_NOT_EQUAL}
      /\ Comparison => Op \in {OPCODE_LESS, OPCODE_LESS_EQUAL, OPCODE_GREATER, OPCODE_GREATER_EQUAL}
      /\ Concat => Op = OPCODE_CONCAT
      /\ Return => Op = OPCODE_RETURN
  BY DEF Not, Equality, Comparison, Concat, Return, Executing
<1>3. ~Underflow
  <2>1. Pops(Op) \in Nat
    BY DEF Pops
  <2> QED
    BY <2>1 DEF Underflow, Depth
<1>4. \/ Constant \/ ConstantLong \/ Truth \/ Arithmetic \/ Trap
      \/ NegateReal \/ NegateInteger \/ NegateOther \/ Not
      \/ Equality \/ Comparison \/ Concat \/ Return
  BY <1>3 DEF Execute
<1> QED
  BY <1>1, <1>2, <1>4
     DEF LoadOpcodes, OPCODE_CONSTANT, OPCODE_CONSTANT_LONG, OPCODE_TRUE, OPCODE_FALSE, OPCODE_ADD,
         OPCODE_SUB, OPCODE_MUL, OPCODE_DIV, OPCODE_CONCAT, OPCODE_NEGATE, OPCODE_NOT, OPCODE_EQUAL,
         OPCODE_NOT_EQUAL, OPCODE_LESS, OPCODE_LESS_EQUAL, OPCODE_GREATER, OPCODE_GREATER_EQUAL,
         OPCODE_RETURN

(* The instruction of node n was carried out.                              *)
CarriedOut(n) ==
  /\ phase' = "run" /\ printed' = printed /\ Len(stack') \in Nat
  /\ StandsFor(store'.heap, program, Ref!Meaning(program), stack', n)

(* One value is pushed for those that are popped.                          *)
LEMMA PushStands ==
  ASSUME NEW m, NEW n \in DOMAIN program, n \in Nat, NEW S, stack \in Seq(S), phase = "run",
         NEW r, NEW k, StandsBy(store.heap, program, m, stack, k, r),
         NEW q \in Nat, q = Pops(Op), q <= Len(stack), program[n].first = r[Len(stack) - q] + 1,
         NEW v, Push(v), HeapKept(store.heap, store'.heap), Denotes(store'.heap, v, m[n])
  PROVE  /\ phase' = "run" /\ Len(stack') \in Nat
         /\ StandsFor(store'.heap, program, m, stack', n)
<1>1. PICK T, a, s, t : /\ T = S \cup {v} /\ a = Len(stack) - q
                        /\ s = SubSeq(stack, 1, a) /\ t = Append(s, v)
  OBVIOUS
<1>2. a \in Nat /\ a <= Len(stack) /\ Len(stack) \in Nat
  BY <1>1
<1>3. s \in Seq(T) /\ Len(s) = a /\ \A d \in 1 .. a : s[d] = stack[d]
  <2>1. stack \in Seq(T)
    BY <1>1
  <2> QED
    BY <1>1, <1>2, <2>1
<1>4. /\ t \in Seq(T) /\ Len(t) = a + 1 /\ t[a + 1] = v
      /\ \A d \in 1 .. a : t[d] = stack[d]
  <2>1. v \in T
    BY <1>1
  <2> QED
    BY <1>1, <1>2, <1>3, <2>1
<1>5. Leave(t)
  BY <1>1 DEF Push, Popped, Depth
<1>6. \A d \in DOMAIN t : t[d].den # 0
  <2>1. v.den # 0
    BY DEF Denotes
  <2>2. \A d \in 1 .. Len(stack) : stack[d].den # 0
    BY DEF StandsBy, Denotes
  <2>3. \A d \in DOMAIN t : d = a + 1 \/ d \in 1 .. a
    BY <1>2, <1>4
  <2>4. \A d \in 1 .. a : d \in 1 .. Len(stack)
    BY <1>2
  <2> QED
    BY <1>4, <2>1, <2>2, <2>3, <2>4
<1>7. stack' = t /\ phase' = "run"
  BY <1>5, <1>6 DEF Leave, IsJunk
<1>8. StandsFor(store'.heap, program, m, t, n)
  <2>1. /\ Len(t) = Len(stack) - q + 1 /\ \A d \in 1 .. Len(stack) - q : t[d] = stack[d]
        /\ t[Len(t)] = v
    BY <1>1, <1>4
  <2>2. PICK heap, more : heap = store.heap /\ more = store'.heap
    OBVIOUS
  <2>3. /\ StandsBy(heap, program, m, stack, k, r)
        /\ HeapKept(heap, more) /\ Denotes(more, t[Len(t)], m[n])
    BY <2>1, <2>2
  <2>4. StandsFor(more, program, m, t, n)
    BY <1>2, <2>1, <2>3, StandsNext
  <2> QED
    BY <2>2, <2>4
<1> QED
  BY <1>4, <1>7, <1>8

(* Instruction Op of node n is next, and the stack holds what it takes.    *)
Meanings == Ref!Meaning(program)

NodeIsNext(n, r) ==
  /\ phase = "run" /\ program \in Programs /\ Ref!Supported(program)
  /\ n \in DOMAIN program /\ n # ROOT /\ Speaks(program, n, Op)
  /\ \E S : stack \in Seq(S)
  /\ StandsBy(store.heap, program, Meanings, stack, n - 1, r)

(* What the three kinds of nodes take off the stack.                       *)
LEMMA LiteralIsNext ==
  ASSUME NEW n, NEW r, NodeIsNext(n, r), program[n].kind \in LiteralKinds, Pops(Op) = 0,
         NEW v, Push(v), UNCHANGED <<store, printed>>,
         Denotes(store.heap, v, Ref!LiteralMeaning(program[n]))
  PROVE  CarriedOut(n)
<1>1. PICK S : stack \in Seq(S)
  BY DEF NodeIsNext
<1>2. /\ program[n].first = r[Len(stack)] + 1 /\ n \in Nat /\ Len(stack) \in Nat
      /\ n \in DOMAIN program
  BY <1>1, OperandsStand, TreeFacts DEF NodeIsNext
<1>3. Meanings[n] = Ref!LiteralMeaning(program[n])
  BY Zenon, MeaningUnfolds, MeaningCases DEF NodeIsNext, Meanings
<1>4. PICK q : q = 0
  OBVIOUS
<1>5. q \in Nat /\ q = Pops(Op) /\ q <= Len(stack) /\ Len(stack) - q = Len(stack)
  BY <1>2, <1>4
<1>6. HeapKept(store.heap, store'.heap) /\ Denotes(store'.heap, v, Meanings[n])
  BY <1>3 DEF HeapKept
<1>7. phase = "run" /\ StandsBy(store.heap, program, Meanings, stack, n - 1, r)
  BY DEF NodeIsNext
<1>8. program[n].first = r[Len(stack) - q] + 1
  BY <1>2, <1>5
<1>9. /\ phase' = "run" /\ Len(stack') \in Nat
      /\ StandsFor(store'.heap, program, Meanings, stack', n)
  BY <1>1, <1>2, <1>5, <1>6, <1>7, <1>8, PushStands
<1> QED
  BY <1>9 DEF CarriedOut, Meanings

LEMMA UnaryIsNext ==
  ASSUME NEW n, NEW r, NodeIsNext(n, r), program[n].kind \in UnaryKinds, Pops(Op) = 1,
         NEW v, Push(v), UNCHANGED <<store, printed>>,
         Denotes(store.heap, v, Ref!UnaryMeaning(program[n].kind, Meanings[Expr(program, n)]))
  PROVE  CarriedOut(n)
<1>1. PICK S : stack \in Seq(S)
  BY DEF NodeIsNext
<1>2. /\ Len(stack) >= 1 /\ program[n].first = r[Len(stack) - 1] + 1
      /\ n \in Nat /\ Len(stack) \in Nat /\ n \in DOMAIN program
  BY <1>1, OperandsStand, TreeFacts DEF NodeIsNext
<1>3. Meanings[n] = Ref!UnaryMeaning(program[n].kind, Meanings[Expr(program, n)])
  <2>1. program[n].kind \notin LiteralKinds
    BY DEF UnaryKinds, LiteralKinds
  <2> QED
    BY Zenon, <2>1, MeaningUnfolds, MeaningCases DEF NodeIsNext, Meanings
<1>4. HeapKept(store.heap, store'.heap) /\ Denotes(store'.heap, v, Meanings[n])
  BY <1>3 DEF HeapKept
<1>5. phase = "run" /\ StandsBy(store.heap, program, Meanings, stack, n - 1, r)
  BY DEF NodeIsNext
<1>6. /\ phase' = "run" /\ Len(stack') \in Nat
      /\ StandsFor(store'.heap, program, Meanings, stack', n)
  BY <1>1, <1>2, <1>4, <1>5, PushStands
<1> QED
  BY <1>6 DEF CarriedOut, Meanings

LEMMA BinaryIsNext ==
  ASSUME NEW n, NEW r, NodeIsNext(n, r), program[n].kind \in BinaryKinds, Pops(Op) = 2,
         NEW v, Push(v), HeapKept(store.heap, store'.heap), printed' = printed,
         Denotes(store'.heap, v, Ref!BinaryMeaning(program[n].kind, Meanings[Lhs(program, n)],
                                                   Meanings[Rhs(program, n)]))
  PROVE  CarriedOut(n)
<1>1. PICK S : stack \in Seq(S)
  BY DEF NodeIsNext
<1>2. /\ Len(stack) >= 2 /\ program[n].first = r[Len(stack) - 2] + 1
      /\ n \in Nat /\ Len(stack) \in Nat /\ n \in DOMAIN program
  BY <1>1, OperandsStand, TreeFacts DEF NodeIsNext
<1>3. Meanings[n] =
        Ref!BinaryMeaning(program[n].kind, Meanings[Lhs(program, n)], Meanings[Rhs(program, n)])
  <2>1. program[n].kind \notin LiteralKinds /\ program[n].kind \notin UnaryKinds
    BY DEF UnaryKinds, LiteralKinds, BinaryKinds
  <2> QED
    BY Zenon, <2>1, MeaningUnfolds, MeaningCases DEF NodeIsNext, Meanings
<1>4. Denotes(store'.heap, v, Meanings[n])
  BY <1>3
<1>5. phase = "run" /\ StandsBy(store.heap, program, Meanings, stack, n - 1, r)
  BY DEF NodeIsNext
<1>6. /\ phase' = "run" /\ Len(stack') \in Nat
      /\ StandsFor(store'.heap, program, Meanings, stack', n)
  BY <1>1, <1>2, <1>4, <1>5, PushStands
<1> QED
  BY <1>6 DEF CarriedOut, Meanings

-----------------------------------------------------------------------------
(* An operator that is next finds its operands on top of the stack.        *)
LEMMA OperatorIsNext ==
  ASSUME NEW n, NEW r, NodeIsNext(n, r), program[n].kind \in OperatorKinds
  PROVE  LET kind == program[n].kind
         IN  /\ Op = OperatorOpcode(kind) /\ Pops(Op) = Takes(kind)
             /\ Len(stack) \in Nat /\ Len(stack) >= Pops(Op)
             /\ kind \in UnaryKinds =>
                  /\ Pops(Op) = 1 /\ Ref!SupportedUnary(kind, Meanings[Expr(program, n)])
                  /\ Denotes(store.heap, Peek(0), Meanings[Expr(program, n)])
             /\ kind \in BinaryKinds =>
                  /\ Pops(Op) = 2
                  /\ Ref!SupportedBinary(kind, Meanings[Lhs(program, n)], Meanings[Rhs(program, n)])
                  /\ Denotes(store.heap, Peek(0), Meanings[Rhs(program, n)])
                  /\ Denotes(store.heap, Peek(1), Meanings[Lhs(program, n)])
<1>1. PICK kind : kind = program[n].kind
  OBVIOUS
<1>2. PICK S : stack \in Seq(S)
  BY DEF NodeIsNext
<1>3. /\ program \in Programs /\ n \in DOMAIN program /\ Len(stack) \in Nat
      /\ StandsBy(store.heap, program, Meanings, stack, n - 1, r)
      /\ Ref!Supported(program)
  BY <1>2 DEF NodeIsNext
<1>4. Op = OperatorOpcode(kind) /\ Pops(Op) = Takes(kind)
  BY <1>1, OperatorPops DEF NodeIsNext, Speaks
<1>5. /\ kind \in UnaryKinds => Pops(Op) = 1 /\ kind \notin BinaryKinds
      /\ kind \in BinaryKinds => Pops(Op) = 2 /\ kind \notin UnaryKinds
      /\ kind \notin LiteralKinds
      /\ kind \in UnaryKinds \cup BinaryKinds
  <2>1. kind \in UnaryKinds => kind \notin BinaryKinds
    BY DEF UnaryKinds, BinaryKinds
  <2>2. kind \in UnaryKinds \cup BinaryKinds /\ kind \notin LiteralKinds
    BY <1>1 DEF OperatorKinds, UnaryKinds, BinaryKinds, LiteralKinds
  <2> QED
    BY <1>4, <2>1, <2>2 DEF Takes
<1>6. /\ kind \in UnaryKinds => /\ Len(stack) >= 1
                               /\ Denotes(store.heap, stack[Len(stack)], Meanings[Expr(program, n)])
      /\ kind \in BinaryKinds =>
           /\ Len(stack) >= 2
           /\ Denotes(store.heap, stack[Len(stack)], Meanings[Rhs(program, n)])
           /\ Denotes(store.heap, stack[Len(stack) - 1], Meanings[Lhs(program, n)])
  BY <1>1, <1>3, OperandsStand
<1>7. Peek(0) = stack[Len(stack)] /\ Peek(1) = stack[Len(stack) - 1]
  BY <1>3 DEF Peek, Depth
<1>8. /\ kind \in UnaryKinds => Ref!SupportedUnary(kind, Meanings[Expr(program, n)])
      /\ kind \in BinaryKinds =>
           Ref!SupportedBinary(kind, Meanings[Lhs(program, n)], Meanings[Rhs(program, n)])
  BY Zenon, <1>1, <1>3, <1>5, SupportedNode DEF Meanings
<1>9. Len(stack) >= Pops(Op)
  BY <1>5, <1>6
<1> QED
  BY <1>1, <1>3, <1>4, <1>5, <1>6, <1>7, <1>8, <1>9

(* The instructions of the operators, one by one.                          *)
LEMMA NotCarriedOut ==
  ASSUME NEW n, NEW r, NodeIsNext(n, r), Execute, program[n].kind = "NOT"
  PROVE  CarriedOut(n)
<1>1. program[n].kind \in OperatorKinds /\ program[n].kind \in UnaryKinds
  BY DEF OperatorKinds, UnaryKinds, SilentKinds
<1>2. PICK a, x : a = Peek(0) /\ x = Meanings[Expr(program, n)]
  OBVIOUS
<1>3. /\ Op = OPCODE_NOT /\ Pops(Op) = 1 /\ Len(stack) \in Nat /\ Len(stack) >= Pops(Op)
      /\ Ref!SupportedUnary("NOT", x) /\ Denotes(store.heap, a, x)
  BY <1>1, <1>2, OperatorIsNext DEF OperatorOpcode
<1>4. Not
  BY <1>3, Dispatch
<1>5. PICK v : v = IF Holds(a, "BOOL") THEN Bool(~IsTrue(a)) ELSE Junk(a.kind)
  OBVIOUS
<1>6. Push(v) /\ UNCHANGED <<store, printed>>
  BY <1>2, <1>4, <1>5 DEF Not
<1>7. Denotes(store.heap, v, Ref!UnaryMeaning(program[n].kind, x))
  BY <1>3, <1>5, NotDenotes
<1> QED
  BY <1>1, <1>2, <1>3, <1>6, <1>7, UnaryIsNext

LEMMA NegateCarriedOut ==
  ASSUME NEW n, NEW r, NodeIsNext(n, r), Execute, program[n].kind = "NEGATE"
  PROVE  CarriedOut(n)
<1>1. program[n].kind \in OperatorKinds /\ program[n].kind \in UnaryKinds
  BY DEF OperatorKinds, UnaryKinds, SilentKinds
<1>2. PICK a, x : a = Peek(0) /\ x = Meanings[Expr(program, n)]
  OBVIOUS
<1>3. /\ Op = OPCODE_NEGATE /\ Pops(Op) = 1 /\ Len(stack) \in Nat /\ Len(stack) >= Pops(Op)
      /\ Ref!SupportedUnary("NEGATE", x) /\ Denotes(store.heap, a, x)
  BY <1>1, <1>2, OperatorIsNext DEF OperatorOpcode
<1>4. PICK v : v = [a EXCEPT !.num = -@]
  OBVIOUS
<1>5. a.kind = "REAL" /\ Denotes(store.heap, v, Ref!UnaryMeaning(program[n].kind, x))
  BY <1>3, <1>4, NegateDenotes
<1>6. NegateReal
  <2>1. ~NegateInteger /\ ~NegateOther
    BY <1>2, <1>5 DEF NegateInteger, NegateOther
  <2> QED
    BY <1>3, <2>1, Dispatch
<1>7. Push(v) /\ UNCHANGED <<store, printed>>
  BY <1>2, <1>4, <1>6 DEF NegateReal
<1> QED
  BY <1>1, <1>2, <1>3, <1>5, <1>7, UnaryIsNext

(* The operands of a binary operator that is next.                         *)
BinaryOperands(n, a, b, x, y) ==
  /\ a = Peek(1) /\ b = Peek(0)
  /\ x = Meanings[Lhs(program, n)] /\ y = Meanings[Rhs(program, n)]
  /\ Denotes(store.heap, a, x) /\ Denotes(store.heap, b, y)
  /\ Ref!SupportedBinary(program[n].kind, x, y)

(* Both operands are found on the stack.                                   *)
LEMMA BinaryFound ==
  ASSUME NEW n, NEW r, NodeIsNext(n, r), program[n].kind \in BinaryKinds \ SilentKinds
  PROVE  /\ Op = OperatorOpcode(program[n].kind) /\ Pops(Op) = 2
         /\ Len(stack) \in Nat /\ Len(stack) >= Pops(Op)
         /\ program[n].kind \in BinaryKinds
         /\ \E a, b, x, y : BinaryOperands(n, a, b, x, y)
<1>1. program[n].kind \in OperatorKinds /\ program[n].kind \in BinaryKinds
  BY DEF OperatorKinds, BinaryKinds
<1>2. PICK a, b, x, y : /\ a = Peek(1) /\ b = Peek(0)
                        /\ x = Meanings[Lhs(program, n)] /\ y = Meanings[Rhs(program, n)]
  OBVIOUS
<1>3. /\ Op = OperatorOpcode(program[n].kind) /\ Pops(Op) = 2
      /\ Len(stack) \in Nat /\ Len(stack) >= Pops(Op)
      /\ Denotes(store.heap, a, x) /\ Denotes(store.heap, b, y)
      /\ Ref!SupportedBinary(program[n].kind, x, y)
  BY <1>1, <1>2, OperatorIsNext
<1> QED
  BY <1>1, <1>2, <1>3 DEF BinaryOperands

(* Such an operator pushes a value that means what the node means.         *)
LEMMA BinaryPushed ==
  ASSUME NEW n, NEW r, NodeIsNext(n, r), program[n].kind \in BinaryKinds, Pops(Op) = 2,
         NEW a, NEW b, NEW x, NEW y, BinaryOperands(n, a, b, x, y),
         NEW v, Push(v), UNCHANGED <<store, printed>>,
         Denotes(store.heap, v, Ref!BinaryMeaning(program[n].kind, x, y))
  PROVE  CarriedOut(n)
<1>1. HeapKept(store.heap, store'.heap)
  BY DEF HeapKept
<1>2. Denotes(store'.heap, v, Ref!BinaryMeaning(program[n].kind, Meanings[Lhs(program, n)],
                                                Meanings[Rhs(program, n)]))
  BY DEF BinaryOperands
<1> QED
  BY <1>1, <1>2, BinaryIsNext

LEMMA NumberCarriedOut ==
  ASSUME NEW n, NEW r, NodeIsNext(n, r), Execute,
         program[n].kind \in {"ADD", "MUL", "DIV", "INT_DIV"}
  PROVE  CarriedOut(n)
<1>1. program[n].kind \in BinaryKinds \ SilentKinds
  BY DEF BinaryKinds, SilentKinds
<1>2. PICK a, b, x, y : BinaryOperands(n, a, b, x, y)
  BY <1>1, BinaryFound
<1>3. /\ Op = OperatorOpcode(program[n].kind) /\ Pops(Op) = 2
      /\ Len(stack) \in Nat /\ Len(stack) >= Pops(Op)
  BY <1>1, BinaryFound
<1>4. PICK v : v = Number(Op, a, b)
  OBVIOUS
<1>5. ~MayTrap(Op, a, b) /\ Denotes(store.heap, v, Ref!BinaryMeaning(program[n].kind, x, y))
  <2>1. CASE program[n].kind \in {"ADD", "MUL"}
    BY <1>2, <1>3, <1>4, <2>1, SumDenotes DEF BinaryOperands
  <2>2. CASE program[n].kind = "DIV"
    BY <1>2, <1>3, <1>4, <2>2, RealDivisionDenotes, ArithmeticOpcodes DEF BinaryOperands
  <2>3. CASE program[n].kind = "INT_DIV"
    BY <1>2, <1>3, <1>4, <2>3, IntegerDivisionDenotes, ArithmeticOpcodes DEF BinaryOperands
  <2> QED
    BY <2>1, <2>2, <2>3
<1>6. Arithmetic
  <2>1. Op \in {OPCODE_ADD, OPCODE_MUL, OPCODE_DIV}
    BY <1>3, ArithmeticOpcodes
  <2>2. ~Trap
    BY <1>2, <1>5 DEF Trap, BinaryOperands
  <2> QED
    BY <1>3, <2>1, <2>2, Dispatch
<1>7. Push(v) /\ UNCHANGED <<store, printed>>
  BY <1>2, <1>4, <1>6 DEF Arithmetic, BinaryOperands
<1> QED
  BY <1>1, <1>2, <1>3, <1>5, <1>7, BinaryPushed

LEMMA EqualCarriedOut ==
  ASSUME NEW n, NEW r, NodeIsNext(n, r), Execute, program[n].kind = "EQUAL"
  PROVE  CarriedOut(n)
<1>1. program[n].kind \in BinaryKinds \ SilentKinds
  BY DEF BinaryKinds, SilentKinds
<1>2. PICK a, b, x, y : BinaryOperands(n, a, b, x, y)
  BY <1>1, BinaryFound
<1>3. /\ Op = OPCODE_EQUAL /\ Pops(Op) = 2
      /\ Len(stack) \in Nat /\ Len(stack) >= Pops(Op)
  BY <1>1, BinaryFound DEF OperatorOpcode
<1>4. Equality
  BY <1>3, Dispatch
<1>5. PICK truth \in Equal(b, a) : Push(Bool(truth))
  BY <1>2, <1>4 DEF Equality, BinaryOperands
<1>6. PICK v : v = Bool(truth)
  OBVIOUS
<1>7. Denotes(store.heap, v, Ref!BinaryMeaning(program[n].kind, x, y))
  BY <1>2, <1>5, <1>6, EqualDenotes DEF BinaryOperands
<1>8. Push(v) /\ UNCHANGED <<store, printed>>
  BY <1>4, <1>5, <1>6 DEF Equality
<1> QED
  BY <1>1, <1>2, <1>3, <1>7, <1>8, BinaryPushed

LEMMA ComparisonCarriedOut ==
  ASSUME NEW n, NEW r, NodeIsNext(n, r), Execute, program[n].kind \in ComparisonKinds
  PROVE  CarriedOut(n)
<1>1. program[n].kind \in BinaryKinds \ SilentKinds
  BY DEF BinaryKinds, SilentKinds, ComparisonKinds
<1>2. PICK a, b, x, y : BinaryOperands(n, a, b, x, y)
  BY <1>1, BinaryFound
<1>3. /\ Op = OperatorOpcode(program[n].kind) /\ Pops(Op) = 2
      /\ Len(stack) \in Nat /\ Len(stack) >= Pops(Op)
  BY <1>1, BinaryFound
<1>4. Comparison
  <2>1. Op \in {OPCODE_LESS, OPCODE_LESS_EQUAL, OPCODE_GREATER}
    BY <1>3 DEF OperatorOpcode, ComparisonKinds
  <2> QED
    BY <1>3, <2>1, Dispatch
<1>5. a.kind \notin Uncompared
  <2>1. Ref!BothOf(x, y, {"BOOL", "CHAR", "REAL", "INTEGER"})
    BY <1>2 DEF BinaryOperands, Ref!SupportedBinary, ComparisonKinds
  <2>2. a.kind \in {"BOOL", "CHAR", "REAL", "INTEGER"}
    BY <1>2, <2>1, BothNumbers DEF BinaryOperands
  <2> QED
    BY <2>2 DEF Uncompared
<1>6. PICK truth \in Compared(Op, a, b) : Push(Bool(truth))
  BY <1>2, <1>4, <1>5 DEF Comparison, BinaryOperands
<1>7. PICK v : v = Bool(truth)
  OBVIOUS
<1>8. Denotes(store.heap, v, Ref!BinaryMeaning(program[n].kind, x, y))
  BY <1>2, <1>3, <1>6, <1>7, ComparisonDenotes DEF BinaryOperands
<1>9. Push(v) /\ UNCHANGED <<store, printed>>
  BY <1>4, <1>6, <1>7 DEF Comparison
<1> QED
  BY <1>1, <1>2, <1>3, <1>8, <1>9, BinaryPushed

LEMMA ConcatCarriedOut ==
  ASSUME Hashed, LiteralsIInv, NEW n, NEW r, NodeIsNext(n, r), Execute, program[n].kind = "CONCAT"
  PROVE  CarriedOut(n)
<1>1. program[n].kind \in BinaryKinds \ SilentKinds
  BY DEF BinaryKinds, SilentKinds
<1>2. PICK a, b, x, y : BinaryOperands(n, a, b, x, y)
  BY <1>1, BinaryFound
<1>3. /\ Op = OPCODE_CONCAT /\ Pops(Op) = 2
      /\ Len(stack) \in Nat /\ Len(stack) >= Pops(Op)
  BY <1>1, BinaryFound DEF OperatorOpcode
<1>4. Concat
  BY <1>3, Dispatch
<1>5. /\ a.kind = "OBJ" /\ b.kind = "OBJ" /\ a = Peek(1) /\ b = Peek(0)
      /\ Ref!BinaryMeaning(program[n].kind, x, y) =
           Ref!MeantString(store.heap[a.num].chars \o store.heap[b.num].chars)
  BY <1>2, ConcatMeant DEF BinaryOperands
<1>6. PICK chars, copy : chars = Joined /\ copy = obj_string_copy(store, chars)
  OBVIOUS
<1>7. chars = store.heap[a.num].chars \o store.heap[b.num].chars
  BY <1>5, <1>6 DEF Joined
<1>8. /\ store' = copy.store /\ printed' = printed
      /\ copy.outcome = "ok" => Push(Value("OBJ", copy.string))
  BY <1>4, <1>5, <1>6 DEF Concat
<1>9. /\ copy.outcome = "ok" /\ Keeps(store, copy.store)
      /\ copy.string \in DOMAIN copy.store.heap
      /\ copy.store.heap[copy.string] = [chars |-> chars, owned |-> TRUE]
      /\ StoreKept(copy.store)
  <2>1. StoreKept(store) /\ TRUE \in BOOLEAN /\ copy = ObjString(store, chars, TRUE)
    BY <1>6 DEF LiteralsIInv, obj_string_copy
  <2>2. copy.outcome = "ok"
    BY <2>1, StringMade DEF Hashed
  <2>3. PICK id : id = Len(store.heap) + 1
    OBVIOUS
  <2>4. /\ StoreKept(copy.store) /\ Keeps(store, copy.store)
        /\ copy.string = id /\ id \in DOMAIN copy.store.heap
        /\ copy.store.heap[id] = [chars |-> chars, owned |-> TRUE]
    BY <2>1, <2>3, StringMade
  <2> QED
    BY <2>2, <2>4
<1>10. HeapKept(store.heap, store'.heap)
  BY <1>8, <1>9 DEF HeapKept, Keeps
<1>11. PICK v : v = Value("OBJ", copy.string)
  OBVIOUS
<1>12. Denotes(store'.heap, v, Ref!MeantString(chars))
  <2>1. /\ v = [kind |-> "OBJ", num |-> copy.string, den |-> 1]
        /\ v.kind = "OBJ" /\ v.num = copy.string /\ v.den = 1
    BY <1>11 DEF Value
  <2>2. copy.string \in Nat
    <3>1. PICK S : copy.store.heap \in Seq(S)
      BY <1>9 DEF StoreKept
    <3> QED
      BY <1>9, <3>1
  <2>3. /\ v = [kind |-> v.kind, num |-> v.num, den |-> v.den]
        /\ store'.heap[v.num].chars = chars /\ v.num \in DOMAIN store'.heap
    BY <1>8, <1>9, <2>1
  <2> QED
    BY <2>1, <2>2, <2>3 DEF Denotes
<1>13. Denotes(store'.heap, v, Ref!BinaryMeaning(program[n].kind, Meanings[Lhs(program, n)],
                                                 Meanings[Rhs(program, n)]))
  BY <1>2, <1>5, <1>7, <1>12 DEF BinaryOperands
<1>14. Push(v) /\ printed' = printed /\ program[n].kind \in BinaryKinds
  BY <1>1, <1>8, <1>9, <1>11
<1> QED
  BY <1>3, <1>10, <1>13, <1>14, BinaryIsNext

(* The instructions of the literals.                                       *)
LEMMA TruthCarriedOut ==
  ASSUME NEW n, NEW r, NodeIsNext(n, r), Execute, program[n].kind = "BOOL"
  PROVE  CarriedOut(n)
<1>1. program[n].kind \in LiteralKinds
  BY DEF LiteralKinds
<1>2. PICK S : stack \in Seq(S)
  BY DEF NodeIsNext
<1>3. PICK w : w = program[n].value
  OBVIOUS
<1>4. Op = IF IsTrue(w) THEN OPCODE_TRUE ELSE OPCODE_FALSE
  BY <1>3 DEF NodeIsNext, Speaks
<1>5. Pops(Op) = 0 /\ Len(stack) \in Nat /\ Len(stack) >= Pops(Op)
  BY <1>2, <1>4, PopsOf
<1>6. Truth
  BY <1>4, <1>5, Dispatch
<1>7. PICK t : t = (Op = OPCODE_TRUE)
  OBVIOUS
<1>8. Push(Bool(t)) /\ UNCHANGED <<store, printed>>
  BY <1>6, <1>7 DEF Truth
<1>9. PICK v : v = Bool(t)
  OBVIOUS
<1>10. Denotes(store.heap, v, Ref!LiteralMeaning(program[n]))
  <2>1. w \in {Bool(TRUE), Bool(FALSE)}
    BY <1>3, LiteralsAssumption DEF NodeIsNext
  <2>2. PICK u : u \in BOOLEAN /\ w = Bool(u)
    BY <2>1
  <2>3. IsTrue(w) <=> u
    BY <2>2 DEF Bool, Value, IsTrue
  <2>4. t <=> u
    <3>1. OPCODE_TRUE # OPCODE_FALSE
      BY DEF OPCODE_TRUE, OPCODE_FALSE
    <3> QED
      BY Zenon, <1>4, <1>7, <2>3, <3>1
  <2>5. Ref!LiteralMeaning(program[n]) = Ref!Meant(w)
    BY <1>3 DEF Ref!LiteralMeaning
  <2>6. w = Ref!Bool(u)
    BY <2>2 DEF Bool, Value, Ref!Bool, Ref!Value
  <2> QED
    BY <1>9, <2>4, <2>5, <2>6, TruthDenotes
<1> QED
  BY <1>1, <1>5, <1>8, <1>9, <1>10, LiteralIsNext

(* The constant that is shown like a literal means what the literal does.  *)
LEMMA ShownDenotes ==
  ASSUME NEW p \in Programs, NEW n \in DOMAIN p, p[n].kind \in LiteralKinds \ {"BOOL"},
         NEW heap, \E S : heap \in Seq(S), NEW v, Complete(v),
         v.kind = "OBJ" => v.num \in DOMAIN heap,
         ShownIn(heap, v) = LiteralAt(p, n)
  PROVE  Denotes(heap, v, Ref!LiteralMeaning(p[n]))
<1>1. v = [kind |-> v.kind, num |-> v.num, den |-> v.den] /\ (v.kind = "OBJ" => v.den = 1)
  BY DEF Complete
<1>2. CASE p[n].kind = "STRING"
  <2>1. PICK chars : chars = Ref!Unquoted(p[n].chars)
    OBVIOUS
  <2>2. LiteralAt(p, n) = [kind |-> "OBJ", chars |-> chars]
    BY <1>2, <2>1 DEF LiteralAt
  <2>3. v.kind = "OBJ"
    <3>1. ShownIn(heap, v).kind = "OBJ"
      BY <2>2
    <3>2. ShownIn(heap, v).kind = v.kind
      BY DEF ShownIn
    <3> QED
      BY <3>1, <3>2
  <2>4. heap[v.num].chars = chars
    BY <2>2, <2>3 DEF ShownIn
  <2>5. v.num \in Nat /\ v.num \in DOMAIN heap
    BY <2>3
  <2>6. Ref!LiteralMeaning(p[n]) = Ref!MeantString(chars)
    BY <1>2, <2>1 DEF Ref!LiteralMeaning
  <2> QED
    BY <1>1, <2>3, <2>4, <2>5, <2>6 DEF Denotes
<1>3. CASE p[n].kind # "STRING"
  <2>1. PICK w : w = p[n].value
    OBVIOUS
  <2>2. p[n].kind \in {"CHAR", "REAL", "INTEGER"}
    BY <1>3 DEF LiteralKinds
  <2>3. /\ w \in [kind : Kinds, num : Int, den : Int] /\ w.kind = p[n].kind
        /\ p[n].kind \in {"CHAR", "INTEGER"} => w.den = 1
        /\ p[n].kind = "REAL" => w.den > 0
    BY <2>1, <2>2, NodeValues, ProgramsAssumption, LiteralsAssumption
  <2>4. LiteralAt(p, n) = [kind |-> p[n].kind, chars |-> <<w.num, w.den>>]
    BY <1>3, <2>1 DEF LiteralAt
  <2>5. v.kind = p[n].kind
    <3>1. ShownIn(heap, v).kind = p[n].kind
      BY <2>4
    <3>2. ShownIn(heap, v).kind = v.kind
      BY DEF ShownIn
    <3> QED
      BY <3>1, <3>2
  <2>6. v.num = w.num /\ v.den = w.den
    <3>1. ShownIn(heap, v) = [kind |-> v.kind, chars |-> <<v.num, v.den>>]
      BY <2>2, <2>5 DEF ShownIn
    <3>2. <<v.num, v.den>> = <<w.num, w.den>>
      BY <2>4, <3>1
    <3> QED
      BY <3>2
  <2>7. w = [kind |-> w.kind, num |-> w.num, den |-> w.den]
    BY <2>3
  <2>8. v = w
    BY <1>1, <2>3, <2>5, <2>6, <2>7
  <2>9. /\ w.num \in Int /\ w.den \in Nat \ {0} /\ w.kind \notin {"OBJ", "BOOL"}
        /\ w.kind # "REAL" => w.den = 1
    BY <2>2, <2>3
  <2>10. Ref!LiteralMeaning(p[n]) = Ref!Meant(w)
    BY <1>3, <2>1 DEF Ref!LiteralMeaning
  <2> QED
    BY <2>7, <2>8, <2>9, <2>10 DEF Denotes
<1> QED
  BY <1>2, <1>3

(* A constant instruction pushes the literal of its node, as the chunk has *)
(* no constant whose number is cut off.                                    *)
LEMMA ConstantCarriedOut ==
  ASSUME LowByteFirst, IInv, LiteralsIInv, SpokenIInv, ConstantCount(chunk) <= 256, Execute,
         NEW j \in 1 .. Len(emitted), emitted[j].offset = ip,
         NEW n, n = emitted[j].node, NEW r, NodeIsNext(n, r), program[n].kind \in LiteralKinds \ {"BOOL"}
  PROVE  CarriedOut(n)
<1>1. PICK S : stack \in Seq(S)
  BY DEF NodeIsNext
<1>2. Op \in LoadOpcodes
  BY DEF NodeIsNext, Speaks
<1>3. Pops(Op) = 0 /\ Len(stack) \in Nat
  BY <1>1, <1>2, PopsOf DEF LoadOpcodes
<1>4. PICK i : i = Loaded(chunk, emitted, j)
  OBVIOUS
<1>5. NamesLiteral(chunk, emitted, program, store.heap, j)
  BY <1>2 DEF LiteralsIInv, ConstantsNamed, IsLoad, Op
<1>6. /\ i \in Nat /\ i < ConstantCount(chunk) /\ ConstantCount(chunk) \in Nat
      /\ ConstantCount(chunk) = Len(chunk.constants.elems)
      /\ i % 256 = i
  <2>1. i \in Nat /\ ConstantCount(chunk) = Len(chunk.constants.elems)
    BY <1>4, LoadsFinite DEF ConstantCount
  <2>2. i < ConstantCount(chunk) /\ ConstantCount(chunk) \in Nat
    BY <1>4, <1>5, <2>1, CountIsNat DEF NamesLiteral, IInv
  <2>3. i < 256
    BY <2>1, <2>2
  <2> QED
    BY <2>1, <2>2, <2>3
<1>7. PushConstant(i) /\ UNCHANGED <<store, printed>>
  <2>1. i = Loaded(chunk, emitted, j) % 256
    BY <1>4, <1>6
  <2> QED
    BY <1>2, <1>3, <2>1, ConstantRead
<1>8. PICK v : v = chunk.constants.elems[i + 1]
  OBVIOUS
<1>9. Push(v)
  BY <1>6, <1>7, <1>8 DEF PushConstant
<1>10. i + 1 \in 1 .. Len(chunk.constants.elems)
  BY <1>6
<1>11. Complete(v) /\ (v.kind = "OBJ" => v.num \in DOMAIN store.heap)
  BY <1>8, <1>10 DEF SpokenIInv, Spoken, CompleteIn, LiteralsIInv, ConstantsNamed, StringsInHeap
<1>12. ShownIn(store.heap, v) = LiteralAt(program, n)
  BY <1>4, <1>5, <1>8 DEF NamesLiteral
<1>13. Denotes(store.heap, v, Ref!LiteralMeaning(program[n]))
  <2>1. PICK heap : heap = store.heap
    OBVIOUS
  <2>2. \E T : heap \in Seq(T)
    BY <2>1 DEF LiteralsIInv, StoreKept
  <2>3. program \in Programs /\ n \in DOMAIN program
    BY DEF NodeIsNext
  <2>4. Denotes(heap, v, Ref!LiteralMeaning(program[n]))
    BY <1>11, <1>12, <2>1, <2>2, <2>3, ShownDenotes
  <2> QED
    BY <2>1, <2>4
<1> QED
  BY <1>3, <1>7, <1>9, <1>13, LiteralIsNext

(* Whatever the node, its instruction is carried out.                      *)
LEMMA InstructionCarriedOut ==
  ASSUME Hashed, LowByteFirst, IInv, LiteralsIInv, SpokenIInv, ConstantCount(chunk) <= 256, Execute,
         NEW j \in 1 .. Len(emitted), emitted[j].offset = ip,
         NEW n, n = emitted[j].node, NEW r, NodeIsNext(n, r), program[n].kind # "GROUP"
  PROVE  CarriedOut(n)
<1>1. program[n].kind \in SupportedKinds
  BY SupportedKind DEF NodeIsNext
<1>2. CASE program[n].kind \in LiteralKinds \ {"BOOL"}
  BY <1>2, ConstantCarriedOut
<1>3. CASE program[n].kind = "BOOL"
  BY <1>3, TruthCarriedOut
<1>4. CASE program[n].kind = "NOT"
  BY <1>4, NotCarriedOut
<1>5. CASE program[n].kind = "NEGATE"
  BY <1>5, NegateCarriedOut
<1>6. CASE program[n].kind \in {"ADD", "MUL", "DIV", "INT_DIV"}
  BY <1>6, NumberCarriedOut
<1>7. CASE program[n].kind = "CONCAT"
  BY <1>7, ConcatCarriedOut
<1>8. CASE program[n].kind = "EQUAL"
  BY <1>8, EqualCarriedOut
<1>9. CASE program[n].kind \in ComparisonKinds
  BY <1>9, ComparisonCarriedOut
<1> QED
  BY <1>1, <1>2, <1>3, <1>4, <1>5, <1>6, <1>7, <1>8, <1>9 DEF SupportedKinds

(* Nothing stands for the nodes before the first instruction, and one      *)
(* value for the whole tree.                                               *)
LEMMA FirstStands ==
  ASSUME NEW p \in Programs, NEW e, Len(e) \in Nat, e # <<>>, Len(e) >= 1, PostOrder(p, e), NEW heap
  PROVE  StandsFor(heap, p, Ref!Meaning(p), <<>>, Upto(p, e, 1))
<1>1. PICK k, s, l : k = 0 /\ s = <<>> /\ l = Upto(p, e, 1)
  OBVIOUS
<1>2. StandsFor(heap, p, Ref!Meaning(p), s, k)
  BY <1>1, EmptyStands
<1>3. l \in Nat /\ l <= Len(p)
  BY <1>1, InstructionNodes
<1>4. \A n \in k + 1 .. l : p[n].kind = "GROUP"
  BY <1>1, FirstNodes
<1>5. Len(s) \in Nat /\ k \in Nat /\ k <= l
  BY <1>1, <1>3
<1>6. StandsFor(heap, p, Ref!Meaning(p), s, l)
  BY <1>2, <1>3, <1>4, <1>5, GroupsStand
<1> QED
  BY <1>1, <1>6

(* What stands for a node stands for all up to the next instruction.       *)
LEMMA NextStands ==
  ASSUME NEW p \in Programs, NEW e, Len(e) \in Nat, e # <<>>, Len(e) >= 1, PostOrder(p, e),
         NEW j \in 1 .. Len(e) - 1, NEW heap, NEW s, Len(s) \in Nat,
         StandsFor(heap, p, Ref!Meaning(p), s, e[j].node)
  PROVE  StandsFor(heap, p, Ref!Meaning(p), s, Upto(p, e, j + 1))
<1>1. PICK k, l : k = e[j].node /\ l = Upto(p, e, j + 1)
  OBVIOUS
<1>2. j \in 1 .. Len(e) /\ j + 1 \in 1 .. Len(e) /\ j < Len(e)
  OBVIOUS
<1>3. l \in Nat /\ l <= Len(p)
  BY <1>1, <1>2, InstructionNodes
<1>4. k \in Nat
  <2>1. k \in 1 .. Len(p) /\ Len(p) \in Nat
    BY <1>1, <1>2, InstructionNodes, ProgramsAssumption
  <2> QED
    BY <2>1
<1>5. k <= l /\ \A n \in k + 1 .. l : p[n].kind = "GROUP"
  BY <1>1, NextNodes
<1>6. StandsFor(heap, p, Ref!Meaning(p), s, l)
  BY <1>1, <1>3, <1>4, <1>5, GroupsStand
<1> QED
  BY <1>1, <1>6

(* What stands for the whole tree is one value, of its root.               *)
LEMMA WholeStands ==
  ASSUME NEW heap, NEW p \in Programs, NEW m, NEW s, Len(s) \in Nat, StandsFor(heap, p, m, s, Len(p))
  PROVE  Len(s) = 1 /\ Denotes(heap, s[1], m[Len(p)])
<1>1. PICK r : StandsBy(heap, p, m, s, Len(p), r)
  BY DEF StandsFor
<1>2. /\ Len(p) \in Nat /\ Len(p) > 0 /\ p[Len(p)].first = 1 /\ DOMAIN p = 1 .. Len(p)
  BY ProgramIsTree DEF IsTree
<1>3. PICK size : size = Len(s)
  OBVIOUS
<1>4. /\ size \in Nat /\ r \in [0 .. size -> Nat] /\ r[0] = 0 /\ r[size] = Len(p)
      /\ \A d \in 1 .. size : /\ r[d] \in DOMAIN p /\ p[r[d]].first = r[d - 1] + 1
                              /\ Denotes(heap, s[d], m[r[d]])
  BY <1>1, <1>3 DEF StandsBy
<1>5. size # 0
  BY <1>2, <1>4
<1>6. size \in 1 .. size /\ size - 1 \in 0 .. size
  BY <1>4, <1>5
<1>7. r[size - 1] = 0
  <2>1. r[size - 1] \in Nat /\ 1 = r[size - 1] + 1
    BY <1>2, <1>4, <1>6
  <2> QED
    BY <2>1
<1>8. size - 1 \notin 1 .. size
  <2> SUFFICES ASSUME size - 1 \in 1 .. size PROVE FALSE
    OBVIOUS
  <2>1. 0 \in 1 .. Len(p)
    BY <1>2, <1>4, <1>7
  <2> QED
    BY <1>2, <2>1
<1>9. size = 1
  BY <1>4, <1>5, <1>8
<1> QED
  BY <1>3, <1>4, <1>6, <1>9

-----------------------------------------------------------------------------
(* The invariant: while a supported program runs, its stack stands for the *)
(* part of the tree that was computed.                                     *)
AtNode ==
  \E j \in 1 .. Len(emitted) :
    /\ emitted[j].offset = ip
    /\ StandsFor(store.heap, program, Meanings, stack, Upto(program, emitted, j))

PrintedMeaning ==
  /\ result = INTERPRET_RESULT_OK /\ stack = <<>> /\ Len(printed) = 1
  /\ Denotes(store.heap, printed[1], Meanings[Len(program)])

MeaningIInv ==
  Ref!Supported(program) /\ ConstantCount(chunk) <= 256 =>
    /\ phase \in {"compile", "run", "returned"}
    /\ phase = "run" => printed = <<>> /\ AtNode
    /\ phase = "returned" => PrintedMeaning

LEMMA MeaningInit == Init => MeaningIInv
BY DEF Init, CompilerInit, MeaningIInv

(* The first instruction finds the stack empty.                            *)
LEMMA CompileMeans ==
  ASSUME Hashed, IInv, LiteralsIInv, OrderIInv, SpokenIInv, Compile, UNCHANGED vmVars
  PROVE  MeaningIInv'
<1>1. /\ phase' \in {"compile", "run"} /\ stack' = <<>> /\ printed' = <<>> /\ ip' = 0
      /\ phase' = "run" => emitted' # <<>> /\ emitted'[1].offset = 0
  BY CompileSpeaks
<1> SUFFICES ASSUME Ref!Supported(program'), phase' = "run" PROVE AtNode'
  BY <1>1 DEF MeaningIInv
<1>2. IInv' /\ OrderIInv'
  BY CompilePreservesIInv, CompileInOrder
<1>3. PICK p, e, heap : p = program' /\ e = emitted' /\ heap = store'.heap
  OBVIOUS
<1>4. /\ p \in Programs /\ Len(e) \in Nat /\ e # <<>> /\ Len(e) >= 1 /\ e[1].offset = 0
  <2>1. p \in Programs /\ e \in Seq([node : Nat, offset : Nat]) /\ e # <<>> /\ e[1].offset = 0
    BY <1>1, <1>2, <1>3 DEF IInv, Tiles
  <2>2. Len(e) # 0 /\ Len(e) \in Nat
    BY <2>1, EmptySeq
  <2> QED
    BY <2>1, <2>2
<1>5. PostOrder(p, e)
  <2>1. CodeIsPostOrder'
    BY <1>2 DEF OrderIInv
  <2>2. ~HasSilent'
    <3>1. ~Silent(p)
      BY <1>3, <1>4, SupportedIsHeard
    <3> QED
      BY <1>3, <3>1 DEF HasSilent, Silent
  <2>3. phase' # "compile"
    OBVIOUS
  <2> QED
    BY <1>3, <2>1, <2>2, <2>3 DEF CodeIsPostOrder, PostOrder
<1>6. StandsFor(heap, p, Ref!Meaning(p), <<>>, Upto(p, e, 1))
  BY <1>4, <1>5, FirstStands
<1>7. 1 \in 1 .. Len(e)
  BY <1>4
<1> QED
  BY <1>1, <1>3, <1>4, <1>6, <1>7 DEF AtNode, Meanings

(* The code of a supported program that is run.                            *)
LEMMA SupportedCode ==
  ASSUME IInv, OrderIInv, phase = "run", Ref!Supported(program)
  PROVE  /\ program \in Programs /\ Tiles(chunk, emitted)
         /\ Len(emitted) \in Nat /\ emitted # <<>> /\ Len(emitted) >= 1
         /\ PostOrder(program, emitted)
<1>1. program \in Programs /\ Tiles(chunk, emitted) /\ emitted # <<>>
  BY DEF IInv, AtInstruction
<1>2. Len(emitted) \in Nat /\ Len(emitted) >= 1
  <2>1. emitted \in Seq([node : Nat, offset : Nat])
    BY <1>1 DEF Tiles
  <2>2. Len(emitted) # 0 /\ Len(emitted) \in Nat
    BY <1>1, <2>1, EmptySeq
  <2> QED
    BY <2>2
<1>3. ~HasSilent
  BY <1>1, SupportedIsHeard DEF HasSilent, Silent
<1>4. CodeIsPostOrder
  BY DEF OrderIInv
<1>5. PostOrder(program, emitted)
  BY <1>3, <1>4 DEF CodeIsPostOrder, PostOrder
<1> QED
  BY <1>1, <1>2, <1>5

(* The RETURN prints the value that stands for the tree.                   *)
LEMMA ReturnPrints ==
  ASSUME IInv, SpokenIInv, phase = "run", printed = <<>>, Execute,
         NEW S, stack \in Seq(S), program \in Programs,
         NEW j \in 1 .. Len(emitted), emitted[j].offset = ip, emitted[j].node = ROOT,
         StandsFor(store.heap, program, Meanings, stack, Upto(program, emitted, j))
  PROVE  phase' = "returned" /\ store' = store /\ result' = INTERPRET_RESULT_OK /\ stack' = <<>>
         /\ Len(printed') = 1 /\ Denotes(store.heap, printed'[1], Meanings[Len(program)])
<1>1. Len(stack) \in Nat /\ StandsFor(store.heap, program, Meanings, stack, Len(program))
  BY DEF Upto
<1>2. Len(stack) = 1 /\ Denotes(store.heap, stack[1], Meanings[Len(program)])
  BY <1>1, WholeStands
<1>3. Op = OPCODE_RETURN
  BY DEF SpokenIInv, Spoken, Speaks, Op
<1>4. Pops(Op) = 1
  BY <1>3, PopsOf
<1>5. Return
  BY <1>1, <1>2, <1>3, <1>4, Dispatch
<1>6. Peek(0) = stack[1]
  BY <1>2 DEF Peek, Depth
<1>7. Popped(1) = <<>>
  BY <1>2 DEF Popped, Depth
<1>8. PICK v : v = stack[1]
  OBVIOUS
<1>9. /\ phase' = "returned" /\ store' = store /\ result' = INTERPRET_RESULT_OK /\ stack' = <<>>
      /\ printed' = Append(<<>>, v)
  BY <1>5, <1>6, <1>7, <1>8 DEF Return
<1>10. Len(printed') = 1 /\ printed'[1] = v
  BY <1>9
<1> QED
  BY <1>2, <1>8, <1>9, <1>10

(* Each step of the machine computes one node, or prints.                  *)
LEMMA ExecuteMeans ==
  ASSUME Hashed, LowByteFirst, IInv, LiteralsIInv, OrderIInv, SoundIInv, SpokenIInv, MeaningIInv,
         Execute, UNCHANGED compilerVars
  PROVE  MeaningIInv'
<1>1. /\ chunk' = chunk /\ phase = "run" /\ program' = program /\ emitted' = emitted
  BY ExecuteKeepsCode DEF compilerVars
<1> SUFFICES ASSUME Ref!Supported(program), ConstantCount(chunk) <= 256
             PROVE  /\ phase' \in {"compile", "run", "returned"}
                    /\ phase' = "run" => printed' = <<>> /\ AtNode'
                    /\ phase' = "returned" => PrintedMeaning'
  BY <1>1 DEF MeaningIInv
<1>2. /\ program \in Programs /\ Tiles(chunk, emitted)
      /\ Len(emitted) \in Nat /\ emitted # <<>> /\ Len(emitted) >= 1
      /\ PostOrder(program, emitted)
  BY <1>1, SupportedCode
<1>3. PICK S : stack \in Seq(S)
  BY <1>1 DEF SoundIInv
<1>4. printed = <<>> /\ AtNode
  BY <1>1 DEF MeaningIInv
<1>5. PICK j \in 1 .. Len(emitted) :
        /\ emitted[j].offset = ip
        /\ StandsFor(store.heap, program, Meanings, stack, Upto(program, emitted, j))
  BY <1>4 DEF AtNode
<1>6. CASE emitted[j].node = ROOT
  <2>1. /\ phase' = "returned" /\ store' = store /\ result' = INTERPRET_RESULT_OK /\ stack' = <<>>
        /\ Len(printed') = 1 /\ Denotes(store.heap, printed'[1], Meanings[Len(program)])
    BY <1>1, <1>2, <1>3, <1>4, <1>5, <1>6, ReturnPrints
  <2> QED
    BY <1>1, <2>1 DEF PrintedMeaning, Meanings
<1>7. CASE emitted[j].node # ROOT
  <2>1. PICK n : n = emitted[j].node
    OBVIOUS
  <2>2. /\ j < Len(emitted) /\ j \in 1 .. Len(emitted) - 1 /\ j + 1 \in 1 .. Len(emitted)
        /\ n \in DOMAIN program /\ n # ROOT /\ program[n].kind # "GROUP"
    <3>1. j # Len(emitted)
      BY <1>2, <1>7, InstructionNodes
    <3>2. j < Len(emitted)
      BY <1>2, <3>1
    <3>3. n \in 1 .. Len(program) /\ program[n].kind # "GROUP"
      BY <1>2, <2>1, <3>2, InstructionNodes
    <3> QED
      BY <1>2, <1>7, <2>1, <3>2, <3>3, ProgramsAssumption
  <2>3. PICK r : StandsBy(store.heap, program, Meanings, stack, n - 1, r)
    <3>1. Upto(program, emitted, j) = n - 1
      BY <1>7, <2>1 DEF Upto
    <3> QED
      BY <1>5, <3>1 DEF StandsFor
  <2>4. NodeIsNext(n, r)
    <3>1. Speaks(program, n, Op)
      BY <1>5, <2>1 DEF SpokenIInv, Spoken, Op
    <3> QED
      BY <1>1, <1>2, <1>3, <2>2, <2>3, <3>1 DEF NodeIsNext
  <2>5. CarriedOut(n)
    BY <1>5, <2>1, <2>2, <2>4, InstructionCarriedOut
  <2>6. /\ phase' = "run" /\ printed' = <<>> /\ Len(stack') \in Nat
        /\ StandsFor(store'.heap, program, Ref!Meaning(program), stack', n)
    BY <1>4, <2>5 DEF CarriedOut
  <2>7. emitted[j + 1].offset = ip'
    <3>1. ip' = ip + InstructionLength(Op)
      BY <2>6, StepLength
    <3> QED
      BY <1>2, <1>5, <2>2, <3>1 DEF Tiles, Op
  <2>8. PICK heap, s, p, e : heap = store'.heap /\ s = stack' /\ p = program /\ e = emitted
    OBVIOUS
  <2>9. StandsFor(heap, p, Ref!Meaning(p), s, Upto(p, e, j + 1))
    <3>1. /\ p \in Programs /\ Len(e) \in Nat /\ e # <<>> /\ Len(e) >= 1 /\ PostOrder(p, e)
          /\ j \in 1 .. Len(e) - 1 /\ Len(s) \in Nat
          /\ StandsFor(heap, p, Ref!Meaning(p), s, e[j].node)
      BY <1>2, <2>1, <2>2, <2>6, <2>8
    <3> QED
      BY <3>1, NextStands
  <2>10. AtNode'
    <3>1. /\ emitted' = e /\ program' = p /\ emitted'[j + 1].offset = ip'
          /\ Meanings' = Ref!Meaning(p) /\ j + 1 \in 1 .. Len(emitted')
      BY <1>1, <2>2, <2>7, <2>8 DEF Meanings
    <3>2. StandsFor(store'.heap, program', Meanings', stack', Upto(program', emitted', j + 1))
      BY <2>8, <2>9, <3>1
    <3> QED
      BY <3>1, <3>2 DEF AtNode
  <2> QED
    BY <2>6, <2>10
<1> QED
  BY <1>6, <1>7

LEMMA SpokenStep ==
  ASSUME Hashed
  PROVE  IInv /\ LiteralsIInv /\ SpokenIInv /\ [Next]_vars => SpokenIInv'
<1> SUFFICES ASSUME IInv, LiteralsIInv, SpokenIInv, [Next]_vars PROVE SpokenIInv'
  OBVIOUS
<1>1. CASE Compile /\ UNCHANGED vmVars
  BY <1>1, CompileSpeaks
<1>2. CASE Execute /\ UNCHANGED compilerVars
  <2>1. chunk' = chunk /\ program' = program /\ emitted' = emitted /\ phase' # "compile"
    BY <1>2, ExecuteKeepsCode DEF compilerVars
  <2> QED
    BY <2>1 DEF SpokenIInv
<1>3. CASE UNCHANGED vars
  BY <1>3 DEF vars, compilerVars, vmVars, SpokenIInv
<1> QED
  BY <1>1, <1>2, <1>3 DEF Next, Terminated

LEMMA SpokenInvariant == ASSUME Hashed PROVE Spec => []SpokenIInv
BY SpokenStep, SpokenInit, InductiveInvariant, LiteralsInvariant, PTL DEF Spec

LEMMA MeaningStep ==
  ASSUME Hashed, LowByteFirst
  PROVE  IInv /\ LiteralsIInv /\ OrderIInv /\ SoundIInv /\ SpokenIInv /\ MeaningIInv /\ [Next]_vars
           => MeaningIInv'
<1> SUFFICES ASSUME IInv, LiteralsIInv, OrderIInv, SoundIInv, SpokenIInv, MeaningIInv, [Next]_vars
             PROVE  MeaningIInv'
  OBVIOUS
<1>1. CASE Compile /\ UNCHANGED vmVars
  BY <1>1, CompileMeans
<1>2. CASE Execute /\ UNCHANGED compilerVars
  BY <1>2, ExecuteMeans
<1>3. CASE UNCHANGED vars
  BY <1>3 DEF vars, compilerVars, vmVars, MeaningIInv, AtNode, PrintedMeaning, Meanings
<1> QED
  BY <1>1, <1>2, <1>3 DEF Next, Terminated

LEMMA MeaningInvariant == ASSUME Hashed, LowByteFirst PROVE Spec => []MeaningIInv
BY MeaningStep, MeaningInit, InductiveInvariant, LiteralsInvariant, OrderInvariant, SoundInvariant,
   SpokenInvariant, PTL DEF Spec

(* All that MeaningIInv rests on, for a program that has this one as a     *)
(* part.                                                                   *)
RunIInv == IInv /\ LiteralsIInv /\ OrderIInv /\ SoundIInv /\ SpokenIInv /\ MeaningIInv

LEMMA RunBegins == Init => RunIInv
BY InitialState, LiteralsInit, OrderInit, SoundInit, SpokenInit, MeaningInit DEF RunIInv

LEMMA RunGoesOn ==
  ASSUME Hashed, LowByteFirst, RunIInv, [Next]_vars
  PROVE  RunIInv'
BY IInvStep, LiteralsStep, OrderStep, SoundStep, SpokenStep, MeaningStep DEF RunIInv

LEMMA RunPrints ==
  ASSUME MeaningIInv, ConstantCount(chunk) <= 256
  PROVE  PrintsItsMeaning
<1> SUFFICES ASSUME phase \notin {"compile", "run"}, Ref!Supported(program)
             PROVE  /\ phase = "returned" /\ result = INTERPRET_RESULT_OK
                    /\ stack = <<>> /\ Len(printed) = 1
                    /\ Ref!SameMeaning(Denoted(printed[1]), Ref!Meaning(program)[Len(program)])
  BY DEF PrintsItsMeaning
<1>1. phase = "returned" /\ PrintedMeaning
  BY DEF MeaningIInv
<1>2. Denoted(printed[1]) = Meanings[Len(program)]
  BY <1>1 DEF PrintedMeaning, Denotes, Denoted
<1>3. \A x : Ref!SameMeaning(x, x)
  BY DEF Ref!SameMeaning
<1> QED
  BY <1>1, <1>2, <1>3 DEF PrintedMeaning, Meanings

-----------------------------------------------------------------------------
(* Types.  The integers of the machine are -h .. h - 1.                    *)
LEMMA IntegerRange ==
  \E h \in Nat \ {0} : /\ h = 2 ^ (INT_BITS - 1) /\ 2 ^ INT_BITS = 2 * h
                       /\ MinInteger = -h /\ -MinInteger - 1 = h - 1
<1>1. PICK h : h = 2 ^ (INT_BITS - 1)
  OBVIOUS
<1>2. h \in Nat \ {0} /\ 2 ^ INT_BITS = 2 * h
  BY <1>1, PowersAssumption
<1>3. -(-h) - 1 = h - 1
  BY <1>2
<1> QED
  BY <1>1, <1>2, <1>3 DEF MinInteger

(* What overflows wraps into the range.                                    *)
LEMMA WrapInRange ==
  ASSUME NEW i \in Int
  PROVE  Wrap(i) \in MinInteger .. -MinInteger - 1
<1>1. PICK h \in Nat \ {0} : /\ 2 ^ INT_BITS = 2 * h
                             /\ MinInteger = -h /\ -MinInteger - 1 = h - 1
  BY IntegerRange
<1>2. PICK w : w = 2 * h
  OBVIOUS
<1>3. PICK m : m = (i - (-h)) % w
  OBVIOUS
<1>4. m \in 0 .. w - 1
  <2>1. i - (-h) \in Int /\ w \in Nat /\ w > 0
    BY <1>2
  <2> QED
    BY <1>3, <2>1
<1>5. m + (-h) \in -h .. h - 1
  BY <1>2, <1>4
<1>6. Wrap(i) = m + (-h)
  BY <1>1, <1>2, <1>3 DEF Wrap
<1> QED
  BY <1>1, <1>5, <1>6

(* A quotient is no more than what is divided.                             *)
LEMMA QuotientBound ==
  ASSUME NEW x \in Nat, NEW y \in Nat \ {0}
  PROVE  x \div y \in Nat /\ x \div y <= x /\ (x > 0 /\ y > 1 => x \div y < x)
<1>1. x \div y \in Nat
  BY QuotientIsInteger
<1>2. x \div y <= x
  BY SMTT(20)
<1>3. ASSUME x > 0, y > 1 PROVE x \div y < x
  BY <1>3, SMTT(20)
<1> QED
  BY <1>1, <1>2, <1>3

(* A quotient that is not trapped fits.                                    *)
LEMMA TruncDivInRange ==
  ASSUME NEW i \in MinInteger .. -MinInteger - 1, NEW j \in MinInteger .. -MinInteger - 1,
         j # 0, ~(j = -1 /\ i = MinInteger)
  PROVE  TruncDiv(i, j) \in MinInteger .. -MinInteger - 1
<1>1. PICK h \in Nat \ {0} : MinInteger = -h /\ -MinInteger - 1 = h - 1
  BY IntegerRange
<1>2. i \in Int /\ j \in Int /\ -h <= i /\ i < h /\ -h <= j /\ j < h
  BY <1>1
<1>3. PICK m, n : m = Abs(i) /\ n = Abs(j)
  OBVIOUS
<1>4. m \in Nat /\ n \in Nat \ {0} /\ m <= h
  BY <1>2, <1>3 DEF Abs
<1>5. PICK q : q = m \div n
  OBVIOUS
<1>6. q \in Nat /\ q <= m /\ (m > 0 /\ n > 1 => q < m)
  BY <1>4, <1>5, QuotientBound
<1>7. TruncDiv(i, j) = IF (i < 0) = (j < 0) THEN q ELSE -q
  BY <1>3, <1>5 DEF TruncDiv
<1>8. CASE q < h
  BY <1>1, <1>6, <1>7, <1>8
<1>9. CASE q = h
  <2>1. m = h /\ n = 1
    BY <1>4, <1>6, <1>9
  <2>2. i = -h
    BY <1>2, <1>3, <2>1 DEF Abs
  <2>3. j = 1 \/ j = -1
    <3>1. PICK one : one = 1
      OBVIOUS
    <3>2. one \in Nat /\ n = one
      BY <2>1, <3>1
    <3>3. j = one \/ j = -one
      BY <1>2, <1>3, <3>2 DEF Abs
    <3> QED
      BY Zenon, <3>1, <3>3
  <2>4. j = 1
    BY Zenon, <1>1, <2>2, <2>3
  <2>5. i < 0 /\ ~(j < 0)
    BY <2>2, <2>4
  <2>6. TruncDiv(i, j) = -h
    BY <1>7, <1>9, <2>5
  <2>7. -h \in -h .. h - 1
    OBVIOUS
  <2> QED
    BY <1>1, <2>6, <2>7
<1> QED
  BY <1>4, <1>6, <1>8, <1>9

(* The values a step makes are of the type.                                *)
LEMMA ValuesMade ==
  /\ \A b : Bool(b) \in Values
  /\ \A n \in Int : Value("OBJ", n) \in Values
  /\ \A n \in MinInteger .. -MinInteger - 1 : Value("INTEGER", n) \in Values
  /\ \A n \in Int, d \in Nat : Real(n, d) \in Values
  /\ \A kind \in Kinds : Junk(kind) \in Values
<1>1. PICK h \in Nat \ {0} : MinInteger = -h /\ -MinInteger - 1 = h - 1
  BY IntegerRange
<1>2. Values = {v \in [kind : Kinds, num : Int, den : Nat] : v.kind = "INTEGER" => v.num \in -h .. h - 1}
  BY <1>1 DEF Values
<1>3. 0 \in -h .. h - 1 /\ -h .. h - 1 \subseteq Int
  OBVIOUS
<1>4. \A b : Bool(b) \in Values
  BY <1>2 DEF Bool, Value, Kinds
<1>5. \A n \in Int : Value("OBJ", n) \in Values
  BY <1>2 DEF Value, Kinds
<1>6. \A n \in -h .. h - 1 : Value("INTEGER", n) \in Values
  BY <1>2, <1>3 DEF Value, Kinds
<1>7. \A n \in Int, d \in Nat : Real(n, d) \in Values
  BY <1>2 DEF Real, Kinds
<1>8. \A kind \in Kinds : Junk(kind) \in Values
  BY <1>2, <1>3 DEF Junk
<1> QED
  BY <1>1, <1>4, <1>5, <1>6, <1>7, <1>8

(* A value is made of the members of the struct.                           *)
LEMMA ValueFacts ==
  ASSUME NEW v \in Values
  PROVE  /\ v = [kind |-> v.kind, num |-> v.num, den |-> v.den]
         /\ v.kind \in Kinds /\ v.num \in Int /\ v.den \in Nat
         /\ v.kind = "INTEGER" => v.num \in MinInteger .. -MinInteger - 1
BY DEF Values

(* The arithmetic of REALs stays among the fractions.                      *)
LEMMA RealIsTyped ==
  ASSUME NEW op \in {OPCODE_ADD, OPCODE_SUB, OPCODE_MUL, OPCODE_DIV}, NEW a \in Values, NEW b \in Values
  PROVE  RealOp(op, a, b) \in Values
<1>1. PICK m, d, n, e : m = a.num /\ d = a.den /\ n = b.num /\ e = b.den
  OBVIOUS
<1>2. m \in Int /\ d \in Nat /\ n \in Int /\ e \in Nat
  BY <1>1, ValueFacts
<1>3. m * e \in Int /\ n * d \in Int /\ m * n \in Int /\ d * n \in Int
  BY <1>2
<1>4. d * e \in Nat
  BY <1>2
<1>5. m * e + n * d \in Int /\ m * e - n * d \in Int
  BY <1>3
<1>6. \A x \in Int, y \in Nat : Real(x, y) \in Values
  BY ValuesMade
<1>7. RealQuotient(a, b) \in Values
  <2>1. PICK x, y : x = m * e /\ y = d * n
    OBVIOUS
  <2>2. x \in Int /\ y \in Int
    BY <1>3, <2>1
  <2>3. RealQuotient(a, b) = IF y = 0 THEN Junk("REAL") ELSE IF y < 0 THEN Real(-x, -y) ELSE Real(x, y)
    BY <1>1, <2>1 DEF RealQuotient
  <2>4. Junk("REAL") \in Values
    BY ValuesMade DEF Kinds
  <2>5. y < 0 => -x \in Int /\ -y \in Nat
    BY <2>2
  <2>6. ~(y < 0) => y \in Nat
    BY <2>2
  <2> QED
    BY <1>6, <2>2, <2>3, <2>4, <2>5, <2>6
<1>8. CASE op = OPCODE_ADD
  <2>1. RealOp(op, a, b) = Real(a.num * b.den + b.num * a.den, a.den * b.den)
    BY SMT, <1>8, ArithmeticOpcodes DEF RealOp
  <2>2. Real(m * e + n * d, d * e) \in Values
    BY Zenon, <1>4, <1>5, <1>6
  <2> QED
    BY Zenon, <1>1, <2>1, <2>2
<1>9. CASE op = OPCODE_SUB
  <2>1. RealOp(op, a, b) = Real(a.num * b.den - b.num * a.den, a.den * b.den)
    BY SMT, <1>9, ArithmeticOpcodes DEF RealOp
  <2>2. Real(m * e - n * d, d * e) \in Values
    BY Zenon, <1>4, <1>5, <1>6
  <2> QED
    BY Zenon, <1>1, <2>1, <2>2
<1>10. CASE op = OPCODE_MUL
  <2>1. RealOp(op, a, b) = Real(a.num * b.num, a.den * b.den)
    BY SMT, <1>10, ArithmeticOpcodes DEF RealOp
  <2>2. Real(m * n, d * e) \in Values
    BY Zenon, <1>4, <1>3, <1>6
  <2> QED
    BY Zenon, <1>1, <2>1, <2>2
<1>11. CASE op = OPCODE_DIV
  BY <1>7, <1>11 DEF RealOp, OPCODE_ADD, OPCODE_SUB, OPCODE_MUL, OPCODE_DIV
<1> QED
  BY <1>8, <1>9, <1>10, <1>11

(* So is every result of the processor's arithmetic.                       *)
LEMMA IntegerIsTyped ==
  ASSUME NEW op \in {OPCODE_ADD, OPCODE_SUB, OPCODE_MUL, OPCODE_DIV},
         NEW m \in MinInteger .. -MinInteger - 1, NEW n \in MinInteger .. -MinInteger - 1,
         op = OPCODE_DIV => n # 0 /\ ~(n = -1 /\ m = MinInteger)
  PROVE  IntegerOp(op, m, n) \in MinInteger .. -MinInteger - 1
<1>1. m \in Int /\ n \in Int
  <2>1. PICK h \in Nat \ {0} : MinInteger = -h /\ -MinInteger - 1 = h - 1
    BY IntegerRange
  <2> QED
    BY <2>1
<1>2. m + n \in Int /\ m - n \in Int /\ m * n \in Int
  BY <1>1
<1>3. CASE op = OPCODE_ADD
  <2>1. IntegerOp(op, m, n) = Wrap(m + n)
    BY SMT, <1>3, ArithmeticOpcodes DEF IntegerOp
  <2> QED
    BY Zenon, <1>2, <2>1, WrapInRange
<1>4. CASE op = OPCODE_SUB
  <2>1. IntegerOp(op, m, n) = Wrap(m - n)
    BY SMT, <1>4, ArithmeticOpcodes DEF IntegerOp
  <2> QED
    BY Zenon, <1>2, <2>1, WrapInRange
<1>5. CASE op = OPCODE_MUL
  <2>1. IntegerOp(op, m, n) = Wrap(m * n)
    BY SMT, <1>5, ArithmeticOpcodes DEF IntegerOp
  <2> QED
    BY Zenon, <1>2, <2>1, WrapInRange
<1>6. CASE op = OPCODE_DIV
  <2>1. TruncDiv(m, n) \in MinInteger .. -MinInteger - 1
    BY <1>6, TruncDivInRange
  <2> QED
    BY <1>6, <2>1 DEF IntegerOp, OPCODE_ADD, OPCODE_SUB, OPCODE_MUL, OPCODE_DIV
<1> QED
  BY <1>3, <1>4, <1>5, <1>6

(* So is every result of NUMBER_BINARY_OP that is not trapped.             *)
LEMMA NumberIsTyped ==
  ASSUME NEW op \in {OPCODE_ADD, OPCODE_SUB, OPCODE_MUL, OPCODE_DIV},
         NEW a \in Values, NEW b \in Values, ~MustTrap(op, a, b)
  PROVE  Number(op, a, b) \in Values
<1>1. Junk("REAL") \in Values /\ Junk(a.kind) \in Values
  BY ValuesMade, ValueFacts DEF Kinds
<1>2. RealOp(op, a, b) \in Values
  BY RealIsTyped
<1>3. ASSUME a.kind # "REAL", Holds(a, "INTEGER"), Holds(b, "INTEGER")
      PROVE  Value("INTEGER", IntegerOp(op, a.num, b.num)) \in Values
  <2>1. a.num \in MinInteger .. -MinInteger - 1 /\ b.num \in MinInteger .. -MinInteger - 1
    BY <1>3, ValueFacts DEF Holds
  <2>2. op = OPCODE_DIV => b.num # 0 /\ ~(b.num = -1 /\ a.num = MinInteger)
    BY <1>3 DEF MustTrap, MayTrap
  <2>3. IntegerOp(op, a.num, b.num) \in MinInteger .. -MinInteger - 1
    BY <2>1, <2>2, IntegerIsTyped
  <2> QED
    BY <2>3, ValuesMade
<1> QED
  BY <1>1, <1>2, <1>3 DEF Number

-----------------------------------------------------------------------------
(* Everything the machine holds is of its type.                            *)
TypedIInv ==
  /\ phase \in Phases
  /\ chunk.constants.elems \in Seq(Values)
  /\ emitted \in Seq([node : {ROOT} \cup DOMAIN program, offset : Nat])
  /\ ip \in Nat
  /\ stack \in Seq(Values) /\ printed \in Seq(Values)
  /\ result \in 0 .. 2 ^ RESULT_BITS - 1

(* The machine starts with nothing of any type.                            *)
LEMMA TypedInit == Init => TypedIInv
<1> SUFFICES ASSUME Init PROVE TypedIInv
  OBVIOUS
<1>1. /\ chunk = chunk_init /\ emitted = <<>> /\ phase = "compile"
      /\ ip = 0 /\ stack = <<>> /\ printed = <<>> /\ result = 0
  BY DEF Init, CompilerInit, VmInit, INTERPRET_RESULT_OK
<1>2. chunk.constants.elems = <<>>
  BY <1>1 DEF chunk_init, EmptyArray
<1>3. \A S : <<>> \in Seq(S)
  OBVIOUS
<1>4. 0 \in 0 .. 2 ^ RESULT_BITS - 1
  <2>1. PICK r : r = 2 ^ RESULT_BITS
    OBVIOUS
  <2>2. r \in Nat /\ r >= 4
    BY <2>1, ResultBitsAssumption
  <2> QED
    BY <2>1, <2>2
<1> QED
  BY <1>1, <1>2, <1>3, <1>4 DEF TypedIInv, Phases

(* A constant that is written, and an instruction that is.                 *)
LEMMA ConstantsAreTyped ==
  ASSUME WellFormed(chunk), chunk.constants.elems \in Seq(Values), NEW v \in Values, NEW l \in Nat,
         chunk' = WriteValue(chunk, v, l)
  PROVE  chunk'.constants.elems \in Seq(Values)
<1>1. PICK old, new : old = chunk.constants.elems /\ new = chunk'.constants.elems
  OBVIOUS
<1>2. new = Append(old, v)
  BY <1>1, ValueWritten DEF Loads
<1>3. old \in Seq(Values)
  BY <1>1
<1> QED
  BY <1>1, <1>2, <1>3

(* The instruction that is written is that of a node, or of the root.      *)
LEMMA EmittedIsTyped ==
  ASSUME WellFormed(chunk), emitted \in Seq([node : {ROOT} \cup DOMAIN program, offset : Nat]),
         program' = program, NEW n \in {ROOT} \cup DOMAIN program, Emitted(n)
  PROVE  emitted' \in Seq([node : {ROOT} \cup DOMAIN program', offset : Nat])
<1>1. PICK S : S = [node : {ROOT} \cup DOMAIN program, offset : Nat]
  OBVIOUS
<1>2. Len(chunk.code.elems) \in Nat
  BY DEF WellFormed
<1>3. [node |-> n, offset |-> Len(chunk.code.elems)] \in S
  BY <1>1, <1>2
<1>4. emitted' = Append(emitted, [node |-> n, offset |-> Len(chunk.code.elems)]) /\ emitted \in Seq(S)
  BY <1>1 DEF Emitted
<1> QED
  BY <1>1, <1>3, <1>4

(* The literals of a tree are of the type: an INTEGER is in range.         *)
LEMMA LiteralIsTyped ==
  ASSUME NEW p \in Programs, NEW n \in DOMAIN p, p[n].kind \in {"CHAR", "REAL", "INTEGER"}
  PROVE  p[n].value \in Values
<1>1. /\ p[n].value \in [kind : Kinds, num : Int, den : Int]
      /\ p[n].value.kind = p[n].kind
  BY NodeValues, ProgramsAssumption
<1>2. p[n].value.den \in Nat
  <2>1. p[n].kind \in {"CHAR", "INTEGER"} => p[n].value.den = 1
    BY LiteralsAssumption
  <2>2. p[n].kind = "REAL" => p[n].value.den > 0
    BY LiteralsAssumption
  <2> QED
    BY <1>1, <2>1, <2>2
<1>3. p[n].value.kind = "INTEGER" => p[n].value.num \in MinInteger .. -MinInteger - 1
  BY <1>1, IntegersAssumption
<1> QED
  BY <1>1, <1>2, <1>3 DEF Values

(* No step of the walk writes a value of another type.                     *)
LEMMA CompileIsTyped ==
  ASSUME IInv, LiteralsIInv, TypedIInv, Compile, UNCHANGED vmVars
  PROVE  TypedIInv'
<1>1. /\ program \in Programs /\ WellFormed(chunk)
      /\ \A n \in DOMAIN program : n \in Nat /\ program[n].line \in Nat
  BY ProgramFacts DEF IInv
<1>2. /\ ip' \in Nat /\ stack' \in Seq(Values) /\ printed' \in Seq(Values)
      /\ result' \in 0 .. 2 ^ RESULT_BITS - 1
  BY DEF TypedIInv, vmVars
<1> SUFFICES /\ phase' \in Phases /\ chunk'.constants.elems \in Seq(Values)
             /\ emitted' \in Seq([node : {ROOT} \cup DOMAIN program', offset : Nat])
  BY <1>2 DEF TypedIInv
<1>3. ASSUME NEW n \in DOMAIN program, NEW v \in Values, Emitted(n), program' = program, phase' = phase,
             chunk' = WriteValue(chunk, v, program[n].line)
      PROVE  /\ phase' \in Phases /\ chunk'.constants.elems \in Seq(Values)
             /\ emitted' \in Seq([node : {ROOT} \cup DOMAIN program', offset : Nat])
  BY <1>1, <1>3, ConstantsAreTyped, EmittedIsTyped DEF TypedIInv
<1>4. ASSUME NEW n \in {ROOT} \cup DOMAIN program, NEW byte, NEW l, Emitted(n), program' = program,
             phase' \in Phases, chunk' = ChunkWrite(chunk, byte, l)
      PROVE  /\ phase' \in Phases /\ chunk'.constants.elems \in Seq(Values)
             /\ emitted' \in Seq([node : {ROOT} \cup DOMAIN program', offset : Nat])
  <2>1. chunk'.constants = chunk.constants
    BY <1>1, <1>4 DEF ChunkWrite, WellFormed
  <2> QED
    BY <1>1, <1>4, <2>1, EmittedIsTyped DEF TypedIInv
<1>5. ASSUME chunk' = chunk, emitted' = emitted, program' = program, phase' \in Phases
      PROVE  /\ phase' \in Phases /\ chunk'.constants.elems \in Seq(Values)
             /\ emitted' \in Seq([node : {ROOT} \cup DOMAIN program', offset : Nat])
  BY <1>5 DEF TypedIInv
<1>6. ASSUME NEW n \in DOMAIN program, WriteNumber(n)
      PROVE  /\ phase' \in Phases /\ chunk'.constants.elems \in Seq(Values)
             /\ emitted' \in Seq([node : {ROOT} \cup DOMAIN program', offset : Nat])
  <2>1. /\ chunk' = WriteValue(chunk, program[n].value, program[n].line)
        /\ program[n].kind \in {"CHAR", "REAL", "INTEGER"}
        /\ Emitted(n) /\ program' = program /\ phase' = phase
    BY <1>6 DEF WriteNumber
  <2> QED
    BY <1>1, <1>3, <2>1, LiteralIsTyped
<1>7. ASSUME NEW n \in DOMAIN program, WriteString(n)
      PROVE  /\ phase' \in Phases /\ chunk'.constants.elems \in Seq(Values)
             /\ emitted' \in Seq([node : {ROOT} \cup DOMAIN program', offset : Nat])
  <2>1. PICK ref : ref = obj_string_ref(store, StringChars(program[n]))
    OBVIOUS
  <2>2. CASE ref.outcome = "ok"
    <3>1. PICK v : v = Value("OBJ", ref.string)
      OBVIOUS
    <3>2. /\ chunk' = WriteValue(chunk, v, program[n].line)
          /\ Emitted(n) /\ program' = program /\ phase' = phase
      BY <1>7, <2>1, <2>2, <3>1 DEF WriteString
    <3>3. ref.string = Len(store.heap) + 1 /\ Len(store.heap) \in Nat
      <4>1. StoreKept(store)
        BY DEF LiteralsIInv
      <4>2. Len(store.heap) \in Nat
        BY <4>1 DEF StoreKept
      <4> QED
        BY <2>1, <4>1, <4>2, StringMade DEF obj_string_ref
    <3>4. v \in Values
      BY <3>1, <3>3, ValuesMade
    <3> QED
      BY <1>3, <3>2, <3>4
  <2>3. CASE ref.outcome # "ok"
    <3>1. chunk' = chunk /\ emitted' = emitted /\ program' = program /\ phase' = "wild"
      BY <1>7, <2>1, <2>3 DEF WriteString
    <3> QED
      BY <1>5, <3>1 DEF Phases
  <2> QED
    BY <2>2, <2>3
<1>8. ASSUME NEW n \in DOMAIN program, WriteBool(n) \/ WriteOperator(n)
      PROVE  /\ phase' \in Phases /\ chunk'.constants.elems \in Seq(Values)
             /\ emitted' \in Seq([node : {ROOT} \cup DOMAIN program', offset : Nat])
  <2>1. Emitted(n) /\ program' = program /\ phase' = phase /\ \E byte, l : chunk' = ChunkWrite(chunk, byte, l)
    BY <1>8 DEF WriteBool, WriteOperator
  <2> QED
    BY <1>4, <2>1 DEF TypedIInv
<1>9. ASSUME NEW n \in DOMAIN program, VisitUnary(n) \/ VisitBinary(n) \/ VisitSilent(n)
      PROVE  /\ phase' \in Phases /\ chunk'.constants.elems \in Seq(Values)
             /\ emitted' \in Seq([node : {ROOT} \cup DOMAIN program', offset : Nat])
  <2>1. chunk' = chunk /\ emitted' = emitted /\ program' = program /\ phase' = phase
    BY <1>9 DEF VisitUnary, VisitBinary, VisitSilent
  <2> QED
    BY <1>5, <2>1 DEF TypedIInv
<1>10. ASSUME Finish
       PROVE  /\ phase' \in Phases /\ chunk'.constants.elems \in Seq(Values)
              /\ emitted' \in Seq([node : {ROOT} \cup DOMAIN program', offset : Nat])
  <2>1. Emitted(ROOT) /\ program' = program /\ phase' = "run" /\ \E byte, l : chunk' = ChunkWrite(chunk, byte, l)
    BY <1>10 DEF Finish
  <2> QED
    BY <1>4, <2>1 DEF Phases
<1> QED
  BY <1>6, <1>7, <1>8, <1>9, <1>10 DEF Compile

-----------------------------------------------------------------------------
(* What is left on the stack, put on it, and read there.                   *)
LEMMA PoppedIsTyped ==
  ASSUME stack \in Seq(Values), NEW k \in Nat
  PROVE  Popped(k) \in Seq(Values)
<1>1. Len(stack) - k \in Int /\ \A i \in 1 .. Len(stack) - k : stack[i] \in Values
  OBVIOUS
<1>2. SubSeq(stack, 1, Len(stack) - k) \in Seq(Values)
  BY <1>1, SubSeqProperties
<1> QED
  BY <1>2 DEF Popped, Depth

LEMMA LeftIsTyped ==
  ASSUME phase = "run", stack \in Seq(Values), NEW s \in Seq(Values), Leave(s)
  PROVE  phase' \in {"run", "wild"} /\ stack' \in Seq(Values)
BY DEF Leave

LEMMA PushedIsTyped ==
  ASSUME phase = "run", stack \in Seq(Values), NEW v \in Values, Push(v)
  PROVE  phase' \in {"run", "wild"} /\ stack' \in Seq(Values)
<1>1. PICK s : s = Popped(Pops(Op))
  OBVIOUS
<1>2. s \in Seq(Values)
  <2>1. Pops(Op) \in Nat
    BY DEF Pops
  <2> QED
    BY <1>1, <2>1, PoppedIsTyped
<1>3. Append(s, v) \in Seq(Values)
  BY <1>2
<1>4. Leave(Append(s, v))
  BY <1>1 DEF Push
<1> QED
  BY <1>3, <1>4, LeftIsTyped

LEMMA PeekIsTyped ==
  ASSUME stack \in Seq(Values), NEW d \in Nat, Depth >= d + 1
  PROVE  Peek(d) \in Values
<1>1. Len(stack) - d \in 1 .. Len(stack)
  BY DEF Depth
<1> QED
  BY <1>1 DEF Peek, Depth

(* The bytes of the instruction at ip are bytes.                           *)
LEMMA OperandIsByte ==
  ASSUME IInv, phase = "run", NEW x \in 0 .. InstructionLength(Op) - 1
  PROVE  CodeAt(chunk, ip + x) \in Byte
<1>1. PICK j \in 1 .. Len(emitted) : emitted[j].offset = ip
  BY DEF IInv, AtInstruction
<1>2. (ip + x) + 1 \in 1 .. Len(chunk.code.elems)
  BY <1>1, InstructionInCode DEF IInv, Op
<1>3. chunk.code.elems \in Seq(Byte)
  BY DEF IInv, WellFormed
<1> QED
  BY <1>2, <1>3 DEF CodeAt

(* A constant that is there is of the type; the index that reads it is a   *)
(* number, whichever order the operand bytes are read in.                  *)
LEMMA ConstantIsTyped ==
  ASSUME phase = "run", stack \in Seq(Values), chunk.constants.elems \in Seq(Values),
         NEW index \in Nat, PushConstant(index)
  PROVE  phase' \in {"run", "wild"} /\ stack' \in Seq(Values)
<1>1. CASE index < ConstantCount(chunk)
  <2>1. PICK v : v = chunk.constants.elems[index + 1]
    OBVIOUS
  <2>2. index + 1 \in 1 .. Len(chunk.constants.elems)
    BY <1>1 DEF ConstantCount
  <2>3. v \in Values
    BY <2>1, <2>2
  <2>4. Push(v)
    BY <1>1, <2>1 DEF PushConstant
  <2> QED
    BY <2>3, <2>4, PushedIsTyped
<1>2. CASE ~(index < ConstantCount(chunk))
  BY <1>2 DEF PushConstant
<1> QED
  BY <1>1, <1>2

(* The operation that ends a run in the place of a negation.               *)
LEMMA NegatedIsTyped ==
  ASSUME stack \in Seq(Values), result \in 0 .. 2 ^ RESULT_BITS - 1, NegateInteger
  PROVE  stack' \in Seq(Values) /\ result' \in 0 .. 2 ^ RESULT_BITS - 1
<1>1. PICK w : w = 2 ^ RESULT_BITS
  OBVIOUS
<1>2. w \in Nat /\ w >= 4
  BY <1>1, ResultBitsAssumption
<1>3. PICK v : v = Peek(0)
  OBVIOUS
<1>4. Depth >= 0 + 1 /\ v.kind = "INTEGER"
  BY <1>3, PopsOf DEF NegateInteger, Executing
<1>5. v \in Values
  BY <1>3, <1>4, PeekIsTyped
<1>6. -v.num \in Int
  BY <1>5, ValueFacts
<1>7. PICK m : m = Wrap(-v.num)
  OBVIOUS
<1>8. m \in MinInteger .. -MinInteger - 1
  BY <1>6, <1>7, WrapInRange
<1>9. [v EXCEPT !.num = m] \in Values
  <2>1. PICK u : u = [v EXCEPT !.num = m]
    OBVIOUS
  <2>2. v = [kind |-> v.kind, num |-> v.num, den |-> v.den] /\ v.kind \in Kinds /\ v.den \in Nat
    BY <1>5, ValueFacts
  <2>3. u = [kind |-> v.kind, num |-> m, den |-> v.den]
    BY <2>1, <2>2
  <2>4. m \in Int
    <3>1. PICK h \in Nat \ {0} : MinInteger = -h /\ -MinInteger - 1 = h - 1
      BY IntegerRange
    <3> QED
      BY <1>8, <3>1
  <2>5. u \in [kind : Kinds, num : Int, den : Nat] /\ u.num = m
    BY <2>2, <2>3, <2>4
  <2> QED
    BY <1>8, <2>1, <2>5 DEF Values
<1>10. stack' = Append(Popped(1), [v EXCEPT !.num = m])
  BY <1>3, <1>7 DEF NegateInteger
<1>11. Popped(1) \in Seq(Values)
  BY PoppedIsTyped
<1>12. stack' \in Seq(Values)
  BY <1>9, <1>10, <1>11
<1>13. m \in Int
  <2>1. PICK h \in Nat \ {0} : MinInteger = -h /\ -MinInteger - 1 = h - 1
    BY IntegerRange
  <2> QED
    BY <1>8, <2>1
<1>14. m % w \in 0 .. w - 1
  BY <1>2, <1>13
<1>15. result' \in 0 .. 3 \/ result' = m % w
  BY <1>1, <1>3, <1>7 DEF NegateInteger, AsResult
<1>16. result' \in 0 .. w - 1
  BY <1>2, <1>14, <1>15
<1> QED
  BY <1>1, <1>12, <1>16

(* The string that & makes has a number.                                   *)
LEMMA ConcatIsTyped ==
  ASSUME phase = "run", stack \in Seq(Values), StoreKept(store), Concat
  PROVE  phase' \in {"run", "wild"} /\ stack' \in Seq(Values)
<1>1. CASE phase' = "wild" /\ UNCHANGED stack
  BY <1>1
<1>2. ASSUME NEW copy, copy = obj_string_copy(store, Joined), Push(Value("OBJ", copy.string))
      PROVE  phase' \in {"run", "wild"} /\ stack' \in Seq(Values)
  <2>1. Len(store.heap) \in Nat
    BY DEF StoreKept
  <2>2. copy.string = Len(store.heap) + 1
    BY <1>2, StringMade DEF obj_string_copy
  <2>3. Value("OBJ", copy.string) \in Values
    BY <2>1, <2>2, ValuesMade
  <2> QED
    BY <1>2, <2>3, PushedIsTyped
<1> QED
  BY <1>1, <1>2 DEF Concat

(* No instruction leaves a value of another type.                          *)
LEMMA ExecuteIsTyped ==
  ASSUME IInv, LiteralsIInv, TypedIInv, Execute, UNCHANGED compilerVars
  PROVE  TypedIInv'
<1>1. chunk' = chunk /\ phase = "run" /\ program' = program /\ emitted' = emitted
  BY ExecuteKeepsCode DEF compilerVars
<1>2. /\ stack \in Seq(Values) /\ printed \in Seq(Values) /\ ip \in Nat
      /\ result \in 0 .. 2 ^ RESULT_BITS - 1 /\ chunk.constants.elems \in Seq(Values)
  BY DEF TypedIInv
<1>3. ip' \in Nat
  <2>1. ip' = ip \/ \E k \in Nat : ip' = ip + k
    BY DEF Execute, Constant, ConstantLong, LongIndexBytes, Truth, Arithmetic, Trap, NegateReal, NegateInteger,
           NegateOther, Not, Equality, Comparison, Concat, Return, Underflow, Advance
  <2> QED
    BY <1>2, <2>1
<1> SUFFICES /\ phase' \in Phases /\ stack' \in Seq(Values) /\ printed' \in Seq(Values)
             /\ result' \in 0 .. 2 ^ RESULT_BITS - 1
  BY <1>1, <1>2, <1>3 DEF TypedIInv
<1>4. ASSUME phase' \in {"run", "wild"} /\ stack' \in Seq(Values), printed' = printed, result' = result
      PROVE  /\ phase' \in Phases /\ stack' \in Seq(Values) /\ printed' \in Seq(Values)
             /\ result' \in 0 .. 2 ^ RESULT_BITS - 1
  BY <1>2, <1>4 DEF Phases
<1>5. ASSUME NEW v \in Values, Push(v), printed' = printed, result' = result
      PROVE  /\ phase' \in Phases /\ stack' \in Seq(Values) /\ printed' \in Seq(Values)
             /\ result' \in 0 .. 2 ^ RESULT_BITS - 1
  BY <1>1, <1>2, <1>4, <1>5, PushedIsTyped
<1>6. CASE Constant
  <2>1. Op = OPCODE_CONSTANT /\ PushConstant(CodeAt(chunk, ip + 1)) /\ printed' = printed /\ result' = result
    BY <1>6 DEF Constant, Executing
  <2>2. CodeAt(chunk, ip + 1) \in Byte
    <3>1. 1 \in 0 .. InstructionLength(Op) - 1
      BY <2>1 DEF InstructionLength
    <3> QED
      BY <1>1, <3>1, OperandIsByte
  <2>3. CodeAt(chunk, ip + 1) \in Nat
    BY <2>2 DEF Byte
  <2> QED
    BY <1>1, <1>2, <1>4, <2>1, <2>3, ConstantIsTyped
<1>7. CASE ConstantLong
  <2>1. Op = OPCODE_CONSTANT_LONG /\ printed' = printed /\ result' = result
    BY <1>7 DEF ConstantLong, Executing
  <2>2. PICK order \in READ_ORDERS :
          PushConstant(CodeAt(chunk, ip + order[1]) + 256 * CodeAt(chunk, ip + order[2])
                         + 65536 * CodeAt(chunk, ip + order[3]))
    BY <1>7 DEF ConstantLong
  <2>3. order[1] \in 1 .. 3 /\ order[2] \in 1 .. 3 /\ order[3] \in 1 .. 3
    BY ReadOrdersAssumption
  <2>4. \A x \in 1 .. 3 : CodeAt(chunk, ip + x) \in Nat
    <3>1. \A x \in 1 .. 3 : x \in 0 .. InstructionLength(Op) - 1
      BY <2>1 DEF InstructionLength, OPCODE_CONSTANT, OPCODE_CONSTANT_LONG
    <3>2. \A x \in 1 .. 3 : CodeAt(chunk, ip + x) \in Byte
      BY <1>1, <3>1, OperandIsByte
    <3> QED
      BY <3>2 DEF Byte
  <2>5. PICK l, m, h : /\ l = CodeAt(chunk, ip + order[1]) /\ m = CodeAt(chunk, ip + order[2])
                       /\ h = CodeAt(chunk, ip + order[3])
    OBVIOUS
  <2>6. l \in Nat /\ m \in Nat /\ h \in Nat
    BY <2>3, <2>4, <2>5
  <2>7. l + 256 * m + 65536 * h \in Nat
    BY <2>6
  <2>8. PushConstant(l + 256 * m + 65536 * h)
    BY <2>2, <2>5
  <2> QED
    BY <1>1, <1>2, <1>4, <2>1, <2>7, <2>8, ConstantIsTyped
<1>8. CASE Truth
  BY <1>5, <1>8, ValuesMade DEF Truth
<1>9. CASE Arithmetic
  <2>1. PICK op, a, b : op = Op /\ a = Peek(1) /\ b = Peek(0)
    OBVIOUS
  <2>2. /\ op \in {OPCODE_ADD, OPCODE_SUB, OPCODE_MUL, OPCODE_DIV} /\ ~MustTrap(op, a, b)
        /\ Depth >= Pops(op) /\ Push(Number(op, a, b)) /\ printed' = printed /\ result' = result
    BY <1>9, <2>1 DEF Arithmetic, Executing
  <2>3. Depth >= 0 + 1 /\ Depth >= 1 + 1
    <3>1. Pops(op) = 2
      BY <2>2, PopsOf DEF OPCODE_ADD, OPCODE_SUB, OPCODE_MUL, OPCODE_DIV, OPCODE_CONCAT
    <3>2. Depth \in Nat
      BY <1>2 DEF Depth
    <3> QED
      BY <2>2, <3>1, <3>2
  <2>4. a \in Values /\ b \in Values
    BY <1>2, <2>1, <2>3, PeekIsTyped
  <2>5. Number(op, a, b) \in Values
    BY <2>2, <2>4, NumberIsTyped
  <2> QED
    BY <1>5, <2>2, <2>5
<1>10. CASE Trap \/ NegateOther \/ Underflow
  <2>1. /\ phase' \in {"trap", "returned", "wild"} /\ stack' = stack /\ printed' = printed
        /\ result' = result \/ result' = INTERPRET_RESULT_RUNTIME_ERROR
    BY <1>10 DEF Trap, NegateOther, Underflow
  <2>2. INTERPRET_RESULT_RUNTIME_ERROR \in 0 .. 2 ^ RESULT_BITS - 1
    <3>1. PICK w : w = 2 ^ RESULT_BITS
      OBVIOUS
    <3>2. w \in Nat /\ w >= 4
      BY <3>1, ResultBitsAssumption
    <3> QED
      BY <3>1, <3>2 DEF INTERPRET_RESULT_RUNTIME_ERROR
  <2> QED
    BY <1>2, <2>1, <2>2 DEF Phases
<1>11. CASE NegateReal
  <2>1. PICK v : v = Peek(0)
    OBVIOUS
  <2>2. Depth >= 0 + 1 /\ v.kind = "REAL" /\ Push([v EXCEPT !.num = -@]) /\ printed' = printed /\ result' = result
    BY <1>11, <2>1, PopsOf DEF NegateReal, Executing
  <2>3. v \in Values
    BY <1>2, <2>1, <2>2, PeekIsTyped
  <2>4. [v EXCEPT !.num = -@] \in Values
    BY <2>2, <2>3 DEF Values
  <2> QED
    BY <1>5, <2>2, <2>4
<1>12. CASE NegateInteger
  <2>1. phase' = "returned" /\ printed' = printed
    BY <1>12 DEF NegateInteger
  <2> QED
    BY <1>2, <1>12, <2>1, NegatedIsTyped DEF Phases
<1>13. CASE Not
  <2>1. PICK v : v = Peek(0)
    OBVIOUS
  <2>2. PICK w : w = IF Holds(v, "BOOL") THEN Bool(~IsTrue(v)) ELSE Junk(v.kind)
    OBVIOUS
  <2>3. Depth >= 0 + 1 /\ Push(w) /\ printed' = printed /\ result' = result
    BY <1>13, <2>1, <2>2, PopsOf DEF Not, Executing
  <2>4. v.kind \in Kinds
    BY <1>2, <2>1, <2>3, PeekIsTyped, ValueFacts
  <2>5. w \in Values
    BY <2>2, <2>4, ValuesMade
  <2> QED
    BY <1>5, <2>3, <2>5
<1>14. CASE Equality
  BY <1>5, <1>14, ValuesMade DEF Equality
<1>15. CASE Comparison
  <2>1. printed' = printed /\ result' = result
    BY <1>15 DEF Comparison
  <2>2. CASE Peek(1).kind \in Uncompared
    <3>1. PICK s : s = Popped(2) /\ Leave(s)
      BY <1>15, <2>2 DEF Comparison
    <3>2. s \in Seq(Values)
      BY <1>2, <3>1, PoppedIsTyped
    <3> QED
      BY <1>1, <1>2, <1>4, <2>1, <3>1, <3>2, LeftIsTyped
  <2>3. CASE Peek(1).kind \notin Uncompared
    BY <1>5, <1>15, <2>1, <2>3, ValuesMade DEF Comparison
  <2> QED
    BY <2>2, <2>3
<1>16. CASE Concat
  <2>1. printed' = printed /\ result' = result
    BY <1>16 DEF Concat
  <2> QED
    BY <1>1, <1>2, <1>4, <1>16, <2>1, ConcatIsTyped DEF LiteralsIInv
<1>17. CASE Return
  <2>1. PICK v : v = Peek(0)
    OBVIOUS
  <2>2. /\ Depth >= 0 + 1 /\ printed' = Append(printed, v) /\ stack' = Popped(1)
        /\ phase' = "returned" /\ result' = INTERPRET_RESULT_OK
    BY <1>17, <2>1, PopsOf DEF Return, Executing
  <2>3. v \in Values
    BY <1>2, <2>1, <2>2, PeekIsTyped
  <2>4. printed' \in Seq(Values)
    BY <1>2, <2>2, <2>3
  <2>5. stack' \in Seq(Values)
    BY <1>2, <2>2, PoppedIsTyped
  <2>6. INTERPRET_RESULT_OK \in 0 .. 2 ^ RESULT_BITS - 1
    <3>1. PICK w : w = 2 ^ RESULT_BITS
      OBVIOUS
    <3>2. w \in Nat /\ w >= 4
      BY <3>1, ResultBitsAssumption
    <3> QED
      BY <3>1, <3>2 DEF INTERPRET_RESULT_OK
  <2> QED
    BY <2>2, <2>4, <2>5, <2>6 DEF Phases
<1> QED
  BY <1>6, <1>7, <1>8, <1>9, <1>10, <1>11, <1>12, <1>13, <1>14, <1>15, <1>16, <1>17 DEF Execute

-----------------------------------------------------------------------------
(* Every value of the chunk, of the stack and of the output is a value of  *)
(* the machine: no step of _run makes an INTEGER wider than it or a value  *)
(* of no kind, whatever the program, the widths and the order in which the *)
(* build reads an operand.                                                 *)
THEOREM TypeCorrect == Spec => []TypeOK
<1>1. IInv /\ LiteralsIInv /\ TypedIInv /\ [Next]_vars => TypedIInv'
  <2> SUFFICES ASSUME IInv, LiteralsIInv, TypedIInv, [Next]_vars PROVE TypedIInv'
    OBVIOUS
  <2>1. CASE Compile /\ UNCHANGED vmVars
    BY <2>1, CompileIsTyped
  <2>2. CASE Execute /\ UNCHANGED compilerVars
    BY <2>2, ExecuteIsTyped
  <2>3. CASE UNCHANGED vars
    BY <2>3 DEF vars, compilerVars, vmVars, TypedIInv
  <2> QED
    BY <2>1, <2>2, <2>3 DEF Next, Terminated
<1>2. IInv /\ TypedIInv => TypeOK
  BY DEF IInv, TypedIInv, TypeOK, WellFormed, Pending
<1> QED
  BY <1>1, <1>2, TypedInit, InductiveInvariant, LiteralsInvariant, PTL DEF Spec

(* The bytes chunk_write_from_ast writes are a sequence of instructions,   *)
(* for every tree and wherever the long form of a constant sets in.        *)
THEOREM CodeIsTiled == Spec => []InstructionsTile
<1>1. IInv => InstructionsTile
  <2> SUFFICES ASSUME Tiles(chunk, emitted) PROVE InstructionsTile
    BY DEF IInv
  <2>1. DOMAIN emitted = 1 .. Len(emitted)
    BY DEF Tiles
  <2> QED
    BY <2>1 DEF Tiles, InstructionsTile, NextOffset, OpOf, CodeSize
<1> QED
  BY <1>1, InductiveInvariant, PTL

(* No array of a chunk is written beyond the block it was given.           *)
THEOREM ChunkFits == Spec => []ArraysFit
<1>1. IInv => ArraysFit
  BY DEF IInv, WellFormed, Fits, ArraysFit
<1> QED
  BY <1>1, InductiveInvariant, PTL

(* READ_BYTE never takes an operand for an opcode and never runs past the  *)
(* end of the code, whatever the tree, the operands' kinds or the order in *)
(* which a build reads a long operand.                                     *)
THEOREM MachineInStep == Spec => []IpAligned
<1>1. IInv => IpAligned
  <2> SUFFICES ASSUME IInv, phase = "run"
               PROVE  \E j \in DOMAIN emitted : emitted[j].offset = ip
    BY DEF IpAligned
  <2>1. DOMAIN emitted = 1 .. Len(emitted)
    BY DEF IInv, Tiles
  <2> QED
    BY <2>1 DEF IInv, AtInstruction
<1> QED
  BY <1>1, InductiveInvariant, PTL

(* Every constant instruction names the literal it was written for, by an  *)
(* index that is whole in the short form and kept modulo 256 in the long.  *)
THEOREM OperandsNameLiterals == Spec => []OperandNamesLiteral
<1>1. IInv /\ LiteralsIInv => OperandNamesLiteral
  <2> SUFFICES ASSUME IInv, LiteralsIInv PROVE OperandNamesLiteral
    OBVIOUS
  <2>1. DOMAIN emitted = 1 .. Len(emitted)
    BY DEF IInv, Tiles
  <2>2. \A j \in DOMAIN emitted : OpOf(j) = CodeAt(chunk, emitted[j].offset)
    BY DEF OpOf
  <2>3. \A j \in DOMAIN emitted : IsConstant(j) <=> IsLoad(chunk, emitted, j)
    BY DEF IsConstant, IsLoad, LoadOpcodes, OpOf
  <2>4. ASSUME NEW j \in DOMAIN emitted PROVE LiteralIndex(j) = Loaded(chunk, emitted, j)
    BY DEF LiteralIndex, Loaded, LoadsBefore, IsConstant, IsLoad, LoadOpcodes, OpOf
  <2>5. \A j \in DOMAIN emitted : LiteralOf(j) = LiteralAt(program, emitted[j].node)
    BY DEF LiteralOf, LiteralAt
  <2>6. \A v : Shown(v) = ShownIn(store.heap, v)
    BY DEF Shown, ShownIn
  <2> SUFFICES ASSUME NEW j \in DOMAIN emitted, IsConstant(j)
               PROVE  /\ CodeAt(chunk, emitted[j].offset + 1) = LiteralIndex(j) % 256
                      /\ OpOf(j) = OPCODE_CONSTANT_LONG =>
                           /\ CodeAt(chunk, emitted[j].offset + 2) = 0
                           /\ CodeAt(chunk, emitted[j].offset + 3) = 0
                      /\ OpOf(j) = OPCODE_CONSTANT => LiteralIndex(j) < 256
                      /\ Shown(chunk.constants.elems[LiteralIndex(j) + 1]) = LiteralOf(j)
    BY DEF OperandNamesLiteral
  <2>7. NamesLiteral(chunk, emitted, program, store.heap, j)
    BY <2>1, <2>3 DEF LiteralsIInv, ConstantsNamed
  <2> QED
    BY <2>2, <2>4, <2>5, <2>6, <2>7 DEF NamesLiteral
<1> QED
  BY <1>1, InductiveInvariant, LiteralsInvariant, PTL

(* The list of the machine's objects holds each string that owns its chars *)
(* once, the latest first, and no string made for a literal.               *)
THEOREM StringsAreOwned == Spec => []ObjectsAreOwned
<1>1. LiteralsIInv => ObjectsAreOwned
  BY DEF LiteralsIInv, ListsOwned, OwnedIds, ObjectsAreOwned
<1> QED
  BY <1>1, LiteralsInvariant, PTL

(* Operands before operators, left before right, each node once, all nodes *)
(* if no operator is dropped, and the RETURN last: for every tree, as long *)
(* as table_hash has a number for every string.                            *)
THEOREM CodeInPostOrder == ASSUME Hashed PROVE Spec => []CodeIsPostOrder
<1>1. IInv /\ OrderIInv => CodeIsPostOrder
  <2> SUFFICES ASSUME IInv, OrderIInv, phase = "compile" PROVE CodeIsPostOrder
    BY DEF OrderIInv
  <2>1. PICK s \in Marks : WrittenTo(chunk, emitted, program, s)
    BY DEF OrderIInv
  <2> QED
    BY <2>1 DEF CodeIsPostOrder, WrittenTo, InOrder
<1> QED
  BY <1>1, InductiveInvariant, OrderInvariant, PTL

(* The machine leaves its stack, reads a constant that is not there or     *)
(* follows a pointer that is none only when an operator was dropped or a   *)
(* string was in the program: whatever the numbers, truth values and       *)
(* operators that a tree is made of.                                       *)
THEOREM WildlyOnlyWithCause == ASSUME Hashed, LowByteFirst PROVE Spec => []WildHasCause
<1>1. TameIInv => WildHasCause
  BY DEF TameIInv, Tame, WildHasCause
<1> QED
  BY <1>1, TameInvariant, PTL

(* A constant instruction pushes the literal it was written for, or number *)
(* i modulo 256 when i literals were written before it: as long as the     *)
(* build reads the low byte of a long operand first.                       *)
THEOREM FetchesLiteral == ASSUME LowByteFirst PROVE Spec => FetchedConstant
<1>1. IInv /\ LiteralsIInv /\ SoundIInv /\ [Next]_vars =>
        [\A j \in DOMAIN emitted :
           phase = "run" /\ ip # ip' /\ emitted[j].offset = ip /\ IsConstant(j) =>
             /\ phase' = "run"
             /\ stack' = Append(stack, chunk.constants.elems[(LiteralIndex(j) % 256) + 1])]_vars
  <2> SUFFICES ASSUME IInv, LiteralsIInv, SoundIInv, Next,
                      NEW j \in DOMAIN emitted, phase = "run", ip # ip',
                      emitted[j].offset = ip, IsConstant(j)
               PROVE  /\ phase' = "run"
                      /\ stack' = Append(stack, chunk.constants.elems[(LiteralIndex(j) % 256) + 1])
    OBVIOUS
  <2>1. j \in 1 .. Len(emitted) /\ Op \in LoadOpcodes
    BY DEF IInv, Tiles, IsConstant, OpOf, Op, LoadOpcodes
  <2>2. LiteralIndex(j) = Loaded(chunk, emitted, j)
    BY DEF LiteralIndex, Loaded, LoadsBefore, IsConstant, IsLoad, LoadOpcodes, OpOf
  <2>3. Execute
    BY DEF Next, Terminated, vars, vmVars
  <2> QED
    BY <2>1, <2>2, <2>3, ConstantFetched
<1> QED
  BY <1>1, InductiveInvariant, LiteralsInvariant, SoundInvariant, PTL DEF Spec, FetchedConstant

(* The trace that is printed before an instruction tells the truth about   *)
(* it: the disassembler of chunk.c and the loop of vm.c, which read the    *)
(* operand of CONSTANT_LONG in two different ways, find the same constant  *)
(* and go on at the same offset, on a build that reads the low byte first. *)
THEOREM TraceTellsTruth == ASSUME LowByteFirst PROVE Spec => TraceIsTrue
<1>1. ASSUME IInv, LiteralsIInv, SoundIInv, phase = "run", Execute, phase' = "run"
      PROVE  /\ ip' = DisassembledNext(chunk, ip)
             /\ Op \in {OPCODE_CONSTANT, OPCODE_CONSTANT_LONG} =>
                  stack'[Len(stack')] = chunk.constants.elems[DisassembledIndex(chunk, ip) + 1]
  <2>1. ip' = DisassembledNext(chunk, ip)
    BY <1>1, StepLength DEF DisassembledNext, Op
  <2>2. ASSUME Op \in LoadOpcodes
        PROVE  stack'[Len(stack')] = chunk.constants.elems[DisassembledIndex(chunk, ip) + 1]
    <3>1. PICK j \in 1 .. Len(emitted) : emitted[j].offset = ip
      BY <1>1 DEF IInv, AtInstruction
    <3>2. PICK i : i = Loaded(chunk, emitted, j) % 256
      OBVIOUS
    <3>3. stack' = Append(stack, chunk.constants.elems[i + 1])
      BY <1>1, <2>2, <3>1, <3>2, ConstantFetched
    <3>4. DisassembledIndex(chunk, ip) = i
      BY <1>1, <2>2, <3>1, <3>2, IndexDisassembled
    <3>5. \E S : stack \in Seq(S)
      BY <1>1 DEF SoundIInv
    <3>6. PICK v : v = chunk.constants.elems[i + 1]
      OBVIOUS
    <3>7. stack'[Len(stack')] = v
      BY <3>3, <3>5, <3>6
    <3> QED
      BY <3>4, <3>6, <3>7
  <2> QED
    BY <2>1, <2>2 DEF LoadOpcodes
<1>2. IInv /\ LiteralsIInv /\ SoundIInv /\ [Next]_vars =>
        [phase = "run" /\ Execute =>
           /\ phase' = "run" => ip' = DisassembledNext(chunk, ip)
           /\ Op \in {OPCODE_CONSTANT, OPCODE_CONSTANT_LONG} /\ phase' = "run" =>
                stack'[Len(stack')] = chunk.constants.elems[DisassembledIndex(chunk, ip) + 1]]_vars
  BY <1>1
<1> QED
  BY <1>2, InductiveInvariant, LiteralsInvariant, SoundInvariant, PTL DEF Spec, TraceIsTrue

(* A program of the supported kind prints what it means, and nothing else: *)
(* chunk_write_from_ast and _run, for every such tree, carry out the       *)
(* meaning of its operators, as long as its constants are numbered by one  *)
(* byte (a later one is fetched as another: FetchesLiteral) and the build  *)
(* takes the first byte of a long operand for its low one.                 *)
THEOREM PrintsMeaning ==
  ASSUME Hashed, LowByteFirst
  PROVE  Spec => [](ConstantCount(chunk) <= 256 => PrintsItsMeaning)
<1>1. MeaningIInv => (ConstantCount(chunk) <= 256 => PrintsItsMeaning)
  BY RunPrints
<1> QED
  BY <1>1, MeaningInvariant, PTL
=============================================================================
