-------------------------- MODULE ChunkOps_proofs --------------------------
(***************************************************************************)
(* Lemmas about the arrays of a chunk: what a byte, a constant and an      *)
(* instruction leave in them, and that they never outgrow their blocks.    *)
(***************************************************************************)
EXTENDS ChunkOps, WellFoundedInduction, TLAPS

(* Induction, from the well-ordering of the naturals.                      *)
LEMMA Induction ==
  ASSUME NEW S, 0 \in S, \A m \in Nat : m \in S => m + 1 \in S
  PROVE  Nat \subseteq S
<1> DEFINE R == OpToRel(<, Nat)
<1>1. IsWellFoundedOn(R, Nat)
  BY NatLessThanWellFounded
<1>2. \A m, p \in Nat : m < p => <<m, p>> \in R
  BY DEF OpToRel
<1> HIDE DEF R
<1> SUFFICES ASSUME ~(Nat \subseteq S) PROVE FALSE
  OBVIOUS
<1>3. PICK p \in Nat \ S : \A m \in Nat \ S : ~(<<m, p>> \in R)
  BY <1>1, WFMin
<1>4. p # 0 /\ p - 1 \in Nat /\ p - 1 < p /\ (p - 1) + 1 = p
  BY <1>3
<1>5. p - 1 \notin S
  <2>1. p - 1 \in S => (p - 1) + 1 \in S
    BY <1>4
  <2> QED
    BY <1>3, <1>4, <2>1
<1> QED
  BY <1>2, <1>3, <1>4, <1>5

-----------------------------------------------------------------------------
(* The line table.                                                         *)

(* What _line_write leaves in the array when the byte joins the last run.  *)
LEMMA ContinueRun ==
  ASSUME NEW a, a.elems \in Seq(Runs), a.capacity \in Nat \ {0}, NEW l \in Nat,
         ContinuesRun(a, l)
  PROVE  /\ LineWrite(a, l) \in [elems : Seq(Runs), capacity : Nat \ {0}]
         /\ LineWrite(a, l).capacity = a.capacity
         /\ Len(LineWrite(a, l).elems) = Len(a.elems)
         /\ Len(a.elems) > 0
         /\ \A r \in 1 .. Len(a.elems) :
              LineWrite(a, l).elems[r] =
                IF r = Len(a.elems) THEN Run(l, a.elems[r].bytes + 1) ELSE a.elems[r]
         /\ a.elems[Len(a.elems)].line = l
<1> DEFINE last == Len(a.elems)
           e    == [a.elems EXCEPT ![last] = Run(l, @.bytes + 1)]
<1>1. last \in Nat /\ last > 0 /\ a.elems[last].line = l
  BY DEF ContinuesRun
<1>2. LineWrite(a, l) = [elems |-> e, capacity |-> a.capacity]
  BY DEF LineWrite
<1>3. Run(l, a.elems[last].bytes + 1) \in Runs
  <2>1. a.elems[last] \in Runs
    BY <1>1
  <2> QED
    BY <2>1 DEF Runs, Run
<1>4. e \in Seq(Runs) /\ Len(e) = Len(a.elems)
  BY <1>1, <1>3
<1>5. \A r \in 1 .. last :
        e[r] = IF r = last THEN Run(l, a.elems[r].bytes + 1) ELSE a.elems[r]
  BY <1>1
<1> HIDE DEF e
<1> QED
  BY <1>1, <1>2, <1>4, <1>5

(* What it leaves when the byte starts a run of its own.                   *)
LEMMA StartRun ==
  ASSUME NEW a, a.elems \in Seq(Runs), a.capacity \in Nat \ {0}, NEW l \in Nat,
         ~ContinuesRun(a, l)
  PROVE  /\ LineWrite(a, l) \in [elems : Seq(Runs), capacity : Nat \ {0}]
         /\ LineWrite(a, l).capacity = Grown(a.capacity, 2 * Len(a.elems) + 2)
         /\ Len(LineWrite(a, l).elems) = Len(a.elems) + 1
         /\ \A r \in 1 .. Len(a.elems) : LineWrite(a, l).elems[r] = a.elems[r]
         /\ LineWrite(a, l).elems[Len(a.elems) + 1] = Run(l, 1)
<1> DEFINE e == Append(a.elems, Run(l, 1))
           g == Grown(a.capacity, 2 * Len(a.elems) + 2)
<1>1. LineWrite(a, l) = [elems |-> e, capacity |-> g]
  BY DEF LineWrite, WordCount
<1>2. Run(l, 1) \in Runs
  BY DEF Run, Runs
<1>3. /\ e \in Seq(Runs)
      /\ Len(e) = Len(a.elems) + 1
      /\ \A r \in 1 .. Len(a.elems) : e[r] = a.elems[r]
      /\ e[Len(a.elems) + 1] = Run(l, 1)
  BY <1>2
<1>4. g \in Nat \ {0}
  BY DEF Grown
<1> HIDE DEF e, g
<1> QED
  BY <1>1, <1>3, <1>4 DEF g

-----------------------------------------------------------------------------
(* A chunk whose arrays are sequences that fit the blocks they live in.    *)
(* What the constants are does not matter here.                            *)
Fits(array, used) == array.capacity \in Nat \ {0} /\ used <= array.capacity

WellFormed(c) ==
  /\ c.code.elems \in Seq(Byte)     /\ Fits(c.code, Len(c.code.elems))
  /\ (\E S : c.constants.elems \in Seq(S)) /\ Fits(c.constants, Len(c.constants.elems))
  /\ c.lines.elems \in Seq(Runs)    /\ Fits(c.lines, WordCount(c.lines))
  /\ c = [code |-> c.code, constants |-> c.constants, lines |-> c.lines]

(* Room for one more element, or for the two words of one more run.        *)
LEMMA GrownFits ==
  ASSUME NEW capacity \in Nat \ {0}, NEW used \in Nat, used <= capacity
  PROVE  /\ Grown(capacity, used + 1) \in Nat \ {0}
         /\ used + 1 <= Grown(capacity, used + 1)
  BY DEF Grown

LEMMA GrownFitsRun ==
  ASSUME NEW capacity \in Nat \ {0}, NEW runs \in Nat, 2 * runs <= capacity
  PROVE  /\ Grown(capacity, 2 * runs + 2) \in Nat \ {0}
         /\ 2 * (runs + 1) <= Grown(capacity, 2 * runs + 2)
  BY DEF Grown

(* The line table still fits after a byte was written for line l.          *)
LEMMA LineWriteFits ==
  ASSUME NEW a, a.elems \in Seq(Runs), Fits(a, WordCount(a)), NEW l \in Nat
  PROVE  LineWrite(a, l).elems \in Seq(Runs) /\ Fits(LineWrite(a, l), WordCount(LineWrite(a, l)))
<1>1. a.capacity \in Nat \ {0} /\ 2 * Len(a.elems) <= a.capacity /\ Len(a.elems) \in Nat
  BY DEF Fits, WordCount
<1>2. CASE ContinuesRun(a, l)
  BY <1>1, <1>2, ContinueRun DEF Fits, WordCount
<1>3. CASE ~ContinuesRun(a, l)
  BY <1>1, <1>3, StartRun, GrownFitsRun DEF Fits, WordCount
<1> QED
  BY <1>2, <1>3

(* One byte: it comes last in the code, and nothing before it changes.     *)
LEMMA ByteWritten ==
  ASSUME NEW c, WellFormed(c), NEW byte \in Nat, NEW l \in Nat
  PROVE  /\ WellFormed(ChunkWrite(c, byte, l))
         /\ ChunkWrite(c, byte, l).code.elems = Append(c.code.elems, ToByte(byte))
         /\ ChunkWrite(c, byte, l).constants = c.constants
<1> DEFINE d == ChunkWrite(c, byte, l)
<1>1. d = [code      |-> Pushed(c.code, ToByte(byte)),
           constants |-> c.constants,
           lines     |-> LineWrite(c.lines, l)]
  <2>1. PICK x, y, z : c = [code |-> x, constants |-> y, lines |-> z]
    BY DEF WellFormed
  <2>2. c.code = x /\ c.constants = y /\ c.lines = z
    BY <2>1
  <2> DEFINE u == Pushed(x, ToByte(byte))  w == LineWrite(z, l)
  <2>4. d = [[[code |-> x, constants |-> y, lines |-> z] EXCEPT !.code = u] EXCEPT !.lines = w]
    BY <2>1, <2>2 DEF ChunkWrite
  <2> HIDE DEF u, w, d
  <2>5. d = [code |-> u, constants |-> y, lines |-> w]
    BY <2>4
  <2> QED
    BY <2>2, <2>5 DEF u, w
<1>2. ToByte(byte) \in Byte
  BY DEF ToByte, Byte
<1>3. /\ d.code.elems = Append(c.code.elems, ToByte(byte))
      /\ d.code.capacity = Grown(c.code.capacity, Len(c.code.elems) + 1)
  BY <1>1 DEF Pushed
<1>4. /\ Append(c.code.elems, ToByte(byte)) \in Seq(Byte)
      /\ Len(Append(c.code.elems, ToByte(byte))) = Len(c.code.elems) + 1
      /\ Len(c.code.elems) \in Nat
  BY <1>2 DEF WellFormed
<1>5. Fits(d.code, Len(d.code.elems))
  BY <1>3, <1>4, GrownFits DEF WellFormed, Fits
<1>6. d.lines.elems \in Seq(Runs) /\ Fits(d.lines, WordCount(d.lines))
  BY <1>1, LineWriteFits DEF WellFormed
<1>7. d.constants = c.constants /\ d = [code |-> d.code, constants |-> d.constants, lines |-> d.lines]
  BY <1>1
<1> HIDE DEF d
<1>8. WellFormed(d)
  BY <1>3, <1>4, <1>5, <1>6, <1>7 DEF WellFormed
<1> QED
  BY <1>3, <1>7, <1>8 DEF d

(* One constant: the code and its lines are as they were.                  *)
LEMMA ConstantAdded ==
  ASSUME NEW c, WellFormed(c), NEW v
  PROVE  /\ WellFormed(AddConstant(c, v))
         /\ AddConstant(c, v).code = c.code
         /\ AddConstant(c, v).constants.elems = Append(c.constants.elems, v)
<1> DEFINE d == AddConstant(c, v)
<1>1. d = [code |-> c.code, constants |-> Pushed(c.constants, v), lines |-> c.lines]
  BY DEF AddConstant, WellFormed
<1>2. PICK S : c.constants.elems \in Seq(S)
  BY DEF WellFormed
<1>3. c.constants.elems \in Seq(S \cup {v}) /\ Len(c.constants.elems) \in Nat
  BY <1>2
<1>4. /\ Append(c.constants.elems, v) \in Seq(S \cup {v})
      /\ Len(Append(c.constants.elems, v)) = Len(c.constants.elems) + 1
  BY <1>3
<1>5. /\ d.constants.elems = Append(c.constants.elems, v)
      /\ d.constants.capacity = Grown(c.constants.capacity, Len(c.constants.elems) + 1)
  BY <1>1 DEF Pushed
<1>6. Fits(d.constants, Len(d.constants.elems))
  BY <1>3, <1>4, <1>5, GrownFits DEF WellFormed, Fits
<1>7. /\ d.code = c.code /\ d.lines = c.lines
      /\ d = [code |-> d.code, constants |-> d.constants, lines |-> d.lines]
  BY <1>1
<1> HIDE DEF d
<1>8. WellFormed(d)
  BY <1>4, <1>5, <1>6, <1>7 DEF WellFormed
<1> QED
  BY <1>5, <1>7, <1>8 DEF d

-----------------------------------------------------------------------------
(* The code of d is that of c with bytes more bytes, the first being op.   *)
Begins(c, d, op, bytes) ==
  /\ Len(c.code.elems) \in Nat
  /\ Len(d.code.elems) = Len(c.code.elems) + bytes
  /\ \A i \in 1 .. Len(c.code.elems) : d.code.elems[i] = c.code.elems[i]
  /\ d.code.elems[Len(c.code.elems) + 1] = op

(* The code of d is that of c with one more instruction.                   *)
Extends(c, d, op) == Begins(c, d, op, InstructionLength(op))

LEMMA OpcodeIsByte ==
  ASSUME NEW op \in Opcodes
  PROVE  op \in Nat /\ ToByte(op) = op
  BY DEF Opcodes, OPCODE_CONSTANT, OPCODE_RETURN, ToByte

(* An opcode, and an opcode that has no operand.                           *)
LEMMA OpcodeBegins ==
  ASSUME NEW c, WellFormed(c), NEW op \in Opcodes, NEW l \in Nat
  PROVE  WellFormed(ChunkWrite(c, op, l)) /\ Begins(c, ChunkWrite(c, op, l), op, 1)
<1>1. op \in Nat /\ ToByte(op) = op /\ op \in Byte
  BY OpcodeIsByte DEF Opcodes, OPCODE_CONSTANT, OPCODE_RETURN, Byte
<1>2. /\ WellFormed(ChunkWrite(c, op, l))
      /\ ChunkWrite(c, op, l).code.elems = Append(c.code.elems, op)
  BY <1>1, ByteWritten
<1>3. c.code.elems \in Seq(Byte)
  BY DEF WellFormed
<1>4. /\ Len(c.code.elems) \in Nat
      /\ Len(Append(c.code.elems, op)) = Len(c.code.elems) + 1
      /\ \A i \in 1 .. Len(c.code.elems) : Append(c.code.elems, op)[i] = c.code.elems[i]
      /\ Append(c.code.elems, op)[Len(c.code.elems) + 1] = op
  BY <1>1, <1>3
<1> QED
  BY <1>2, <1>4 DEF Begins

LEMMA OpcodeWritten ==
  ASSUME NEW c, WellFormed(c), NEW l \in Nat,
         NEW op \in Opcodes \ {OPCODE_CONSTANT, OPCODE_CONSTANT_LONG}
  PROVE  WellFormed(ChunkWrite(c, op, l)) /\ Extends(c, ChunkWrite(c, op, l), op)
<1>1. InstructionLength(op) = 1
  BY DEF InstructionLength
<1> QED
  BY <1>1, OpcodeBegins DEF Extends

(* Both forms: the operand holds the low byte of the constant's index.     *)
Loads(c, d, op, v) ==
  LET size == Len(c.code.elems)
  IN  /\ Extends(c, d, op)
      /\ d.constants.elems = Append(c.constants.elems, v)
      /\ CodeAt(d, size + 1) = ConstantCount(c) % 256
      /\ op = OPCODE_CONSTANT => size < SHORT_LIMIT
      /\ op = OPCODE_CONSTANT_LONG => CodeAt(d, size + 2) = 0 /\ CodeAt(d, size + 3) = 0

(* What chunk_write_constant masks out of an index is cut off by the cast. *)
LEMMA MaskedBytes ==
  ASSUME NEW n \in Nat
  PROVE  /\ MaskByte(n, 1) \in Nat /\ ToByte(MaskByte(n, 1)) = n % 256
         /\ MaskByte(n, 256) \in Nat /\ ToByte(MaskByte(n, 256)) = 0
         /\ MaskByte(n, 65536) \in Nat /\ ToByte(MaskByte(n, 65536)) = 0
<1>1. n \div 1 = n /\ n \div 256 \in Nat /\ n \div 65536 \in Nat
  OBVIOUS
<1>2. \A m \in Nat : m % 256 \in Nat /\ (m % 256) % 256 = m % 256
  OBVIOUS
<1>3. \A m \in Nat : m * 256 \in Nat /\ (m * 256) % 256 = 0
  OBVIOUS
<1>4. \A m \in Nat : m * 65536 \in Nat /\ (m * 65536) % 256 = 0
  OBVIOUS
<1> QED
  BY <1>1, <1>2, <1>3, <1>4 DEF MaskByte, ToByte

LEMMA AppendedByte ==
  ASSUME NEW s \in Seq(Byte), NEW b \in Byte
  PROVE  /\ Append(s, b) \in Seq(Byte) /\ Len(s) \in Nat
         /\ Len(Append(s, b)) = Len(s) + 1
         /\ \A i \in 1 .. Len(s) : Append(s, b)[i] = s[i]
         /\ Append(s, b)[Len(s) + 1] = b
  OBVIOUS

(* Code with an instruction of two bytes behind it, and with one of four.  *)
LEMMA TwoBytes ==
  ASSUME NEW s \in Seq(Byte), NEW a \in Byte, NEW b \in Byte
  PROVE  LET u == Append(Append(s, a), b)
         IN  /\ u \in Seq(Byte) /\ Len(s) \in Nat /\ Len(u) = Len(s) + 2
             /\ \A i \in 1 .. Len(s) : u[i] = s[i]
             /\ u[Len(s) + 1] = a /\ u[Len(s) + 2] = b
<1>1. PICK t : t = Append(s, a)
  OBVIOUS
<1>2. PICK u : u = Append(t, b)
  OBVIOUS
<1>3. /\ t \in Seq(Byte) /\ Len(s) \in Nat /\ Len(t) = Len(s) + 1
      /\ \A i \in 1 .. Len(s) : t[i] = s[i]
      /\ t[Len(s) + 1] = a
  BY <1>1, AppendedByte
<1>4. /\ u \in Seq(Byte) /\ Len(u) = Len(t) + 1
      /\ \A i \in 1 .. Len(t) : u[i] = t[i]
      /\ u[Len(t) + 1] = b
  BY <1>2, <1>3, AppendedByte
<1>5. /\ Len(u) = Len(s) + 2 /\ u[Len(s) + 1] = a /\ u[Len(s) + 2] = b
      /\ \A i \in 1 .. Len(s) : u[i] = s[i]
  BY <1>3, <1>4
<1> QED
  BY <1>1, <1>2, <1>3, <1>4, <1>5

LEMMA FourBytes ==
  ASSUME NEW s \in Seq(Byte), NEW a \in Byte, NEW b \in Byte, NEW x \in Byte, NEW y \in Byte
  PROVE  LET u == Append(Append(Append(Append(s, a), b), x), y)
         IN  /\ Len(s) \in Nat /\ Len(u) = Len(s) + 4
             /\ \A i \in 1 .. Len(s) : u[i] = s[i]
             /\ u[Len(s) + 1] = a /\ u[Len(s) + 2] = b
             /\ u[Len(s) + 3] = x /\ u[Len(s) + 4] = y
<1>1. PICK t : t = Append(Append(s, a), b)
  OBVIOUS
<1>2. PICK u : u = Append(Append(t, x), y)
  OBVIOUS
<1>3. /\ t \in Seq(Byte) /\ Len(s) \in Nat /\ Len(t) = Len(s) + 2
      /\ \A i \in 1 .. Len(s) : t[i] = s[i]
      /\ t[Len(s) + 1] = a /\ t[Len(s) + 2] = b
  BY <1>1, TwoBytes
<1>4. /\ Len(u) = Len(t) + 2
      /\ \A i \in 1 .. Len(t) : u[i] = t[i]
      /\ u[Len(t) + 1] = x /\ u[Len(t) + 2] = y
  BY <1>2, <1>3, TwoBytes
<1>5. /\ Len(u) = Len(s) + 4 /\ u[Len(s) + 1] = a /\ u[Len(s) + 2] = b
      /\ u[Len(s) + 3] = x /\ u[Len(s) + 4] = y
      /\ \A i \in 1 .. Len(s) : u[i] = s[i]
  BY <1>3, <1>4
<1> QED
  BY <1>1, <1>2, <1>3, <1>5

LEMMA CountIsNat ==
  ASSUME NEW c, WellFormed(c)
  PROVE  ConstantCount(c) \in Nat
<1>1. PICK S : c.constants.elems \in Seq(S)
  BY DEF WellFormed
<1> QED
  BY <1>1 DEF ConstantCount

(* A constant with the instruction that loads it, in whichever form.       *)
LEMMA ValueWritten ==
  ASSUME NEW c, WellFormed(c), NEW v, NEW l \in Nat
  PROVE  /\ WellFormed(WriteValue(c, v, l))
         /\ \E op \in {OPCODE_CONSTANT, OPCODE_CONSTANT_LONG} : Loads(c, WriteValue(c, v, l), op, v)
<1> DEFINE n == ConstantCount(c)  d == WriteValue(c, v, l)
<1>1. n \in Nat /\ n % 256 \in Byte /\ 0 \in Byte /\ c.code.elems \in Seq(Byte)
  <2>1. n \in Nat /\ c.code.elems \in Seq(Byte)
    BY CountIsNat DEF WellFormed
  <2>2. \A m \in Nat : m % 256 \in Byte
    BY DEF Byte
  <2>3. 0 \in Byte
    BY DEF Byte
  <2> HIDE DEF n
  <2> QED
    BY <2>1, <2>2, <2>3
<1>2. CASE TakesShortForm(c)
  <2> DEFINE c1 == ChunkWrite(c, OPCODE_CONSTANT, l)
             c2 == AddConstant(c1, v)
             c3 == ChunkWrite(c2, n, l)
  <2>1. d = c3
    BY <1>2 DEF WriteValue
  <2>2. OPCODE_CONSTANT \in Nat /\ ToByte(OPCODE_CONSTANT) = OPCODE_CONSTANT
        /\ OPCODE_CONSTANT \in Byte
    BY DEF OPCODE_CONSTANT, ToByte, Byte
  <2>3. /\ WellFormed(c1) /\ c1.code.elems = Append(c.code.elems, OPCODE_CONSTANT)
        /\ c1.constants = c.constants
    BY <2>2, ByteWritten
  <2> HIDE DEF c1
  <2>4. /\ WellFormed(c2) /\ c2.code = c1.code
        /\ c2.constants.elems = Append(c1.constants.elems, v)
    BY <2>3, ConstantAdded
  <2> HIDE DEF c2, n
  <2>5. /\ WellFormed(c3) /\ c3.code.elems = Append(c2.code.elems, ToByte(n))
        /\ c3.constants = c2.constants
    BY <1>1, <2>4, ByteWritten
  <2> HIDE DEF c3
  <2>6. c3.code.elems = Append(Append(c.code.elems, OPCODE_CONSTANT), n % 256)
    BY <2>3, <2>4, <2>5 DEF ToByte
  <2>7. Begins(c, c3, OPCODE_CONSTANT, 2) /\ c3.code.elems[Len(c.code.elems) + 2] = n % 256
    BY <1>1, <2>2, <2>6, TwoBytes DEF Begins
  <2>8. InstructionLength(OPCODE_CONSTANT) = 2 /\ OPCODE_CONSTANT # OPCODE_CONSTANT_LONG
    BY DEF InstructionLength, OPCODE_CONSTANT, OPCODE_CONSTANT_LONG
  <2>9. CodeAt(c3, Len(c.code.elems) + 1) = n % 256
    <3>1. (Len(c.code.elems) + 1) + 1 = Len(c.code.elems) + 2
      BY <1>1
    <3> QED
      BY <2>7, <3>1 DEF CodeAt
  <2>10. Len(c.code.elems) < SHORT_LIMIT
    BY <1>1, <1>2, ShortLimitAssumption DEF TakesShortForm
  <2>11. c3.constants.elems = Append(c.constants.elems, v)
    BY <2>3, <2>4, <2>5
  <2>12. Loads(c, c3, OPCODE_CONSTANT, v)
    BY <2>7, <2>8, <2>9, <2>10, <2>11 DEF Loads, Extends, n
  <2> QED
    BY <2>1, <2>5, <2>12
<1>3. CASE ~TakesShortForm(c)
  <2> DEFINE c1 == ChunkWrite(c, OPCODE_CONSTANT_LONG, l)
             m  == ConstantCount(c1)
             c2 == AddConstant(c1, v)
             b1 == MaskByte(m, 1)
             b2 == MaskByte(m, 256)
             b3 == MaskByte(m, 65536)
             c3 == ChunkWrite(c2, b1, l)
             c4 == ChunkWrite(c3, b2, l)
             c5 == ChunkWrite(c4, b3, l)
  <2>1. d = c5
    BY <1>3 DEF WriteValue, WriteConstant
  <2>2. OPCODE_CONSTANT_LONG \in Nat /\ ToByte(OPCODE_CONSTANT_LONG) = OPCODE_CONSTANT_LONG
        /\ OPCODE_CONSTANT_LONG \in Byte
    BY DEF OPCODE_CONSTANT_LONG, ToByte, Byte
  <2>3. /\ WellFormed(c1) /\ c1.code.elems = Append(c.code.elems, OPCODE_CONSTANT_LONG)
        /\ c1.constants = c.constants
    BY <2>2, ByteWritten
  <2>4. m = n
    BY <2>3 DEF ConstantCount
  <2> HIDE DEF c1
  <2>5. /\ WellFormed(c2) /\ c2.code = c1.code
        /\ c2.constants.elems = Append(c1.constants.elems, v)
    BY <2>3, ConstantAdded
  <2>6. /\ b1 \in Nat /\ ToByte(b1) = n % 256
        /\ b2 \in Nat /\ ToByte(b2) = 0
        /\ b3 \in Nat /\ ToByte(b3) = 0
    BY <1>1, <2>4, MaskedBytes
  <2> HIDE DEF c2, n, m, b1, b2, b3
  <2>7. /\ WellFormed(c3) /\ c3.code.elems = Append(c2.code.elems, n % 256)
        /\ c3.constants = c2.constants
    <3>1. /\ WellFormed(c3) /\ c3.code.elems = Append(c2.code.elems, ToByte(b1))
          /\ c3.constants = c2.constants
      BY <2>6, <2>5, ByteWritten
    <3> QED
      BY Zenon, <2>6, <3>1
  <2> HIDE DEF c3
  <2>8. /\ WellFormed(c4) /\ c4.code.elems = Append(c3.code.elems, 0)
        /\ c4.constants = c3.constants
    <3>1. /\ WellFormed(c4) /\ c4.code.elems = Append(c3.code.elems, ToByte(b2))
          /\ c4.constants = c3.constants
      BY <2>6, <2>7, ByteWritten
    <3> QED
      BY Zenon, <2>6, <3>1
  <2> HIDE DEF c4
  <2>9. /\ WellFormed(c5) /\ c5.code.elems = Append(c4.code.elems, 0)
        /\ c5.constants = c4.constants
    <3>1. /\ WellFormed(c5) /\ c5.code.elems = Append(c4.code.elems, ToByte(b3))
          /\ c5.constants = c4.constants
      BY <2>6, <2>8, ByteWritten
    <3> QED
      BY Zenon, <2>6, <3>1
  <2> HIDE DEF c5
  <2>10. c5.code.elems = Append(Append(Append(Append(c.code.elems, OPCODE_CONSTANT_LONG), n % 256), 0), 0)
    BY <2>3, <2>5, <2>7, <2>8, <2>9
  <2>11. /\ Begins(c, c5, OPCODE_CONSTANT_LONG, 4)
         /\ c5.code.elems[Len(c.code.elems) + 2] = n % 256
         /\ c5.code.elems[Len(c.code.elems) + 3] = 0
         /\ c5.code.elems[Len(c.code.elems) + 4] = 0
    <3>1. PICK s, b : s = c.code.elems /\ b = n % 256
      OBVIOUS
    <3>2. PICK u : u = Append(Append(Append(Append(s, OPCODE_CONSTANT_LONG), b), 0), 0)
      OBVIOUS
    <3>3. s \in Seq(Byte) /\ b \in Byte
      BY <1>1, <3>1
    <3>4. /\ Len(s) \in Nat /\ Len(u) = Len(s) + 4
          /\ \A i \in 1 .. Len(s) : u[i] = s[i]
          /\ u[Len(s) + 1] = OPCODE_CONSTANT_LONG /\ u[Len(s) + 2] = b
          /\ u[Len(s) + 3] = 0 /\ u[Len(s) + 4] = 0
      BY <1>1, <2>2, <3>2, <3>3, FourBytes
    <3>5. c5.code.elems = u
      BY Zenon, <2>10, <3>1, <3>2
    <3> QED
      BY <3>1, <3>4, <3>5 DEF Begins
  <2>12. InstructionLength(OPCODE_CONSTANT_LONG) = 4 /\ OPCODE_CONSTANT # OPCODE_CONSTANT_LONG
    BY DEF InstructionLength, OPCODE_CONSTANT, OPCODE_CONSTANT_LONG
  <2>13. /\ CodeAt(c5, Len(c.code.elems) + 1) = n % 256
         /\ CodeAt(c5, Len(c.code.elems) + 2) = 0
         /\ CodeAt(c5, Len(c.code.elems) + 3) = 0
    <3>1. Len(c.code.elems) \in Nat
      BY <1>1
    <3>2. /\ (Len(c.code.elems) + 1) + 1 = Len(c.code.elems) + 2
          /\ (Len(c.code.elems) + 2) + 1 = Len(c.code.elems) + 3
          /\ (Len(c.code.elems) + 3) + 1 = Len(c.code.elems) + 4
      BY <3>1
    <3> QED
      BY <2>11, <3>2 DEF CodeAt
  <2>14. c5.constants.elems = Append(c.constants.elems, v)
    BY <2>3, <2>5, <2>7, <2>8, <2>9
  <2>15. Loads(c, c5, OPCODE_CONSTANT_LONG, v)
    BY <2>11, <2>12, <2>13, <2>14 DEF Loads, Extends, n
  <2> QED
    BY <2>1, <2>9, <2>15
<1> QED
  BY <1>2, <1>3

-----------------------------------------------------------------------------
(* The disassembler's bits.                                                *)

(* The sum of a set of bits, whichever is added first.                     *)
Weight(s) ==
  (IF 1 \in s THEN 1 ELSE 0) + (IF 2 \in s THEN 2 ELSE 0) + (IF 4 \in s THEN 4 ELSE 0)
  + (IF 8 \in s THEN 8 ELSE 0) + (IF 16 \in s THEN 16 ELSE 0) + (IF 32 \in s THEN 32 ELSE 0)
  + (IF 64 \in s THEN 64 ELSE 0) + (IF 128 \in s THEN 128 ELSE 0)

(* It is less by a bit that is taken away.                                 *)
LEMMA WeightWithout ==
  ASSUME NEW s \in SUBSET Bits, NEW x \in s
  PROVE  Weight(s) \in Nat /\ Weight(s \ {x}) \in Nat /\ Weight(s) = x + Weight(s \ {x}) /\ x \in Nat \ {0}
BY DEF Weight, Bits

(* A byte is the sum of its bits.                                          *)
LEMMA BitsOfByte ==
  ASSUME NEW x \in Byte
  PROVE  Weight({bit \in Bits : HasBit(x, bit)}) = x
BY SMTT(60) DEF Weight, Bits, HasBit, Byte

(* The recursion of the library's sum, and what it comes to.               *)
SumBy(S, f) ==
  f = [s \in SUBSET S |->
         IF s = {} THEN 0 ELSE (CHOOSE x \in s : TRUE) + f[s \ {CHOOSE x \in s : TRUE}]]

LEMMA SumUnfolds ==
  ASSUME NEW S
  PROVE  SumSet(S) = (CHOOSE f : SumBy(S, f))[S]
BY DEF SumSet, FoldSet, MapThenFoldSet, SumBy

LEMMA SumOfBits ==
  ASSUME NEW S \in SUBSET Bits
  PROVE  SumSet(S) = Weight(S)
<1>1. \A s \in SUBSET S : s # {} => (CHOOSE x \in s : TRUE) \in s
  OBVIOUS
<1>2. PICK f : SumBy(S, f) /\ SumSet(S) = f[S]
  <2>1. SumBy(S, [s \in SUBSET S |-> Weight(s)])
    <3> DEFINE g == [s \in SUBSET S |-> Weight(s)]
    <3>1. ASSUME NEW s \in SUBSET S
          PROVE  g[s] = IF s = {} THEN 0
                        ELSE (CHOOSE x \in s : TRUE) + g[s \ {CHOOSE x \in s : TRUE}]
      <4>1. CASE s = {}
        BY <4>1 DEF Weight
      <4>2. CASE s # {}
        <5>1. PICK x : x = (CHOOSE y \in s : TRUE)
          OBVIOUS
        <5>2. x \in s /\ s \in SUBSET Bits /\ s \ {x} \in SUBSET S
          BY <1>1, <4>2, <5>1
        <5>3. g[s] = Weight(s) /\ g[s \ {x}] = Weight(s \ {x})
          BY <5>2
        <5> HIDE DEF g
        <5>4. Weight(s) = x + Weight(s \ {x})
          BY <5>2, WeightWithout
        <5> QED
          BY <4>2, <5>1, <5>3, <5>4
      <4> QED
        BY <4>1, <4>2
    <3>2. g = [s \in SUBSET S |-> g[s]]
      OBVIOUS
    <3> HIDE DEF g
    <3>3. SumBy(S, g)
      BY <3>1, <3>2 DEF SumBy
    <3> QED
      BY <3>3 DEF g
  <2>2. SumBy(S, CHOOSE f : SumBy(S, f))
    BY <2>1
  <2> QED
    BY <2>2, SumUnfolds
<1>3. ASSUME NEW s \in SUBSET S, s # {}
      PROVE  \E x \in s : f[s] = x + f[s \ {x}]
  <2>1. f[s] = (CHOOSE x \in s : TRUE) + f[s \ {CHOOSE x \in s : TRUE}]
    BY <1>2, <1>3 DEF SumBy
  <2> QED
    BY <1>1, <1>3, <2>1
<1>4. f[{}] = 0
  BY <1>2 DEF SumBy
<1> DEFINE T == {k \in Nat : \A s \in SUBSET S : Weight(s) <= k => f[s] = Weight(s)}
<1>5. \A s \in SUBSET S : Weight(s) \in Nat
  BY DEF Weight
<1>6. ASSUME NEW s \in SUBSET S, s # {}
      PROVE  \E x \in Nat \ {0} : /\ s \ {x} \in SUBSET S /\ f[s] = x + f[s \ {x}]
                                 /\ Weight(s) = x + Weight(s \ {x})
  <2>1. PICK x \in s : f[s] = x + f[s \ {x}]
    BY <1>3, <1>6
  <2>2. s \in SUBSET Bits
    OBVIOUS
  <2> QED
    BY <2>1, <2>2, WeightWithout
<1>7. 0 \in T
  <2> SUFFICES ASSUME NEW s \in SUBSET S, Weight(s) <= 0 PROVE f[s] = Weight(s)
    OBVIOUS
  <2>1. s = {}
    <3> SUFFICES ASSUME s # {} PROVE FALSE
      OBVIOUS
    <3>1. PICK x \in Nat \ {0} : s \ {x} \in SUBSET S /\ Weight(s) = x + Weight(s \ {x})
      BY <1>6
    <3> QED
      BY <1>5, <3>1
  <2> QED
    BY <1>4, <2>1 DEF Weight
<1>8. ASSUME NEW k \in Nat, k \in T PROVE k + 1 \in T
  <2> SUFFICES ASSUME NEW s \in SUBSET S, Weight(s) <= k + 1 PROVE f[s] = Weight(s)
    OBVIOUS
  <2>1. CASE s = {}
    BY <1>4, <2>1 DEF Weight
  <2>2. CASE s # {}
    <3>1. PICK x \in Nat \ {0} : /\ s \ {x} \in SUBSET S /\ f[s] = x + f[s \ {x}]
                                /\ Weight(s) = x + Weight(s \ {x})
      BY <1>6, <2>2
    <3>2. Weight(s \ {x}) <= k
      BY <1>5, <3>1
    <3>3. f[s \ {x}] = Weight(s \ {x})
      BY <1>8, <3>1, <3>2
    <3> QED
      BY <3>1, <3>3
  <2> QED
    BY <2>1, <2>2
<1>9. Nat \subseteq T
  <2> HIDE DEF T
  <2> QED
    BY <1>7, <1>8, Induction
<1>10. Weight(S) \in T
  BY <1>5, <1>9
<1> QED
  BY <1>2, <1>5, <1>10

(* The bits of a byte and of a byte that is zero are those of the byte.    *)
LEMMA ByteOrZero ==
  ASSUME NEW x \in Byte
  PROVE  ByteOr(x, 0) = x
<1>1. \A bit \in Bits : ~HasBit(0, bit)
  BY DEF Bits, HasBit
<1>2. ByteOr(x, 0) = SumSet({bit \in Bits : HasBit(x, bit)})
  <2>1. {bit \in Bits : HasBit(x, bit) \/ HasBit(0, bit)} = {bit \in Bits : HasBit(x, bit)}
    BY <1>1
  <2> QED
    BY <2>1 DEF ByteOr
<1>3. {bit \in Bits : HasBit(x, bit)} \in SUBSET Bits
  OBVIOUS
<1> QED
  BY <1>2, <1>3, SumOfBits, BitsOfByte
-----------------------------------------------------------------------------
(* The sums that RunEnd takes of the lengths of the runs.                  *)
Sums(a, r, end) == end = [j \in 0 .. r |-> IF j = 0 THEN 0 ELSE end[j - 1] + a.elems[j].bytes]

LEMMA SumsExist == ASSUME NEW a, NEW r \in Nat PROVE \E end : Sums(a, r, end)
<1> DEFINE S == {m \in Nat : \E end : Sums(a, m, end)}
<1>1. 0 \in S
  <2>1. PICK end : end = [j \in 0 .. 0 |-> 0]
    OBVIOUS
  <2>2. end = [j \in 0 .. 0 |-> IF j = 0 THEN 0 ELSE end[j - 1] + a.elems[j].bytes]
    BY <2>1
  <2> QED
    BY <2>2 DEF Sums
<1>2. ASSUME NEW m \in Nat, m \in S PROVE m + 1 \in S
  <2>1. PICK end : Sums(a, m, end)
    BY <1>2
  <2>2. PICK last : last = end[m] + a.elems[m + 1].bytes
    OBVIOUS
  <2>3. PICK more : more = [j \in 0 .. m + 1 |-> IF j = m + 1 THEN last ELSE end[j]]
    OBVIOUS
  <2>4. \A j \in 0 .. m + 1 : more[j] = IF j = 0 THEN 0 ELSE more[j - 1] + a.elems[j].bytes
    <3> TAKE j \in 0 .. m + 1
    <3>1. CASE j = m + 1
      <4>1. j # 0 /\ j - 1 = m /\ m \in 0 .. m + 1 /\ m # m + 1
        BY <3>1
      <4>2. more[j] = last /\ more[j - 1] = end[m]
        BY <2>3, <3>1, <4>1
      <4> QED
        BY Zenon, <2>2, <3>1, <4>1, <4>2
    <3>2. CASE j # m + 1
      <4>1. j \in 0 .. m
        BY <3>2
      <4>2. end[j] = IF j = 0 THEN 0 ELSE end[j - 1] + a.elems[j].bytes
        <5>1. end = [i \in 0 .. m |-> IF i = 0 THEN 0 ELSE end[i - 1] + a.elems[i].bytes]
          BY <2>1 DEF Sums
        <5> QED
          BY Zenon, <4>1, <5>1
      <4>3. more[j] = end[j] /\ (j # 0 => more[j - 1] = end[j - 1])
        BY <2>3, <3>2, <4>1
      <4> QED
        BY Zenon, <4>2, <4>3
    <3> QED
      BY <3>1, <3>2
  <2>5. more = [j \in 0 .. m + 1 |-> more[j]]
    BY <2>3
  <2>6. more = [j \in 0 .. m + 1 |-> IF j = 0 THEN 0 ELSE more[j - 1] + a.elems[j].bytes]
    BY Zenon, <2>4, <2>5
  <2> QED
    BY <2>6 DEF Sums
<1>3. Nat \subseteq S
  <2> HIDE DEF S
  <2> QED
    BY <1>1, <1>2, Induction
<1> QED
  BY <1>3

(* The sums of two arrays agree as far as their runs do.                   *)
Alike(a, b, m) == \A i \in 1 .. m : a.elems[i] = b.elems[i]

LEMMA SumsAgree ==
  ASSUME NEW a, NEW b, NEW m \in Nat, NEW r \in Nat, NEW q \in Nat, m <= r, m <= q,
         NEW e, Sums(a, r, e), NEW f, Sums(b, q, f),
         Alike(a, b, m)
  PROVE  e[m] = f[m]
<1>1. \A j \in 0 .. r : e[j] = IF j = 0 THEN 0 ELSE e[j - 1] + a.elems[j].bytes
  BY Zenon DEF Sums
<1>2. \A j \in 0 .. q : f[j] = IF j = 0 THEN 0 ELSE f[j - 1] + b.elems[j].bytes
  BY Zenon DEF Sums
<1> DEFINE S == {j \in Nat : j <= m => e[j] = f[j]}
<1>3. 0 \in S
  <2>1. 0 \in 0 .. r /\ 0 \in 0 .. q
    OBVIOUS
  <2>2. e[0] = 0 /\ f[0] = 0
    BY Zenon, <1>1, <1>2, <2>1
  <2> QED
    BY <2>2
<1>4. ASSUME NEW j \in Nat, j \in S PROVE j + 1 \in S
  <2> SUFFICES ASSUME j + 1 <= m PROVE e[j + 1] = f[j + 1]
    OBVIOUS
  <2>1. j + 1 \in 0 .. r /\ j + 1 \in 0 .. q /\ j + 1 # 0 /\ (j + 1) - 1 = j /\ j + 1 \in 1 .. m /\ j <= m
    OBVIOUS
  <2>2. e[j] = f[j]
    BY <1>4, <2>1
  <2>3. e[j + 1] = e[j] + a.elems[j + 1].bytes /\ f[j + 1] = f[j] + b.elems[j + 1].bytes
    BY Zenon, <1>1, <1>2, <2>1
  <2> QED
    BY Zenon, <2>1, <2>2, <2>3 DEF Alike
<1>5. Nat \subseteq S
  <2> HIDE DEF S
  <2> QED
    BY <1>3, <1>4, Induction
<1> QED
  BY <1>5

LEMMA RunEndIsSum == ASSUME NEW a, NEW r \in Nat PROVE \E e : Sums(a, r, e) /\ RunEnd(a, r) = e[r]
BY Zenon, SumsExist DEF RunEnd, Sums

LEMMA RunEndUnfolds ==
  ASSUME NEW a
  PROVE  RunEnd(a, 0) = 0 /\ \A r \in Nat : RunEnd(a, r + 1) = RunEnd(a, r) + a.elems[r + 1].bytes
<1>1. RunEnd(a, 0) = 0
  <2>1. 0 \in Nat /\ 0 \in 0 .. 0
    OBVIOUS
  <2>2. PICK e : Sums(a, 0, e) /\ RunEnd(a, 0) = e[0]
    BY <2>1, RunEndIsSum
  <2>3. \A j \in 0 .. 0 : e[j] = IF j = 0 THEN 0 ELSE e[j - 1] + a.elems[j].bytes
    BY Zenon, <2>2 DEF Sums
  <2> QED
    BY Zenon, <2>1, <2>2, <2>3
<1>2. ASSUME NEW r \in Nat PROVE RunEnd(a, r + 1) = RunEnd(a, r) + a.elems[r + 1].bytes
  <2>1. r + 1 \in Nat /\ r + 1 \in 0 .. r + 1 /\ r + 1 # 0 /\ (r + 1) - 1 = r /\ r <= r /\ r <= r + 1
    OBVIOUS
  <2>2. PICK e : Sums(a, r, e) /\ RunEnd(a, r) = e[r]
    BY RunEndIsSum
  <2>3. PICK f : Sums(a, r + 1, f) /\ RunEnd(a, r + 1) = f[r + 1]
    BY <2>1, RunEndIsSum
  <2>4. f[r] = e[r]
    <3>1. Alike(a, a, r)
      BY DEF Alike
    <3> QED
      BY <2>1, <2>2, <2>3, <3>1, SumsAgree
  <2>5. \A j \in 0 .. r + 1 : f[j] = IF j = 0 THEN 0 ELSE f[j - 1] + a.elems[j].bytes
    BY Zenon, <2>3 DEF Sums
  <2>6. f[r + 1] = f[r] + a.elems[r + 1].bytes
    BY Zenon, <2>1, <2>5
  <2> QED
    BY Zenon, <2>2, <2>3, <2>4, <2>6
<1> QED
  BY <1>1, <1>2

LEMMA RunEndAgrees ==
  ASSUME NEW a, NEW b, NEW r \in Nat, Alike(a, b, r)
  PROVE  RunEnd(a, r) = RunEnd(b, r)
<1>1. PICK e : Sums(a, r, e) /\ RunEnd(a, r) = e[r]
  BY RunEndIsSum
<1>2. PICK f : Sums(b, r, f) /\ RunEnd(b, r) = f[r]
  BY RunEndIsSum
<1>3. r <= r
  OBVIOUS
<1>4. e[r] = f[r]
  BY <1>1, <1>2, <1>3, SumsAgree
<1> QED
  BY <1>1, <1>2, <1>4

(* A set of naturals that is not empty has a least member.                 *)
LEMMA LeastExists ==
  ASSUME NEW S \in SUBSET Nat, S # {}
  PROVE  Min(S) \in S /\ \A x \in S : Min(S) <= x
<1> DEFINE R == OpToRel(<, Nat)
<1>1. IsWellFoundedOn(R, Nat)
  BY NatLessThanWellFounded
<1>2. \A m, p \in Nat : m < p => <<m, p>> \in R
  BY DEF OpToRel
<1> HIDE DEF R
<1>3. PICK p \in S : \A m \in S : ~(<<m, p>> \in R)
  BY <1>1, WFMin
<1>4. ASSUME NEW x \in S PROVE p <= x
  <2>1. x \in Nat /\ p \in Nat /\ ~(<<x, p>> \in R)
    BY <1>3
  <2>2. ~(x < p)
    BY Zenon, <1>2, <2>1
  <2> QED
    BY <2>1, <2>2
<1>5. \E y \in S : \A x \in S : y <= x
  BY <1>4
<1> QED
  BY Zenon, <1>5 DEF Min

LEMMA FirstBeyond ==
  ASSUME NEW S \in SUBSET Nat, NEW m \in S, \A x \in S : m <= x
  PROVE  Min(S) = m
<1>1. \E y \in S : \A x \in S : y <= x
  OBVIOUS
<1>2. Min(S) \in S /\ \A x \in S : Min(S) <= x
  BY Zenon, <1>1 DEF Min
<1>3. PICK y : y = Min(S)
  OBVIOUS
<1>4. y \in Nat /\ m \in Nat /\ y <= m /\ m <= y
  BY <1>2, <1>3
<1> QED
  BY <1>3, <1>4

-----------------------------------------------------------------------------
(* A line table of size bytes: the runs end one after another, the last    *)
(* one at the last byte.                                                   *)
LinesOf(a, size) ==
  /\ a.elems \in Seq(Runs) /\ size \in Nat
  /\ \A r \in 0 .. Len(a.elems) : RunEnd(a, r) \in 0 .. size
  /\ RunEnd(a, Len(a.elems)) = size

(* The lines of the bytes up to size are those they were.                  *)
SameLines(a, b, size) == \A i \in 0 .. size - 1 : GetLine(b, i) = GetLine(a, i)

(* _line_write: chunk_get_line finds the line l of the new byte, and those *)
(* of the bytes before it, whether the byte joins a run or starts one.     *)
LEMMA LineFound ==
  ASSUME NEW a, NEW size, LinesOf(a, size), NEW l \in Nat
  PROVE  /\ LinesOf(LineWrite(a, l), size + 1)
         /\ SameLines(a, LineWrite(a, l), size)
         /\ GetLine(LineWrite(a, l), size) = l
<1>1. PICK b, runs : b = LineWrite(a, l) /\ runs = Len(a.elems)
  OBVIOUS
<1>2. /\ a.elems \in Seq(Runs) /\ size \in Nat /\ runs \in Nat
      /\ \A r \in 0 .. runs : RunEnd(a, r) \in 0 .. size
      /\ RunEnd(a, runs) = size
  BY <1>1 DEF LinesOf
<1>3. PICK z : z = [elems |-> a.elems, capacity |-> 1]
  OBVIOUS
<1>4. /\ z.elems = a.elems /\ z.capacity \in Nat \ {0} /\ z.elems \in Seq(Runs)
      /\ b.elems = LineWrite(z, l).elems
      /\ ContinuesRun(z, l) <=> ContinuesRun(a, l)
  BY <1>3, <1>1, <1>2 DEF LineWrite, ContinuesRun
<1>5. CASE ContinuesRun(a, l)
  <2>1. /\ b.elems \in Seq(Runs)
        /\ Len(b.elems) = runs /\ runs > 0
        /\ \A r \in 1 .. runs : b.elems[r] = IF r = runs THEN Run(l, a.elems[r].bytes + 1) ELSE a.elems[r]
        /\ a.elems[runs].line = l
    <3>1. LineWrite(z, l) \in [elems : Seq(Runs), capacity : Nat \ {0}]
      BY <1>4, <1>5, ContinueRun
    <3>2. Len(b.elems) = runs /\ runs > 0 /\ a.elems[runs].line = l
      BY <1>1, <1>4, <1>5, ContinueRun
    <3>3. \A r \in 1 .. runs : b.elems[r] = IF r = runs THEN Run(l, a.elems[r].bytes + 1) ELSE a.elems[r]
      BY <1>1, <1>4, <1>5, ContinueRun
    <3> QED
      BY <1>4, <3>1, <3>2, <3>3
  <2>2. /\ runs - 1 \in Nat /\ (runs - 1) + 1 = runs /\ runs \in 1 .. runs
        /\ a.elems[runs].bytes \in Nat
    <3>1. runs \in 1 .. Len(a.elems)
      BY <1>1, <1>2, <2>1
    <3>2. a.elems[runs] \in Runs
      BY <1>2, <3>1
    <3>3. a.elems[runs].bytes \in Nat
      BY <3>2 DEF Runs
    <3> QED
      BY <1>2, <2>1, <3>3
  <2>3. \A r \in 0 .. runs - 1 : RunEnd(b, r) = RunEnd(a, r)
    <3> TAKE r \in 0 .. runs - 1
    <3>1. r \in Nat /\ Alike(a, b, r)
      BY <1>2, <2>1 DEF Alike
    <3> QED
      BY <3>1, RunEndAgrees
  <2>4. RunEnd(b, runs) = size + 1
    <3>1. RunEnd(a, (runs - 1) + 1) = RunEnd(a, runs - 1) + a.elems[(runs - 1) + 1].bytes
      BY <2>2, RunEndUnfolds
    <3>2. RunEnd(b, (runs - 1) + 1) = RunEnd(b, runs - 1) + b.elems[(runs - 1) + 1].bytes
      BY <2>2, RunEndUnfolds
    <3>3. b.elems[runs].bytes = a.elems[runs].bytes + 1
      <4>1. b.elems[runs] = Run(l, a.elems[runs].bytes + 1)
        BY <2>1, <2>2
      <4> QED
        BY <4>1 DEF Run
    <3>4. RunEnd(b, runs - 1) = RunEnd(a, runs - 1) /\ RunEnd(a, runs - 1) \in Int
      BY <1>2, <2>2, <2>3
    <3> QED
      BY <1>2, <2>2, <3>1, <3>2, <3>3, <3>4
  <2>5. LinesOf(b, size + 1)
    BY <1>2, <2>1, <2>3, <2>4 DEF LinesOf
  <2>6. \A r \in 1 .. runs : b.elems[r].line = a.elems[r].line
    <3>1. \A n : Run(l, n).line = l
      BY DEF Run
    <3> QED
      BY <2>1, <3>1
  <2>7. ASSUME NEW i \in 0 .. size - 1 PROVE GetLine(b, i) = GetLine(a, i)
    <3>1. PICK beyond : beyond = {r \in 1 .. runs : i < RunEnd(a, r)}
      OBVIOUS
    <3>2. {r \in 1 .. runs : i < RunEnd(b, r)} = beyond
      <4>1. \A r \in 1 .. runs : i < RunEnd(b, r) <=> i < RunEnd(a, r)
        BY <1>2, <2>3, <2>4
      <4> QED
        BY <3>1, <4>1
    <3>3. beyond # {} /\ beyond \subseteq 1 .. runs
      BY <1>2, <2>2, <3>1
    <3>4. Min(beyond) \in 1 .. runs
      <4>1. beyond \in SUBSET Nat
        BY <1>2, <3>3
      <4>2. Min(beyond) \in beyond
        BY <3>3, <4>1, LeastExists
      <4> QED
        BY <3>3, <4>2
    <3> QED
      BY <1>1, <2>1, <2>6, <3>1, <3>2, <3>4 DEF GetLine
  <2>8. GetLine(b, size) = l
    <3>1. {r \in 1 .. runs : size < RunEnd(b, r)} = {runs}
      <4>1. ASSUME NEW r \in 1 .. runs PROVE size < RunEnd(b, r) <=> r = runs
        <5>1. r # runs => RunEnd(b, r) \in 0 .. size
          BY <1>2, <2>3
        <5> QED
          BY <1>2, <2>4, <5>1
      <4> QED
        BY <2>2, <4>1
    <3>2. Min({runs}) = runs
      BY <1>2, FirstBeyond
    <3> QED
      BY <2>1, <2>2, <2>6, <3>1, <3>2 DEF GetLine
  <2> QED
    BY <1>1, <2>5, <2>7, <2>8 DEF SameLines
<1>6. CASE ~ContinuesRun(a, l)
  <2>1. /\ b.elems \in Seq(Runs)
        /\ Len(b.elems) = runs + 1
        /\ \A r \in 1 .. runs : b.elems[r] = a.elems[r]
        /\ b.elems[runs + 1] = Run(l, 1)
    <3>1. LineWrite(z, l) \in [elems : Seq(Runs), capacity : Nat \ {0}]
      BY <1>4, <1>6, StartRun
    <3>2. \A r \in 1 .. runs : b.elems[r] = a.elems[r]
      BY <1>1, <1>4, <1>6, StartRun
    <3>3. Len(b.elems) = runs + 1 /\ b.elems[runs + 1] = Run(l, 1)
      BY <1>1, <1>4, <1>6, StartRun
    <3> QED
      BY <1>4, <3>1, <3>2, <3>3
  <2>2. \A r \in 0 .. runs : RunEnd(b, r) = RunEnd(a, r)
    <3> TAKE r \in 0 .. runs
    <3>1. r \in Nat /\ Alike(a, b, r)
      BY <1>2, <2>1 DEF Alike
    <3> QED
      BY <3>1, RunEndAgrees
  <2>3. RunEnd(b, runs + 1) = size + 1
    <3>1. RunEnd(b, runs + 1) = RunEnd(b, runs) + b.elems[runs + 1].bytes
      BY <1>2, RunEndUnfolds
    <3>2. b.elems[runs + 1].bytes = 1 /\ RunEnd(b, runs) = size
      BY <1>2, <2>1, <2>2 DEF Run
    <3> QED
      BY <3>1, <3>2
  <2>4. LinesOf(b, size + 1)
    <3>1. \A r \in 0 .. runs + 1 : RunEnd(b, r) \in 0 .. size + 1
      <4> TAKE r \in 0 .. runs + 1
      <4>1. CASE r = runs + 1
        BY <1>2, <2>3, <4>1
      <4>2. CASE r # runs + 1
        <5>1. r \in 0 .. runs
          BY <1>2, <4>2
        <5>2. RunEnd(b, r) \in 0 .. size
          BY <1>2, <2>2, <5>1
        <5> QED
          BY <1>2, <5>2
      <4> QED
        BY <4>1, <4>2
    <3> QED
      BY <1>2, <2>1, <2>3, <3>1 DEF LinesOf
  <2>5. ASSUME NEW i \in 0 .. size - 1 PROVE GetLine(b, i) = GetLine(a, i)
    <3>1. PICK here, there : /\ here = {r \in 1 .. runs : i < RunEnd(a, r)}
                             /\ there = {r \in 1 .. runs + 1 : i < RunEnd(b, r)}
      OBVIOUS
    <3>2. there = here \cup {runs + 1}
      <4>1. \A r \in 1 .. runs : i < RunEnd(b, r) <=> i < RunEnd(a, r)
        BY <1>2, <2>2
      <4>2. i < RunEnd(b, runs + 1)
        BY <1>2, <2>3
      <4> QED
        BY <1>2, <3>1, <4>1, <4>2
    <3>3. here # {} /\ here \subseteq 1 .. runs
      <4>1. runs # 0
        BY <1>2, RunEndUnfolds
      <4> QED
        BY <1>2, <3>1, <4>1
    <3>4. Min(here) \in here /\ \A r \in here : Min(here) <= r
      BY <1>2, <3>3, LeastExists
    <3>5. Min(there) = Min(here)
      <4>1. PICK m : m = Min(here)
        OBVIOUS
      <4>2. m \in 1 .. runs /\ m \in here /\ \A r \in here : m <= r
        BY <3>3, <3>4, <4>1
      <4>3. m <= runs + 1
        BY <1>2, <4>2
      <4>4. m \in there /\ \A r \in there : m <= r
        BY <3>2, <4>2, <4>3
      <4>5. there \in SUBSET Nat
        BY <1>2, <3>1
      <4> QED
        BY <4>1, <4>4, <4>5, FirstBeyond
    <3>6. GetLine(a, i) = a.elems[Min(here)].line /\ GetLine(b, i) = b.elems[Min(there)].line
      BY <1>1, <2>1, <3>1, <3>2, <3>3 DEF GetLine
    <3> QED
      BY <2>1, <3>3, <3>4, <3>5, <3>6
  <2>6. GetLine(b, size) = l
    <3>1. {r \in 1 .. runs + 1 : size < RunEnd(b, r)} = {runs + 1}
      BY <1>2, <2>2, <2>3
    <3>2. Min({runs + 1}) = runs + 1
      BY <1>2, FirstBeyond
    <3>3. b.elems[runs + 1].line = l
      BY <2>1 DEF Run
    <3> QED
      BY <2>1, <3>1, <3>2, <3>3 DEF GetLine
  <2> QED
    BY <1>1, <2>4, <2>5, <2>6 DEF SameLines
<1> QED
  BY <1>5, <1>6

-----------------------------------------------------------------------------
(* A chunk whose line table covers its code.                               *)
Lined(c) ==
  /\ \E S : c.code.elems \in Seq(S)
  /\ LinesOf(c.lines, Len(c.code.elems))
  /\ c = [code |-> c.code, constants |-> c.constants, lines |-> c.lines]

(* The code of d is that of c, with bytes behind it that are of line l.    *)
WrittenFor(c, d, l) ==
  /\ Lined(d) /\ Len(c.code.elems) \in Nat /\ Len(c.code.elems) <= Len(d.code.elems)
  /\ SameLines(c.lines, d.lines, Len(c.code.elems))
  /\ \A i \in Len(c.code.elems) .. Len(d.code.elems) - 1 : GetLine(d.lines, i) = l

LEMMA ByteIsLined ==
  ASSUME NEW c, Lined(c), NEW byte, NEW l \in Nat
  PROVE  WrittenFor(c, ChunkWrite(c, byte, l), l)
<1>1. PICK d, n, b : d = ChunkWrite(c, byte, l) /\ n = Len(c.code.elems) /\ b = ToByte(byte)
  OBVIOUS
<1>2. PICK S : c.code.elems \in Seq(S)
  BY DEF Lined
<1>3. /\ d = [code |-> d.code, constants |-> d.constants, lines |-> d.lines]
      /\ d.code.elems = Append(c.code.elems, b)
      /\ d.lines = LineWrite(c.lines, l)
  <2>1. PICK x, y, z : c = [code |-> x, constants |-> y, lines |-> z]
    BY DEF Lined
  <2>2. c.code = x /\ c.constants = y /\ c.lines = z
    BY <2>1
  <2>3. PICK u, w : u = Pushed(x, b) /\ w = LineWrite(z, l)
    OBVIOUS
  <2>4. d = [[[code |-> x, constants |-> y, lines |-> z] EXCEPT !.code = u] EXCEPT !.lines = w]
    BY <1>1, <2>1, <2>2, <2>3 DEF ChunkWrite
  <2>5. d = [code |-> u, constants |-> y, lines |-> w]
    BY <2>4
  <2>6. u.elems = Append(x.elems, b)
    BY <2>3 DEF Pushed
  <2> QED
    BY <2>2, <2>3, <2>5, <2>6
<1>4. c.code.elems \in Seq(S \cup {b}) /\ n \in Nat
  BY <1>1, <1>2
<1>5. d.code.elems \in Seq(S \cup {b}) /\ Len(d.code.elems) = n + 1
  BY <1>1, <1>3, <1>4
<1>6. LinesOf(c.lines, n)
  BY <1>1 DEF Lined
<1>7. LinesOf(d.lines, n + 1) /\ SameLines(c.lines, d.lines, n) /\ GetLine(d.lines, n) = l
  BY <1>3, <1>6, LineFound
<1>8. Lined(d)
  BY <1>3, <1>5, <1>7 DEF Lined
<1>9. \A i \in n .. (n + 1) - 1 : i = n
  BY <1>4
<1> QED
  BY <1>1, <1>4, <1>5, <1>7, <1>8, <1>9 DEF WrittenFor

LEMMA ConstantIsLined ==
  ASSUME NEW c, Lined(c), NEW v, NEW l
  PROVE  WrittenFor(c, AddConstant(c, v), l)
<1>1. PICK d, n : d = AddConstant(c, v) /\ n = Len(c.code.elems)
  OBVIOUS
<1>2. d = [code |-> c.code, constants |-> Pushed(c.constants, v), lines |-> c.lines]
  BY <1>1 DEF AddConstant, Lined
<1>3. d.code = c.code /\ d.lines = c.lines /\ n \in Nat
  BY <1>1, <1>2 DEF Lined
<1>4. d = [code |-> d.code, constants |-> d.constants, lines |-> d.lines]
  BY <1>2
<1>5. Lined(d)
  BY <1>3, <1>4 DEF Lined
<1>6. \A i \in n .. n - 1 : FALSE
  BY <1>3
<1> QED
  BY <1>1, <1>3, <1>5, <1>6 DEF WrittenFor, SameLines

LEMMA LinedThen ==
  ASSUME NEW c, NEW d, NEW e, NEW l, WrittenFor(c, d, l), WrittenFor(d, e, l)
  PROVE  WrittenFor(c, e, l)
<1>1. PICK m, n, p : m = Len(c.code.elems) /\ n = Len(d.code.elems) /\ p = Len(e.code.elems)
  OBVIOUS
<1>2. m \in Nat /\ n \in Nat /\ p \in Nat /\ m <= n /\ n <= p
  BY <1>1 DEF WrittenFor, Lined, LinesOf
<1>3. /\ \A i \in 0 .. m - 1 : GetLine(d.lines, i) = GetLine(c.lines, i)
      /\ \A i \in 0 .. n - 1 : GetLine(e.lines, i) = GetLine(d.lines, i)
      /\ \A i \in m .. n - 1 : GetLine(d.lines, i) = l
      /\ \A i \in n .. p - 1 : GetLine(e.lines, i) = l
  BY <1>1 DEF WrittenFor, SameLines
<1>4. \A i \in 0 .. m - 1 : GetLine(e.lines, i) = GetLine(c.lines, i)
  <2> TAKE i \in 0 .. m - 1
  <2>1. i \in 0 .. n - 1
    BY <1>2
  <2> QED
    BY <1>3, <2>1
<1>5. \A i \in m .. p - 1 : GetLine(e.lines, i) = l
  <2> TAKE i \in m .. p - 1
  <2>1. i \in n .. p - 1 \/ (i \in m .. n - 1 /\ i \in 0 .. n - 1)
    BY <1>2
  <2> QED
    BY <1>3, <2>1
<1> QED
  BY <1>1, <1>2, <1>4, <1>5 DEF WrittenFor, SameLines

(* WRITE_VALUE: the opcode, the constant and its operand, in both forms.   *)
LEMMA ValueIsLined ==
  ASSUME NEW c, Lined(c), NEW v, NEW l \in Nat
  PROVE  WrittenFor(c, WriteValue(c, v, l), l)
<1>1. CASE TakesShortForm(c)
  <2>1. PICK n, c1, c2, c3 :
          /\ n = ConstantCount(c) /\ c1 = ChunkWrite(c, OPCODE_CONSTANT, l)
          /\ c2 = AddConstant(c1, v) /\ c3 = ChunkWrite(c2, n, l)
    OBVIOUS
  <2>2. WriteValue(c, v, l) = c3
    BY <1>1, <2>1 DEF WriteValue
  <2>3. WrittenFor(c, c1, l) /\ Lined(c1)
    BY <2>1, ByteIsLined DEF WrittenFor
  <2>4. WrittenFor(c1, c2, l) /\ Lined(c2)
    BY <2>1, <2>3, ConstantIsLined DEF WrittenFor
  <2>5. WrittenFor(c2, c3, l)
    BY <2>1, <2>4, ByteIsLined
  <2>6. WrittenFor(c, c3, l)
    <3>1. WrittenFor(c, c2, l)
      BY <2>3, <2>4, LinedThen
    <3> QED
      BY <2>5, <3>1, LinedThen
  <2> QED
    BY <2>2, <2>6
<1>2. CASE ~TakesShortForm(c)
  <2>1. PICK c1 : c1 = ChunkWrite(c, OPCODE_CONSTANT_LONG, l)
    OBVIOUS
  <2>2. PICK n, b1, b2, b3 : /\ n = ConstantCount(c1) /\ b1 = MaskByte(n, 1)
                             /\ b2 = MaskByte(n, 256) /\ b3 = MaskByte(n, 65536)
    OBVIOUS
  <2>3. PICK c2, c3, c4, c5 : /\ c2 = AddConstant(c1, v) /\ c3 = ChunkWrite(c2, b1, l)
                              /\ c4 = ChunkWrite(c3, b2, l) /\ c5 = ChunkWrite(c4, b3, l)
    OBVIOUS
  <2>4. WriteValue(c, v, l) = c5
    BY <1>2, <2>1, <2>2, <2>3 DEF WriteValue, WriteConstant
  <2>5. WrittenFor(c, c1, l) /\ Lined(c1)
    BY <2>1, ByteIsLined DEF WrittenFor
  <2>6. WrittenFor(c1, c2, l) /\ Lined(c2)
    BY <2>3, <2>5, ConstantIsLined DEF WrittenFor
  <2>7. WrittenFor(c2, c3, l) /\ Lined(c3)
    BY <2>3, <2>6, ByteIsLined DEF WrittenFor
  <2>8. WrittenFor(c3, c4, l) /\ Lined(c4)
    BY <2>3, <2>7, ByteIsLined DEF WrittenFor
  <2>9. WrittenFor(c4, c5, l)
    BY <2>3, <2>8, ByteIsLined
  <2>10. WrittenFor(c, c3, l)
    <3>1. WrittenFor(c, c2, l)
      BY <2>5, <2>6, LinedThen
    <3> QED
      BY <2>7, <3>1, LinedThen
  <2>11. WrittenFor(c, c5, l)
    <3>1. WrittenFor(c, c4, l)
      BY <2>8, <2>10, LinedThen
    <3> QED
      BY <2>9, <3>1, LinedThen
  <2> QED
    BY <2>4, <2>11
<1> QED
  BY <1>1, <1>2

(* A new chunk has no code.                                                *)
LEMMA NewIsLined == Lined(chunk_init)
<1>1. PICK a : a = EmptyArray
  OBVIOUS
<1>2. a.elems = <<>>
  BY <1>1 DEF EmptyArray
<1>3. <<>> \in Seq(Runs) /\ Len(<<>>) = 0
  OBVIOUS
<1>4. \A r \in 0 .. 0 : RunEnd(a, r) \in 0 .. 0
  BY RunEndUnfolds
<1>5. LinesOf(a, 0)
  BY <1>2, <1>3, <1>4, RunEndUnfolds DEF LinesOf
<1>6. chunk_init = [code |-> a, constants |-> a, lines |-> a]
  BY <1>1 DEF chunk_init
<1> QED
  BY <1>2, <1>3, <1>5, <1>6 DEF Lined

(* The instructions e of the code of c, each with the node it was written  *)
(* for: its bytes go up to the next one, and have the line of the node.    *)
UpTo(c, e, j) == IF j < Len(e) THEN e[j + 1].offset ELSE Len(c.code.elems)

Blames(c, e, lineOf) ==
  /\ Lined(c) /\ \E S : e \in Seq(S)
  /\ \A j \in 1 .. Len(e) :
       /\ e[j].offset \in Nat /\ UpTo(c, e, j) <= Len(c.code.elems)
       /\ \A i \in e[j].offset .. UpTo(c, e, j) - 1 : GetLine(c.lines, i) = lineOf[e[j].node]

LEMMA NextBlamed ==
  ASSUME NEW c, NEW e, NEW lineOf, Blames(c, e, lineOf), NEW n, NEW d, WrittenFor(c, d, lineOf[n])
  PROVE  Blames(d, Append(e, [node |-> n, offset |-> Len(c.code.elems)]), lineOf)
<1>1. PICK size, more, last, y, f :
        /\ size = Len(c.code.elems) /\ more = Len(d.code.elems) /\ last = Len(e)
        /\ y = [node |-> n, offset |-> size] /\ f = Append(e, y)
  OBVIOUS
<1>2. PICK S : e \in Seq(S)
  BY DEF Blames
<1>3. y.node = n /\ y.offset = size
  BY <1>1
<1>4. /\ last \in Nat /\ f \in Seq(S \cup {y}) /\ Len(f) = last + 1 /\ f[last + 1] = y
      /\ \A j \in 1 .. last : f[j] = e[j]
  <2>1. e \in Seq(S \cup {y})
    BY <1>2
  <2> QED
    BY <1>1, <2>1
<1>5. /\ size \in Nat /\ more \in Nat /\ size <= more /\ Lined(d)
      /\ \A i \in 0 .. size - 1 : GetLine(d.lines, i) = GetLine(c.lines, i)
      /\ \A i \in size .. more - 1 : GetLine(d.lines, i) = lineOf[n]
  BY <1>1 DEF WrittenFor, SameLines, Lined, LinesOf
<1>6. ASSUME NEW j \in 1 .. last + 1
      PROVE  /\ f[j].offset \in Nat /\ UpTo(d, f, j) <= more
             /\ \A i \in f[j].offset .. UpTo(d, f, j) - 1 : GetLine(d.lines, i) = lineOf[f[j].node]
  <2>1. CASE j = last + 1
    <3>1. UpTo(d, f, j) = more
      BY <1>1, <1>4, <2>1 DEF UpTo
    <3> QED
      BY <1>3, <1>4, <1>5, <2>1, <3>1
  <2>2. CASE j # last + 1
    <3>1. j \in 1 .. last /\ j < Len(f)
      BY <1>4, <2>2
    <3>2. UpTo(d, f, j) = UpTo(c, e, j)
      <4>1. CASE j < last
        <5>1. j + 1 \in 1 .. last
          BY <1>4, <3>1, <4>1
        <5> QED
          BY <1>1, <1>4, <3>1, <4>1, <5>1 DEF UpTo
      <4>2. CASE j = last
        BY <1>1, <1>3, <1>4, <3>1, <4>2 DEF UpTo
      <4> QED
        BY <1>4, <3>1, <4>1, <4>2
    <3>3. PICK up : up = UpTo(c, e, j)
      OBVIOUS
    <3>4. /\ e[j].offset \in Nat /\ up <= size
          /\ \A i \in e[j].offset .. up - 1 : GetLine(c.lines, i) = lineOf[e[j].node]
      BY <1>1, <3>1, <3>3 DEF Blames
    <3>5. up \in Int
      <4>1. CASE j < last
        <5>1. j + 1 \in 1 .. last
          BY <1>4, <3>1, <4>1
        <5>2. e[j + 1].offset \in Nat
          BY <1>1, <5>1 DEF Blames
        <5> QED
          BY <1>1, <3>3, <4>1, <5>2 DEF UpTo
      <4>2. CASE ~(j < last)
        BY <1>1, <1>5, <3>3, <4>2 DEF UpTo
      <4> QED
        BY <4>1, <4>2
    <3>6. \A i \in e[j].offset .. up - 1 : i \in 0 .. size - 1
      BY <1>5, <3>4, <3>5
    <3>7. f[j] = e[j] /\ UpTo(d, f, j) = up
      BY <1>4, <3>1, <3>2, <3>3
    <3> QED
      BY <1>5, <3>4, <3>5, <3>6, <3>7
  <2> QED
    BY <2>1, <2>2
<1>7. Blames(d, f, lineOf)
  BY <1>1, <1>4, <1>5, <1>6 DEF Blames
<1> QED
  BY <1>1, <1>7
=============================================================================
