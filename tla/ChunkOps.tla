------------------------------ MODULE ChunkOps ------------------------------
(***************************************************************************)
(* struct chunk (chunk.c, value.c): the growable arrays a compiled program *)
(* lives in, as operators on records.  A chunk owns                        *)
(*   code       bytes, each an opcode or an operand of one,                *)
(*   constants  the values the operands index,                             *)
(*   lines      a run-length encoded table of pairs                        *)
(*              <line, number of consecutive bytes written for it>.        *)
(* An array is [elems, capacity].  Its count field is Len(elems), except   *)
(* that the source keeps the two words of a run as two elements of a flat  *)
(* array: elems[k] is lines[2k - 2] and lines[2k - 1] there, and capacity  *)
(* still counts words.  Arrays of the source start at 0, sequences at 1:   *)
(* code[i] is code.elems[i + 1].                                           *)
(***************************************************************************)
EXTENDS Bytecode, Sequences, FiniteSetsExt

CONSTANTS
  CAPACITY_INIT,   \* elements every array of a chunk is created with
  SHORT_LIMIT      \* code size at which the compiler takes CONSTANT_LONG

ASSUME CapacityAssumption   == CAPACITY_INIT \in Nat \ {0}
ASSUME ShortLimitAssumption == SHORT_LIMIT \in 0 .. 512

EmptyArray == [elems |-> <<>>, capacity |-> CAPACITY_INIT]

chunk_init == [code |-> EmptyArray, constants |-> EmptyArray, lines |-> EmptyArray]

(* Every array doubles when the elements about to be stored do not fit.    *)
\* Mutant: grows one element too late.
GrownLate(capacity, needed) ==
  IF capacity + 1 < needed THEN 2 * capacity ELSE capacity

Grown(capacity, needed) ==
  IF capacity < needed THEN 2 * capacity ELSE capacity

Pushed(array, e) ==
  [elems    |-> Append(array.elems, e),
   capacity |-> Grown(array.capacity, Len(array.elems) + 1)]

-----------------------------------------------------------------------------
(* The line table.                                                         *)

Runs == [line : Nat, bytes : Nat]

Run(line, bytes) == [line |-> line, bytes |-> bytes]

WordCount(array) == 2 * Len(array.elems)

(* _line_write's early return: the byte belongs to the run being written.  *)
\* Mutant: compares with any earlier run, not with the last one.
ContinuesAnyRun(array, line) ==
  \E k \in 1 .. Len(array.elems) : array.elems[k].line = line

ContinuesRun(array, line) ==
  LET last == Len(array.elems)
  IN  last > 0 /\ array.elems[last].line = line

LineWrite(array, line) ==
  LET last == Len(array.elems)
  IN  IF ContinuesRun(array, line)
      THEN [elems    |-> [array.elems EXCEPT ![last] = Run(line, @.bytes + 1)],
            capacity |-> array.capacity]
      ELSE [elems    |-> Append(array.elems, Run(line, 1)),
            capacity |-> Grown(array.capacity, WordCount(array) + 2)]

(***************************************************************************)
(* What chunk_get_line returns, stated without its loop: the line of the   *)
(* first run that ends beyond the byte, 0 when no run does.  The loop      *)
(* itself is module LineTable.                                             *)
(***************************************************************************)
RunEnd(array, k) ==
  LET end[j \in 0 .. k] == IF j = 0 THEN 0 ELSE end[j - 1] + array.elems[j].bytes
  IN  end[k]

GetLine(array, index) ==
  LET beyond == {k \in 1 .. Len(array.elems) : index < RunEnd(array, k)}
  IN  IF beyond = {} THEN 0 ELSE array.elems[Min(beyond)].line

-----------------------------------------------------------------------------
(* Writing code and constants.                                             *)

ChunkWrite(c, byte, line) ==
  [c EXCEPT !.code  = Pushed(@, ToByte(byte)),
            !.lines = LineWrite(@, line)]

AddConstant(c, value) == [c EXCEPT !.constants = Pushed(@, value)]

ConstantCount(c) == Len(c.constants.elems)

(***************************************************************************)
(* chunk_write_constant masks the index without shifting it; the cast of   *)
(* each masked word to the one-byte opcode type then keeps its low byte.   *)
(***************************************************************************)
MaskByte(n, unit) == ((n \div unit) % 256) * unit

\* Mutant: the operand is two bytes long.
WriteConstantTwoBytes(c, value, line) ==
  LET index == ConstantCount(c)
      c1    == ChunkWrite(AddConstant(c, value), MaskByte(index, 1), line)
  IN  ChunkWrite(c1, MaskByte(index, 256), line)

WriteConstant(c, value, line) ==
  LET index == ConstantCount(c)
      c1    == ChunkWrite(AddConstant(c, value), MaskByte(index, 1), line)
      c2    == ChunkWrite(c1, MaskByte(index, 256), line)
  IN  ChunkWrite(c2, MaskByte(index, 65536), line)

TakesShortForm(c) == SHORT_LIMIT > Len(c.code.elems)

(* WRITE_VALUE: the form is chosen by the size of the code, not by the     *)
(* number of constants.                                                    *)
\* Mutant: the index is taken after the constant was added.
WriteValueIndexAfter(c, value, line) ==
  IF TakesShortForm(c)
  THEN LET c1 == ChunkWrite(c, OPCODE_CONSTANT, line)
       IN  ChunkWrite(AddConstant(c1, value), ConstantCount(c) + 1, line)
  ELSE WriteConstant(ChunkWrite(c, OPCODE_CONSTANT_LONG, line), value, line)

WriteValue(c, value, line) ==
  IF TakesShortForm(c)
  THEN LET c1 == ChunkWrite(c, OPCODE_CONSTANT, line)
       IN  ChunkWrite(AddConstant(c1, value), ConstantCount(c), line)
  ELSE WriteConstant(ChunkWrite(c, OPCODE_CONSTANT_LONG, line), value, line)

-----------------------------------------------------------------------------
(* Reading code back.  offset counts from 0, as in the source.             *)

CodeAt(c, offset) == c.code.elems[offset + 1]

(* chunk_disassemble_instruction: the index it prints for a constant       *)
(* instruction (it combines the three long operand bytes without shifts)   *)
(* and the offset of the instruction after.                                *)
Bits == {1, 2, 4, 8, 16, 32, 64, 128}

HasBit(x, bit) == (x \div bit) % 2 = 1

ByteOr(x, y) == SumSet({bit \in Bits : HasBit(x, bit) \/ HasBit(y, bit)})

DisassembledIndex(c, offset) ==
  IF CodeAt(c, offset) = OPCODE_CONSTANT
  THEN CodeAt(c, offset + 1)
  ELSE ByteOr(CodeAt(c, offset + 1), ByteOr(CodeAt(c, offset + 2), CodeAt(c, offset + 3)))

DisassembledNext(c, offset) == offset + InstructionLength(CodeAt(c, offset))
=============================================================================
