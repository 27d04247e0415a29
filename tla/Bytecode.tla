------------------------------ MODULE Bytecode ------------------------------
(***************************************************************************)
(* The vocabulary that the compiler (chunk.c) and the virtual machine      *)
(* (vm.c) share: the opcodes with the byte each one is encoded as, the     *)
(* length of an instruction, and tagged values.                            *)
(***************************************************************************)
EXTENDS Integers

(* enum opcode : uint8_t, in declaration order (include/chunk.h).          *)
OPCODE_CONSTANT      == 0
OPCODE_CONSTANT_LONG == 1
OPCODE_TRUE          == 2
OPCODE_FALSE         == 3
OPCODE_ADD           == 4
OPCODE_SUB           == 5
OPCODE_MUL           == 6
OPCODE_DIV           == 7
OPCODE_CONCAT        == 8
OPCODE_NEGATE        == 9
OPCODE_NOT           == 10
OPCODE_EQUAL         == 11
OPCODE_NOT_EQUAL     == 12
OPCODE_LESS          == 13
OPCODE_LESS_EQUAL    == 14
OPCODE_GREATER       == 15
OPCODE_GREATER_EQUAL == 16
OPCODE_RETURN        == 17

Opcodes == OPCODE_CONSTANT .. OPCODE_RETURN

(* An element of the code array is a uint8_t.                              *)
Byte == 0 .. 255

ToByte(n) == n % 256

(* The disassembler's idea of how many bytes an instruction occupies.      *)
\* Mutant: the long form advances like the short one.
InstructionLengthShortOnly(op) ==
  IF op \in {OPCODE_CONSTANT, OPCODE_CONSTANT_LONG} THEN 2 ELSE 1

InstructionLength(op) ==
  CASE op = OPCODE_CONSTANT      -> 2
    [] op = OPCODE_CONSTANT_LONG -> 4
    [] OTHER                     -> 1

(***************************************************************************)
(* struct value: a tag and a union, as the fraction num/den.  den is 1 but *)
(* for a REAL (a double is modelled by the rational it stands for; BOOL is *)
(* 0 or 1, and an OBJ is the number of a heap object).  den = 0 is junk: a *)
(* bit pattern the model does not track, such as what is read through a    *)
(* member of the union other than the one that was stored.                 *)
(***************************************************************************)
Kinds == {"BOOL", "CHAR", "REAL", "INTEGER", "OBJ"}

Value(kind, n) == [kind |-> kind, num |-> n, den |-> 1]
Real(n, d)     == [kind |-> "REAL", num |-> n, den |-> d]
Junk(kind)     == [kind |-> kind, num |-> 0, den |-> 0]
Bool(b)        == Value("BOOL", IF b THEN 1 ELSE 0)

IsJunk(v)  == v.den = 0
IsTrue(v)  == v.num = 1
=============================================================================
