------------------------------ MODULE Compiler ------------------------------
(***************************************************************************)
(* chunk_write_from_ast (chunk.c): one walk over the tree that writes a    *)
(* chunk, then main's OPCODE_RETURN.  The walk is recursive; its call      *)
(* stack is the explicit sequence work of what is still to be done, top    *)
(* first: to visit a node, or to write the opcode of an operator whose     *)
(* operands have been compiled.                                            *)
(***************************************************************************)
EXTENDS Session, Program

CONSTANT Programs   \* the trees that are compiled

(* A node's union has no tag of its own: its value is of the node's kind.  *)
(* The chars of a STRING are those of its token, quotes included; they may *)
(* be any.                                                                 *)
ASSUME ProgramsAssumption ==
  \A p \in Programs :
    /\ p \in Seq([kind : NodeKinds, line : Nat, value : [kind : Kinds, num : Int, den : Int],
                  chars : {p[n].chars : n \in DOMAIN p}, first : Nat])
    /\ IsTree(p)
    /\ \A n \in DOMAIN p : p[n].kind \in {"CHAR", "REAL", "INTEGER"} => p[n].value.kind = p[n].kind

(* The values the parser gives its literals: the truth of a keyword, the   *)
(* byte of a character, the integer or the double of a lexeme.             *)
ASSUME LiteralsAssumption ==
  \A p \in Programs : \A n \in DOMAIN p :
    /\ p[n].kind = "BOOL" => p[n].value \in {Bool(TRUE), Bool(FALSE)}
    /\ p[n].kind \in {"CHAR", "INTEGER"} => p[n].value.den = 1
    /\ p[n].kind = "REAL" => p[n].value.den > 0

VARIABLES
  program,   \* the tree
  work,      \* the pending calls, each [task, node]
  emitted    \* history: for each instruction written, [node, offset]

compilerVars == <<program, work, emitted>>

Visit(n) == [task |-> "visit", node |-> n]
Emit(n)  == [task |-> "emit",  node |-> n]

CompilerInit ==
  /\ program \in Programs
  /\ work = <<Visit(Len(program))>>
  /\ chunk = chunk_init
  /\ store = EmptyStore
  /\ emitted = <<>>
  /\ phase = "compile"

-----------------------------------------------------------------------------
(* The opcode of an operator that has one, after those of its operands.    *)
OperatorOpcode(kind) ==
  CASE kind = "NOT"           -> OPCODE_NOT
    [] kind = "NEGATE"        -> OPCODE_NEGATE
    [] kind = "ADD"           -> OPCODE_ADD
    [] kind = "MUL"           -> OPCODE_MUL
    [] kind = "DIV"           -> OPCODE_DIV
    [] kind = "INT_DIV"       -> OPCODE_DIV
    [] kind = "CONCAT"        -> OPCODE_CONCAT
    [] kind = "EQUAL"         -> OPCODE_EQUAL
    [] kind = "NOT_EQUAL"     -> OPCODE_NOT_EQUAL
    [] kind = "GREATER"       -> OPCODE_GREATER
    [] kind = "GREATER_EQUAL" -> OPCODE_GREATER_EQUAL
    [] kind = "LESS"          -> OPCODE_LESS
    [] kind = "LESS_EQUAL"    -> OPCODE_LESS_EQUAL

(* The cases of the switch that write nothing and visit nothing: SUB's     *)
(* WRITE_BINARY follows its break, the others are commented out.           *)
SilentKinds == {"POINTER", "SUB", "MOD", "AND", "OR"}

-----------------------------------------------------------------------------
(* The steps of the walk.                                                  *)
Top == Head(work)

Visiting(n) == phase = "compile" /\ work # <<>> /\ Top = Visit(n)

(* Whatever is written now is the instruction of node n.                   *)
Emitted(n) == emitted' = Append(emitted, [node |-> n, offset |-> Len(chunk.code.elems)])

WriteBool(n) ==
  LET node == program[n]
  IN  /\ Visiting(n)
      /\ node.kind = "BOOL"
      /\ chunk' = ChunkWrite(chunk, IF IsTrue(node.value) THEN OPCODE_TRUE ELSE OPCODE_FALSE,
                             node.line)
      /\ Emitted(n)
      /\ work' = Tail(work)
      /\ UNCHANGED <<program, store, phase>>

WriteNumber(n) ==
  LET node == program[n]
  IN  /\ Visiting(n)
      /\ node.kind \in {"CHAR", "REAL", "INTEGER"}
      /\ chunk' = WriteValue(chunk, node.value, node.line)
      /\ Emitted(n)
      /\ work' = Tail(work)
      /\ UNCHANGED <<program, store, phase>>

\* Mutant: the length is the token's less the opening quote only.
StringCharsToTheEnd(node) == SubSeq(node.chars, 2, Len(node.chars))

(* chars + 1 and length - 2: the token without its quotes.                 *)
StringChars(node) == SubSeq(node.chars, 2, Len(node.chars) - 1)

(* A string literal becomes an object while the chunk is being written; a  *)
(* call that does not return ends the walk.                                *)
WriteString(n) ==
  LET node == program[n]
      ref  == obj_string_ref(store, StringChars(node))
  IN  /\ Visiting(n)
      /\ node.kind = "STRING"
      /\ IF ref.outcome = "ok"
         THEN /\ store' = ref.store
              /\ chunk' = WriteValue(chunk, Value("OBJ", ref.string), node.line)
              /\ Emitted(n)
              /\ work' = Tail(work)
              /\ UNCHANGED <<program, phase>>
         ELSE /\ phase' = "wild"
              /\ UNCHANGED <<program, work, chunk, store, emitted>>

(* A unary operator or a GROUP, which has no instruction of its own.       *)
VisitUnary(n) ==
  /\ Visiting(n)
  /\ program[n].kind \in UnaryKinds \ SilentKinds
  /\ work' = <<Visit(Expr(program, n))>>
             \o (IF program[n].kind = "GROUP" THEN <<>> ELSE <<Emit(n)>>) \o Tail(work)
  /\ UNCHANGED <<program, chunk, store, emitted, phase>>

\* Mutant: the right operand is compiled first.
OperandsRightFirst(n) == <<Visit(Rhs(program, n)), Visit(Lhs(program, n))>>

Operands(n) == <<Visit(Lhs(program, n)), Visit(Rhs(program, n))>>

VisitBinary(n) ==
  /\ Visiting(n)
  /\ program[n].kind \in BinaryKinds \ SilentKinds
  /\ work' = Operands(n) \o <<Emit(n)>> \o Tail(work)
  /\ UNCHANGED <<program, chunk, store, emitted, phase>>

VisitSilent(n) ==
  /\ Visiting(n)
  /\ program[n].kind \in SilentKinds
  /\ work' = Tail(work)
  /\ UNCHANGED <<program, chunk, store, emitted, phase>>

\* Mutant: the opcode is written for the line of the last operand.
BlamedLineOfOperand(n) == program[n - 1].line

BlamedLine(n) == program[n].line

WriteOperator(n) ==
  /\ phase = "compile" /\ work # <<>> /\ Top = Emit(n)
  /\ chunk' = ChunkWrite(chunk, OperatorOpcode(program[n].kind), BlamedLine(n))
  /\ Emitted(n)
  /\ work' = Tail(work)
  /\ UNCHANGED <<program, store, phase>>

(* main appends the RETURN, always for line 2.  ROOT stands for its node.  *)
ROOT == 0
RETURN_LINE == 2

Finish ==
  /\ phase = "compile" /\ work = <<>>
  /\ chunk' = ChunkWrite(chunk, OPCODE_RETURN, RETURN_LINE)
  /\ Emitted(ROOT)
  /\ phase' = "run"
  /\ UNCHANGED <<program, work, store>>

Compile ==
  \/ \E n \in DOMAIN program :
       \/ WriteBool(n) \/ WriteNumber(n) \/ WriteString(n) \/ WriteOperator(n)
       \/ VisitUnary(n) \/ VisitBinary(n) \/ VisitSilent(n)
  \/ Finish
=============================================================================
