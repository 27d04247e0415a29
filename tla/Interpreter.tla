---------------------------- MODULE Interpreter ----------------------------
(***************************************************************************)
(* The program: main.c compiles a tree and runs the chunk.  Every property *)
(* here relates what the machine does to the tree that was compiled.       *)
(***************************************************************************)
EXTENDS Compiler, Vm

Ref == INSTANCE Reference

(* The parser's INTEGERs end at the limits of the machine's.               *)
ASSUME IntegersAssumption ==
  \A p \in Programs : \A n \in DOMAIN p :
    p[n].kind = "INTEGER" => p[n].value.num \in MinInteger .. -MinInteger - 1

vars == <<compilerVars, vmVars, chunk, store, phase>>

Init == CompilerInit /\ VmInit

Terminated == phase \in {"returned", "trap", "wild"} /\ UNCHANGED vars

Next ==
  \/ Compile /\ UNCHANGED vmVars
  \/ Execute /\ UNCHANGED compilerVars
  \/ Terminated

(* One thread, nothing to wait for: a step that can be taken is taken.     *)
Spec == Init /\ [][Next]_vars /\ WF_vars(Next)

-----------------------------------------------------------------------------
(* Type invariant.  An INTEGER has the width of the machine's.             *)
Values ==
  {v \in [kind : Kinds, num : Int, den : Nat] :
     v.kind = "INTEGER" => v.num \in MinInteger .. -MinInteger - 1}

TypeOK ==
  /\ phase \in Phases
  /\ work \in Seq([task : {"visit", "emit"}, node : DOMAIN program])
  /\ chunk.code.elems \in Seq(Byte)
  /\ chunk.constants.elems \in Seq(Values)
  /\ emitted \in Seq([node : {ROOT} \cup DOMAIN program, offset : Nat])
  /\ ip \in Nat
  /\ stack \in Seq(Values) /\ printed \in Seq(Values)
  /\ result \in 0 .. 2 ^ RESULT_BITS - 1

-----------------------------------------------------------------------------
(* The code that is written.                                               *)

CodeSize == Len(chunk.code.elems)
NextOffset(j) == IF j < Len(emitted) THEN emitted[j + 1].offset ELSE CodeSize
OpOf(j) == CodeAt(chunk, emitted[j].offset)

(* The instructions tile the code: each begins where the one before it     *)
(* ends, by the lengths the disassembler and the machine step with.        *)
InstructionsTile ==
  /\ emitted # <<>> => emitted[1].offset = 0
  /\ \A j \in DOMAIN emitted :
       NextOffset(j) = emitted[j].offset + InstructionLength(OpOf(j))

(* No array of the chunk holds more than it has room for.                  *)
ArraysFit ==
  /\ Len(chunk.code.elems) <= chunk.code.capacity
  /\ Len(chunk.constants.elems) <= chunk.constants.capacity
  /\ WordCount(chunk.lines) <= chunk.lines.capacity

(* The constant an instruction names is the literal of its node, as long   *)
(* as its index fits a byte: always for the short form, whose choice looks *)
(* at the size of the code only; modulo 256 for the long form.             *)
IsConstant(j) == OpOf(j) \in {OPCODE_CONSTANT, OPCODE_CONSTANT_LONG}

LiteralIndex(j) == Cardinality({i \in 1 .. j - 1 : IsConstant(i)})

LiteralOf(j) ==
  LET node == program[emitted[j].node]
  IN  IF node.kind = "STRING" THEN [kind |-> "OBJ", chars |-> Ref!Unquoted(node.chars)]
      ELSE [kind |-> node.kind, chars |-> <<node.value.num, node.value.den>>]

Shown(v) ==
  IF v.kind = "OBJ" THEN [kind |-> "OBJ", chars |-> store.heap[v.num].chars]
  ELSE [kind |-> v.kind, chars |-> <<v.num, v.den>>]

OperandNamesLiteral ==
  \A j \in DOMAIN emitted :
    IsConstant(j) =>
      LET index == LiteralIndex(j)
          byte(k) == CodeAt(chunk, emitted[j].offset + k)
      IN  /\ byte(1) = index % 256
          /\ OpOf(j) = OPCODE_CONSTANT_LONG => byte(2) = 0 /\ byte(3) = 0
          /\ OpOf(j) = OPCODE_CONSTANT => index < 256
          /\ Shown(chunk.constants.elems[index + 1]) = LiteralOf(j)

(* Operands are compiled before their operator and left before right, and  *)
(* no node is compiled twice; when no operator is dropped, none is missing *)
(* and the RETURN comes last.                                              *)
HasSilent == \E n \in DOMAIN program : program[n].kind \in SilentKinds

CodeIsPostOrder ==
  LET last == Len(emitted)
  IN  /\ \A i, j \in 1 .. last :
           i < j /\ emitted[j].node # ROOT => emitted[i].node < emitted[j].node
      /\ phase # "compile" /\ ~HasSilent =>
           /\ emitted[last].node = ROOT
           /\ {emitted[j].node : j \in 1 .. last - 1} =
                {n \in DOMAIN program : program[n].kind # "GROUP"}

-----------------------------------------------------------------------------
(* The run.                                                                *)

(* The machine is at the start of an instruction that was written as one,  *)
(* never at an operand byte and never past the end of the code.            *)
IpAligned == phase = "run" => \E j \in DOMAIN emitted : emitted[j].offset = ip

(* The trace printed before a step tells what the step does: where the     *)
(* next instruction is, and which constant is pushed.                      *)
TraceIsTrue ==
  [][phase = "run" /\ Execute =>
       /\ phase' = "run" => ip' = DisassembledNext(chunk, ip)
       /\ Op \in {OPCODE_CONSTANT, OPCODE_CONSTANT_LONG} /\ phase' = "run" =>
            stack'[Len(stack')] = chunk.constants.elems[DisassembledIndex(chunk, ip) + 1]]_vars

(* A constant instruction pushes the literal it was written for if that is *)
(* one of the first 256 of the chunk, and literal number i modulo 256 if   *)
(* it is a later one, whose index lost its high bytes in the code.         *)
FetchedConstant ==
  [][\A j \in DOMAIN emitted :
       phase = "run" /\ ip # ip' /\ emitted[j].offset = ip /\ IsConstant(j) =>
         /\ phase' = "run"
         /\ stack' = Append(stack, chunk.constants.elems[(LiteralIndex(j) % 256) + 1])]_vars

(* A supported program prints its meaning, and nothing else.               *)
Denoted(v) ==
  IF v.kind = "OBJ" THEN Ref!MeantString(store.heap[v.num].chars) ELSE Ref!Meant(v)

PrintsItsMeaning ==
  phase \notin {"compile", "run"} /\ Ref!Supported(program) =>
    /\ phase = "returned" /\ result = INTERPRET_RESULT_OK
    /\ stack = <<>>
    /\ Len(printed) = 1
    /\ Ref!SameMeaning(Denoted(printed[1]), Ref!Meaning(program)[Len(program)])

(* The undefined behaviour has a cause in the program: an operator that    *)
(* was dropped or met an operand of a kind it was not written for.  In     *)
(* particular no number or truth value can make the machine leave its      *)
(* stack.                                                                  *)
HasString == \E n \in DOMAIN program : program[n].kind = "STRING"
HasConcat == \E n \in DOMAIN program : program[n].kind = "CONCAT"

WildHasCause == phase = "wild" => HasSilent \/ HasString \/ HasConcat

(* vm->objects is the list of the strings that own their chars: those made *)
(* for a literal are on no list, and no free of the list reaches them.     *)
ObjectsAreOwned ==
  /\ {store.objects[k] : k \in DOMAIN store.objects} =
       {id \in DOMAIN store.heap : store.heap[id].owned}
  /\ \A k \in 1 .. Len(store.objects) - 1 : store.objects[k] > store.objects[k + 1]

(* Compilation and run come to an end for every program.                   *)
Terminates == <>(phase \in {"returned", "trap", "wild"})
=============================================================================
