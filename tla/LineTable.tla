----------------------------- MODULE LineTable -----------------------------
(***************************************************************************)
(* The line table of a chunk as a state machine: a client appends the line *)
(* of one byte after another (_line_write, called by chunk_write) and asks *)
(* for the line of a byte (chunk_get_line, called by the disassembler).    *)
(* The lookup is a loop over the runs, one iteration per step.             *)
(***************************************************************************)
EXTENDS ChunkOps

CONSTANTS
  Lines,      \* the line numbers bytes may be written for
  MaxBytes    \* bound: how many bytes are written

ASSUME LinesAssumption    == Lines \subseteq Nat
ASSUME MaxBytesAssumption == MaxBytes \in Nat

VARIABLES
  array,      \* the line array: a sequence of runs, with its capacity in words
  pc,         \* "idle" between calls, "scan" inside chunk_get_line
  index,      \* chunk_get_line's argument: a byte offset, from 0
  k,          \* the run its loop variable i = 2k - 1 points into
  n,          \* its running total of bytes
  line,       \* what it returned
  written,    \* history: the line each byte was written for
  starts      \* history: for each run, the offset of its first byte

vars == <<array, pc, index, k, n, line, written, starts>>

Init ==
  /\ array = EmptyArray
  /\ pc = "idle"
  /\ index = 0 /\ k = 1 /\ n = 0 /\ line = 0
  /\ written = <<>> /\ starts = <<>>

-----------------------------------------------------------------------------
(* _line_write(&chunk->lines, l)                                           *)
Write(l) ==
  /\ pc = "idle"
  /\ Len(written) < MaxBytes
  /\ array' = LineWrite(array, l)
  /\ written' = Append(written, l)
  /\ starts' = IF ContinuesRun(array, l) THEN starts ELSE Append(starts, Len(written))
  /\ UNCHANGED <<pc, index, k, n, line>>

(* chunk_get_line(chunk, offset) is called: n = 0, i = 1.                  *)
Lookup(offset) ==
  /\ pc = "idle"
  /\ pc' = "scan"
  /\ index' = offset /\ k' = 1 /\ n' = 0
  /\ UNCHANGED <<array, line, written, starts>>

(* The run of this iteration contains the byte: its line is returned.      *)
\* Mutant: the byte just after the run is taken for one of the run.
FoundTooFar ==
  /\ pc = "scan"
  /\ k <= Len(array.elems)
  /\ index <= n + array.elems[k].bytes
  /\ line' = array.elems[k].line
  /\ pc' = "idle"
  /\ UNCHANGED <<array, index, k, n, written, starts>>

Found ==
  /\ pc = "scan"
  /\ k <= Len(array.elems)
  /\ index < n + array.elems[k].bytes
  /\ line' = array.elems[k].line
  /\ pc' = "idle"
  /\ UNCHANGED <<array, index, k, n, written, starts>>

(* It does not: the next iteration.                                        *)
Skip ==
  /\ pc = "scan"
  /\ k <= Len(array.elems)
  /\ index >= n + array.elems[k].bytes
  /\ n' = n + array.elems[k].bytes
  /\ k' = k + 1
  /\ UNCHANGED <<array, pc, index, line, written, starts>>

(* No run is left: 0 is returned.                                          *)
Missing ==
  /\ pc = "scan"
  /\ k > Len(array.elems)
  /\ line' = 0
  /\ pc' = "idle"
  /\ UNCHANGED <<array, index, k, n, written, starts>>

Scan == Found \/ Skip \/ Missing

Next ==
  \/ \E l \in Lines : Write(l)
  \/ \E offset \in 0 .. MaxBytes : Lookup(offset)
  \/ Scan

Spec == Init /\ [][Next]_vars

-----------------------------------------------------------------------------
(* Properties.                                                             *)

RunCount     == Len(array.elems)
RunLine(r)   == array.elems[r].line
RunLength(r) == array.elems[r].bytes

TypeOK ==
  /\ array \in [elems : Seq(Runs), capacity : Nat \ {0}]
  /\ pc \in {"idle", "scan"}
  /\ index \in Nat /\ k \in Nat /\ n \in Nat /\ line \in Nat
  /\ written \in Seq(Lines)
  /\ starts \in Seq(Nat)

(* The two words _line_write stores never land outside the block that was  *)
(* allocated for the array (lines[count], lines[count + 1]).               *)
InBounds == WordCount(array) <= array.capacity

(* chunk_get_line tells the line the byte was written for, however the     *)
(* bytes were grouped into runs, and 0 for an offset beyond the code.  It  *)
(* is what every line of a disassembly or of an execution trace shows.     *)
Answer(offset) == IF offset < Len(written) THEN written[offset + 1] ELSE 0

LookupCorrect == [][pc = "scan" /\ pc' = "idle" => line' = Answer(index)]_vars

(* The loop of chunk_get_line agrees with the closed form GetLine that the *)
(* virtual machine's trace is specified with.                              *)
LoopIsGetLine == [][pc = "scan" /\ pc' = "idle" => line' = GetLine(array, index)]_vars

-----------------------------------------------------------------------------
(* The inductive invariant behind LookupCorrect.                           *)

(* Run r covers the bytes from starts[r] on, and the runs follow one       *)
(* another without a gap up to the last byte written.                      *)
RunsAreContiguous ==
  /\ RunCount = Len(starts)
  /\ Len(starts) > 0 => starts[1] = 0
  /\ \A r \in 1 .. Len(starts) :
       /\ starts[r] + RunLength(r) =
            IF r < Len(starts) THEN starts[r + 1] ELSE Len(written)
       /\ starts[r] + RunLength(r) <= Len(written)
  /\ Len(starts) = 0 => Len(written) = 0

(* Every byte of a run was written for the line of the run.                *)
RunsDecode ==
  \A r \in 1 .. Len(starts) :
    /\ RunLength(r) > 0
    /\ \A b \in starts[r] + 1 .. starts[r] + RunLength(r) : written[b] = RunLine(r)

(* At the head of the loop n counts the bytes of the runs already passed,  *)
(* and the byte looked for is not among them.                              *)
ScanInv ==
  pc = "scan" =>
    /\ n <= index
    /\ k \in 1 .. Len(starts) + 1
    /\ n = IF k <= Len(starts) THEN starts[k] ELSE Len(written)

IInv == TypeOK /\ InBounds /\ RunsAreContiguous /\ RunsDecode /\ ScanInv
=============================================================================
