-------------------------- MODULE LineTable_proofs --------------------------
(***************************************************************************)
(* For every set of lines, every capacity and every number of bytes: the   *)
(* line table never writes outside its block, chunk_get_line returns the   *)
(* line each byte was written for, and its loop computes GetLine, the      *)
(* closed form other modules use.                                          *)
(***************************************************************************)
EXTENDS LineTable, ChunkOps_proofs

(* What the invariant says of one run.                                     *)
LEMMA RunFacts ==
  ASSUME IInv
  PROVE  /\ array.elems \in Seq(Runs) /\ array.capacity \in Nat \ {0}
         /\ Len(starts) \in Nat /\ Len(written) \in Nat
         /\ Len(array.elems) = Len(starts)
         /\ 2 * Len(starts) <= array.capacity
         /\ \A r \in 1 .. Len(starts) :
              /\ starts[r] \in Nat /\ RunLine(r) \in Nat
              /\ RunLength(r) \in Nat /\ RunLength(r) > 0
              /\ starts[r] + RunLength(r) <= Len(written)
              /\ starts[r] + RunLength(r) =
                   IF r < Len(starts) THEN starts[r + 1] ELSE Len(written)
              /\ \A b \in starts[r] + 1 .. starts[r] + RunLength(r) :
                   written[b] = RunLine(r)
<1>1. /\ array.elems \in Seq(Runs) /\ array.capacity \in Nat \ {0}
      /\ starts \in Seq(Nat) /\ written \in Seq(Lines)
      /\ Len(array.elems) = Len(starts)
      /\ 2 * Len(starts) <= array.capacity
  BY DEF IInv, TypeOK, RunsAreContiguous, RunCount, InBounds, WordCount
<1>2. Len(starts) \in Nat /\ Len(written) \in Nat
  BY <1>1
<1>3. ASSUME NEW r \in 1 .. Len(starts)
      PROVE  starts[r] \in Nat /\ RunLine(r) \in Nat /\ RunLength(r) \in Nat
  <2>1. array.elems[r] \in Runs
    BY <1>1
  <2>2. starts[r] \in Nat
    BY <1>1
  <2> QED
    BY <2>1, <2>2 DEF RunLine, RunLength, Runs
<1>4. ASSUME NEW r \in 1 .. Len(starts)
      PROVE  /\ RunLength(r) > 0
             /\ starts[r] + RunLength(r) <= Len(written)
             /\ starts[r] + RunLength(r) =
                  IF r < Len(starts) THEN starts[r + 1] ELSE Len(written)
             /\ \A b \in starts[r] + 1 .. starts[r] + RunLength(r) :
                  written[b] = RunLine(r)
  BY DEF IInv, RunsAreContiguous, RunsDecode
<1> QED
  BY <1>1, <1>2, <1>3, <1>4

-----------------------------------------------------------------------------
(* A written byte keeps the runs contiguous and decodable.                 *)
LEMMA WritePreservesIInv ==
  ASSUME IInv, NEW l \in Lines, Write(l)
  PROVE  IInv'
<1>1. /\ l \in Nat /\ written \in Seq(Lines) /\ starts \in Seq(Nat)
      /\ array' = LineWrite(array, l)
      /\ written' = Append(written, l)
      /\ pc' = "idle"
      /\ Len(starts) > 0 => starts[1] = 0
      /\ Len(starts) = 0 => Len(written) = 0
  BY LinesAssumption DEF IInv, TypeOK, Write, RunsAreContiguous
<1>2. /\ written' \in Seq(Lines)
      /\ Len(written') = Len(written) + 1
      /\ \A b \in 1 .. Len(written) : written'[b] = written[b]
      /\ written'[Len(written) + 1] = l
  BY <1>1
<1>3. ScanInv'
  BY <1>1 DEF ScanInv
<1>4. CASE ContinuesRun(array, l)
  <2>1. /\ array' \in [elems : Seq(Runs), capacity : Nat \ {0}]
        /\ array'.capacity = array.capacity
        /\ Len(array'.elems) = Len(array.elems)
        /\ Len(array.elems) > 0
        /\ \A r \in 1 .. Len(array.elems) :
             array'.elems[r] = IF r = Len(array.elems)
                               THEN Run(l, array.elems[r].bytes + 1)
                               ELSE array.elems[r]
        /\ array.elems[Len(array.elems)].line = l
    BY <1>1, <1>4, RunFacts, ContinueRun
  <2>2. starts' = starts
    BY <1>4 DEF Write
  <2>3. TypeOK'
    BY <1>2, <2>1, <2>2 DEF IInv, TypeOK, Write
  <2>4. InBounds'
    BY <2>1, RunFacts DEF InBounds, WordCount
  <2>5. \A r \in 1 .. Len(starts) :
          /\ RunLine(r)' = RunLine(r)
          /\ RunLength(r)' = IF r = Len(starts) THEN RunLength(r) + 1 ELSE RunLength(r)
          /\ r = Len(starts) => RunLine(r) = l
    <3> TAKE r \in 1 .. Len(starts)
    <3>1. r \in 1 .. Len(array.elems) /\ Len(array.elems) = Len(starts)
      BY RunFacts
    <3>2. array'.elems[r] = IF r = Len(array.elems)
                            THEN Run(l, array.elems[r].bytes + 1)
                            ELSE array.elems[r]
      BY <2>1, <3>1
    <3> QED
      BY <2>1, <3>1, <3>2 DEF RunLine, RunLength, Run
  <2>6. RunsAreContiguous'
    <3>1. RunCount' = Len(starts)' /\ Len(starts) > 0
      BY <2>1, <2>2, RunFacts DEF RunCount
    <3>2. ASSUME NEW r \in 1 .. Len(starts)
          PROVE  /\ starts[r] + RunLength(r)' =
                      IF r < Len(starts) THEN starts[r + 1] ELSE Len(written')
                 /\ starts[r] + RunLength(r)' <= Len(written')
      <4>1. /\ starts[r] \in Nat /\ RunLength(r) \in Nat /\ Len(written) \in Nat
            /\ Len(starts) \in Nat
            /\ starts[r] + RunLength(r) <= Len(written)
            /\ starts[r] + RunLength(r) =
                 IF r < Len(starts) THEN starts[r + 1] ELSE Len(written)
        BY RunFacts
      <4>2. RunLength(r)' = IF r = Len(starts) THEN RunLength(r) + 1 ELSE RunLength(r)
        BY <2>5
      <4>3. Len(written') = Len(written) + 1
        BY <1>2
      <4> QED
        BY <4>1, <4>2, <4>3
    <3> QED
      BY <1>1, <2>2, <3>1, <3>2 DEF RunsAreContiguous
  <2>7. RunsDecode'
    <3> SUFFICES ASSUME NEW r \in 1 .. Len(starts)
                 PROVE  /\ RunLength(r)' > 0
                        /\ \A b \in starts[r] + 1 .. starts[r] + RunLength(r)' :
                             written'[b] = RunLine(r)'
      BY <2>2 DEF RunsDecode
    <3>1. RunLength(r)' > 0
      BY <2>5, RunFacts
    <3>2. ASSUME NEW b \in starts[r] + 1 .. starts[r] + RunLength(r)'
          PROVE  written'[b] = RunLine(r)'
      <4>1. /\ starts[r] \in Nat /\ RunLength(r) \in Nat /\ Len(written) \in Nat
            /\ starts[r] + RunLength(r) <= Len(written)
            /\ r = Len(starts) => starts[r] + RunLength(r) = Len(written)
        BY RunFacts
      <4>2. /\ RunLength(r)' = IF r = Len(starts) THEN RunLength(r) + 1 ELSE RunLength(r)
            /\ RunLine(r)' = RunLine(r)
            /\ r = Len(starts) => RunLine(r) = l
        BY <2>5
      <4>3. CASE b \in starts[r] + 1 .. starts[r] + RunLength(r)
        <5>1. written[b] = RunLine(r)
          BY <4>3, RunFacts
        <5>2. b \in 1 .. Len(written)
          BY <4>1, <4>3
        <5> QED
          BY <1>2, <4>2, <5>1, <5>2
      <4>4. CASE ~(b \in starts[r] + 1 .. starts[r] + RunLength(r))
        <5>1. r = Len(starts) /\ b = Len(written) + 1
          BY <4>1, <4>2, <4>4
        <5> QED
          BY <1>2, <4>2, <5>1
      <4> QED
        BY <4>3, <4>4
    <3> QED
      BY <3>1, <3>2
  <2> QED
    BY <1>3, <2>3, <2>4, <2>6, <2>7 DEF IInv
<1>5. CASE ~ContinuesRun(array, l)
  <2>1. /\ array' \in [elems : Seq(Runs), capacity : Nat \ {0}]
        /\ array'.capacity = Grown(array.capacity, 2 * Len(array.elems) + 2)
        /\ Len(array'.elems) = Len(array.elems) + 1
        /\ \A r \in 1 .. Len(array.elems) : array'.elems[r] = array.elems[r]
        /\ array'.elems[Len(array.elems) + 1] = Run(l, 1)
    BY <1>1, <1>5, RunFacts, StartRun
  <2>2. starts' = Append(starts, Len(written))
    BY <1>5 DEF Write
  <2>3. /\ starts' \in Seq(Nat)
        /\ Len(starts') = Len(starts) + 1
        /\ \A r \in 1 .. Len(starts) : starts'[r] = starts[r]
        /\ starts'[Len(starts) + 1] = Len(written)
    BY <1>1, <2>2
  <2>4. TypeOK'
    BY <1>2, <2>1, <2>3 DEF IInv, TypeOK, Write
  <2>5. InBounds'
    BY <2>1, RunFacts DEF InBounds, WordCount, Grown
  <2>6. \A r \in 1 .. Len(starts) :
          RunLine(r)' = RunLine(r) /\ RunLength(r)' = RunLength(r)
    BY <2>1, RunFacts DEF RunLine, RunLength
  <2>7. ASSUME NEW r \in Nat, r = Len(starts) + 1
        PROVE  RunLine(r)' = l /\ RunLength(r)' = 1
    <3>1. array'.elems[r] = Run(l, 1)
      BY <2>1, <2>7, RunFacts
    <3> QED
      BY <3>1 DEF RunLine, RunLength, Run
  <2>8. RunsAreContiguous'
    <3>1. RunCount' = Len(starts') /\ Len(starts') > 0
      BY <2>1, <2>3, RunFacts DEF RunCount
    <3>2. starts'[1] = 0
      <4>1. CASE Len(starts) = 0
        BY <1>1, <2>3, <4>1
      <4>2. CASE Len(starts) # 0
        <5>1. Len(starts) > 0 /\ 1 \in 1 .. Len(starts)
          BY <4>2, RunFacts
        <5> QED
          BY <1>1, <2>3, <5>1
      <4> QED
        BY <4>1, <4>2
    <3>3. ASSUME NEW r \in 1 .. Len(starts')
          PROVE  /\ starts'[r] + RunLength(r)' =
                      IF r < Len(starts') THEN starts'[r + 1] ELSE Len(written')
                 /\ starts'[r] + RunLength(r)' <= Len(written')
      <4>1. /\ Len(starts') = Len(starts) + 1 /\ Len(written') = Len(written) + 1
            /\ Len(starts) \in Nat /\ Len(written) \in Nat
        BY <1>2, <2>3, RunFacts
      <4>2. CASE r = Len(starts) + 1
        <5>1. starts'[r] = Len(written) /\ RunLength(r)' = 1
          BY <2>3, <2>7, <4>1, <4>2
        <5> QED
          BY <4>1, <4>2, <5>1
      <4>3. CASE r \in 1 .. Len(starts)
        <5>1. /\ starts[r] \in Nat /\ RunLength(r) \in Nat
              /\ starts[r] + RunLength(r) <= Len(written)
              /\ starts[r] + RunLength(r) =
                   IF r < Len(starts) THEN starts[r + 1] ELSE Len(written)
          BY <4>3, RunFacts
        <5>2. RunLength(r)' = RunLength(r) /\ starts'[r] = starts[r]
          BY <2>3, <2>6, <4>3
        <5>3. CASE r < Len(starts)
          <6>1. r + 1 \in 1 .. Len(starts)
            BY <4>1, <5>3
          <6>2. starts'[r + 1] = starts[r + 1]
            BY <2>3, <6>1
          <6> QED
            BY <4>1, <5>1, <5>2, <5>3, <6>2
        <5>4. CASE r = Len(starts)
          BY <2>3, <4>1, <5>1, <5>2, <5>4
        <5> QED
          BY <4>1, <4>3, <5>3, <5>4
      <4> QED
        BY <4>1, <4>2, <4>3
    <3> QED
      BY <3>1, <3>2, <3>3 DEF RunsAreContiguous
  <2>9. RunsDecode'
    <3> SUFFICES ASSUME NEW r \in 1 .. Len(starts) + 1
                 PROVE  /\ RunLength(r)' > 0
                        /\ \A b \in starts'[r] + 1 .. starts'[r] + RunLength(r)' :
                             written'[b] = RunLine(r)'
      BY <2>3 DEF RunsDecode
    <3>1. Len(written) \in Nat /\ Len(starts) \in Nat
      BY RunFacts
    <3>2. CASE r = Len(starts) + 1
      <4>1. starts'[r] = Len(written) /\ RunLength(r)' = 1 /\ RunLine(r)' = l
        BY <2>3, <2>7, <3>1, <3>2
      <4> QED
        BY <1>2, <3>1, <4>1
    <3>3. CASE r \in 1 .. Len(starts)
      <4>1. /\ starts[r] \in Nat /\ RunLength(r) \in Nat /\ RunLength(r) > 0
            /\ starts[r] + RunLength(r) <= Len(written)
            /\ \A b \in starts[r] + 1 .. starts[r] + RunLength(r) : written[b] = RunLine(r)
        BY <3>3, RunFacts
      <4>2. RunLength(r)' = RunLength(r) /\ RunLine(r)' = RunLine(r) /\ starts'[r] = starts[r]
        BY <2>3, <2>6, <3>3
      <4>3. \A b \in starts[r] + 1 .. starts[r] + RunLength(r) :
              b \in 1 .. Len(written) /\ written'[b] = written[b]
        BY <1>2, <3>1, <4>1
      <4> QED
        BY <4>1, <4>2, <4>3
    <3> QED
      BY <3>1, <3>2, <3>3
  <2> QED
    BY <1>3, <2>4, <2>5, <2>8, <2>9 DEF IInv
<1> QED
  BY <1>4, <1>5

-----------------------------------------------------------------------------
(* A step of the loop keeps n at the first byte of the run it is about to  *)
(* look at.                                                                *)
LEMMA ScanPreservesIInv ==
  ASSUME IInv, NEW offset \in Nat, Lookup(offset) \/ Scan
  PROVE  IInv'
<1>1. UNCHANGED <<array, written, starts>>
  BY DEF Lookup, Scan, Found, Skip, Missing
<1>2. InBounds' /\ RunsAreContiguous' /\ RunsDecode'
  BY <1>1 DEF IInv, InBounds, WordCount, RunsAreContiguous, RunsDecode,
              RunCount, RunLine, RunLength
<1>3. CASE Lookup(offset)
  <2>1. TypeOK'
    BY <1>3 DEF IInv, TypeOK, Lookup
  <2>2. ScanInv'
    <3>1. /\ Len(starts) > 0 => starts[1] = 0
          /\ Len(starts) = 0 => Len(written) = 0
      BY DEF IInv, RunsAreContiguous
    <3> QED
      BY <1>3, <3>1, RunFacts DEF ScanInv, Lookup
  <2> QED
    BY <1>2, <2>1, <2>2 DEF IInv
<1>4. CASE Found \/ Missing
  <2>1. line' \in Nat
    <3>1. CASE Found
      <4>1. k \in 1 .. Len(starts)
        BY <3>1, RunFacts DEF Found, IInv, TypeOK, ScanInv
      <4> QED
        BY <3>1, <4>1, RunFacts DEF Found, RunLine
    <3> QED
      BY <1>4, <3>1 DEF Missing
  <2>2. TypeOK'
    BY <1>4, <2>1 DEF IInv, TypeOK, Found, Missing
  <2>3. ScanInv'
    BY <1>4 DEF ScanInv, Found, Missing
  <2> QED
    BY <1>2, <2>2, <2>3 DEF IInv
<1>5. CASE Skip
  <2>1. /\ k \in 1 .. Len(starts) + 1 /\ k <= Len(array.elems)
        /\ n <= index /\ n \in Nat
        /\ n = IF k <= Len(starts) THEN starts[k] ELSE Len(written)
        /\ index >= n + RunLength(k)
        /\ n' = n + RunLength(k)
        /\ k' = k + 1
        /\ UNCHANGED <<pc, index, line>>
    BY <1>5 DEF IInv, TypeOK, ScanInv, Skip, RunLength
  <2>2. k \in 1 .. Len(starts) /\ Len(starts) \in Nat
    BY <2>1, RunFacts
  <2>3. /\ n = starts[k] /\ RunLength(k) \in Nat
        /\ starts[k] + RunLength(k) =
             IF k < Len(starts) THEN starts[k + 1] ELSE Len(written)
    BY <2>1, <2>2, RunFacts
  <2>4. n' \in Nat /\ k' \in Nat
    BY <2>1, <2>2, <2>3
  <2>5. TypeOK'
    BY <1>1, <2>1, <2>4 DEF IInv, TypeOK
  <2>6. ScanInv'
    <3>1. n' <= index' /\ k' \in 1 .. Len(starts) + 1
      BY <2>1, <2>2, <2>3
    <3>2. n' = IF k' <= Len(starts) THEN starts[k'] ELSE Len(written)
      BY <2>1, <2>2, <2>3
    <3> QED
      BY <1>1, <3>1, <3>2 DEF ScanInv
  <2> QED
    BY <1>2, <2>5, <2>6 DEF IInv
<1> QED
  BY <1>3, <1>4, <1>5 DEF Scan

LEMMA InductiveInvariant == Spec => []IInv
<1>1. Init => IInv
  BY CapacityAssumption
     DEF Init, EmptyArray, IInv, TypeOK, InBounds, WordCount, RunCount,
         RunsAreContiguous, RunsDecode, ScanInv
<1>2. IInv /\ [Next]_vars => IInv'
  <2> SUFFICES ASSUME IInv, [Next]_vars PROVE IInv'
    OBVIOUS
  <2>1. ASSUME NEW l \in Lines, Write(l) PROVE IInv'
    BY <2>1, WritePreservesIInv
  <2>2. ASSUME NEW offset \in 0 .. MaxBytes, Lookup(offset) PROVE IInv'
    <3>1. offset \in Nat
      BY MaxBytesAssumption
    <3> QED
      BY <2>2, <3>1, ScanPreservesIInv
  <2>3. CASE Scan
    <3>1. 0 \in Nat
      OBVIOUS
    <3> QED
      BY <2>3, <3>1, ScanPreservesIInv
  <2>4. CASE UNCHANGED vars
    BY <2>4 DEF vars, IInv, TypeOK, InBounds, WordCount, RunCount, RunLine, RunLength,
                RunsAreContiguous, RunsDecode, ScanInv
  <2> QED
    BY <2>1, <2>2, <2>3, <2>4 DEF Next
<1> QED
  BY <1>1, <1>2, PTL DEF Spec

-----------------------------------------------------------------------------
(* The two-word store of _line_write stays in the block reallocate gave    *)
(* it, for every capacity the array may start with.                        *)
THEOREM LineTableInBounds == Spec => []InBounds
<1>1. IInv => InBounds
  BY DEF IInv
<1> QED
  BY <1>1, InductiveInvariant, PTL

(* chunk_get_line returns the line the byte was written for (or 0 beyond   *)
(* the code), whatever lines were written in whatever order.               *)
THEOREM LineTableLookup == Spec => LookupCorrect
<1>1. ASSUME IInv, Next, pc = "scan", pc' = "idle"
      PROVE  line' = Answer(index)
  <2>1. CASE Found
    <3>1. /\ index < starts[k] + RunLength(k) /\ starts[k] <= index
          /\ line' = RunLine(k)
          /\ k \in 1 .. Len(starts)
          /\ index \in Nat
      BY <1>1, <2>1, RunFacts DEF Found, IInv, TypeOK, ScanInv, RunLength, RunLine
    <3>2. /\ starts[k] \in Nat /\ RunLength(k) \in Nat /\ Len(written) \in Nat
          /\ starts[k] + RunLength(k) <= Len(written)
          /\ \A b \in starts[k] + 1 .. starts[k] + RunLength(k) : written[b] = RunLine(k)
      BY <1>1, <3>1, RunFacts
    <3>3. index + 1 \in starts[k] + 1 .. starts[k] + RunLength(k) /\ index < Len(written)
      BY <3>1, <3>2
    <3> QED
      BY <3>1, <3>2, <3>3 DEF Answer
  <2>2. CASE Missing
    <3>1. n = Len(written) /\ n <= index /\ line' = 0 /\ n \in Nat /\ index \in Nat
      BY <1>1, <2>2, RunFacts DEF Missing, IInv, TypeOK, ScanInv
    <3> QED
      BY <3>1 DEF Answer
  <2> QED
    BY <1>1, <2>1, <2>2 DEF Next, Scan, Write, Lookup, Skip
<1>2. IInv /\ [Next]_vars => [pc = "scan" /\ pc' = "idle" => line' = Answer(index)]_vars
  BY <1>1
<1> QED
  BY <1>2, InductiveInvariant, PTL DEF Spec, LookupCorrect
-----------------------------------------------------------------------------
(* A run ends where the next one begins.                                   *)
Ends(r) == IF r < Len(starts) THEN starts[r + 1] ELSE Len(written)

LEMMA RunEnds == ASSUME IInv, NEW r \in 1 .. Len(starts) PROVE RunEnd(array, r) = Ends(r)
<1>1. Len(starts) \in Nat /\ Len(written) \in Nat /\ (\A i \in 1 .. Len(starts) : starts[i] \in Nat)
      /\ (\A i \in 1 .. Len(starts) : starts[i] + RunLength(i) = Ends(i))
  BY RunFacts DEF Ends
<1>2. starts[1] = 0
  BY <1>1 DEF IInv, RunsAreContiguous
<1>3. \E end : Sums(array, r, end)
  <2>1. r \in Nat
    BY <1>1
  <2> QED
    BY Zenon, <2>1, SumsExist
<1>4. PICK end : Sums(array, r, end) /\ RunEnd(array, r) = end[r]
  BY Zenon, <1>3 DEF RunEnd, Sums
<1>5. \A j \in 0 .. r : end[j] = IF j = 0 THEN 0 ELSE end[j - 1] + RunLength(j)
  BY Zenon, <1>4 DEF Sums, RunLength
<1> DEFINE S == {m \in Nat : m + 1 <= r => end[m + 1] = Ends(m + 1)}
<1>6. 0 \in S
  <2>1. 1 \in 0 .. r /\ 0 \in 0 .. r /\ 1 - 1 = 0 /\ 1 # 0
    BY <1>1
  <2>2. end[0] = 0 /\ end[1] = end[0] + RunLength(1)
    BY Zenon, <1>5, <2>1
  <2>3. starts[1] + RunLength(1) = Ends(1)
    BY <1>1
  <2>4. end[1] = Ends(1)
    BY <1>2, <2>2, <2>3
  <2> QED
    BY <2>4
<1>7. ASSUME NEW m \in Nat, m \in S PROVE m + 1 \in S
  <2> SUFFICES ASSUME (m + 1) + 1 <= r PROVE end[(m + 1) + 1] = Ends((m + 1) + 1)
    OBVIOUS
  <2>1. PICK p \in Nat : p = m + 1
    OBVIOUS
  <2>2. p + 1 <= r /\ p \in 0 .. r /\ p + 1 \in 0 .. r /\ p + 1 # 0 /\ (p + 1) - 1 = p
        /\ p + 1 \in 1 .. Len(starts) /\ p < Len(starts)
    BY <1>1, <2>1
  <2>3. end[p] = Ends(p)
    BY <1>7, <2>1, <2>2
  <2>4. end[p + 1] = end[p] + RunLength(p + 1)
    BY Zenon, <1>5, <2>2
  <2>5. Ends(p) = starts[p + 1]
    BY <2>2 DEF Ends
  <2>6. starts[p + 1] + RunLength(p + 1) = Ends(p + 1)
    BY <1>1, <2>2
  <2>7. end[p + 1] = Ends(p + 1)
    BY Zenon, <2>3, <2>4, <2>5, <2>6
  <2> QED
    BY <2>1, <2>7
<1>8. Nat \subseteq S
  <2> HIDE DEF S
  <2> QED
    BY <1>6, <1>7, Induction
<1>9. r - 1 \in Nat /\ (r - 1) + 1 = r
  BY <1>1
<1>10. end[r] = Ends(r)
  BY <1>8, <1>9
<1> QED
  BY <1>4, <1>10

(* Every run the loop has passed ends before the byte, or at it.           *)
Skipped == pc = "scan" => \A r \in 1 .. Len(starts) : r < k => RunEnd(array, r) <= index

LEMMA NextSkipped == IInv /\ Skipped /\ [Next]_vars => Skipped'
<1> SUFFICES ASSUME IInv, Skipped, [Next]_vars PROVE Skipped'
  OBVIOUS
<1>1. ASSUME NEW l \in Lines, Write(l) PROVE Skipped'
  BY <1>1 DEF Write, Skipped
<1>2. ASSUME NEW offset \in 0 .. MaxBytes, Lookup(offset) PROVE Skipped'
  BY <1>2 DEF Lookup, Skipped, IInv, TypeOK
<1>3. CASE Found \/ Missing
  BY <1>3 DEF Found, Missing, Skipped
<1>4. CASE Skip
  <2>1. /\ pc = "scan" /\ k <= Len(array.elems) /\ index >= n + array.elems[k].bytes
        /\ k' = k + 1 /\ UNCHANGED <<array, index, starts>>
    BY <1>4 DEF Skip
  <2>2. k \in 1 .. Len(starts) /\ n = starts[k] /\ Len(starts) \in Nat
    BY <2>1, RunFacts DEF IInv, ScanInv
  <2>3. RunEnd(array, k) = starts[k] + RunLength(k)
    BY <2>2, RunEnds, RunFacts DEF Ends
  <2>4. RunEnd(array, k) <= index
    BY <2>1, <2>2, <2>3 DEF RunLength
  <2>5. ASSUME NEW r \in 1 .. Len(starts), r < k + 1 PROVE RunEnd(array, r) <= index
    <3>1. r < k \/ r = k
      BY <2>2, <2>5
    <3> QED
      BY <2>1, <2>4, <3>1 DEF Skipped
  <2>6. \A r \in 1 .. Len(starts') : r < k' => RunEnd(array', r) <= index'
    BY <2>1, <2>5
  <2> QED
    BY <2>6 DEF Skipped
<1>5. CASE UNCHANGED vars
  BY <1>5 DEF vars, Skipped
<1> QED
  BY <1>1, <1>2, <1>3, <1>4, <1>5 DEF Next, Scan

(* The loop of chunk_get_line returns what GetLine, with which the trace   *)
(* of the virtual machine is specified, says of the whole table.           *)
THEOREM LoopGetsLine == Spec => LoopIsGetLine
<1> DEFINE beyond == {r \in 1 .. Len(array.elems) : index < RunEnd(array, r)}
<1>1. GetLine(array, index) = IF beyond = {} THEN 0 ELSE array.elems[Min(beyond)].line
  BY Zenon DEF GetLine
<1>2. ASSUME IInv, Skipped, Next, pc = "scan", pc' = "idle"
      PROVE  line' = GetLine(array, index)
  <2>1. /\ Len(array.elems) = Len(starts) /\ Len(starts) \in Nat /\ index \in Nat
        /\ \A r \in 1 .. Len(starts) : RunEnd(array, r) = starts[r] + RunLength(r)
                                       /\ RunEnd(array, r) \in Nat
    <3>1. ASSUME NEW r \in 1 .. Len(starts)
          PROVE  RunEnd(array, r) = starts[r] + RunLength(r) /\ RunEnd(array, r) \in Nat
      <4>1. RunEnd(array, r) = Ends(r)
        BY <1>2, RunEnds
      <4>2. starts[r] + RunLength(r) = Ends(r) /\ starts[r] \in Nat /\ RunLength(r) \in Nat
        BY <1>2, RunFacts DEF Ends
      <4>3. starts[r] + RunLength(r) \in Nat
        BY <4>2
      <4> QED
        BY Zenon, <4>1, <4>2, <4>3
    <3> QED
      BY <1>2, <3>1, RunFacts DEF IInv, TypeOK
  <2>2. \A r \in 1 .. Len(starts) : r < k => ~(index < RunEnd(array, r))
    BY <1>2, <2>1 DEF Skipped
  <2>3. CASE Found
    <3>1. k \in 1 .. Len(starts) /\ n = starts[k] /\ index < n + array.elems[k].bytes
          /\ line' = array.elems[k].line
      BY <1>2, <2>1, <2>3 DEF Found, IInv, ScanInv
    <3>2. k \in beyond /\ beyond \in SUBSET Nat
      BY <2>1, <3>1 DEF RunLength
    <3>3. \A r \in beyond : k <= r
      BY <2>1, <2>2, <3>1
    <3>4. Min(beyond) = k /\ beyond # {}
      <4> HIDE DEF beyond
      <4> QED
        BY <3>2, <3>3, FirstBeyond
    <3> QED
      BY <1>1, <3>1, <3>4
  <2>4. CASE Missing
    <3>1. k > Len(starts) /\ line' = 0 /\ k \in Nat
      BY <1>2, <2>1, <2>4 DEF Missing, IInv, TypeOK
    <3>2. beyond = {}
      BY <2>1, <2>2, <3>1
    <3> QED
      BY <1>1, <3>1, <3>2
  <2> QED
    BY <1>2, <2>3, <2>4 DEF Next, Scan, Write, Lookup, Skip
<1>3. IInv /\ Skipped /\ [Next]_vars => [pc = "scan" /\ pc' = "idle" => line' = GetLine(array, index)]_vars
  <2> HIDE DEF beyond
  <2> QED
    BY <1>2
<1>4. Init => Skipped
  BY DEF Init, Skipped
<1> QED
  BY <1>3, <1>4, InductiveInvariant, NextSkipped, PTL DEF Spec, LoopIsGetLine
=============================================================================
