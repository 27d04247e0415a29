---------------------------- MODULE Parser_proofs ----------------------------
(***************************************************************************)
(* For every set of inputs, right or wrong: what the parser has finished   *)
(* is a row of trees, one for each operand that waits, in the order of     *)
(* their tokens and grouped by the precedences.                            *)
(***************************************************************************)
EXTENDS Parser, SequenceTheorems, FiniteSetTheorems, WellFoundedInduction, TLAPS

(* The functions that are calls of _parse_precedence, and those that wait  *)
(* for one.                                                                *)
Calls == {"operand", "operators"}
Waits == {"unary", "binary", "group"}

(* The precedence a waiting function asks its operand for.                 *)
Demand(x, w) ==
  IF w.task = "binary" THEN Precedence(x[w.at].kind) + 1
  ELSE IF w.task = "unary" THEN PRECEDENCE_UNARY ELSE PRECEDENCE_ASSIGNMENT

KindAt(x, p) == IF p <= Len(x) THEN x[p].kind ELSE "SP_EOF"

(* A binary operator outside parentheses binds at least as tightly as p.   *)
Tight(b, t, g, x, m, p) ==
  b[m].kind \in BinaryKinds /\ m \notin g => Precedence(x[t[m]].kind) >= p

(***************************************************************************)
(* Every function under way has a cut: how many nodes had been finished    *)
(* when its operand began, for a binary operator the right one.  A call    *)
(* begins where the function that waits for it has its cut.                *)
(***************************************************************************)
Called(f, c, x, i) ==
  /\ f[i].task = "operand" => i = 1
  /\ i = Len(f) => c[i] = 0 /\ f[i].precedence = PRECEDENCE_ASSIGNMENT
  /\ i < Len(f) => /\ f[i + 1].task \in Waits
                   /\ c[i] = c[i + 1]
                   /\ f[i].precedence = Demand(x, f[i + 1])

(* A binary operator has its left operand just before the cut, and binds   *)
(* as tightly as the call it belongs to asks for.                          *)
Joins(f, c, b, t, g, x, i) ==
  /\ c[i + 1] < c[i] /\ b[c[i]].first = c[i + 1] + 1
  /\ x[f[i].at].kind \in Operators
  /\ f[i + 1].precedence <= Precedence(x[f[i].at].kind)
  /\ Tight(b, t, g, x, c[i], Precedence(x[f[i].at].kind))

(* The tokens of the nodes before the cut come before that of the function,*)
(* the others after it.                                                    *)
Divides(f, c, t, i) ==
  /\ \A m \in 1 .. c[i] : t[m] < f[i].at
  /\ \A m \in 1 .. Len(t) : m > c[i] => f[i].at < t[m]

Waiting(f, c, b, t, g, x, p, i) ==
  /\ i < Len(f) /\ f[i + 1].task = "operators"
  /\ f[i].first = c[i + 1] + 1
  /\ f[i].at \in 1 .. Len(x) /\ f[i].at < p
  /\ f[i].task = "binary" => Joins(f, c, b, t, g, x, i)
  /\ f[i].task # "binary" => c[i] = c[i + 1]
  /\ Divides(f, c, t, i)
  /\ \A j \in 1 .. Len(f) : i < j /\ f[j].task \in Waits => f[j].at < f[i].at

Underway(f, c, b, t, g, x, p) ==
  \A i \in 1 .. Len(f) :
    /\ c[i] \in 0 .. Len(b)
    /\ f[i].task \in Calls \cup Waits
    /\ f[i].task \in Calls => Called(f, c, x, i)
    /\ f[i].task \in Waits => Waiting(f, c, b, t, g, x, p, i)

(* Behind the innermost cut there is one tree, unless it is yet to come.   *)
From(f, c) == IF Len(f) = 0 THEN 0 ELSE c[1]

Resumes(f, c, b, t, g, x, p) ==
  LET last == Len(b)
      now  == Precedence(KindAt(x, p))
      least == IF Len(f) = 0 THEN PRECEDENCE_ASSIGNMENT ELSE Demand(x, f[1])
      called == Len(f) > 0 /\ f[1].task \in Calls
  IN  IF Len(f) > 0 /\ f[1].task = "operand" THEN c[1] = last
      ELSE /\ From(f, c) < last /\ b[last].first = From(f, c) + 1
           /\ called  => Tight(b, t, g, x, last, f[1].precedence) /\ Tight(b, t, g, x, last, now)
           /\ ~called => now < least /\ Tight(b, t, g, x, last, least)

(* A finished node: its operands, their tokens and how tightly they bind.  *)
Formed(b, n) ==
  LET node == b[n]
  IN  /\ node.kind \in NodeKinds
      /\ node.line \in Nat \ {0}
      /\ node.first \in 1 .. n
      /\ node.kind \in LiteralKinds => node.first = n
      /\ node.kind \in UnaryKinds => n > 1 /\ node.first = b[n - 1].first
      /\ node.kind \in BinaryKinds =>
           /\ n > 1
           /\ b[n - 1].first > 1
           /\ node.first = b[b[n - 1].first - 1].first

Reads(b, t, n) ==
  /\ b[n].kind \in UnaryKinds => \A m \in b[n].first .. n - 1 : t[n] < t[m]
  /\ b[n].kind \in BinaryKinds =>
       LET right == b[n - 1].first
       IN  /\ \A m \in b[n].first .. right - 1 : t[m] < t[n]
           /\ \A m \in right .. n - 1 : t[n] < t[m]

Groups(b, t, g, x, n) ==
  LET outer == Precedence(x[t[n]].kind)
  IN  /\ b[n].kind \in UnaryKinds => Tight(b, t, g, x, n - 1, PRECEDENCE_UNARY)
      /\ b[n].kind \in BinaryKinds =>
           /\ Tight(b, t, g, x, b[n - 1].first - 1, outer)
           /\ Tight(b, t, g, x, n - 1, outer + 1)

Finished(b, t, g, x, p) ==
  /\ Len(t) = Len(b)
  /\ \A n \in 1 .. Len(b) :
       /\ t[n] \in 1 .. Len(x) /\ t[n] < p
       /\ Formed(b, n) /\ Reads(b, t, n) /\ Groups(b, t, g, x, n)
  /\ \A m, n \in 1 .. Len(b) : t[m] = t[n] => m = n

IsSeq(s) == \E S : s \in Seq(S)

Forest(f, c, b, t, g, x, p) ==
  /\ IsSeq(f) /\ IsSeq(c) /\ Len(c) = Len(f)
  /\ Underway(f, c, b, t, g, x, p)
  /\ Resumes(f, c, b, t, g, x, p)

Parses(f, b, t, g, x, p, s) ==
  /\ IsInput(x)
  /\ p \in 1 .. Len(x) + 1
  /\ IsSeq(b) /\ IsSeq(t)
  /\ Finished(b, t, g, x, p)
  /\ s = "parse" => \E c : Forest(f, c, b, t, g, x, p)
  /\ s = "parsed" => Len(b) > 0 /\ b[Len(b)].first = 1

ParserIInv == Parses(frames, built, token, grouped, input, position, state)

-----------------------------------------------------------------------------
(* Sequences.  s begins with the elements of r; r lies in s below k others.*)
Extended(s, r) == Len(r) <= Len(s) /\ \A i \in 1 .. Len(r) : s[i] = r[i]

Below(r, s, k) == Len(s) = Len(r) + k /\ \A i \in 1 .. Len(r) : s[i + k] = r[i]

LEMMA SeqLength ==
  ASSUME NEW s, IsSeq(s)
  PROVE  Len(s) \in Nat /\ (s = <<>> <=> Len(s) = 0)
BY DEF IsSeq

LEMMA Appended ==
  ASSUME NEW s, IsSeq(s), NEW e, NEW r, r = Append(s, e)
  PROVE  /\ IsSeq(r) /\ Len(r) = Len(s) + 1 /\ r[Len(s) + 1] = e
         /\ Extended(r, s)
<1>1. PICK S : s \in Seq(S)
  BY DEF IsSeq
<1>2. PICK T : T = S \cup {e}
  OBVIOUS
<1>3. s \in Seq(T) /\ e \in T
  BY <1>1, <1>2
<1>4. r \in Seq(T) /\ Len(r) = Len(s) + 1 /\ r[Len(s) + 1] = e /\ \A i \in 1 .. Len(s) : r[i] = s[i]
  BY <1>3
<1> QED
  BY <1>3, <1>4 DEF IsSeq, Extended

LEMMA Dropped ==
  ASSUME NEW s, IsSeq(s), s # <<>>, NEW r, r = Tail(s)
  PROVE  IsSeq(r) /\ Below(r, s, 1) /\ Len(r) = Len(s) - 1 /\ Head(s) = s[1] /\ Len(s) > 0
<1>1. PICK S : s \in Seq(S)
  BY DEF IsSeq
<1>2. r \in Seq(S) /\ Len(r) = Len(s) - 1 /\ Len(s) > 0 /\ \A i \in 1 .. Len(r) : r[i] = s[i + 1]
  BY <1>1
<1> QED
  BY <1>1, <1>2 DEF IsSeq, Below

(* r has the n elements of u and then those of s.                          *)
IsStacked(r, u, s, n) == IsSeq(r) /\ Below(s, r, n) /\ \A i \in 1 .. n : r[i] = u[i]

LEMMA Stacked ==
  ASSUME NEW u, IsSeq(u), NEW s, IsSeq(s), NEW n, Len(u) = n
  PROVE  IsStacked(u \o s, u, s, n)
<1>0. PICK r : r = u \o s
  OBVIOUS
<1>1. PICK S : s \in Seq(S)
  BY DEF IsSeq
<1>2. PICK U : u \in Seq(U)
  BY DEF IsSeq
<1>3. PICK T : T = S \cup U
  OBVIOUS
<1>4. s \in Seq(T) /\ u \in Seq(T)
  BY <1>1, <1>2, <1>3
<1>5. r \in Seq(T) /\ Len(r) = Len(u) + Len(s)
      /\ \A i \in 1 .. Len(u) + Len(s) : r[i] = IF i <= Len(u) THEN u[i] ELSE s[i - Len(u)]
  BY <1>0, <1>4, ConcatProperties
<1>6. Len(u) \in Nat /\ Len(s) \in Nat
  BY <1>4
<1>7. \A i \in 1 .. Len(s) : i + Len(u) \in 1 .. Len(u) + Len(s) /\ ~(i + Len(u) <= Len(u))
                            /\ (i + Len(u)) - Len(u) = i
  BY <1>6
<1>8. \A i \in 1 .. Len(s) : r[i + Len(u)] = s[i]
  BY <1>5, <1>7
<1>9. \A i \in 1 .. Len(u) : i \in 1 .. Len(u) + Len(s) /\ i <= Len(u)
  BY <1>6
<1> QED
  BY <1>0, <1>5, <1>6, <1>8, <1>9 DEF IsSeq, Below, IsStacked

LEMMA Two ==
  ASSUME NEW y, NEW z, NEW u, u = <<y, z>>
  PROVE  IsSeq(u) /\ Len(u) = 2 /\ u[1] = y /\ u[2] = z
<1>1. u \in Seq({y, z})
  OBVIOUS
<1> QED
  BY <1>1 DEF IsSeq

(* Another innermost function, or two more above it.                       *)
IsReplaced(r, s, e) ==
  IsSeq(r) /\ Len(r) = Len(s) /\ r[1] = e /\ \A i \in 1 .. Len(s) : i > 1 => r[i] = s[i]

IsRaised(r, s, y, z) == IsSeq(r) /\ Below(s, r, 2) /\ r[1] = y /\ r[2] = z

LEMMA Replaced ==
  ASSUME NEW s, IsSeq(s), s # <<>>, NEW e
  PROVE  IsReplaced(<<e>> \o Tail(s), s, e)
<1>0. PICK r : r = <<e>> \o Tail(s)
  OBVIOUS
<1>1. PICK u, v : u = <<e>> /\ v = Tail(s)
  OBVIOUS
<1>2. IsSeq(u) /\ Len(u) = 1 /\ u[1] = e
  <2>1. u \in Seq({e})
    BY <1>1
  <2> QED
    BY <1>1, <2>1 DEF IsSeq
<1>3. IsSeq(v) /\ Below(v, s, 1) /\ Len(v) = Len(s) - 1
  BY <1>1, Dropped
<1>4. PICK q : q = r /\ IsStacked(q, u, v, 1)
  <2>1. IsStacked(u \o v, u, v, 1)
    BY <1>2, <1>3, Stacked
  <2>2. r = u \o v
    BY <1>0, <1>1
  <2> QED
    BY <2>1, <2>2, Zenon
<1>5. Len(s) \in Nat /\ Len(v) \in Nat
  BY <1>3, SeqLength
<1> SUFFICES IsReplaced(q, s, e)
  BY <1>0, <1>4, Zenon
<1>6. IsSeq(q) /\ Below(v, q, 1) /\ q[1] = e
  <2>1. 1 \in 1 .. 1
    OBVIOUS
  <2> QED
    BY <1>2, <1>4, <2>1, Zenon DEF IsStacked
<1>7. ASSUME NEW i \in 1 .. Len(s), i > 1 PROVE q[i] = s[i]
  <2>1. i - 1 \in 1 .. Len(v) /\ (i - 1) + 1 = i
    BY <1>3, <1>5, <1>7
  <2> QED
    BY <1>3, <1>6, <2>1 DEF Below
<1>8. Len(q) = Len(s)
  BY <1>3, <1>5, <1>6 DEF Below
<1> QED
  BY <1>6, <1>7, <1>8 DEF IsReplaced

LEMMA Raised ==
  ASSUME NEW s, IsSeq(s), NEW y, NEW z
  PROVE  IsRaised(<<y, z>> \o s, s, y, z)
<1>0. PICK r : r = <<y, z>> \o s
  OBVIOUS
<1>1. PICK u : u = <<y, z>>
  OBVIOUS
<1>2. IsSeq(u) /\ Len(u) = 2 /\ u[1] = y /\ u[2] = z
  BY <1>1, Two
<1>3. 1 \in 1 .. 2 /\ 2 \in 1 .. 2
  OBVIOUS
<1>4. PICK w : w = r /\ IsStacked(w, u, s, 2)
  <2>1. IsStacked(u \o s, u, s, 2)
    BY <1>2, Stacked
  <2>2. r = u \o s
    BY <1>0, <1>1
  <2> QED
    BY <2>1, <2>2, Zenon
<1> SUFFICES IsRaised(w, s, y, z)
  BY <1>0, <1>4, Zenon
<1> QED
  BY <1>2, <1>3, <1>4, Zenon DEF IsStacked, IsRaised

LEMMA Opened ==
  ASSUME NEW s, IsSeq(s), s # <<>>, NEW y, NEW z, NEW e, NEW q, IsReplaced(q, s, e)
  PROVE  IsRaised(<<y, z, e>> \o Tail(s), q, y, z)
<1>0. PICK r : r = <<y, z, e>> \o Tail(s)
  OBVIOUS
<1>1. PICK u, v : u = <<y, z, e>> /\ v = Tail(s)
  OBVIOUS
<1>2. IsSeq(u) /\ Len(u) = 3 /\ u[1] = y /\ u[2] = z /\ u[3] = e
  <2>1. u \in Seq({y, z, e})
    BY <1>1
  <2> QED
    BY <1>1, <2>1 DEF IsSeq
<1>3. IsSeq(v) /\ Below(v, s, 1) /\ Len(v) = Len(s) - 1
  BY <1>1, Dropped
<1>4. PICK w : w = r /\ IsStacked(w, u, v, 3)
  <2>1. IsStacked(u \o v, u, v, 3)
    BY <1>2, <1>3, Stacked
  <2>2. r = u \o v
    BY <1>0, <1>1
  <2> QED
    BY <2>1, <2>2, Zenon
<1>5. Len(s) \in Nat /\ Len(v) \in Nat
  BY <1>3, SeqLength
<1> SUFFICES IsRaised(w, q, y, z)
  BY <1>0, <1>4, Zenon
<1>9. Len(q) = Len(s) /\ q[1] = e /\ \A i \in 1 .. Len(s) : i > 1 => q[i] = s[i]
  BY DEF IsReplaced
<1>6. IsSeq(w) /\ Below(v, w, 3) /\ w[1] = y /\ w[2] = z /\ w[3] = e
  <2>1. 1 \in 1 .. 3 /\ 2 \in 1 .. 3 /\ 3 \in 1 .. 3
    OBVIOUS
  <2> QED
    BY <1>2, <1>4, <2>1, Zenon DEF IsStacked
<1>7. Len(w) = Len(q) + 2
  BY <1>3, <1>5, <1>6, <1>9 DEF Below
<1>8. ASSUME NEW i \in 1 .. Len(q) PROVE w[i + 2] = q[i]
  <2>1. CASE i = 1
    BY <1>6, <1>9, <2>1
  <2>2. CASE i > 1
    <3>1. i - 1 \in 1 .. Len(v) /\ (i - 1) + 3 = i + 2 /\ (i - 1) + 1 = i
      BY <1>3, <1>5, <1>9, <2>2
    <3>2. w[(i - 1) + 3] = v[i - 1] /\ s[(i - 1) + 1] = v[i - 1]
      BY <1>3, <1>6, <3>1 DEF Below
    <3> QED
      BY <1>9, <2>2, <3>1, <3>2
  <2> QED
    BY <1>5, <1>9, <2>1, <2>2
<1> QED
  BY <1>6, <1>7, <1>8 DEF Below, IsRaised

-----------------------------------------------------------------------------
(* Precedences.                                                            *)
LEMMA PrecedenceBounds ==
  ASSUME NEW kind
  PROVE  /\ Precedence(kind) \in 0 .. 7
         /\ kind \in Operators => Precedence(kind) >= 2
         /\ kind = "SP_EOF" => Precedence(kind) = 0
BY DEF Precedence, Operators

LEMMA DemandIsInt ==
  ASSUME NEW x, NEW w
  PROVE  Demand(x, w) \in 1 .. 8
BY PrecedenceBounds DEF Demand, PRECEDENCE_UNARY, PRECEDENCE_ASSIGNMENT

(* The kinds of nodes do not overlap.                                      *)
LEMMA NodeKindsApart ==
  /\ \A k \in LiteralKinds : k \in NodeKinds /\ k \notin UnaryKinds /\ k \notin BinaryKinds
  /\ \A k \in UnaryKinds : k \in NodeKinds /\ k \notin LiteralKinds /\ k \notin BinaryKinds
  /\ \A k \in BinaryKinds : k \in NodeKinds /\ k \notin LiteralKinds /\ k \notin UnaryKinds
BY DEF LiteralKinds, UnaryKinds, BinaryKinds, NodeKinds

LEMMA KindsOfOperators ==
  /\ \A k : UnaryKind(k) \in UnaryKinds
  /\ \A k \in Operators : BinaryKind(k) \in BinaryKinds
BY DEF UnaryKind, UnaryKinds, Operators, BinaryKind, BinaryKinds

-----------------------------------------------------------------------------
(* Finished nodes.                                                         *)

(* Nodes that are there already do not change when more are finished, more *)
(* have stood in parentheses, and the parser has read on.                  *)
Later(b, t, g, p, b2, t2, g2, p2) ==
  /\ Len(b) \in Nat /\ Len(b2) \in Nat /\ Len(t) = Len(b) /\ Len(t2) = Len(b2)
  /\ Extended(b2, b) /\ Extended(t2, t)
  /\ g \subseteq g2 /\ p \in Nat /\ p2 \in Nat /\ p <= p2

LEMMA TightLater ==
  ASSUME NEW b, NEW t, NEW g, NEW p, NEW b2, NEW t2, NEW g2, NEW p2, Later(b, t, g, p, b2, t2, g2, p2),
         NEW x, NEW m \in 1 .. Len(b), NEW least, Tight(b, t, g, x, m, least)
  PROVE  Tight(b2, t2, g2, x, m, least)
BY DEF Later, Extended, Tight

LEMMA FinishedLater ==
  ASSUME NEW b, NEW t, NEW g, NEW p, NEW b2, NEW t2, NEW g2, NEW p2, Later(b, t, g, p, b2, t2, g2, p2),
         NEW x, Finished(b, t, g, x, p), NEW n \in 1 .. Len(b)
  PROVE  /\ b2[n] = b[n] /\ t2[n] = t[n]
         /\ t2[n] \in 1 .. Len(x) /\ t2[n] < p2
         /\ Formed(b2, n) /\ Reads(b2, t2, n) /\ Groups(b2, t2, g2, x, n)
<1>1. /\ Len(b) \in Nat
      /\ \A m \in 1 .. Len(b) : b2[m] = b[m] /\ t2[m] = t[m]
  BY DEF Later, Extended
<1>2. Formed(b, n) /\ Reads(b, t, n) /\ Groups(b, t, g, x, n)
  BY DEF Finished
<1>3. ASSUME n > 1 PROVE n - 1 \in 1 .. Len(b)
  BY <1>1, <1>3
<1>4. ASSUME n > 1, b[n - 1].first > 1
      PROVE  /\ b[n - 1].first \in 1 .. n - 1
             /\ b[n - 1].first - 1 \in 1 .. Len(b)
  <2>1. Formed(b, n - 1)
    BY <1>3, <1>4 DEF Finished
  <2>2. b[n - 1].first \in 1 .. n - 1
    BY <2>1 DEF Formed
  <2> QED
    BY <1>1, <1>4, <2>2
<1>5. b[n].first \in 1 .. n
  BY <1>2 DEF Formed
<1>6. Formed(b2, n)
  <2>1. b[n].kind \in UnaryKinds => n > 1 /\ b2[n - 1] = b[n - 1]
    BY <1>1, <1>2, <1>3 DEF Formed
  <2>2. b[n].kind \in BinaryKinds =>
          n > 1 /\ b2[n - 1] = b[n - 1] /\ b2[b[n - 1].first - 1] = b[b[n - 1].first - 1]
    BY <1>1, <1>2, <1>3, <1>4 DEF Formed
  <2> QED
    BY <1>1, <1>2, <2>1, <2>2 DEF Formed
<1>7. Reads(b2, t2, n)
  <2>1. CASE b[n].kind \in UnaryKinds
    <3>1. \A m \in b[n].first .. n - 1 : m \in 1 .. Len(b)
      BY <1>1, <1>5
    <3>2. b[n].kind \notin BinaryKinds
      BY <2>1, NodeKindsApart
    <3> QED
      BY <1>1, <1>2, <2>1, <3>1, <3>2 DEF Reads
  <2>2. CASE b[n].kind \in BinaryKinds
    <3>1. n > 1 /\ b[n - 1].first > 1
      BY <1>2, <2>2 DEF Formed
    <3>2. PICK right, from : right = b[n - 1].first /\ from = b[n].first
      OBVIOUS
    <3>3. right \in 1 .. n - 1 /\ from \in 1 .. n
      BY <1>4, <1>5, <3>1, <3>2
    <3>4. (\A m \in from .. right - 1 : m \in 1 .. Len(b)) /\ (\A m \in right .. n - 1 : m \in 1 .. Len(b))
      BY <1>1, <3>3
    <3>5. b2[n - 1] = b[n - 1] /\ b[n].kind \notin UnaryKinds
      BY <1>1, <1>3, <2>2, <3>1, NodeKindsApart
    <3> QED
      BY <1>1, <1>2, <2>2, <3>2, <3>4, <3>5 DEF Reads
  <2> QED
    BY <1>1, <2>1, <2>2 DEF Reads
<1>8. Groups(b2, t2, g2, x, n)
  <2>1. CASE b[n].kind \in UnaryKinds
    <3>1. n - 1 \in 1 .. Len(b) /\ Tight(b, t, g, x, n - 1, PRECEDENCE_UNARY)
      BY <1>2, <1>3, <2>1 DEF Formed, Groups
    <3>2. b[n].kind \notin BinaryKinds
      BY <2>1, NodeKindsApart
    <3> QED
      BY <1>1, <2>1, <3>1, <3>2, TightLater DEF Groups
  <2>2. CASE b[n].kind \in BinaryKinds
    <3>1. n > 1 /\ b[n - 1].first > 1
      BY <1>2, <2>2 DEF Formed
    <3>2. PICK left, outer : left = b[n - 1].first - 1 /\ outer = Precedence(x[t[n]].kind)
      OBVIOUS
    <3>3. left \in 1 .. Len(b) /\ n - 1 \in 1 .. Len(b)
      BY <1>3, <1>4, <3>1, <3>2
    <3>4. Tight(b, t, g, x, left, outer) /\ Tight(b, t, g, x, n - 1, outer + 1)
      BY <1>2, <2>2, <3>2 DEF Groups
    <3>5. Tight(b2, t2, g2, x, left, outer) /\ Tight(b2, t2, g2, x, n - 1, outer + 1)
      BY <3>3, <3>4, TightLater
    <3>6. b2[n - 1] = b[n - 1] /\ b[n].kind \notin UnaryKinds
      BY <1>1, <2>2, <3>3, NodeKindsApart
    <3> QED
      BY <1>1, <3>2, <3>5, <3>6 DEF Groups
  <2> QED
    BY <1>1, <2>1, <2>2 DEF Groups
<1> QED
  BY <1>1, <1>6, <1>7, <1>8 DEF Finished, Later

(* The parser reads on, and perhaps takes a node for a group.              *)
LEMMA FinishedKept ==
  ASSUME NEW b, NEW t, NEW g, NEW p, NEW g2, NEW p2, Later(b, t, g, p, b, t, g2, p2),
         NEW x, Finished(b, t, g, x, p)
  PROVE  Finished(b, t, g2, x, p2)
BY FinishedLater DEF Finished

(* One more node.                                                          *)
LEMMA FinishedMore ==
  ASSUME NEW b, NEW t, NEW g, NEW p, NEW b2, NEW t2, NEW p2, Later(b, t, g, p, b2, t2, g, p2),
         NEW x, Finished(b, t, g, x, p), NEW n, n = Len(b) + 1, Len(b2) = n,
         t2[n] \in 1 .. Len(x), t2[n] < p2, \A m \in 1 .. Len(b) : t[m] # t2[n],
         Formed(b2, n), Reads(b2, t2, n), Groups(b2, t2, g, x, n)
  PROVE  Finished(b2, t2, g, x, p2)
<1>1. Len(b) \in Nat /\ Len(t2) = Len(b2)
  BY DEF Later
<1>2. \A m \in 1 .. Len(b2) : m \in 1 .. Len(b) \/ m = n
  BY <1>1
<1>3. \A m \in 1 .. Len(b) :
        /\ t2[m] = t[m]
        /\ t2[m] \in 1 .. Len(x) /\ t2[m] < p2
        /\ Formed(b2, m) /\ Reads(b2, t2, m) /\ Groups(b2, t2, g, x, m)
  BY FinishedLater
<1>4. \A l, m \in 1 .. Len(b2) : t2[l] = t2[m] => l = m
  BY <1>2, <1>3 DEF Finished
<1> QED
  BY <1>1, <1>2, <1>3, <1>4 DEF Finished

-----------------------------------------------------------------------------
(* Functions under way.                                                    *)
LEMMA UnderwayLater ==
  ASSUME NEW b, NEW t, NEW g, NEW p, NEW b2, NEW t2, NEW g2, NEW p2, Later(b, t, g, p, b2, t2, g2, p2),
         NEW x, NEW f, NEW c, Underway(f, c, b, t, g, x, p), Len(x) \in Nat,
         \A i \in 1 .. Len(f) : f[i].task \in Waits =>
           \A m \in 1 .. Len(t2) : m > Len(t) => f[i].at < t2[m]
  PROVE  Underway(f, c, b2, t2, g2, x, p2)
<1>1. /\ Len(b) \in Nat /\ Len(b2) \in Nat /\ Len(b) <= Len(b2) /\ Len(t) = Len(b) /\ Len(t2) = Len(b2)
      /\ p \in Nat /\ p2 \in Nat /\ p <= p2
      /\ \A m \in 1 .. Len(b) : b2[m] = b[m] /\ t2[m] = t[m]
  BY DEF Later, Extended
<1> SUFFICES ASSUME NEW i \in 1 .. Len(f)
             PROVE  /\ c[i] \in 0 .. Len(b2)
                    /\ f[i].task \in Calls \cup Waits
                    /\ f[i].task \in Calls => Called(f, c, x, i)
                    /\ f[i].task \in Waits => Waiting(f, c, b2, t2, g2, x, p2, i)
  BY DEF Underway
<1>2. /\ c[i] \in 0 .. Len(b) /\ f[i].task \in Calls \cup Waits
      /\ f[i].task \in Calls => Called(f, c, x, i)
      /\ f[i].task \in Waits => Waiting(f, c, b, t, g, x, p, i)
  BY DEF Underway
<1>3. c[i] \in 0 .. Len(b2)
  BY <1>1, <1>2
<1>4. ASSUME f[i].task \in Waits PROVE Waiting(f, c, b2, t2, g2, x, p2, i)
  <2>1. Waiting(f, c, b, t, g, x, p, i)
    BY <1>2, <1>4
  <2>2. f[i].at \in 1 .. Len(x) /\ f[i].at < p2
    <3>1. f[i].at \in 1 .. Len(x) /\ f[i].at < p
      BY <2>1 DEF Waiting
    <3>2. PICK a : a = f[i].at
      OBVIOUS
    <3>3. a \in Nat /\ a < p
      BY <3>1, <3>2
    <3>4. a < p2
      BY <1>1, <3>3
    <3> QED
      BY <3>1, <3>2, <3>4
  <2>3. ASSUME f[i].task = "binary" PROVE Joins(f, c, b2, t2, g2, x, i)
    <3>1. Joins(f, c, b, t, g, x, i) /\ i < Len(f)
      BY <2>1, <2>3 DEF Waiting
    <3>2. c[i] \in 1 .. Len(b)
      <4>1. i + 1 \in 1 .. Len(f)
        BY <3>1
      <4>2. c[i + 1] \in 0 .. Len(b) /\ c[i + 1] < c[i]
        BY <3>1, <4>1 DEF Underway, Joins
      <4> QED
        BY <1>1, <1>2, <4>2
    <3> QED
      BY <1>1, <3>1, <3>2, TightLater DEF Joins
  <2>4. Divides(f, c, t2, i)
    <3>1. Divides(f, c, t, i)
      BY <2>1 DEF Waiting
    <3>2. \A m \in 1 .. c[i] : m \in 1 .. Len(b)
      BY <1>1, <1>2
    <3>3. ASSUME NEW m \in 1 .. Len(t2), m > c[i] PROVE f[i].at < t2[m]
      <4>1. CASE m > Len(t)
        BY <1>4, <4>1
      <4>2. CASE ~(m > Len(t))
        <5>1. m \in 1 .. Len(b) /\ m \in 1 .. Len(t)
          BY <1>1, <4>2
        <5> QED
          BY <1>1, <3>1, <3>3, <5>1 DEF Divides
      <4> QED
        BY <4>1, <4>2
    <3> QED
      BY <1>1, <3>1, <3>2, <3>3 DEF Divides
  <2> QED
    BY <2>1, <2>2, <2>3, <2>4 DEF Waiting
<1> QED
  BY <1>2, <1>3, <1>4

(* The innermost function returns.                                         *)
LEMMA UnderwayDropped ==
  ASSUME NEW f, NEW c, NEW f2, NEW c2, Below(f2, f, 1), Below(c2, c, 1), Len(c) = Len(f), Len(f2) \in Nat,
         Len(c2) \in Nat,
         NEW b, NEW t, NEW g, NEW x, NEW p, Underway(f, c, b, t, g, x, p)
  PROVE  Underway(f2, c2, b, t, g, x, p)
<1>1. /\ Len(f) = Len(f2) + 1 /\ Len(c2) = Len(f2)
      /\ \A i \in 1 .. Len(f2) : f[i + 1] = f2[i] /\ c[i + 1] = c2[i]
  BY DEF Below
<1> SUFFICES ASSUME NEW i \in 1 .. Len(f2)
             PROVE  /\ c2[i] \in 0 .. Len(b)
                    /\ f2[i].task \in Calls \cup Waits
                    /\ f2[i].task \in Calls => Called(f2, c2, x, i)
                    /\ f2[i].task \in Waits => Waiting(f2, c2, b, t, g, x, p, i)
  BY DEF Underway
<1>2. PICK k : k = i + 1
  OBVIOUS
<1>3. /\ k \in 1 .. Len(f) /\ k # 1 /\ f[k] = f2[i] /\ c[k] = c2[i]
      /\ (k = Len(f) <=> i = Len(f2)) /\ (k < Len(f) <=> i < Len(f2))
  BY <1>1, <1>2
<1>4. i < Len(f2) => f[k + 1] = f2[i + 1] /\ c[k + 1] = c2[i + 1]
  BY <1>1, <1>2
<1>5. /\ c[k] \in 0 .. Len(b) /\ f[k].task \in Calls \cup Waits
      /\ f[k].task \in Calls => Called(f, c, x, k)
      /\ f[k].task \in Waits => Waiting(f, c, b, t, g, x, p, k)
  BY <1>3 DEF Underway
<1>6. f2[i].task \in Calls => Called(f2, c2, x, i)
  BY <1>3, <1>4, <1>5 DEF Called
<1>7. ASSUME f2[i].task \in Waits PROVE Waiting(f2, c2, b, t, g, x, p, i)
  <2>1. Waiting(f, c, b, t, g, x, p, k) /\ i < Len(f2)
    BY <1>3, <1>5, <1>7 DEF Waiting
  <2>2. f2[i].task = "binary" => Joins(f2, c2, b, t, g, x, i)
    BY <1>3, <1>4, <2>1 DEF Waiting, Joins
  <2>3. Divides(f2, c2, t, i)
    BY <1>3, <2>1 DEF Waiting, Divides
  <2>4. ASSUME NEW j \in 1 .. Len(f2), i < j, f2[j].task \in Waits PROVE f2[j].at < f2[i].at
    <3>1. j + 1 \in 1 .. Len(f) /\ k < j + 1 /\ f[j + 1] = f2[j]
      BY <1>1, <1>2, <2>4
    <3> QED
      BY <1>3, <2>1, <2>4, <3>1 DEF Waiting
  <2> QED
    BY <1>3, <1>4, <2>1, <2>2, <2>3, <2>4 DEF Waiting
<1> QED
  BY <1>3, <1>5, <1>6, <1>7

(* A call has its operand and goes on to the operators.                    *)
LEMMA UnderwayReplaced ==
  ASSUME NEW f, NEW c, NEW f2, Len(f) \in Nat, Len(f2) = Len(f), Len(f) > 0,
         f[1].task \in Calls, f2[1].task = "operators", f2[1].precedence = f[1].precedence,
         \A i \in 1 .. Len(f) : i > 1 => f2[i] = f[i],
         NEW b, NEW t, NEW g, NEW x, NEW p, Underway(f, c, b, t, g, x, p)
  PROVE  Underway(f2, c, b, t, g, x, p)
<1>1. ASSUME NEW i \in 1 .. Len(f), i < Len(f) PROVE i + 1 \in 1 .. Len(f) /\ f2[i + 1] = f[i + 1]
  BY <1>1
<1>2. f2[1].task \in Calls /\ f2[1].task \notin Waits
  BY DEF Calls, Waits
<1>3. 1 \in 1 .. Len(f)
  OBVIOUS
<1>4. Called(f2, c, x, 1)
  <2>1. Called(f, c, x, 1)
    BY <1>3 DEF Underway
  <2> QED
    BY <1>1, <1>3, <2>1 DEF Called
<1>5. ASSUME NEW i \in 1 .. Len(f), i > 1
      PROVE  /\ f2[i] = f[i]
             /\ f2[i].task \in Calls => Called(f2, c, x, i)
             /\ f2[i].task \in Waits => Waiting(f2, c, b, t, g, x, p, i)
  <2>1. f2[i] = f[i]
    BY <1>5
  <2>2. /\ f[i].task \in Calls => Called(f, c, x, i)
        /\ f[i].task \in Waits => Waiting(f, c, b, t, g, x, p, i)
    BY DEF Underway
  <2>3. f2[i].task \in Calls => Called(f2, c, x, i)
    BY <1>1, <2>1, <2>2 DEF Called
  <2>4. ASSUME f2[i].task \in Waits PROVE Waiting(f2, c, b, t, g, x, p, i)
    <3>1. Waiting(f, c, b, t, g, x, p, i) /\ i < Len(f)
      BY <2>1, <2>2, <2>4 DEF Waiting
    <3>2. \A j \in 1 .. Len(f) : i < j => f2[j] = f[j]
      BY <1>5
    <3>3. f2[i].task = "binary" => Joins(f2, c, b, t, g, x, i)
      BY <2>1, <3>1 DEF Waiting, Joins
    <3>4. Divides(f2, c, t, i)
      BY <2>1, <3>1 DEF Waiting, Divides
    <3> QED
      BY <1>1, <2>1, <3>1, <3>2, <3>3, <3>4 DEF Waiting
  <2> QED
    BY <2>1, <2>3, <2>4
<1>6. ASSUME NEW i \in 1 .. Len(f2)
      PROVE  /\ c[i] \in 0 .. Len(b)
             /\ f2[i].task \in Calls \cup Waits
             /\ f2[i].task \in Calls => Called(f2, c, x, i)
             /\ f2[i].task \in Waits => Waiting(f2, c, b, t, g, x, p, i)
  <2>1. c[i] \in 0 .. Len(b) /\ f[i].task \in Calls \cup Waits
    BY DEF Underway
  <2>2. CASE i = 1
    BY <1>2, <1>4, <2>1, <2>2
  <2>3. CASE i > 1
    BY <1>5, <2>1, <2>3
  <2> QED
    BY <2>2, <2>3
<1> QED
  BY <1>6 DEF Underway

(* An operator, or a parenthesis, is read and asks for an operand.         *)
LEMMA UnderwayRaised ==
  ASSUME NEW f, NEW c, NEW f2, NEW c2, Below(f, f2, 2), Below(c, c2, 2), Len(c) = Len(f), Len(f) \in Nat,
         Len(f) > 0, f[1].task = "operators",
         NEW b, NEW t, NEW g, NEW x, NEW p, Underway(f, c, b, t, g, x, p),
         Len(b) \in Nat, Len(t) = Len(b), Len(x) \in Nat, p \in 1 .. Len(x),
         \A m \in 1 .. Len(t) : t[m] < p,
         f2[1].task = "operand", f2[1].precedence = Demand(x, f2[2]), c2[1] = Len(b),
         f2[2].task \in Waits, f2[2].at = p, f2[2].first = c[1] + 1, c2[2] = Len(b),
         f2[2].task = "binary" =>
           /\ c[1] < Len(b) /\ b[Len(b)].first = c[1] + 1
           /\ x[p].kind \in Operators
           /\ f[1].precedence <= Precedence(x[p].kind)
           /\ Tight(b, t, g, x, Len(b), Precedence(x[p].kind)),
         f2[2].task # "binary" => c[1] = Len(b)
  PROVE  Underway(f2, c2, b, t, g, x, p + 1)
<1>1. /\ Len(f2) = Len(f) + 2 /\ Len(c2) = Len(f2)
      /\ \A i \in 1 .. Len(f) : f2[i + 2] = f[i] /\ c2[i + 2] = c[i]
  BY DEF Below
<1>2. f2[3] = f[1] /\ c2[3] = c[1]
  <2>1. 1 \in 1 .. Len(f) /\ 1 + 2 = 3
    OBVIOUS
  <2> QED
    BY <1>1, <2>1
<1>3. Called(f2, c2, x, 1) /\ f2[1].task \in Calls /\ f2[1].task \notin Waits
  <2>1. 1 # Len(f2) /\ 1 + 1 = 2
    BY <1>1
  <2> QED
    BY <2>1 DEF Called, Calls, Waits
<1>4. \A i \in 1 .. Len(f) : f[i].task \in Waits => f[i].at \in 1 .. Len(x) /\ f[i].at < p
  BY DEF Underway, Waiting
<1>5. ASSUME NEW i \in 1 .. Len(f)
      PROVE  /\ c2[i + 2] \in 0 .. Len(b)
             /\ f2[i + 2].task \in Calls \cup Waits
             /\ f2[i + 2].task \in Calls => Called(f2, c2, x, i + 2)
             /\ f2[i + 2].task \in Waits => Waiting(f2, c2, b, t, g, x, p + 1, i + 2)
  <2>1. PICK k : k = i + 2
    OBVIOUS
  <2>2. /\ k \in 1 .. Len(f2) /\ k > 2 /\ f2[k] = f[i] /\ c2[k] = c[i]
        /\ (k = Len(f2) <=> i = Len(f)) /\ (k < Len(f2) <=> i < Len(f))
    <3>1. f2[k] = f[i] /\ c2[k] = c[i]
      BY <1>1, <2>1
    <3>2. PICK n, n2 : n = Len(f) /\ n2 = Len(f2)
      OBVIOUS
    <3>3. n \in Nat /\ n2 = n + 2 /\ i \in 1 .. n
      BY <1>1, <3>2
    <3>4. k \in 1 .. n2 /\ k > 2 /\ (k = n2 <=> i = n) /\ (k < n2 <=> i < n)
      BY <2>1, <3>3
    <3> QED
      BY <3>1, <3>2, <3>4
  <2>3. i < Len(f) => f2[k + 1] = f[i + 1] /\ c2[k + 1] = c[i + 1]
    <3>1. i < Len(f) => i + 1 \in 1 .. Len(f) /\ (i + 1) + 2 = k + 1
      BY <2>1
    <3> QED
      BY <1>1, <3>1
  <2>4. /\ c[i] \in 0 .. Len(b) /\ f[i].task \in Calls \cup Waits
        /\ f[i].task \in Calls => Called(f, c, x, i)
        /\ f[i].task \in Waits => Waiting(f, c, b, t, g, x, p, i)
    BY DEF Underway
  <2>5. f2[k].task \in Calls => Called(f2, c2, x, k)
    <3>1. i = 1 => f[i].task # "operand"
      OBVIOUS
    <3> QED
      BY <2>2, <2>3, <2>4, <3>1 DEF Called
  <2>6. ASSUME f2[k].task \in Waits PROVE Waiting(f2, c2, b, t, g, x, p + 1, k)
    <3>1. Waiting(f, c, b, t, g, x, p, i) /\ i < Len(f)
      BY <2>2, <2>4, <2>6 DEF Waiting
    <3>2. f2[k].task = "binary" => Joins(f2, c2, b, t, g, x, k)
      BY <2>2, <2>3, <3>1 DEF Waiting, Joins
    <3>3. Divides(f2, c2, t, k)
      BY <2>2, <3>1 DEF Waiting, Divides
    <3>4. ASSUME NEW j \in 1 .. Len(f2), k < j, f2[j].task \in Waits PROVE f2[j].at < f2[k].at
      <4>1. PICK l : l = j - 2
        OBVIOUS
      <4>2. l \in 1 .. Len(f) /\ i < l /\ l + 2 = j
        BY <1>1, <2>1, <3>4, <4>1
      <4>3. f2[j] = f[l]
        BY <1>1, <4>2
      <4> QED
        BY <2>2, <3>1, <3>4, <4>2, <4>3 DEF Waiting
    <3>5. f[i].at < p + 1
      BY <1>4, <2>2, <2>6
    <3> QED
      BY <2>2, <2>3, <3>1, <3>2, <3>3, <3>4, <3>5 DEF Waiting
  <2> QED
    BY <2>1, <2>2, <2>4, <2>5, <2>6
<1>6. Waiting(f2, c2, b, t, g, x, p + 1, 2)
  <2>1. 2 < Len(f2) /\ 2 + 1 = 3 /\ p < p + 1
    BY <1>1
  <2>2. Divides(f2, c2, t, 2)
    <3>1. \A m \in 1 .. Len(t) : ~(m > Len(b))
      OBVIOUS
    <3> QED
      BY <3>1 DEF Divides
  <2>3. ASSUME NEW j \in 1 .. Len(f2), 2 < j, f2[j].task \in Waits PROVE f2[j].at < f2[2].at
    <3>1. PICK l : l = j - 2
      OBVIOUS
    <3>2. l \in 1 .. Len(f) /\ l + 2 = j
      BY <1>1, <2>3, <3>1
    <3>3. f2[j] = f[l]
      BY <1>1, <3>2
    <3> QED
      BY <1>4, <2>3, <3>2, <3>3
  <2>4. f2[2].task = "binary" => Joins(f2, c2, b, t, g, x, 2)
    BY <1>2, <2>1 DEF Joins
  <2> QED
    BY <1>2, <2>1, <2>2, <2>3, <2>4 DEF Waiting
<1>7. ASSUME NEW i \in 1 .. Len(f2)
      PROVE  /\ c2[i] \in 0 .. Len(b)
             /\ f2[i].task \in Calls \cup Waits
             /\ f2[i].task \in Calls => Called(f2, c2, x, i)
             /\ f2[i].task \in Waits => Waiting(f2, c2, b, t, g, x, p + 1, i)
  <2>1. CASE i = 1
    BY <1>3, <2>1
  <2>2. CASE i = 2
    <3>1. f2[2].task \notin Calls
      BY DEF Calls, Waits
    <3> QED
      BY <1>6, <2>2, <3>1
  <2>3. CASE i > 2
    <3>1. PICK l : l = i - 2
      OBVIOUS
    <3>2. l \in 1 .. Len(f) /\ l + 2 = i
      BY <1>1, <2>3, <3>1
    <3> QED
      BY <1>5, <3>2
  <2> QED
    BY <2>1, <2>2, <2>3
<1> QED
  BY <1>7 DEF Underway

-----------------------------------------------------------------------------
(* What the actions find.                                                  *)
LEMMA Found ==
  ASSUME ParserIInv
  PROVE  /\ Len(input) \in Nat /\ position \in Nat /\ position <= Len(input) + 1 /\ position > 0
         /\ \A i \in 1 .. Len(input) : input[i].kind \in TokenKinds /\ input[i].line \in Nat \ {0}
         /\ IsSeq(built) /\ IsSeq(token)
         /\ Len(built) \in Nat /\ Len(token) = Len(built)
         /\ \A m \in 1 .. Len(token) : token[m] \in 1 .. Len(input) /\ token[m] < position
         /\ Finished(built, token, grouped, input, position)
         /\ Current = KindAt(input, position)
         /\ Current # "SP_EOF" => position \in 1 .. Len(input) /\ Current = input[position].kind
<1>1. IsInput(input) /\ position \in 1 .. Len(input) + 1 /\ IsSeq(built) /\ IsSeq(token)
      /\ Finished(built, token, grouped, input, position)
  BY DEF ParserIInv, Parses
<1>2. /\ Len(input) \in Nat
      /\ \A i \in 1 .. Len(input) : input[i].kind \in TokenKinds /\ input[i].line \in Nat \ {0}
  BY <1>1 DEF IsInput
<1>3. Len(built) \in Nat /\ Len(token) = Len(built)
  BY <1>1, SeqLength DEF Finished
<1>4. \A m \in 1 .. Len(token) : token[m] \in 1 .. Len(input) /\ token[m] < position
  BY <1>1, <1>3 DEF Finished
<1>5. Current = KindAt(input, position)
  BY DEF Current, KindAt
<1>6. Current # "SP_EOF" => position \in 1 .. Len(input) /\ Current = input[position].kind
  BY <1>1, <1>2 DEF Current
<1> QED
  BY <1>1, <1>2, <1>3, <1>4, <1>5, <1>6

LEMMA FoundFrames ==
  ASSUME NEW task, At(task), NEW c, NEW b, NEW t, NEW g, NEW x, NEW p, Forest(frames, c, b, t, g, x, p)
  PROVE  /\ IsSeq(frames) /\ IsSeq(c) /\ frames # <<>> /\ c # <<>>
         /\ Len(frames) \in Nat /\ Len(frames) > 0 /\ 1 \in 1 .. Len(frames)
         /\ Len(c) = Len(frames)
         /\ Top = frames[1] /\ frames[1].task = task
         /\ Underway(frames, c, b, t, g, x, p) /\ Resumes(frames, c, b, t, g, x, p)
<1>1. IsSeq(frames) /\ IsSeq(c) /\ Len(c) = Len(frames) /\ frames # <<>>
  BY DEF Forest, At
<1>2. Len(frames) \in Nat /\ Len(frames) > 0 /\ c # <<>>
  BY <1>1, SeqLength
<1>3. Top = frames[1]
  BY <1>1, Dropped DEF Top
<1> QED
  BY <1>1, <1>2, <1>3 DEF Forest, At

(* A token is read: what was finished stays so.                            *)
LEMMA ReadsOn ==
  ASSUME ParserIInv, NEW p2 \in Nat, position <= p2, NEW g2, grouped \subseteq g2
  PROVE  /\ Later(built, token, grouped, position, built, token, g2, p2)
         /\ Finished(built, token, g2, input, p2)
<1>1. Later(built, token, grouped, position, built, token, g2, p2)
  BY Found DEF Later, Extended
<1> QED
  BY <1>1, Found, FinishedKept

(* A node is finished: e, number n, with token a.                          *)
Adds(b, t, g, p, n, e, a, b2, t2, p2) ==
  /\ IsSeq(b2) /\ IsSeq(t2) /\ n \in Nat /\ n = Len(b) + 1 /\ Len(b2) = n /\ Len(t2) = n
  /\ b2[n] = e /\ t2[n] = a
  /\ \A m \in 1 .. Len(b) : b2[m] = b[m] /\ t2[m] = t[m]
  /\ Later(b, t, g, p, b2, t2, g, p2)

LEMMA NodeAdded ==
  ASSUME ParserIInv, NEW e, NEW a, NEW b2, b2 = Append(built, e), NEW t2, t2 = Append(token, a),
         NEW p2 \in Nat, position <= p2
  PROVE  Adds(built, token, grouped, position, Len(built) + 1, e, a, b2, t2, p2)
<1>1. IsSeq(b2) /\ Len(b2) = Len(built) + 1 /\ b2[Len(built) + 1] = e /\ Extended(b2, built)
  BY Found, Appended
<1>2. IsSeq(t2) /\ Len(t2) = Len(token) + 1 /\ t2[Len(token) + 1] = a /\ Extended(t2, token)
  BY Found, Appended
<1>3. Len(built) \in Nat /\ Len(token) = Len(built) /\ position \in Nat
  BY Found
<1> QED
  BY <1>1, <1>2, <1>3 DEF Later, Extended, Adds

LEMMA PositionMoves ==
  ASSUME ParserIInv, _advance
  PROVE  /\ position' \in 1 .. Len(input) + 1 /\ position' \in Nat /\ position <= position'
         /\ position \in 1 .. Len(input) => position' = position + 1
BY Found DEF _advance

-----------------------------------------------------------------------------
(* The actions.                                                            *)
LEMMA LiteralStep ==
  ASSUME ParserIInv, Literal
  PROVE  ParserIInv'
<1>1. PICK p, n, e, b2, t2, f2 :
        /\ p = position /\ n = Len(built) + 1
        /\ e = LiteralNode(input[position], n)
        /\ b2 = Append(built, e) /\ t2 = Append(token, p)
        /\ f2 = <<OperatorsOf(Top.precedence)>> \o Tail(frames)
  OBVIOUS
<1>2. /\ At("operand") /\ Current \in Literals
      /\ built' = b2 /\ token' = t2 /\ frames' = f2
      /\ input' = input /\ state' = "parse" /\ grouped' = grouped
  BY <1>1 DEF Literal, At, Rest
<1>3. p \in 1 .. Len(input) /\ Current = input[p].kind /\ position' = p + 1
  <2>1. Current # "SP_EOF"
    BY <1>2 DEF Literals
  <2> QED
    BY <1>1, <2>1, Found, PositionMoves DEF Literal
<1>4. PICK c : Forest(frames, c, built, token, grouped, input, position)
  BY <1>2 DEF ParserIInv, Parses, At
<1>5. /\ IsSeq(frames) /\ IsSeq(c) /\ frames # <<>> /\ Len(frames) \in Nat /\ Len(frames) > 0
      /\ 1 \in 1 .. Len(frames) /\ Len(c) = Len(frames) /\ Top = frames[1] /\ frames[1].task = "operand"
      /\ Underway(frames, c, built, token, grouped, input, position)
      /\ Resumes(frames, c, built, token, grouped, input, position)
  BY <1>2, <1>4, FoundFrames
<1>6. /\ e.kind \in LiteralKinds /\ e.first = n /\ e.line = input[p].line
  BY <1>1, <1>2, <1>3 DEF LiteralNode, Literals, LiteralKinds
<1>7. /\ Len(input) \in Nat /\ Len(built) \in Nat /\ Len(token) = Len(built) /\ n \in Nat /\ p \in Nat
      /\ input[p].line \in Nat \ {0}
      /\ \A m \in 1 .. Len(token) : token[m] < p
  BY <1>1, <1>3, Found
<1>8. /\ IsSeq(b2) /\ IsSeq(t2) /\ Len(b2) = n /\ Len(t2) = n /\ b2[n] = e /\ t2[n] = p
      /\ \A m \in 1 .. Len(built) : b2[m] = built[m] /\ t2[m] = token[m]
      /\ Later(built, token, grouped, position, b2, t2, grouped, p + 1)
  <2>1. b2 = Append(built, e) /\ t2 = Append(token, p) /\ p + 1 \in Nat /\ position <= p + 1
    BY <1>1, <1>7
  <2>2. Adds(built, token, grouped, position, Len(built) + 1, e, p, b2, t2, p + 1)
    BY <2>1, NodeAdded
  <2> QED
    BY <1>1, <2>2 DEF Adds
<1>9. e.kind \in NodeKinds /\ e.kind \notin UnaryKinds /\ e.kind \notin BinaryKinds
  BY <1>6, NodeKindsApart
<1>10. Finished(b2, t2, grouped, input, p + 1)
  <2>1. Formed(b2, n)
    <3>1. n \in 1 .. n
      BY <1>1, <1>7
    <3> QED
      BY <1>6, <1>7, <1>8, <1>9, <3>1 DEF Formed
  <2>2. Reads(b2, t2, n) /\ Groups(b2, t2, grouped, input, n)
    BY <1>8, <1>9 DEF Reads, Groups
  <2>3. \A m \in 1 .. Len(built) : token[m] # t2[n]
    BY <1>7, <1>8
  <2>4. t2[n] \in 1 .. Len(input) /\ t2[n] < p + 1
    BY <1>3, <1>7, <1>8
  <2> QED
    <3>1. n = Len(built) + 1 /\ Finished(built, token, grouped, input, position)
      BY <1>1, Found
    <3> QED
      BY <1>8, <2>1, <2>2, <2>3, <2>4, <3>1, FinishedMore
<1>11. /\ IsSeq(f2) /\ Len(f2) = Len(frames) /\ f2[1] = OperatorsOf(Top.precedence)
       /\ \A i \in 1 .. Len(frames) : i > 1 => f2[i] = frames[i]
  <2>1. IsReplaced(f2, frames, OperatorsOf(Top.precedence))
    BY <1>1, <1>5, Replaced
  <2> QED
    BY <2>1 DEF IsReplaced
<1>12. Underway(f2, c, b2, t2, grouped, input, p + 1)
  <2>1. \A m \in 1 .. Len(t2) : m > Len(token) => t2[m] = p
    BY <1>1, <1>7, <1>8
  <2>2. \A i \in 1 .. Len(frames) : frames[i].task \in Waits => frames[i].at < p
    BY <1>1, <1>5 DEF Underway, Waiting
  <2>3. Underway(frames, c, b2, t2, grouped, input, p + 1)
    BY <1>5, <1>7, <1>8, <2>1, <2>2, UnderwayLater
  <2>4. frames[1].task \in Calls /\ f2[1].task = "operators" /\ f2[1].precedence = frames[1].precedence
    BY <1>5, <1>11 DEF OperatorsOf, Frame, Calls
  <2> QED
    BY <1>5, <1>11, <2>3, <2>4, UnderwayReplaced
<1>13. Resumes(f2, c, b2, t2, grouped, input, p + 1)
  <2>1. c[1] = Len(built)
    BY <1>5 DEF Resumes
  <2>2. f2[1].task = "operators" /\ Len(f2) > 0
    BY <1>5, <1>11 DEF OperatorsOf, Frame
  <2>3. \A q : Tight(b2, t2, grouped, input, n, q)
    BY <1>8, <1>9 DEF Tight
  <2>4. c[1] < n /\ b2[n].first = c[1] + 1
    BY <1>1, <1>6, <1>7, <1>8, <2>1
  <2> QED
    BY <1>8, <2>2, <2>3, <2>4 DEF Resumes, From, Calls
<1>14. Forest(f2, c, b2, t2, grouped, input, p + 1)
  BY <1>5, <1>11, <1>12, <1>13 DEF Forest
<1>15. Parses(f2, b2, t2, grouped, input, p + 1, "parse")
  <2>1. p + 1 \in 1 .. Len(input) + 1
    BY <1>3, <1>7
  <2> QED
    BY <1>8, <1>10, <1>14, <2>1 DEF ParserIInv, Parses
<1> QED
  BY <1>2, <1>3, <1>15 DEF ParserIInv

(* An operator or a parenthesis is read, and asks for an operand.          *)
LEMMA Opens ==
  ASSUME ParserIInv, position \in 1 .. Len(input), NEW q, NEW c, IsSeq(c), Len(c) = Len(q),
         Len(q) \in Nat, Len(q) > 0, q[1].task = "operators",
         Underway(q, c, built, token, grouped, input, position),
         NEW y, NEW z, NEW f2, IsRaised(f2, q, y, z),
         y.task = "operand", y.precedence = Demand(input, z),
         z.task \in Waits, z.at = position, z.first = c[1] + 1,
         z.task = "binary" =>
           /\ c[1] < Len(built) /\ built[Len(built)].first = c[1] + 1
           /\ input[position].kind \in Operators
           /\ q[1].precedence <= Precedence(input[position].kind)
           /\ Tight(built, token, grouped, input, Len(built), Precedence(input[position].kind)),
         z.task # "binary" => c[1] = Len(built)
  PROVE  Parses(f2, built, token, grouped, input, position + 1, "parse")
<1>1. PICK last, c2 : last = Len(built) /\ c2 = <<last, last>> \o c
  OBVIOUS
<1>2. IsSeq(c2) /\ Below(c, c2, 2) /\ c2[1] = last /\ c2[2] = last
  <2>1. IsRaised(c2, c, last, last)
    BY <1>1, Raised
  <2> QED
    BY <2>1 DEF IsRaised
<1>3. IsSeq(f2) /\ Below(q, f2, 2) /\ f2[1] = y /\ f2[2] = z
  BY DEF IsRaised
<1>4. /\ Len(input) \in Nat /\ Len(built) \in Nat /\ Len(token) = Len(built)
      /\ \A m \in 1 .. Len(token) : token[m] < position
      /\ IsSeq(built) /\ IsSeq(token)
  BY Found
<1>5. Underway(f2, c2, built, token, grouped, input, position + 1)
  BY <1>1, <1>2, <1>3, <1>4, UnderwayRaised
<1>6. Len(c2) = Len(f2) /\ Len(f2) > 0
  BY <1>2, <1>3 DEF Below
<1>7. Resumes(f2, c2, built, token, grouped, input, position + 1)
  BY <1>1, <1>2, <1>3, <1>6 DEF Resumes
<1>8. Forest(f2, c2, built, token, grouped, input, position + 1)
  BY <1>2, <1>3, <1>5, <1>6, <1>7 DEF Forest
<1>9. Finished(built, token, grouped, input, position + 1)
  BY <1>4, ReadsOn
<1>10. position + 1 \in 1 .. Len(input) + 1 /\ IsInput(input)
  BY <1>4 DEF ParserIInv, Parses
<1> QED
  BY <1>4, <1>8, <1>9, <1>10 DEF Parses

LEMMA PrefixStep ==
  ASSUME ParserIInv, _unary \/ _group
  PROVE  ParserIInv'
<1>1. PICK p, y, z, e :
        /\ p = position
        /\ y = Operand(IF Current = "OP_PAREN_OPEN" THEN PRECEDENCE_ASSIGNMENT ELSE PRECEDENCE_UNARY)
        /\ z = Frame(IF Current = "OP_PAREN_OPEN" THEN "group" ELSE "unary", 0, p, Len(built) + 1)
        /\ e = OperatorsOf(Top.precedence)
  OBVIOUS
<1>2. PICK q, f2 : q = <<e>> \o Tail(frames) /\ f2 = <<y, z, e>> \o Tail(frames)
  OBVIOUS
<1>3. /\ At("operand") /\ Current \in {"KW_NOT", "OP_SUBTRACTION", "OP_PAREN_OPEN"}
      /\ built' = built /\ token' = token /\ frames' = f2
      /\ input' = input /\ state' = "parse" /\ grouped' = grouped /\ _advance
  BY <1>1, <1>2 DEF _unary, _group, At, Rest
<1>4. p \in 1 .. Len(input) /\ position' = p + 1
  BY <1>1, <1>3, Found, PositionMoves
<1>5. PICK c : Forest(frames, c, built, token, grouped, input, position)
  BY <1>3 DEF ParserIInv, Parses, At
<1>6. /\ IsSeq(frames) /\ IsSeq(c) /\ frames # <<>> /\ Len(frames) \in Nat /\ Len(frames) > 0
      /\ Len(c) = Len(frames) /\ Top = frames[1] /\ frames[1].task = "operand"
      /\ Underway(frames, c, built, token, grouped, input, position)
      /\ Resumes(frames, c, built, token, grouped, input, position)
  BY <1>3, <1>5, FoundFrames
<1>7. IsReplaced(q, frames, e)
  BY <1>2, <1>6, Replaced
<1>8. IsRaised(f2, q, y, z)
  BY <1>2, <1>6, <1>7, Opened
<1>9. /\ e.task = "operators" /\ e.precedence = frames[1].precedence
      /\ y.task = "operand" /\ z.task \in Waits /\ z.task # "binary" /\ z.at = p /\ z.first = Len(built) + 1
      /\ y.precedence = Demand(input, z)
  BY <1>1, <1>6 DEF Operand, OperatorsOf, Frame, Waits, Demand
<1>10. /\ Underway(q, c, built, token, grouped, input, position)
       /\ Len(q) = Len(frames) /\ q[1] = e
  <2>1. /\ Len(q) = Len(frames) /\ q[1] = e /\ frames[1].task \in Calls
        /\ \A i \in 1 .. Len(frames) : i > 1 => q[i] = frames[i]
    BY <1>6, <1>7 DEF IsReplaced, Calls
  <2> QED
    BY <1>6, <1>9, <2>1, UnderwayReplaced
<1>11. c[1] = Len(built)
  BY <1>6 DEF Resumes
<1>12. Parses(f2, built, token, grouped, input, position + 1, "parse")
  BY <1>1, <1>4, <1>6, <1>8, <1>9, <1>10, <1>11, Opens
<1> QED
  BY <1>1, <1>3, <1>4, <1>12 DEF ParserIInv

LEMMA BinaryStep ==
  ASSUME ParserIInv, _binary
  PROVE  ParserIInv'
<1>1. PICK p, y, z, f2 :
        /\ p = position /\ y = RightOperand(Current)
        /\ z = Frame("binary", 0, p, built[Len(built)].first)
        /\ f2 = <<y, z>> \o frames
  OBVIOUS
<1>2. /\ At("operators") /\ Binds /\ HasInfix(Current)
      /\ built' = built /\ token' = token /\ frames' = f2
      /\ input' = input /\ state' = "parse" /\ grouped' = grouped /\ _advance
  BY <1>1 DEF _binary, At
<1>3. /\ p \in 1 .. Len(input) /\ position' = p + 1
      /\ Current = input[p].kind /\ Current \in Operators
      /\ Precedence(Current) = Precedence(KindAt(input, position))
  <2>1. Current \in Operators /\ Current # "SP_EOF"
    BY <1>2 DEF HasInfix, Operators
  <2> QED
    BY <1>1, <1>2, <2>1, Found, PositionMoves
<1>4. PICK c : Forest(frames, c, built, token, grouped, input, position)
  BY <1>2 DEF ParserIInv, Parses, At
<1>5. /\ IsSeq(frames) /\ IsSeq(c) /\ Len(frames) \in Nat /\ Len(frames) > 0
      /\ Len(c) = Len(frames) /\ Top = frames[1] /\ frames[1].task = "operators"
      /\ Underway(frames, c, built, token, grouped, input, position)
      /\ Resumes(frames, c, built, token, grouped, input, position)
  BY <1>2, <1>4, FoundFrames
<1>6. /\ c[1] < Len(built) /\ built[Len(built)].first = c[1] + 1
      /\ Tight(built, token, grouped, input, Len(built), Precedence(KindAt(input, position)))
  BY <1>5 DEF Resumes, From, Calls
<1>7. frames[1].precedence <= Precedence(input[p].kind)
  BY <1>2, <1>3, <1>5 DEF Binds
<1>8. IsRaised(f2, frames, y, z)
  BY <1>1, <1>5, Raised
<1>9. /\ y.task = "operand" /\ z.task = "binary" /\ z.task \in Waits /\ z.at = p /\ z.first = c[1] + 1
      /\ y.precedence = Demand(input, z)
  BY <1>1, <1>3, <1>6 DEF RightOperand, Operand, Frame, Waits, Demand
<1>10. Parses(f2, built, token, grouped, input, position + 1, "parse")
  BY <1>1, <1>3, <1>5, <1>6, <1>7, <1>8, <1>9, Opens
<1> QED
  BY <1>1, <1>2, <1>3, <1>10 DEF ParserIInv

(* The innermost function returns: what it leaves of the others.           *)
Returns(f, c, f2, c2) ==
  /\ IsSeq(f2) /\ IsSeq(c2) /\ Below(f2, f, 1) /\ Below(c2, c, 1)
  /\ Len(f2) \in Nat /\ Len(c2) = Len(f2) /\ Len(f) = Len(f2) + 1
  /\ Len(f) > 1 => Len(f2) > 0 /\ f2[1] = f[2] /\ c2[1] = c[2]

LEMMA FrameReturns ==
  ASSUME NEW f, NEW c, IsSeq(f), IsSeq(c), Len(c) = Len(f), f # <<>>, c # <<>>
  PROVE  Returns(f, c, Tail(f), Tail(c))
<1>1. PICK f2, c2 : f2 = Tail(f) /\ c2 = Tail(c)
  OBVIOUS
<1>2. IsSeq(f2) /\ Below(f2, f, 1) /\ Len(f2) = Len(f) - 1 /\ IsSeq(c2) /\ Below(c2, c, 1)
  BY <1>1, Dropped
<1>3. Len(f2) \in Nat /\ Len(c2) = Len(f2) /\ Len(f) = Len(f2) + 1
  BY <1>2, SeqLength DEF Below
<1>4. ASSUME Len(f) > 1 PROVE Len(f2) > 0 /\ f2[1] = f[2] /\ c2[1] = c[2]
  <2>1. 1 \in 1 .. Len(f2) /\ 1 + 1 = 2
    BY <1>3, <1>4
  <2> QED
    BY <1>2, <1>3, <2>1 DEF Below
<1> QED
  BY <1>1, <1>2, <1>3, <1>4 DEF Returns

LEMMA EndOfOperatorsStep ==
  ASSUME ParserIInv, EndOfOperators
  PROVE  ParserIInv'
<1>1. PICK f2 : f2 = Tail(frames)
  OBVIOUS
<1>2. /\ At("operators") /\ ~Binds
      /\ built' = built /\ token' = token /\ frames' = f2 /\ position' = position
      /\ input' = input /\ state' = "parse" /\ grouped' = grouped
  BY <1>1 DEF EndOfOperators, At, Rest
<1>3. PICK c : Forest(frames, c, built, token, grouped, input, position)
  BY <1>2 DEF ParserIInv, Parses, At
<1>4. /\ IsSeq(frames) /\ IsSeq(c) /\ frames # <<>> /\ c # <<>> /\ Len(frames) \in Nat
      /\ Len(frames) > 0 /\ 1 \in 1 .. Len(frames)
      /\ Len(c) = Len(frames) /\ Top = frames[1] /\ frames[1].task = "operators"
      /\ Underway(frames, c, built, token, grouped, input, position)
      /\ Resumes(frames, c, built, token, grouped, input, position)
  BY <1>2, <1>3, FoundFrames
<1>5. PICK c2 : c2 = Tail(c) /\ Returns(frames, c, f2, c2)
  BY <1>1, <1>4, FrameReturns
<1>6. /\ IsSeq(f2) /\ IsSeq(c2) /\ Below(f2, frames, 1) /\ Below(c2, c, 1)
      /\ Len(f2) \in Nat /\ Len(c2) = Len(f2) /\ Len(frames) = Len(f2) + 1
      /\ Len(frames) > 1 => Len(f2) > 0 /\ f2[1] = frames[2] /\ c2[1] = c[2]
  BY <1>5 DEF Returns
<1>7. PICK now, least : now = Precedence(KindAt(input, position)) /\ least = frames[1].precedence
  OBVIOUS
<1>8. /\ c[1] < Len(built) /\ built[Len(built)].first = c[1] + 1
      /\ Tight(built, token, grouped, input, Len(built), least)
  BY <1>4, <1>7 DEF Resumes, From, Calls
<1>9. Called(frames, c, input, 1)
  BY <1>4 DEF Underway, Calls
<1>10. From(f2, c2) = c[1] /\ least = (IF Len(f2) = 0 THEN PRECEDENCE_ASSIGNMENT ELSE Demand(input, f2[1]))
       /\ (Len(f2) > 0 => f2[1].task \in Waits)
  <2>1. CASE Len(f2) = 0
    <3>1. Len(frames) = 1
      BY <1>6, <2>1
    <3> QED
      BY <1>7, <1>9, <2>1, <3>1 DEF Called, From
  <2>2. CASE Len(f2) > 0
    <3>1. 1 < Len(frames) /\ Len(f2) # 0 /\ 1 + 1 = 2
      BY <1>6, <2>2
    <3> QED
      BY <1>6, <1>7, <1>9, <3>1 DEF Called, From
  <2> QED
    BY <1>6, <2>1, <2>2
<1>11. now < least
  <2>1. now \in Int /\ least \in Int /\ ~(least <= now)
    <3>1. least \in Int
      BY <1>10, DemandIsInt DEF PRECEDENCE_ASSIGNMENT
    <3>2. now \in Int
      BY <1>7, PrecedenceBounds
    <3>3. ~(least <= now)
      BY <1>2, <1>4, <1>7, Found DEF Binds
    <3> QED
      BY <3>1, <3>2, <3>3
  <2> QED
    BY <2>1
<1>12. Resumes(f2, c2, built, token, grouped, input, position)
  <2>1. ~(Len(f2) > 0 /\ f2[1].task = "operand") /\ ~(Len(f2) > 0 /\ f2[1].task \in Calls)
    BY <1>10 DEF Waits, Calls
  <2> QED
    BY <1>7, <1>8, <1>10, <1>11, <2>1 DEF Resumes
<1>13. Underway(f2, c2, built, token, grouped, input, position)
  BY <1>4, <1>6, UnderwayDropped
<1>14. Forest(f2, c2, built, token, grouped, input, position)
  BY <1>6, <1>12, <1>13 DEF Forest
<1>15. Parses(f2, built, token, grouped, input, position, "parse")
  BY <1>14 DEF ParserIInv, Parses
<1> QED
  BY <1>2, <1>15 DEF ParserIInv

LEMMA EndOfGroupStep ==
  ASSUME ParserIInv, EndOfGroup
  PROVE  ParserIInv'
<1>1. PICK f2, last, g2, p2 : f2 = Tail(frames) /\ last = Len(built) /\ g2 = grouped \cup {last} /\ p2 = position'
  OBVIOUS
<1>2. /\ At("group") /\ _advance
      /\ built' = built /\ token' = token /\ frames' = f2 /\ position' = p2
      /\ input' = input /\ state' = "parse" /\ grouped' = g2
  BY <1>1 DEF EndOfGroup, At, Rest
<1>3. PICK c : Forest(frames, c, built, token, grouped, input, position)
  BY <1>2 DEF ParserIInv, Parses, At
<1>4. /\ IsSeq(frames) /\ IsSeq(c) /\ frames # <<>> /\ c # <<>> /\ Len(frames) \in Nat
      /\ Len(frames) > 0 /\ 1 \in 1 .. Len(frames)
      /\ Len(c) = Len(frames) /\ Top = frames[1] /\ frames[1].task = "group"
      /\ Underway(frames, c, built, token, grouped, input, position)
      /\ Resumes(frames, c, built, token, grouped, input, position)
  BY <1>2, <1>3, FoundFrames
<1>5. PICK c2 : c2 = Tail(c) /\ Returns(frames, c, f2, c2)
  BY <1>1, <1>4, FrameReturns
<1>6. /\ IsSeq(f2) /\ IsSeq(c2) /\ Below(f2, frames, 1) /\ Below(c2, c, 1)
      /\ Len(f2) \in Nat /\ Len(c2) = Len(f2) /\ Len(frames) = Len(f2) + 1
      /\ Len(frames) > 1 => Len(f2) > 0 /\ f2[1] = frames[2] /\ c2[1] = c[2]
  BY <1>5 DEF Returns
<1>7. c[1] < last /\ built[last].first = c[1] + 1
  BY <1>1, <1>4 DEF Resumes, From
<1>8. 1 < Len(frames) /\ frames[2].task = "operators" /\ c[1] = c[2]
  <2>1. Waiting(frames, c, built, token, grouped, input, position, 1)
    BY <1>4 DEF Underway, Waits
  <2>2. 1 + 1 = 2
    OBVIOUS
  <2> QED
    BY <1>4, <2>1, <2>2 DEF Waiting
<1>9. p2 \in 1 .. Len(input) + 1 /\ p2 \in Nat /\ position <= p2
  BY <1>1, <1>2, PositionMoves
<1>10. /\ Later(built, token, grouped, position, built, token, g2, p2)
       /\ Finished(built, token, g2, input, p2)
  <2>1. grouped \subseteq g2
    BY <1>1
  <2> QED
    BY <1>9, <2>1, ReadsOn
<1>11. Underway(f2, c2, built, token, g2, input, p2)
  <2>1. Underway(f2, c2, built, token, grouped, input, position)
    BY <1>4, <1>6, UnderwayDropped
  <2>2. \A m \in 1 .. Len(token) : ~(m > Len(token))
    BY Found
  <2>3. Len(input) \in Nat
    BY Found
  <2> QED
    BY <1>10, <2>1, <2>2, <2>3, UnderwayLater
<1>12. Resumes(f2, c2, built, token, g2, input, p2)
  <2>1. \A q : Tight(built, token, g2, input, last, q)
    BY <1>1 DEF Tight
  <2>2. Len(f2) > 0 /\ f2[1].task = "operators" /\ From(f2, c2) = c[1]
    BY <1>6, <1>8 DEF From
  <2> QED
    BY <1>1, <1>7, <2>1, <2>2 DEF Resumes, Calls
<1>13. Forest(f2, c2, built, token, g2, input, p2)
  BY <1>6, <1>11, <1>12 DEF Forest
<1>14. Parses(f2, built, token, g2, input, p2, "parse")
  BY <1>9, <1>10, <1>13 DEF ParserIInv, Parses
<1> QED
  BY <1>2, <1>14 DEF ParserIInv

(* What the operator that ends finds: its operands.                        *)
LEMMA OperandsFound ==
  ASSUME ParserIInv, Node, NEW c, Forest(frames, c, built, token, grouped, input, position),
         NEW last, last = Len(built), NEW op, op = Precedence(input[frames[1].at].kind)
  PROVE  /\ Len(frames) > 1 /\ frames[2].task = "operators" /\ frames[1].task \in {"unary", "binary"}
         /\ c[1] \in 0 .. last /\ c[2] \in 0 .. last
         /\ frames[1].first = c[2] + 1
         /\ frames[1].at \in 1 .. Len(input) /\ frames[1].at < position
         /\ c[1] < last /\ built[last].first = c[1] + 1
         /\ Divides(frames, c, token, 1)
         /\ frames[1].task = "unary" => /\ c[1] = c[2]
                                        /\ Tight(built, token, grouped, input, last, PRECEDENCE_UNARY)
         /\ frames[1].task = "binary" =>
              /\ c[2] < c[1] /\ built[c[1]].first = c[2] + 1
              /\ input[frames[1].at].kind \in Operators
              /\ frames[2].precedence <= op
              /\ Tight(built, token, grouped, input, c[1], op)
              /\ Tight(built, token, grouped, input, last, op + 1)
              /\ Precedence(KindAt(input, position)) <= op
<1>1. At(Top.task) /\ Top.task \in {"unary", "binary"}
  BY DEF Node
<1>2. /\ frames # <<>> /\ Len(frames) \in Nat
      /\ Len(frames) > 0 /\ 1 \in 1 .. Len(frames)
      /\ Len(c) = Len(frames) /\ Top = frames[1]
      /\ Underway(frames, c, built, token, grouped, input, position)
      /\ Resumes(frames, c, built, token, grouped, input, position)
  BY <1>1, FoundFrames
<1>3. frames[1].task \in {"unary", "binary"}
  BY <1>1, <1>2
<1>4. Waiting(frames, c, built, token, grouped, input, position, 1) /\ 1 + 1 = 2
  BY <1>2, <1>3 DEF Underway, Waits
<1>5. 1 < Len(frames) /\ 2 \in 1 .. Len(frames)
  BY <1>2, <1>4 DEF Waiting
<1>6. c[1] \in 0 .. last /\ c[2] \in 0 .. last
  BY <1>2, <1>5 DEF Underway
<1>7. PICK now, least : now = Precedence(KindAt(input, position)) /\ least = Demand(input, frames[1])
  OBVIOUS
<1>8. /\ c[1] < last /\ built[last].first = c[1] + 1
      /\ now < least /\ Tight(built, token, grouped, input, last, least)
  <2>1. frames[1].task # "operand" /\ frames[1].task \notin Calls /\ Len(frames) # 0
    BY <1>2, <1>3 DEF Calls
  <2> QED
    BY <1>2, <1>7, <2>1 DEF Resumes, From
<1>9. ASSUME frames[1].task = "unary"
      PROVE  c[1] = c[2] /\ Tight(built, token, grouped, input, last, PRECEDENCE_UNARY)
  <2>1. least = PRECEDENCE_UNARY
    BY <1>7, <1>9 DEF Demand
  <2> QED
    BY <1>4, <1>8, <1>9, <2>1 DEF Waiting
<1>10. ASSUME frames[1].task = "binary"
       PROVE  /\ c[2] < c[1] /\ built[c[1]].first = c[2] + 1
              /\ input[frames[1].at].kind \in Operators
              /\ frames[2].precedence <= op
              /\ Tight(built, token, grouped, input, c[1], op)
              /\ Tight(built, token, grouped, input, last, op + 1)
              /\ now <= op
  <2>1. least = op + 1
    BY <1>7, <1>10 DEF Demand
  <2>2. now \in Int /\ op \in Int
    BY <1>7, PrecedenceBounds
  <2>3. now <= op
    BY <1>8, <2>1, <2>2
  <2> QED
    BY <1>4, <1>8, <1>10, <2>1, <2>3 DEF Waiting, Joins
<1> QED
  BY <1>3, <1>4, <1>5, <1>6, <1>7, <1>8, <1>9, <1>10 DEF Waiting

(* The node of an operator, over the operands that were found.             *)
LEMMA NodeFormed ==
  ASSUME ParserIInv, Node, NEW c, Forest(frames, c, built, token, grouped, input, position),
         NEW a, a = frames[1].at, NEW kind,
         kind = IF frames[1].task = "unary" THEN UnaryKind(input[a].kind) ELSE BinaryKind(input[a].kind),
         NEW n, n = Len(built) + 1, NEW e, e = OperatorNode(kind, a, frames[1].first), NEW b2, NEW t2,
         Adds(built, token, grouped, position, n, e, a, b2, t2, position)
  PROVE  /\ Finished(b2, t2, grouped, input, position)
         /\ Tight(b2, t2, grouped, input, n, frames[2].precedence)
         /\ Tight(b2, t2, grouped, input, n, Precedence(KindAt(input, position)))
<1>1. PICK last, op, now : last = Len(built) /\ op = Precedence(input[a].kind)
                           /\ now = Precedence(KindAt(input, position))
  OBVIOUS
<1>2. /\ Len(frames) > 1 /\ frames[1].task \in {"unary", "binary"}
      /\ c[1] \in 0 .. last /\ c[2] \in 0 .. last
      /\ frames[1].first = c[2] + 1
      /\ a \in 1 .. Len(input) /\ a < position
      /\ c[1] < last /\ built[last].first = c[1] + 1
      /\ Divides(frames, c, token, 1)
      /\ frames[1].task = "unary" => /\ c[1] = c[2]
                                     /\ Tight(built, token, grouped, input, last, PRECEDENCE_UNARY)
      /\ frames[1].task = "binary" =>
           /\ c[2] < c[1] /\ built[c[1]].first = c[2] + 1
           /\ input[a].kind \in Operators
           /\ frames[2].precedence <= op
           /\ Tight(built, token, grouped, input, c[1], op)
           /\ Tight(built, token, grouped, input, last, op + 1)
           /\ now <= op
  BY <1>1, OperandsFound
<1>3. /\ Len(built) \in Nat /\ Len(token) = last /\ Len(input) \in Nat
      /\ Finished(built, token, grouped, input, position)
      /\ input[a].line \in Nat \ {0}
  BY <1>1, <1>2, Found
<1>4. /\ n \in Nat /\ n = last + 1 /\ Len(b2) = n /\ Len(t2) = n /\ b2[n] = e /\ t2[n] = a
      /\ \A m \in 1 .. last : b2[m] = built[m] /\ t2[m] = token[m]
      /\ Later(built, token, grouped, position, b2, t2, grouped, position)
  BY <1>1 DEF Adds
<1>5. e.kind = kind /\ e.first = c[2] + 1 /\ e.line = input[a].line
  BY <1>2 DEF OperatorNode
<1>6. /\ frames[1].task = "unary" => kind \in UnaryKinds
      /\ frames[1].task = "binary" => kind \in BinaryKinds
  BY <1>2, KindsOfOperators
<1>7. /\ kind \in NodeKinds /\ kind \notin LiteralKinds
      /\ kind \in UnaryKinds => frames[1].task = "unary" /\ kind \notin BinaryKinds
      /\ kind \in BinaryKinds => frames[1].task = "binary" /\ kind \notin UnaryKinds
  BY <1>2, <1>6, NodeKindsApart
<1>8. /\ n - 1 = last /\ last \in 1 .. last /\ n > 1 /\ n \in 1 .. n
      /\ b2[n - 1] = built[last] /\ c[1] \in Int /\ c[2] \in Int /\ (c[1] + 1) - 1 = c[1]
  <2>1. last \in Nat /\ c[1] \in Nat /\ c[2] \in Nat /\ c[1] < last
    BY <1>1, <1>2, <1>3
  <2>2. n - 1 = last /\ last \in 1 .. last /\ n > 1 /\ n \in 1 .. n /\ (c[1] + 1) - 1 = c[1]
    BY <1>4, <2>1
  <2> QED
    BY <1>4, <2>1, <2>2
<1>9. frames[1].task = "binary" => c[1] \in 1 .. last /\ c[1] + 1 > 1 /\ b2[c[1]] = built[c[1]]
  <2>1. frames[1].task = "binary" => c[1] \in 1 .. last /\ c[1] + 1 > 1
    BY <1>2
  <2> QED
    BY <1>4, <2>1
<1>10. Formed(b2, n)
  <2>1. c[2] + 1 \in 1 .. n
    BY <1>1, <1>2, <1>3, <1>4
  <2>2. kind \in UnaryKinds => e.first = b2[n - 1].first
    BY <1>2, <1>5, <1>7, <1>8
  <2>3. kind \in BinaryKinds => b2[n - 1].first > 1 /\ e.first = b2[b2[n - 1].first - 1].first
    BY <1>2, <1>5, <1>7, <1>8, <1>9
  <2> QED
    BY <1>3, <1>4, <1>5, <1>7, <1>8, <2>1, <2>2, <2>3 DEF Formed
<1>11. Reads(b2, t2, n)
  <2>1. /\ \A m \in 1 .. c[1] : token[m] < a
        /\ \A m \in 1 .. last : m > c[1] => a < token[m]
    BY <1>2, <1>3 DEF Divides
  <2>2. \A m \in 1 .. c[1] : m \in 1 .. last
    BY <1>1, <1>2, <1>3
  <2>3. \A m \in c[1] + 1 .. last : m \in 1 .. last /\ m > c[1]
    BY <1>1, <1>2, <1>3
  <2>4. \A m \in c[1] + 1 .. last : t2[n] < t2[m]
    BY <1>4, <2>1, <2>3
  <2>5. \A m \in c[2] + 1 .. c[1] : m \in 1 .. c[1]
    BY <1>2
  <2>6. \A m \in c[2] + 1 .. c[1] : t2[m] < t2[n]
    BY <1>4, <2>1, <2>2, <2>5
  <2>7. kind \in UnaryKinds => \A m \in b2[n].first .. n - 1 : t2[n] < t2[m]
    BY <1>2, <1>4, <1>5, <1>7, <1>8, <2>4
  <2>8. ASSUME kind \in BinaryKinds
        PROVE  /\ \A m \in b2[n].first .. b2[n - 1].first - 1 : t2[m] < t2[n]
               /\ \A m \in b2[n - 1].first .. n - 1 : t2[n] < t2[m]
    <3>1. b2[n - 1].first = c[1] + 1 /\ b2[n - 1].first - 1 = c[1] /\ b2[n].first = c[2] + 1
      BY <1>2, <1>4, <1>5, <1>8
    <3> QED
      BY <1>8, <2>4, <2>6, <3>1
  <2> QED
    BY <1>4, <1>5, <2>7, <2>8 DEF Reads
<1>12. Groups(b2, t2, grouped, input, n)
  <2>1. kind \in UnaryKinds => Tight(b2, t2, grouped, input, n - 1, PRECEDENCE_UNARY)
    BY <1>1, <1>2, <1>4, <1>7, <1>8, TightLater
  <2>2. ASSUME kind \in BinaryKinds
        PROVE  /\ Tight(b2, t2, grouped, input, b2[n - 1].first - 1, op)
               /\ Tight(b2, t2, grouped, input, n - 1, op + 1)
    <3>1. b2[n - 1].first - 1 = c[1]
      BY <1>2, <1>8
    <3>2. frames[1].task = "binary"
      BY <1>7, <2>2
    <3> QED
      BY <1>1, <1>2, <1>4, <1>8, <1>9, <3>1, <3>2, TightLater
  <2> QED
    BY <1>1, <1>4, <1>5, <2>1, <2>2 DEF Groups
<1>13. Finished(b2, t2, grouped, input, position)
  <2>1. \A m \in 1 .. Len(built) : token[m] # t2[n]
    <3>1. ASSUME NEW m \in 1 .. last PROVE token[m] # a
      <4>1. a \in Int /\ token[m] \in Int
        BY <1>1, <1>2, <1>3, Found
      <4>2. CASE m > c[1]
        BY <1>2, <1>3, <4>1, <4>2 DEF Divides
      <4>3. CASE ~(m > c[1])
        <5>1. m \in 1 .. c[1]
          BY <1>2, <4>3
        <5> QED
          BY <1>2, <4>1, <5>1 DEF Divides
      <4> QED
        BY <4>2, <4>3
    <3> QED
      BY <1>1, <1>4, <3>1
  <2>2. t2[n] \in 1 .. Len(input) /\ t2[n] < position
    BY <1>2, <1>4
  <2>3. n = Len(built) + 1
    BY <1>1, <1>4
  <2> QED
    BY <1>3, <1>4, <1>10, <1>11, <1>12, <2>1, <2>2, <2>3, FinishedMore
<1>14. Tight(b2, t2, grouped, input, n, frames[2].precedence) /\ Tight(b2, t2, grouped, input, n, now)
  <2>1. kind \in BinaryKinds => op >= frames[2].precedence /\ op >= now
    <3>1. op \in Int /\ now \in Int
      BY <1>1, PrecedenceBounds
    <3> QED
      BY <1>2, <1>7, <3>1
  <2> QED
    BY <1>1, <1>4, <1>5, <2>1 DEF Tight
<1> QED
  BY <1>1, <1>13, <1>14

LEMMA NodeStep ==
  ASSUME ParserIInv, Node
  PROVE  ParserIInv'
<1>1. PICK f2, n, a, kind, e, b2, t2 :
        /\ f2 = Tail(frames) /\ n = Len(built) + 1 /\ a = frames[1].at
        /\ kind = (IF frames[1].task = "unary" THEN UnaryKind(input[a].kind) ELSE BinaryKind(input[a].kind))
        /\ e = OperatorNode(kind, a, frames[1].first)
        /\ b2 = Append(built, e) /\ t2 = Append(token, a)
  OBVIOUS
<1>2. At(Top.task) /\ state = "parse"
  BY DEF Node, At
<1>3. PICK c : Forest(frames, c, built, token, grouped, input, position)
  BY <1>2 DEF ParserIInv, Parses
<1>4. /\ IsSeq(frames) /\ IsSeq(c) /\ frames # <<>> /\ c # <<>> /\ Len(frames) \in Nat
      /\ Len(c) = Len(frames) /\ Top = frames[1]
      /\ Underway(frames, c, built, token, grouped, input, position)
  BY <1>2, <1>3, FoundFrames
<1>5. /\ built' = b2 /\ token' = t2 /\ frames' = f2 /\ position' = position
      /\ input' = input /\ state' = "parse" /\ grouped' = grouped
  BY <1>1, <1>2, <1>4 DEF Node, Rest
<1>6. Adds(built, token, grouped, position, n, e, a, b2, t2, position)
  <2>1. position \in Nat /\ position <= position
    BY Found
  <2> QED
    BY <1>1, <2>1, NodeAdded
<1>7. /\ Finished(b2, t2, grouped, input, position)
      /\ Tight(b2, t2, grouped, input, n, frames[2].precedence)
      /\ Tight(b2, t2, grouped, input, n, Precedence(KindAt(input, position)))
  BY <1>1, <1>3, <1>6, NodeFormed
<1>8. PICK c2 : Returns(frames, c, f2, c2)
  BY <1>1, <1>4, FrameReturns
<1>9. PICK last : last = Len(built)
  OBVIOUS
<1>10. /\ Len(frames) > 1 /\ frames[2].task = "operators" /\ frames[1].task \in Waits
       /\ frames[1].first = c[2] + 1 /\ c[2] \in 0 .. last
  BY <1>3, <1>9, OperandsFound DEF Waits
<1>11. /\ IsSeq(f2) /\ IsSeq(c2) /\ Below(f2, frames, 1) /\ Below(c2, c, 1)
       /\ Len(f2) \in Nat /\ Len(c2) = Len(f2) /\ Len(frames) = Len(f2) + 1
       /\ Len(f2) > 0 /\ f2[1] = frames[2] /\ c2[1] = c[2]
  BY <1>8, <1>10 DEF Returns
<1>12. /\ IsSeq(b2) /\ IsSeq(t2) /\ n \in Nat /\ n = last + 1 /\ Len(b2) = n /\ Len(t2) = n
       /\ b2[n] = e /\ t2[n] = a
       /\ Later(built, token, grouped, position, b2, t2, grouped, position)
  BY <1>6, <1>9 DEF Adds
<1>13. Underway(f2, c2, b2, t2, grouped, input, position)
  <2>1. Underway(f2, c2, built, token, grouped, input, position)
    BY <1>4, <1>11, UnderwayDropped
  <2>2. ASSUME NEW i \in 1 .. Len(f2), f2[i].task \in Waits PROVE f2[i].at < a
    <3>1. Waiting(frames, c, built, token, grouped, input, position, 1)
      BY <1>4, <1>10 DEF Underway
    <3>2. i + 1 \in 1 .. Len(frames) /\ 1 < i + 1 /\ frames[i + 1] = f2[i]
      BY <1>11 DEF Below
    <3> QED
      BY <1>1, <2>2, <3>1, <3>2 DEF Waiting
  <2>3. \A m \in 1 .. Len(t2) : m > Len(token) => t2[m] = a
    <3>1. Len(token) = last
      BY <1>9, Found
    <3>2. \A m \in 1 .. Len(t2) : m > last => m = n
      BY <1>9, <1>12, Found
    <3> QED
      BY <1>12, <3>1, <3>2
  <2>4. Len(input) \in Nat
    BY Found
  <2> QED
    BY <1>12, <2>1, <2>2, <2>3, <2>4, UnderwayLater
<1>14. Resumes(f2, c2, b2, t2, grouped, input, position)
  <2>1. Len(f2) # 0 /\ f2[1].task = "operators" /\ From(f2, c2) = c[2]
    BY <1>10, <1>11 DEF From
  <2>2. c[2] < n /\ b2[n].first = c[2] + 1
    <3>1. e.first = c[2] + 1
      BY <1>1, <1>10 DEF OperatorNode
    <3>2. last \in Nat
      BY <1>9, Found
    <3> QED
      BY <1>10, <1>12, <3>1, <3>2
  <2> QED
    BY <1>7, <1>11, <1>12, <2>1, <2>2 DEF Resumes, Calls
<1>15. Forest(f2, c2, b2, t2, grouped, input, position)
  BY <1>11, <1>13, <1>14 DEF Forest
<1>16. Parses(f2, b2, t2, grouped, input, position, "parse")
  BY <1>7, <1>12, <1>15 DEF ParserIInv, Parses
<1> QED
  BY <1>5, <1>16 DEF ParserIInv

(* parser_parse ends, and a wrong token ends it early.                     *)
LEMMA ParsedStep ==
  ASSUME ParserIInv, parser_parse
  PROVE  ParserIInv'
<1>1. PICK p2 : p2 = position'
  OBVIOUS
<1>2. /\ state = "parse" /\ frames = <<>> /\ state' = "parsed" /\ _advance /\ position' = p2
      /\ input' = input /\ frames' = frames /\ built' = built /\ token' = token /\ grouped' = grouped
  BY <1>1 DEF parser_parse
<1>3. p2 \in 1 .. Len(input) + 1 /\ p2 \in Nat /\ position <= p2
  BY <1>1, <1>2, PositionMoves
<1>4. Finished(built, token, grouped, input, p2)
  BY <1>3, ReadsOn
<1>5. PICK c : Forest(frames, c, built, token, grouped, input, position)
  BY <1>2 DEF ParserIInv, Parses
<1>6. 0 < Len(built) /\ built[Len(built)].first = 0 + 1
  <2>1. Len(frames) = 0
    BY <1>5, <1>2, SeqLength DEF Forest
  <2>2. Resumes(frames, c, built, token, grouped, input, position)
    BY <1>5 DEF Forest
  <2> QED
    BY <2>1, <2>2 DEF Resumes, From
<1>7. Parses(frames, built, token, grouped, input, p2, "parsed")
  BY <1>3, <1>4, <1>6 DEF ParserIInv, Parses
<1> QED
  BY <1>2, <1>7 DEF ParserIInv

LEMMA GivenUp ==
  ASSUME ParserIInv, CallNull \/ ReadBeyond
  PROVE  ParserIInv'
<1>1. PICK s : s = state' /\ s # "parse" /\ s # "parsed"
  BY DEF CallNull, ReadBeyond
<1>2. UNCHANGED <<input, position, frames, built, token, grouped>>
  BY DEF CallNull, ReadBeyond
<1>3. Parses(frames, built, token, grouped, input, position, s)
  BY <1>1 DEF ParserIInv, Parses
<1> QED
  BY <1>1, <1>2, <1>3 DEF ParserIInv

LEMMA ParserStep ==
  ASSUME ParserIInv, [Next]_vars
  PROVE  ParserIInv'
<1>1. CASE UNCHANGED vars
  BY <1>1 DEF ParserIInv, vars
<1>2. CASE Step
  BY <1>2, LiteralStep, PrefixStep, BinaryStep, EndOfOperatorsStep, NodeStep, EndOfGroupStep,
     ParsedStep, GivenUp DEF Step
<1> QED
  BY <1>1, <1>2 DEF Next, Ended

(* Before the first step, whatever the tokens are.                         *)
LEMMA ParserBegins ==
  ASSUME NEW x, IsInput(x)
  PROVE  Parses(<<Operand(PRECEDENCE_ASSIGNMENT)>>, <<>>, <<>>, {}, x, 1, "parse")
<1>1. PICK f, c : f = <<Operand(PRECEDENCE_ASSIGNMENT)>> /\ c = <<0>>
  OBVIOUS
<1>2. IsSeq(f) /\ Len(f) = 1 /\ f[1] = Operand(PRECEDENCE_ASSIGNMENT) /\ IsSeq(c) /\ Len(c) = 1 /\ c[1] = 0
  <2>1. f \in Seq({Operand(PRECEDENCE_ASSIGNMENT)}) /\ c \in Seq({0})
    BY <1>1
  <2> QED
    BY <1>1, <2>1 DEF IsSeq
<1>3. PICK b, t : b = <<>> /\ t = <<>>
  OBVIOUS
<1>4. IsSeq(b) /\ IsSeq(t) /\ Len(b) = 0 /\ Len(t) = 0
  <2>1. b \in Seq({}) /\ t \in Seq({})
    BY <1>3
  <2> QED
    BY <1>3, <2>1 DEF IsSeq
<1>5. Len(x) \in Nat /\ 1 \in 1 .. Len(x) + 1
  BY DEF IsInput
<1>6. Finished(b, t, {}, x, 1)
  BY <1>4 DEF Finished
<1>7. f[1].task = "operand" /\ f[1].precedence = PRECEDENCE_ASSIGNMENT
  BY <1>2 DEF Operand, Frame
<1>8. Underway(f, c, b, t, {}, x, 1)
  <2>1. Called(f, c, x, 1) /\ f[1].task \in Calls /\ f[1].task \notin Waits
    BY <1>2, <1>7 DEF Called, Calls, Waits
  <2>2. \A i \in 1 .. Len(f) : i = 1
    BY <1>2
  <2>3. c[1] \in 0 .. Len(b)
    BY <1>2, <1>4
  <2> QED
    BY <2>1, <2>2, <2>3 DEF Underway
<1>9. Resumes(f, c, b, t, {}, x, 1)
  BY <1>2, <1>4, <1>7 DEF Resumes
<1>10. Parses(f, b, t, {}, x, 1, "parse")
  BY <1>2, <1>4, <1>5, <1>6, <1>8, <1>9 DEF Parses, Forest
<1> QED
  BY <1>1, <1>3, <1>10

LEMMA ParserStarts == Init => ParserIInv
BY ParserBegins, InputsAssumption DEF Init, ParserIInv

(* Whatever the tokens are, the finished nodes are trees in a row, one for *)
(* each operand that is awaited, and the parser stands where the innermost *)
(* of them goes on (parser.c, _parse_precedence and its callers).          *)
THEOREM ParserInvariant == Spec => []ParserIInv
<1>1. Init => ParserIInv
  BY ParserStarts
<1>2. ParserIInv /\ [Next]_vars => ParserIInv'
  BY ParserStep
<1> QED
  BY <1>1, <1>2, PTL DEF Spec

(* What the parser hands to the compiler is one tree.                      *)
THEOREM ParserMakesTrees == Spec => []ParsesToTree
<1>1. ASSUME ParserIInv PROVE ParsesToTree
  <2>1. ASSUME state = "parsed" PROVE IsTree(built)
    <3>1. Len(built) > 0 /\ built[Len(built)].first = 1
      BY <1>1, <2>1 DEF ParserIInv, Parses
    <3>2. \A n \in 1 .. Len(built) : Formed(built, n)
      BY <1>1, Found DEF Finished
    <3> QED
      BY <3>1, <3>2 DEF IsTree, Formed
  <2> QED
    BY <2>1 DEF ParsesToTree
<1> QED
  BY <1>1, ParserInvariant, PTL

LEMMA NodesFound ==
  ASSUME ParserIInv, NEW n \in DOMAIN built
  PROVE  /\ n \in 1 .. Len(built) /\ DOMAIN built = 1 .. Len(built) /\ DOMAIN token = DOMAIN built
         /\ Formed(built, n) /\ Reads(built, token, n) /\ Groups(built, token, grouped, input, n)
         /\ Precedence(input[token[n]].kind) \in 0 .. 7
<1>1. DOMAIN built = 1 .. Len(built) /\ DOMAIN token = 1 .. Len(token)
  BY Found DEF IsSeq
<1> QED
  BY <1>1, Found, PrecedenceBounds DEF Finished

(* An operator without parentheses binds more tightly than the one it is   *)
(* an operand of, or equally tightly on the left: what the precedences of  *)
(* g_RULES and the recursion of _binary and _unary are there for.          *)
THEOREM OperatorsBind == Spec => []BindsByPrecedence
<1>1. ASSUME ParserIInv PROVE BindsByPrecedence
  <2> SUFFICES ASSUME NEW n \in DOMAIN built, NEW m \in OperandsOf(n) \ grouped,
                      built[m].kind \in BinaryKinds
               PROVE  /\ built[n].kind \in BinaryKinds
                      /\ IF m = Rhs(built, n)
                           THEN Precedence(input[token[m]].kind) > Precedence(input[token[n]].kind)
                           ELSE Precedence(input[token[m]].kind) >= Precedence(input[token[n]].kind)
    BY DEF BindsByPrecedence
  <2>1. PICK inner, outer : /\ inner = Precedence(input[token[m]].kind)
                            /\ outer = Precedence(input[token[n]].kind)
    OBVIOUS
  <2>2. Formed(built, n) /\ Groups(built, token, grouped, input, n) /\ inner \in 0 .. 7 /\ outer \in 0 .. 7
    BY <1>1, <2>1, NodesFound, PrecedenceBounds
  <2>3. built[n].kind \notin UnaryKinds
    <3>1. ASSUME built[n].kind \in UnaryKinds PROVE FALSE
      <4>1. m = n - 1
        BY <3>1, NodeKindsApart DEF OperandsOf, Expr
      <4>2. inner >= PRECEDENCE_UNARY
        BY <2>1, <2>2, <3>1, <4>1 DEF Groups, Tight
      <4> QED
        BY <2>2, <4>2 DEF PRECEDENCE_UNARY
    <3> QED
      BY <3>1
  <2>4. built[n].kind \in BinaryKinds /\ (m = n - 1 \/ m = built[n - 1].first - 1)
    BY <2>3 DEF OperandsOf, Lhs, Rhs
  <2>5. CASE m = n - 1
    <3>1. inner >= outer + 1
      BY <2>1, <2>2, <2>4, <2>5 DEF Groups, Tight
    <3> QED
      BY <2>1, <2>2, <2>4, <2>5, <3>1 DEF Rhs
  <2>6. CASE m # n - 1
    <3>1. inner >= outer
      BY <2>1, <2>2, <2>4, <2>6 DEF Groups, Tight
    <3> QED
      BY <2>1, <2>4, <2>6, <3>1 DEF Rhs
  <2> QED
    BY <2>5, <2>6
<1> QED
  BY <1>1, ParserInvariant, PTL

-----------------------------------------------------------------------------
(* Sentences.  Ends, BalanceOf and Sentence are the parts of IsSentence    *)
(* with the tokens as a parameter.                                         *)
Ends(x, i) == i > 0 /\ x[i].kind \in Literals \cup {"OP_PAREN_CLOSE"}

Of(x, i, kind) == {j \in 1 .. i : x[j].kind = kind}

BalanceOf(x, i) == Cardinality(Of(x, i, "OP_PAREN_OPEN")) - Cardinality(Of(x, i, "OP_PAREN_CLOSE"))

Sentence(x) ==
  /\ Len(x) > 0 /\ Ends(x, Len(x)) /\ BalanceOf(x, Len(x)) = 0
  /\ \A i \in 1 .. Len(x) :
       /\ BalanceOf(x, i) >= 0
       /\ x[i].kind \in IF Ends(x, i - 1) THEN (Operators \ {"OP_NOT_EQUAL_TO"}) \cup {"OP_PAREN_CLOSE"}
                        ELSE Literals \cup {"KW_NOT", "OP_SUBTRACTION", "OP_PAREN_OPEN"}

LEMMA SupportedIsSentence == Supported <=> Sentence(input)
<1>1. \A i : Balance(i) = BalanceOf(input, i)
  BY DEF Balance, BalanceOf, Of
<1>2. {"KW_NOT", "OP_SUBTRACTION"} \cup {"OP_PAREN_OPEN"} = {"KW_NOT", "OP_SUBTRACTION", "OP_PAREN_OPEN"}
  OBVIOUS
<1>3. Literals \cup {"KW_NOT", "OP_SUBTRACTION"} \cup {"OP_PAREN_OPEN"}
        = Literals \cup {"KW_NOT", "OP_SUBTRACTION", "OP_PAREN_OPEN"}
  OBVIOUS
<1> QED
  BY <1>1, <1>3 DEF Supported, IsSentence, Sentence, Ends

(* The parentheses that are open, by their tokens, and the operators that  *)
(* wait for an operand: their tokens are on their way to the tree.         *)
Joining == {"unary", "binary"}

OpenAt(f) == {a \in {f[i].at : i \in 1 .. Len(f)} : \E i \in 1 .. Len(f) : f[i].task = "group" /\ f[i].at = a}

Awaits(f, a) == \E i \in 1 .. Len(f) : f[i].task \in Joining /\ f[i].at = a

Has(t, a) == \E n \in 1 .. Len(t) : t[n] = a

Covers(f, t, x, p) ==
  \A i \in 1 .. p - 1 :
    \/ x[i].kind \in {"OP_PAREN_OPEN", "OP_PAREN_CLOSE"}
    \/ Has(t, i)
    \/ Awaits(f, i)

(* In a sentence the parser wants an operand where the sentence has one,   *)
(* is inside as many groups as there are open parentheses, has all that it *)
(* read in the tree or on its way there, and stops at the end only.        *)
Follows(f, t, x, p, s) ==
  /\ IsSeq(f)
  /\ s \in {"parse", "parsed"}
  /\ (Len(f) > 0 /\ f[1].task = "operand") <=> ~Ends(x, p - 1)
  /\ Cardinality(OpenAt(f)) = BalanceOf(x, p - 1)
  /\ Covers(f, t, x, p)
  /\ Len(f) = 0 => p = Len(x) + 1

FollowsIInv == Sentence(input) => Follows(frames, token, input, position, state)

LEMMA OpenMeans ==
  ASSUME NEW f, NEW a
  PROVE  a \in OpenAt(f) <=> \E i \in 1 .. Len(f) : f[i].task = "group" /\ f[i].at = a
BY DEF OpenAt

(* Counting parentheses.                                                   *)
LEMMA OfMore ==
  ASSUME NEW x, NEW p \in Nat \ {0}, NEW kind
  PROVE  /\ IsFiniteSet(Of(x, p - 1, kind)) /\ Cardinality(Of(x, p - 1, kind)) \in Nat
         /\ Cardinality(Of(x, p, kind)) = Cardinality(Of(x, p - 1, kind)) + (IF x[p].kind = kind THEN 1 ELSE 0)
<1>1. PICK S, T : S = Of(x, p - 1, kind) /\ T = Of(x, p, kind)
  OBVIOUS
<1>2. IsFiniteSet(S) /\ Cardinality(S) \in Nat
  <2>1. IsFiniteSet(1 .. p - 1)
    BY FS_Interval
  <2>2. S \in SUBSET (1 .. p - 1)
    BY <1>1 DEF Of
  <2>3. IsFiniteSet(S)
    BY <2>1, <2>2, FS_Subset
  <2> QED
    BY <2>3, FS_CardinalityType
<1>3. p \notin S
  BY <1>1 DEF Of
<1>4. Cardinality(S \cup {p}) = Cardinality(S) + 1
  BY <1>2, <1>3, FS_AddElement
<1>5. \A j \in 1 .. p : j \in 1 .. p - 1 \/ j = p
  OBVIOUS
<1>6. T = IF x[p].kind = kind THEN S \cup {p} ELSE S
  BY <1>1, <1>5 DEF Of
<1> QED
  BY <1>1, <1>2, <1>4, <1>6

LEMMA BalanceMore ==
  ASSUME NEW x, NEW p \in Nat \ {0}
  PROVE  /\ BalanceOf(x, p - 1) \in Int
         /\ x[p].kind = "OP_PAREN_OPEN" => BalanceOf(x, p) = BalanceOf(x, p - 1) + 1
         /\ x[p].kind = "OP_PAREN_CLOSE" => BalanceOf(x, p) = BalanceOf(x, p - 1) - 1
         /\ x[p].kind \notin {"OP_PAREN_OPEN", "OP_PAREN_CLOSE"} => BalanceOf(x, p) = BalanceOf(x, p - 1)
<1>1. PICK o, c : /\ o = Cardinality(Of(x, p - 1, "OP_PAREN_OPEN"))
                  /\ c = Cardinality(Of(x, p - 1, "OP_PAREN_CLOSE"))
  OBVIOUS
<1>2. /\ o \in Nat /\ c \in Nat
      /\ Cardinality(Of(x, p, "OP_PAREN_OPEN")) = o + (IF x[p].kind = "OP_PAREN_OPEN" THEN 1 ELSE 0)
      /\ Cardinality(Of(x, p, "OP_PAREN_CLOSE")) = c + (IF x[p].kind = "OP_PAREN_CLOSE" THEN 1 ELSE 0)
  BY <1>1, OfMore
<1> QED
  BY <1>1, <1>2 DEF BalanceOf

LEMMA NoneOpen ==
  ASSUME NEW x
  PROVE  BalanceOf(x, 0) = 0
<1>1. \A kind : Of(x, 0, kind) = {}
  BY DEF Of
<1> QED
  BY <1>1, FS_EmptySet DEF BalanceOf

(* Open groups, as functions come and go.                                  *)
LEMMA OpenBounded ==
  ASSUME NEW f, NEW c, NEW b, NEW t, NEW g, NEW x, NEW p, Underway(f, c, b, t, g, x, p), Len(x) \in Nat
  PROVE  /\ IsFiniteSet(OpenAt(f)) /\ Cardinality(OpenAt(f)) \in Nat
         /\ \A a \in OpenAt(f) : a < p
<1>1. \A a \in OpenAt(f) : a \in 1 .. Len(x) /\ a < p
  BY OpenMeans DEF Underway, Waiting, Waits
<1>2. IsFiniteSet(1 .. Len(x)) /\ OpenAt(f) \in SUBSET (1 .. Len(x))
  BY <1>1, FS_Interval
<1>3. IsFiniteSet(OpenAt(f))
  BY <1>2, FS_Subset
<1> QED
  BY <1>1, <1>3, FS_CardinalityType

LEMMA OpenRaised ==
  ASSUME NEW f, NEW f2, NEW y, NEW z, IsRaised(f2, f, y, z), Len(f) \in Nat, y.task = "operand",
         z.task \in Waits
  PROVE  /\ OpenAt(f2) = IF z.task = "group" THEN OpenAt(f) \cup {z.at} ELSE OpenAt(f)
         /\ \A a : Awaits(f, a) \/ (z.task # "group" /\ a = z.at) => Awaits(f2, a)
<1>1. Len(f2) = Len(f) + 2 /\ f2[1] = y /\ f2[2] = z /\ \A i \in 1 .. Len(f) : f2[i + 2] = f[i]
  BY DEF IsRaised, Below
<1>2. 2 \in 1 .. Len(f2) /\ \A i \in 1 .. Len(f) : i + 2 \in 1 .. Len(f2)
  BY <1>1
<1>3. \A i \in 1 .. Len(f2) : i = 1 \/ i = 2 \/ (i - 2 \in 1 .. Len(f) /\ f2[i] = f[i - 2])
  <2>1. ASSUME NEW i \in 1 .. Len(f2), i > 2 PROVE i - 2 \in 1 .. Len(f) /\ f2[i] = f[i - 2]
    <3>1. i - 2 \in 1 .. Len(f) /\ (i - 2) + 2 = i
      BY <1>1, <2>1
    <3> QED
      BY <1>1, <3>1
  <2> QED
    BY <1>1, <2>1
<1>4. \A a : Awaits(f, a) \/ (z.task # "group" /\ a = z.at) => Awaits(f2, a)
  BY <1>1, <1>2 DEF Awaits, Joining, Waits
<1>5. ASSUME NEW a PROVE a \in OpenAt(f2) <=> a \in OpenAt(f) \/ (z.task = "group" /\ a = z.at)
  <2>1. a \in OpenAt(f2) => a \in OpenAt(f) \/ (z.task = "group" /\ a = z.at)
    BY <1>1, <1>3, OpenMeans
  <2>2. a \in OpenAt(f) => a \in OpenAt(f2)
    BY <1>1, <1>2, OpenMeans
  <2>3. z.task = "group" /\ a = z.at => a \in OpenAt(f2)
    BY <1>1, <1>2, OpenMeans
  <2> QED
    BY <2>1, <2>2, <2>3
<1>6. OpenAt(f2) = IF z.task = "group" THEN OpenAt(f) \cup {z.at} ELSE OpenAt(f)
  BY <1>5
<1> QED
  BY <1>4, <1>6

LEMMA OpenReplaced ==
  ASSUME NEW f, NEW f2, NEW e, IsReplaced(f2, f, e), Len(f) \in Nat, Len(f) > 0, e.task \notin Waits,
         f[1].task \notin Waits
  PROVE  /\ OpenAt(f2) = OpenAt(f)
         /\ \A a : Awaits(f, a) => Awaits(f2, a)
<1>1. Len(f2) = Len(f) /\ f2[1] = e /\ \A i \in 1 .. Len(f) : i = 1 \/ f2[i] = f[i]
  BY DEF IsReplaced
<1>2. ASSUME NEW a PROVE a \in OpenAt(f2) <=> a \in OpenAt(f)
  BY <1>1, OpenMeans DEF Waits
<1> QED
  BY <1>1, <1>2 DEF Awaits, Joining, Waits

LEMMA OpenDropped ==
  ASSUME NEW f, NEW f2, Below(f2, f, 1), Len(f2) \in Nat
  PROVE  /\ OpenAt(f) = IF f[1].task = "group" THEN OpenAt(f2) \cup {f[1].at} ELSE OpenAt(f2)
         /\ \A a : Awaits(f, a) => (f[1].task \in Joining /\ a = f[1].at) \/ Awaits(f2, a)
<1>1. Len(f) = Len(f2) + 1 /\ \A i \in 1 .. Len(f2) : f[i + 1] = f2[i]
  BY DEF Below
<1>2. 1 \in 1 .. Len(f) /\ \A i \in 1 .. Len(f2) : i + 1 \in 1 .. Len(f)
  BY <1>1
<1>3. \A i \in 1 .. Len(f) : i = 1 \/ (i - 1 \in 1 .. Len(f2) /\ f[i] = f2[i - 1])
  <2>1. ASSUME NEW i \in 1 .. Len(f), i > 1 PROVE i - 1 \in 1 .. Len(f2) /\ f[i] = f2[i - 1]
    <3>1. i - 1 \in 1 .. Len(f2) /\ (i - 1) + 1 = i
      BY <1>1, <2>1
    <3> QED
      BY <1>1, <3>1
  <2> QED
    BY <1>1, <2>1
<1>4. ASSUME NEW a PROVE Awaits(f, a) => (f[1].task \in Joining /\ a = f[1].at) \/ Awaits(f2, a)
  BY <1>3 DEF Awaits
<1>5. ASSUME NEW a PROVE a \in OpenAt(f) <=> a \in OpenAt(f2) \/ (f[1].task = "group" /\ a = f[1].at)
  <2>1. a \in OpenAt(f) => a \in OpenAt(f2) \/ (f[1].task = "group" /\ a = f[1].at)
    BY <1>3, OpenMeans
  <2>2. a \in OpenAt(f2) => a \in OpenAt(f)
    BY <1>1, <1>2, OpenMeans
  <2>3. f[1].task = "group" /\ a = f[1].at => a \in OpenAt(f)
    BY <1>1, <1>2, OpenMeans
  <2> QED
    BY <2>1, <2>2, <2>3
<1> QED
  BY <1>4, <1>5

LEMMA CoversMore ==
  ASSUME NEW f, NEW t, NEW x, NEW p \in Nat \ {0}, Covers(f, t, x, p), NEW f2, NEW t2, NEW p2, p2 = p \/ p2 = p + 1,
         \A a : Has(t, a) => Has(t2, a),
         \A a : Awaits(f, a) => Awaits(f2, a) \/ Has(t2, a),
         p2 = p + 1 => x[p].kind \in {"OP_PAREN_OPEN", "OP_PAREN_CLOSE"} \/ Has(t2, p) \/ Awaits(f2, p)
  PROVE  Covers(f2, t2, x, p2)
<1>1. \A i \in 1 .. p2 - 1 : i \in 1 .. p - 1 \/ (p2 = p + 1 /\ i = p)
  OBVIOUS
<1> QED
  BY <1>1 DEF Covers

(* What comes next in a sentence.                                          *)
LEMMA Ahead ==
  ASSUME ParserIInv, Sentence(input)
  PROVE  /\ Ends(input, position - 1) =>
              \/ position = Len(input) + 1 /\ Current = "SP_EOF"
              \/ /\ position \in 1 .. Len(input) /\ Current = input[position].kind
                 /\ Current \in (Operators \ {"OP_NOT_EQUAL_TO"}) \cup {"OP_PAREN_CLOSE"}
         /\ ~Ends(input, position - 1) =>
              /\ position \in 1 .. Len(input) /\ Current = input[position].kind
              /\ Current \in Literals \cup {"KW_NOT", "OP_SUBTRACTION", "OP_PAREN_OPEN"}
<1>1. Len(input) \in Nat /\ position \in Nat /\ position <= Len(input) + 1 /\ position > 0
  BY Found
<1>2. CASE position = Len(input) + 1
  <2>1. position - 1 = Len(input) /\ ~(position <= Len(input))
    BY <1>1, <1>2
  <2>2. Current = "SP_EOF"
    BY <2>1 DEF Current
  <2> QED
    BY <1>2, <2>1, <2>2 DEF Sentence
<1>3. CASE position # Len(input) + 1
  <2>1. position \in 1 .. Len(input)
    BY <1>1, <1>3
  <2>2. Current = input[position].kind
    BY <2>1 DEF Current
  <2>3. Current \in IF Ends(input, position - 1) THEN (Operators \ {"OP_NOT_EQUAL_TO"}) \cup {"OP_PAREN_CLOSE"}
                    ELSE Literals \cup {"KW_NOT", "OP_SUBTRACTION", "OP_PAREN_OPEN"}
    BY <2>1, <2>2 DEF Sentence
  <2> QED
    BY <2>1, <2>2, <2>3
<1> QED
  BY <1>2, <1>3

(* The functions under way, for the lemmas on sentences.                   *)
LEMMA FramesFound ==
  ASSUME ParserIInv, NEW task, At(task)
  PROVE  /\ IsSeq(frames) /\ frames # <<>> /\ Len(frames) \in Nat /\ Len(frames) > 0
         /\ Top = frames[1] /\ frames[1].task = task /\ task \in Calls \cup Waits
         /\ IsFiniteSet(OpenAt(frames)) /\ Cardinality(OpenAt(frames)) \in Nat
         /\ \A a \in OpenAt(frames) : a < position
<1>1. PICK c : Forest(frames, c, built, token, grouped, input, position)
  BY DEF ParserIInv, Parses, At
<1>2. /\ IsSeq(frames) /\ frames # <<>> /\ Len(frames) \in Nat /\ Len(frames) > 0
      /\ 1 \in 1 .. Len(frames) /\ Top = frames[1] /\ frames[1].task = task
      /\ Underway(frames, c, built, token, grouped, input, position)
  BY <1>1, FoundFrames
<1>3. task \in Calls \cup Waits
  BY <1>2 DEF Underway
<1>4. Len(input) \in Nat
  BY Found
<1> QED
  BY <1>2, <1>3, <1>4, OpenBounded

(* An operand was awaited and a literal comes.                             *)
LEMMA LiteralFollows ==
  ASSUME ParserIInv, Sentence(input), Follows(frames, token, input, position, state), Literal
  PROVE  Follows(frames, token, input, position, state)'
<1>1. PICK p, e, t2, f2 : /\ p = position /\ e = OperatorsOf(Top.precedence)
                          /\ t2 = Append(token, p) /\ f2 = <<e>> \o Tail(frames)
  OBVIOUS
<1>2. /\ At("operand") /\ Current \in Literals /\ _advance
      /\ token' = t2 /\ frames' = f2 /\ input' = input /\ state' = state
  BY <1>1 DEF Literal, Rest
<1>3. /\ IsSeq(frames) /\ frames # <<>> /\ Len(frames) \in Nat /\ Len(frames) > 0
      /\ frames[1].task = "operand"
  BY <1>2, FramesFound
<1>4. IsReplaced(f2, frames, e) /\ e.task = "operators"
  BY <1>1, <1>3, Replaced DEF OperatorsOf, Frame
<1>5. /\ OpenAt(f2) = OpenAt(frames) /\ \A a : Awaits(frames, a) => Awaits(f2, a)
  <2>1. e.task \notin Waits /\ frames[1].task \notin Waits
    BY <1>3, <1>4 DEF Waits
  <2> QED
    BY <1>3, <1>4, <2>1, OpenReplaced
<1>6. IsSeq(f2) /\ Len(f2) > 0 /\ f2[1].task = "operators"
  BY <1>3, <1>4 DEF IsReplaced
<1>7. /\ p \in 1 .. Len(input) /\ Current = input[p].kind /\ position' = p + 1 /\ p \in Nat \ {0}
  <2>1. Current # "SP_EOF"
    BY <1>2 DEF Literals
  <2> QED
    BY <1>1, <1>2, <2>1, Found, PositionMoves
<1>8. Ends(input, p) /\ input[p].kind \notin {"OP_PAREN_OPEN", "OP_PAREN_CLOSE"}
  BY <1>2, <1>7 DEF Ends, Literals
<1>9. BalanceOf(input, p) = BalanceOf(input, p - 1)
  BY <1>7, <1>8, BalanceMore
<1>10. Has(t2, p) /\ \A a : Has(token, a) => Has(t2, a)
  <2>1. Len(t2) = Len(token) + 1 /\ t2[Len(token) + 1] = p /\ Extended(t2, token) /\ Len(token) \in Nat
    BY <1>1, Found, Appended
  <2>2. Len(token) + 1 \in 1 .. Len(t2) /\ \A i \in 1 .. Len(token) : i \in 1 .. Len(t2)
    BY <2>1
  <2> QED
    BY <2>1, <2>2 DEF Has, Extended
<1>11. Covers(f2, t2, input, p + 1)
  <2>1. Covers(frames, token, input, p)
    BY <1>1 DEF Follows
  <2> QED
    BY <1>5, <1>7, <1>10, <2>1, CoversMore
<1>12. Follows(f2, t2, input, p + 1, state)
  <2>1. (p + 1) - 1 = p
    BY <1>7
  <2> QED
    BY <1>1, <1>5, <1>6, <1>8, <1>9, <1>11, <2>1 DEF Follows
<1> QED
  BY <1>2, <1>7, <1>12

(* An operand is awaited next: behind a unary or a binary operator, or a   *)
(* parenthesis that is open now.                                           *)
LEMMA OpensFollows ==
  ASSUME ParserIInv, Sentence(input), Follows(frames, token, input, position, state),
         position \in 1 .. Len(input), NEW q, Len(q) \in Nat, OpenAt(q) = OpenAt(frames),
         \A a : Awaits(frames, a) => Awaits(q, a),
         IsFiniteSet(OpenAt(frames)), \A a \in OpenAt(frames) : a < position,
         NEW y, NEW z, NEW f2, IsRaised(f2, q, y, z), y.task = "operand", z.task \in Waits, z.at = position,
         ~Ends(input, position),
         z.task = "group" <=> input[position].kind = "OP_PAREN_OPEN"
  PROVE  Follows(f2, token, input, position + 1, state)
<1>1. PICK p, n, m : p = position /\ n = Cardinality(OpenAt(frames)) /\ m = Cardinality(OpenAt(f2))
  OBVIOUS
<1>2. p \in 1 .. Len(input) /\ p \in Nat \ {0} /\ (p + 1) - 1 = p
  BY <1>1, Found
<1>3. /\ OpenAt(f2) = IF z.task = "group" THEN OpenAt(frames) \cup {p} ELSE OpenAt(frames)
      /\ \A a : Awaits(frames, a) \/ (z.task # "group" /\ a = p) => Awaits(f2, a)
  BY <1>1, OpenRaised
<1>4. m = IF z.task = "group" THEN n + 1 ELSE n
  <2>1. p \notin OpenAt(frames)
    BY <1>1, <1>2
  <2>2. Cardinality(OpenAt(frames) \cup {p}) = n + 1
    BY <1>1, <2>1, FS_AddElement
  <2> QED
    BY <1>1, <1>3, <2>2
<1>5. n = BalanceOf(input, p - 1) /\ n \in Int
  BY <1>1, <1>2, BalanceMore DEF Follows
<1>6. input[p].kind # "OP_PAREN_CLOSE"
  BY <1>1, <1>2 DEF Ends
<1>7. m = BalanceOf(input, p)
  <2>1. input[p].kind = "OP_PAREN_OPEN" => BalanceOf(input, p) = n + 1
    BY <1>2, <1>5, BalanceMore
  <2>2. input[p].kind # "OP_PAREN_OPEN" => BalanceOf(input, p) = n
    BY <1>2, <1>5, <1>6, BalanceMore
  <2> QED
    BY <1>1, <1>4, <2>1, <2>2
<1>8. Covers(f2, token, input, p + 1)
  <2>1. Covers(frames, token, input, p)
    BY <1>1 DEF Follows
  <2>2. input[p].kind \in {"OP_PAREN_OPEN", "OP_PAREN_CLOSE"} \/ Awaits(f2, p)
    BY <1>1, <1>3
  <2> QED
    BY <1>2, <1>3, <2>1, <2>2, CoversMore
<1>9. IsSeq(f2) /\ Len(f2) > 0 /\ f2[1].task = "operand"
  BY DEF IsRaised, Below
<1> QED
  BY <1>1, <1>2, <1>7, <1>8, <1>9 DEF Follows

LEMMA PrefixFollows ==
  ASSUME ParserIInv, Sentence(input), Follows(frames, token, input, position, state), _unary \/ _group
  PROVE  Follows(frames, token, input, position, state)'
<1>1. PICK p, y, z, e :
        /\ p = position
        /\ y = Operand(IF Current = "OP_PAREN_OPEN" THEN PRECEDENCE_ASSIGNMENT ELSE PRECEDENCE_UNARY)
        /\ z = Frame(IF Current = "OP_PAREN_OPEN" THEN "group" ELSE "unary", 0, p, Len(built) + 1)
        /\ e = OperatorsOf(Top.precedence)
  OBVIOUS
<1>2. PICK q, f2 : q = <<e>> \o Tail(frames) /\ f2 = <<y, z, e>> \o Tail(frames)
  OBVIOUS
<1>3. /\ At("operand") /\ Current \in {"KW_NOT", "OP_SUBTRACTION", "OP_PAREN_OPEN"}
      /\ token' = token /\ frames' = f2 /\ input' = input /\ state' = state /\ _advance
  BY <1>1, <1>2 DEF _unary, _group, At, Rest
<1>4. p \in 1 .. Len(input) /\ position' = p + 1 /\ Current = input[p].kind
  BY <1>1, <1>3, Found, PositionMoves
<1>5. /\ IsSeq(frames) /\ frames # <<>> /\ Len(frames) \in Nat /\ Len(frames) > 0
      /\ frames[1].task = "operand"
      /\ IsFiniteSet(OpenAt(frames)) /\ \A a \in OpenAt(frames) : a < position
  BY <1>3, FramesFound
<1>6. IsReplaced(q, frames, e)
  BY <1>2, <1>5, Replaced
<1>7. IsRaised(f2, q, y, z)
  BY <1>2, <1>5, <1>6, Opened
<1>8. /\ e.task \notin Waits /\ frames[1].task \notin Waits
      /\ y.task = "operand" /\ z.task \in Waits /\ z.at = p
      /\ z.task = "group" <=> Current = "OP_PAREN_OPEN"
  BY <1>1, <1>5 DEF Operand, OperatorsOf, Frame, Waits
<1>9. OpenAt(q) = OpenAt(frames) /\ (\A a : Awaits(frames, a) => Awaits(q, a)) /\ Len(q) = Len(frames)
  BY <1>5, <1>6, <1>8, OpenReplaced DEF IsReplaced
<1>10. ~Ends(input, p)
  BY <1>3, <1>4 DEF Ends, Literals
<1>11. Follows(f2, token, input, p + 1, state)
  BY <1>1, <1>4, <1>5, <1>7, <1>8, <1>9, <1>10, OpensFollows
<1> QED
  BY <1>3, <1>4, <1>11

LEMMA BinaryFollows ==
  ASSUME ParserIInv, Sentence(input), Follows(frames, token, input, position, state), _binary
  PROVE  Follows(frames, token, input, position, state)'
<1>1. PICK p, y, z, f2 :
        /\ p = position /\ y = RightOperand(Current)
        /\ z = Frame("binary", 0, p, built[Len(built)].first)
        /\ f2 = <<y, z>> \o frames
  OBVIOUS
<1>2. /\ At("operators") /\ HasInfix(Current)
      /\ token' = token /\ frames' = f2 /\ input' = input /\ state' = state /\ _advance
  BY <1>1 DEF _binary
<1>3. /\ p \in 1 .. Len(input) /\ position' = p + 1
      /\ Current = input[p].kind /\ Current \in Operators
  <2>1. Current \in Operators /\ Current # "SP_EOF"
    BY <1>2 DEF HasInfix, Operators
  <2> QED
    BY <1>1, <1>2, <2>1, Found, PositionMoves
<1>4. /\ IsSeq(frames) /\ Len(frames) \in Nat
      /\ IsFiniteSet(OpenAt(frames)) /\ \A a \in OpenAt(frames) : a < position
  BY <1>2, FramesFound
<1>5. IsRaised(f2, frames, y, z)
  BY <1>1, <1>4, Raised
<1>6. y.task = "operand" /\ z.task = "binary" /\ z.task \in Waits /\ z.at = p
  BY <1>1 DEF RightOperand, Operand, Frame, Waits
<1>7. ~Ends(input, p) /\ input[p].kind # "OP_PAREN_OPEN"
  BY <1>3 DEF Ends, Literals, Operators
<1>8. Follows(f2, token, input, p + 1, state)
  BY <1>1, <1>3, <1>4, <1>5, <1>6, <1>7, OpensFollows
<1> QED
  BY <1>2, <1>3, <1>8

(* An operand is complete: nothing binds tightly enough any more.          *)
LEMMA EndOfOperatorsFollows ==
  ASSUME ParserIInv, Sentence(input), Follows(frames, token, input, position, state), EndOfOperators
  PROVE  Follows(frames, token, input, position, state)'
<1>1. PICK f2 : f2 = Tail(frames)
  OBVIOUS
<1>2. /\ At("operators") /\ state = "parse"
      /\ token' = token /\ frames' = f2 /\ position' = position /\ input' = input /\ state' = state
  BY <1>1 DEF EndOfOperators, At, Rest
<1>3. /\ IsSeq(frames) /\ frames # <<>> /\ frames[1].task = "operators" /\ frames[1].task \notin Waits
  BY <1>2, FramesFound DEF Waits
<1>4. IsSeq(f2) /\ Below(f2, frames, 1) /\ Len(f2) \in Nat
  BY <1>1, <1>3, Dropped, SeqLength
<1>5. PICK c : Forest(f2, c, built, token, grouped, input, position)
  <2>1. ParserIInv'
    BY EndOfOperatorsStep
  <2>2. state' = "parse"
    BY <1>2
  <2>3. \E c : Forest(f2, c, built, token, grouped, input, position)
    <3>1. \E c : Forest(frames', c, built', token', grouped', input', position')
      BY <2>1, <2>2 DEF ParserIInv, Parses
    <3> QED
      BY <1>2, <3>1 DEF EndOfOperators
  <2> QED
    BY <2>3
<1>6. OpenAt(f2) = OpenAt(frames) /\ \A a : Awaits(frames, a) => Awaits(f2, a)
  BY <1>3, <1>4, OpenDropped DEF Waits, Joining
<1>7. Ends(input, position - 1)
  BY <1>3 DEF Follows
<1>8. ~(Len(f2) > 0 /\ f2[1].task = "operand")
  <2>1. ASSUME Len(f2) > 0 PROVE f2[1].task \in Waits
    <3>1. PICK d : Forest(frames, d, built, token, grouped, input, position)
      BY <1>2 DEF ParserIInv, Parses
    <3>2. /\ frames[1].task = "operators" /\ 1 \in 1 .. Len(frames)
          /\ Underway(frames, d, built, token, grouped, input, position)
      BY <1>2, <3>1, FoundFrames
    <3>3. Called(frames, d, input, 1)
      BY <3>2 DEF Underway, Calls
    <3>4. 1 < Len(frames) /\ frames[1 + 1] = f2[1]
      <4>1. Len(frames) = Len(f2) + 1 /\ 1 \in 1 .. Len(f2)
        BY <1>4, <2>1 DEF Below
      <4> QED
        BY <1>4, <4>1 DEF Below
    <3> QED
      BY <3>3, <3>4 DEF Called
  <2> QED
    BY <2>1 DEF Waits
<1>9. ASSUME Len(f2) = 0 PROVE position = Len(input) + 1
  <2>1. Precedence(KindAt(input, position)) < PRECEDENCE_ASSIGNMENT
    BY <1>5, <1>9 DEF Forest, Resumes
  <2>2. Current \notin Operators
    <3>1. KindAt(input, position) = Current
      BY Found
    <3> QED
      BY <2>1, <3>1, PrecedenceBounds DEF PRECEDENCE_ASSIGNMENT
  <2>3. Current # "OP_PAREN_CLOSE" \/ position \notin 1 .. Len(input)
    <3>1. ASSUME Current = "OP_PAREN_CLOSE", position \in 1 .. Len(input) PROVE FALSE
      <4>1. OpenAt(frames) = {}
        <5>1. \A i \in 1 .. Len(f2) : FALSE
          BY <1>9
        <5> QED
          BY <1>6, <5>1, OpenMeans
      <4>2. BalanceOf(input, position - 1) = 0
        BY <4>1, FS_EmptySet DEF Follows
      <4>3. input[position].kind = "OP_PAREN_CLOSE" /\ position \in Nat \ {0} /\ Len(input) \in Nat
        BY <3>1, Found
      <4>4. BalanceOf(input, position) = 0 - 1
        BY <4>2, <4>3, BalanceMore
      <4> QED
        BY <3>1, <4>4 DEF Sentence
    <3> QED
      BY <3>1
  <2> QED
    BY <1>7, <2>2, <2>3, Ahead
<1>10. Covers(f2, token, input, position)
  BY <1>6 DEF Covers, Follows
<1>11. Follows(f2, token, input, position, state)
  BY <1>4, <1>6, <1>7, <1>8, <1>9, <1>10 DEF Follows
<1> QED
  BY <1>2, <1>11

LEMMA NodeFollows ==
  ASSUME ParserIInv, Sentence(input), Follows(frames, token, input, position, state), Node
  PROVE  Follows(frames, token, input, position, state)'
<1>1. PICK a, f2, t2 : a = Top.at /\ f2 = Tail(frames) /\ t2 = Append(token, a)
  OBVIOUS
<1>2. /\ At(Top.task) /\ Top.task \in {"unary", "binary"} /\ state = "parse"
      /\ token' = t2 /\ frames' = f2 /\ position' = position /\ input' = input /\ state' = state
  BY <1>1 DEF Node, At, Rest
<1>3. /\ IsSeq(frames) /\ frames # <<>> /\ Top = frames[1] /\ frames[1].task \in Joining
  BY <1>2, FramesFound DEF Joining
<1>4. IsSeq(f2) /\ Below(f2, frames, 1) /\ Len(f2) \in Nat
  BY <1>1, <1>3, Dropped, SeqLength
<1>5. /\ OpenAt(f2) = OpenAt(frames)
      /\ \A b : Awaits(frames, b) => b = a \/ Awaits(f2, b)
  BY <1>1, <1>3, <1>4, OpenDropped DEF Joining
<1>6. Has(t2, a) /\ \A b : Has(token, b) => Has(t2, b)
  <2>1. Len(t2) = Len(token) + 1 /\ t2[Len(token) + 1] = a /\ Extended(t2, token) /\ Len(token) \in Nat
    BY <1>1, Found, Appended
  <2>2. Len(token) + 1 \in 1 .. Len(t2) /\ \A i \in 1 .. Len(token) : i \in 1 .. Len(t2)
    BY <2>1
  <2> QED
    BY <2>1, <2>2 DEF Has, Extended
<1>7. Covers(f2, t2, input, position)
  BY <1>5, <1>6 DEF Covers, Follows
<1>8. Ends(input, position - 1)
  BY <1>3 DEF Follows, Joining
<1>9. Len(f2) > 0 /\ f2[1].task = "operators"
  <2>1. PICK c : Forest(frames, c, built, token, grouped, input, position)
    BY <1>2 DEF ParserIInv, Parses
  <2>2. Len(frames) > 1 /\ frames[2].task = "operators"
    BY <2>1, OperandsFound
  <2>3. Len(frames) = Len(f2) + 1 /\ (1 \in 1 .. Len(f2) => frames[1 + 1] = f2[1])
    BY <1>4 DEF Below
  <2> QED
    BY <1>4, <2>2, <2>3
<1>10. Follows(f2, t2, input, position, state)
  BY <1>4, <1>5, <1>7, <1>8, <1>9 DEF Follows
<1> QED
  BY <1>2, <1>10

(* The group ends where its parenthesis is closed.                         *)
LEMMA GroupCloses ==
  ASSUME ParserIInv, Sentence(input), Follows(frames, token, input, position, state), EndOfGroup
  PROVE  /\ Cardinality(OpenAt(Tail(frames))) \in Nat
         /\ BalanceOf(input, position - 1) = Cardinality(OpenAt(Tail(frames))) + 1
         /\ position \in 1 .. Len(input) /\ position' = position + 1
         /\ input[position].kind = "OP_PAREN_CLOSE"
<1>1. PICK p, a, f2 : p = position /\ a = frames[1].at /\ f2 = Tail(frames)
  OBVIOUS
<1>2. /\ At("group") /\ state = "parse" /\ _advance
      /\ token' = token /\ frames' = f2 /\ input' = input /\ state' = state
  BY <1>1 DEF EndOfGroup, At, Rest
<1>3. /\ IsSeq(frames) /\ frames # <<>> /\ frames[1].task = "group"
      /\ IsFiniteSet(OpenAt(frames)) /\ Cardinality(OpenAt(frames)) \in Nat
  BY <1>2, FramesFound
<1>4. IsSeq(f2) /\ Below(f2, frames, 1) /\ Len(f2) \in Nat
  BY <1>1, <1>3, Dropped, SeqLength
<1>5. OpenAt(frames) = OpenAt(f2) \cup {a}
  BY <1>1, <1>3, <1>4, OpenDropped
<1>6. PICK c : Forest(frames, c, built, token, grouped, input, position)
  BY <1>2 DEF ParserIInv, Parses
<1>7. /\ 1 \in 1 .. Len(frames) /\ Len(frames) \in Nat
      /\ Underway(frames, c, built, token, grouped, input, position)
      /\ Resumes(frames, c, built, token, grouped, input, position)
  BY <1>2, <1>6, FoundFrames
<1>8. Waiting(frames, c, built, token, grouped, input, position, 1) /\ 1 + 1 = 2
  BY <1>3, <1>7 DEF Underway, Waits
<1>10. a \notin OpenAt(f2)
  <2>1. ASSUME NEW i \in 1 .. Len(f2), f2[i].task = "group" PROVE f2[i].at # a
    <3>1. i + 1 \in 1 .. Len(frames) /\ 1 < i + 1 /\ frames[i + 1] = f2[i]
      BY <1>4 DEF Below
    <3>2. frames[i + 1].at < frames[1].at
      BY <1>8, <2>1, <3>1 DEF Waiting, Waits
    <3>3. frames[1].at \in Int
      BY <1>8 DEF Waiting
    <3> QED
      BY <1>1, <3>1, <3>2, <3>3
  <2> QED
    BY <2>1, OpenMeans
<1>11. Ends(input, p - 1)
  BY <1>1, <1>3 DEF Follows
<1>12. PICK n : n = Cardinality(OpenAt(f2))
  OBVIOUS
<1>13. n \in Nat /\ Cardinality(OpenAt(frames)) = n + 1
  <2>1. IsFiniteSet(OpenAt(f2))
    <3>1. OpenAt(f2) \in SUBSET OpenAt(frames)
      BY <1>5
    <3> QED
      BY <1>3, <3>1, FS_Subset
  <2>2. Cardinality(OpenAt(f2) \cup {a}) = Cardinality(OpenAt(f2)) + 1
    BY <1>10, <2>1, FS_AddElement
  <2>3. Cardinality(OpenAt(f2)) \in Nat
    BY <2>1, FS_CardinalityType
  <2> QED
    BY <1>5, <1>12, <2>2, <2>3
<1>14. BalanceOf(input, p - 1) = n + 1
  BY <1>1, <1>13 DEF Follows
<1>15. /\ p \in 1 .. Len(input) /\ position' = p + 1 /\ p \in Nat \ {0} /\ (p + 1) - 1 = p
       /\ input[p].kind = "OP_PAREN_CLOSE"
  <2>1. p # Len(input) + 1
    <3>1. ASSUME p = Len(input) + 1 PROVE FALSE
      <4>1. p - 1 = Len(input)
        BY <3>1, Found
      <4> QED
        BY <1>13, <1>14, <4>1 DEF Sentence
    <3> QED
      BY <3>1
  <2>2. Current \notin Operators
    <3>1. Precedence(KindAt(input, position)) < Demand(input, frames[1])
      BY <1>3, <1>7 DEF Resumes, Calls
    <3>2. Demand(input, frames[1]) = 1
      BY <1>3 DEF Demand, PRECEDENCE_ASSIGNMENT
    <3>3. Precedence(Current) < 1
      BY <3>1, <3>2, Found
    <3> QED
      BY <3>3, PrecedenceBounds
  <2>3. p \in 1 .. Len(input) /\ input[p].kind = "OP_PAREN_CLOSE"
    BY <1>1, <1>11, <2>1, <2>2, Ahead
  <2> QED
    BY <1>1, <1>2, <2>3, Found, PositionMoves
<1> QED
  BY <1>1, <1>12, <1>13, <1>14, <1>15

LEMMA EndOfGroupFollows ==
  ASSUME ParserIInv, Sentence(input), Follows(frames, token, input, position, state), EndOfGroup
  PROVE  Follows(frames, token, input, position, state)'
<1>1. PICK p, a, f2, n : /\ p = position /\ a = frames[1].at /\ f2 = Tail(frames)
                         /\ n = Cardinality(OpenAt(f2))
  OBVIOUS
<1>2. /\ At("group") /\ state = "parse"
      /\ token' = token /\ frames' = f2 /\ input' = input /\ state' = state
  BY <1>1 DEF EndOfGroup, At, Rest
<1>3. /\ IsSeq(frames) /\ frames # <<>> /\ frames[1].task = "group"
  BY <1>2, FramesFound
<1>4. IsSeq(f2) /\ Below(f2, frames, 1) /\ Len(f2) \in Nat
  BY <1>1, <1>3, Dropped, SeqLength
<1>5. \A b : Awaits(frames, b) => Awaits(f2, b)
  BY <1>1, <1>3, <1>4, OpenDropped DEF Joining
<1>9. Len(f2) > 0 /\ f2[1].task = "operators"
  <2>1. PICK c : Forest(frames, c, built, token, grouped, input, position)
    BY <1>2 DEF ParserIInv, Parses
  <2>2. /\ 1 \in 1 .. Len(frames) /\ Len(frames) \in Nat
        /\ Underway(frames, c, built, token, grouped, input, position)
    BY <1>2, <2>1, FoundFrames
  <2>3. Waiting(frames, c, built, token, grouped, input, position, 1) /\ 1 + 1 = 2
    BY <1>3, <2>2 DEF Underway, Waits
  <2>4. 1 < Len(frames) /\ frames[2].task = "operators"
    BY <2>3 DEF Waiting
  <2>5. Len(frames) = Len(f2) + 1 /\ (1 \in 1 .. Len(f2) => frames[1 + 1] = f2[1])
    BY <1>4 DEF Below
  <2> QED
    BY <1>4, <2>4, <2>5
<1>13. n \in Nat /\ BalanceOf(input, p - 1) = n + 1
  BY <1>1, GroupCloses
<1>14. /\ p \in 1 .. Len(input) /\ position' = p + 1 /\ input[p].kind = "OP_PAREN_CLOSE"
  BY <1>1, GroupCloses
<1>15. p \in Nat \ {0} /\ (p + 1) - 1 = p
  BY <1>14, Found
<1>16. BalanceOf(input, p) = n
  <2>1. BalanceOf(input, p) = BalanceOf(input, p - 1) - 1
    BY <1>14, <1>15, BalanceMore
  <2> QED
    BY <1>13, <2>1
<1>17. Covers(f2, token, input, p + 1)
  <2>1. Covers(frames, token, input, p)
    BY <1>1 DEF Follows
  <2> QED
    BY <1>5, <1>14, <1>15, <2>1, CoversMore
<1>18. Ends(input, p)
  BY <1>14, <1>15 DEF Ends
<1>19. Follows(f2, token, input, p + 1, state)
  BY <1>1, <1>4, <1>9, <1>15, <1>16, <1>17, <1>18 DEF Follows
<1> QED
  BY <1>2, <1>14, <1>19

LEMMA ParsedFollows ==
  ASSUME ParserIInv, Sentence(input), Follows(frames, token, input, position, state), parser_parse
  PROVE  Follows(frames, token, input, position, state)'
<1>1. /\ state = "parse" /\ frames = <<>> /\ state' = "parsed" /\ _advance
      /\ input' = input /\ frames' = frames /\ token' = token
  BY DEF parser_parse
<1>2. Len(frames) = 0
  <2>1. PICK c : Forest(frames, c, built, token, grouped, input, position)
    BY <1>1 DEF ParserIInv, Parses
  <2> QED
    BY <1>1, <2>1, SeqLength DEF Forest
<1>3. position = Len(input) + 1 /\ ~(position <= Len(input))
  BY <1>2, Found DEF Follows
<1>4. position' = position
  BY <1>1, <1>3 DEF _advance
<1>5. Follows(frames, token, input, position, "parsed")
  BY DEF Follows
<1> QED
  BY <1>1, <1>4, <1>5

(* A sentence gives the parser no reason to give up.                       *)
LEMMA NeverGivenUp ==
  ASSUME ParserIInv, Sentence(input), Follows(frames, token, input, position, state)
  PROVE  ~CallNull /\ ~ReadBeyond
<1>1. ASSUME At("operand") PROVE HasPrefix(Current) /\ Current # "BEYOND"
  <2>1. ~Ends(input, position - 1)
    BY <1>1, FramesFound DEF Follows
  <2> QED
    BY <2>1, Ahead DEF HasPrefix, Literals
<1>2. ASSUME At("operators") PROVE (Binds => HasInfix(Current)) /\ Current # "BEYOND"
  <2>1. /\ Ends(input, position - 1) /\ Top = frames[1] /\ Len(frames) \in Nat /\ Len(frames) > 0
    BY <1>2, FramesFound DEF Follows
  <2>2. \/ Current = "SP_EOF"
        \/ Current \in (Operators \ {"OP_NOT_EQUAL_TO"}) \cup {"OP_PAREN_CLOSE"}
    BY <2>1, Ahead
  <2>3. Top.precedence \in 1 .. 8
    <3>1. PICK c : Forest(frames, c, built, token, grouped, input, position)
      BY <1>2 DEF ParserIInv, Parses, At
    <3>2. /\ frames[1].task = "operators" /\ 1 \in 1 .. Len(frames)
          /\ Underway(frames, c, built, token, grouped, input, position)
      BY <1>2, <3>1, FoundFrames
    <3>3. Called(frames, c, input, 1)
      BY <3>2 DEF Underway, Calls
    <3>4. 1 = Len(frames) \/ 1 < Len(frames)
      <4>1. PICK n : n = Len(frames)
        OBVIOUS
      <4>2. n \in Nat /\ n > 0
        BY <2>1, <4>1
      <4> QED
        BY <4>1, <4>2
    <3> QED
      BY <2>1, <3>3, <3>4, DemandIsInt DEF Called, PRECEDENCE_ASSIGNMENT
  <2>4. ASSUME Binds PROVE HasInfix(Current)
    <3>1. Precedence(Current) >= 1
      BY <2>3, <2>4, PrecedenceBounds DEF Binds
    <3>2. Current \in Operators
      BY <3>1 DEF Precedence, Operators
    <3> QED
      BY <2>2, <3>2 DEF HasInfix, Operators
  <2> QED
    BY <2>2, <2>4 DEF Operators
<1> QED
  BY <1>1, <1>2 DEF CallNull, ReadBeyond

(* The first function is called where the sentence begins.                 *)
LEMMA FollowsAtFirst ==
  ASSUME NEW x
  PROVE  Follows(<<Operand(PRECEDENCE_ASSIGNMENT)>>, <<>>, x, 1, "parse")
<1>1. PICK f : f = <<Operand(PRECEDENCE_ASSIGNMENT)>>
  OBVIOUS
<1>2. IsSeq(f) /\ Len(f) = 1 /\ f[1] = Operand(PRECEDENCE_ASSIGNMENT)
  <2>1. f \in Seq({Operand(PRECEDENCE_ASSIGNMENT)})
    BY <1>1
  <2> QED
    BY <1>1, <2>1 DEF IsSeq
<1>3. f[1].task = "operand"
  BY <1>2 DEF Operand, Frame
<1>4. OpenAt(f) = {}
  <2>1. \A i \in 1 .. Len(f) : i = 1
    BY <1>2
  <2> QED
    BY <1>3, <2>1, OpenMeans
<1>5. Cardinality(OpenAt(f)) = BalanceOf(x, 0)
  BY <1>4, FS_EmptySet, NoneOpen
<1>6. Covers(f, <<>>, x, 1) /\ ~Ends(x, 0)
  BY DEF Covers, Ends
<1>7. Follows(f, <<>>, x, 1, "parse")
  BY <1>2, <1>3, <1>5, <1>6 DEF Follows
<1> QED
  BY <1>1, <1>7

LEMMA FollowsStarts ==
  ASSUME Init
  PROVE  FollowsIInv
BY FollowsAtFirst DEF FollowsIInv, Init

LEMMA FollowsStep ==
  ASSUME ParserIInv, FollowsIInv, [Next]_vars
  PROVE  FollowsIInv'
<1> SUFFICES ASSUME Sentence(input') PROVE Follows(frames, token, input, position, state)'
  BY DEF FollowsIInv
<1>1. CASE UNCHANGED vars
  BY <1>1 DEF FollowsIInv, vars
<1>2. CASE Step
  <2>1. input' = input
    BY <1>2 DEF Step, Literal, _unary, _group, _binary, EndOfOperators, Node, EndOfGroup, parser_parse,
                CallNull, ReadBeyond
  <2>2. Sentence(input) /\ Follows(frames, token, input, position, state)
    BY <2>1 DEF FollowsIInv
  <2> QED
    BY <1>2, <2>2, LiteralFollows, PrefixFollows, BinaryFollows, EndOfOperatorsFollows, NodeFollows,
       EndOfGroupFollows, ParsedFollows, NeverGivenUp DEF Step
<1> QED
  BY <1>1, <1>2 DEF Next, Ended

LEMMA SentencesFollow == Spec => [](ParserIInv /\ FollowsIInv)
<1>1. Init => FollowsIInv
  BY FollowsStarts
<1>2. ParserIInv /\ FollowsIInv /\ [Next]_vars => FollowsIInv'
  BY FollowsStep
<1> QED
  BY <1>1, <1>2, ParserInvariant, PTL DEF Spec

(* No expression that the grammar and the rules have is refused, and the   *)
(* parser never stops in the middle of one: the NULL functions of g_RULES  *)
(* and the tokens that are taken unseen (parser.c) are for others.         *)
THEOREM SentencesAreAccepted == Spec => []AcceptsSentences
<1>1. ASSUME ParserIInv, FollowsIInv PROVE AcceptsSentences
  <2> SUFFICES ASSUME Supported
               PROVE  state \in {"parse", "parsed"} /\ (frames = <<>> => position = Len(input) + 1)
    BY DEF AcceptsSentences
  <2>1. Follows(frames, token, input, position, state)
    BY <1>1, SupportedIsSentence DEF FollowsIInv
  <2> QED
    BY <2>1 DEF Follows
<1> QED
  BY <1>1, SentencesFollow, PTL

(* Read from left to right the finished trees have the tokens in their     *)
(* order, none twice, and in a sentence none is missing: what _binary's    *)
(* and _unary's order of reading and building is there for.                *)
THEOREM TreesAreInReadingOrder == Spec => []InReadingOrder
<1>1. ASSUME ParserIInv, FollowsIInv PROVE InReadingOrder
  <2>1. ASSUME NEW n \in DOMAIN built
        PROVE  /\ built[n].kind \in UnaryKinds => \A m \in Subtree(n) \ {n} : token[n] < token[m]
               /\ built[n].kind \in BinaryKinds =>
                    /\ \A m \in Subtree(Lhs(built, n)) : token[m] < token[n]
                    /\ \A m \in Subtree(Rhs(built, n)) : token[n] < token[m]
    <3>1. n \in 1 .. Len(built) /\ Formed(built, n) /\ Reads(built, token, n)
      BY <1>1, NodesFound
    <3>2. n \in Nat /\ built[n].first \in 1 .. n
      BY <3>1, <1>1, Found DEF Formed
    <3>3. ASSUME built[n].kind \in UnaryKinds PROVE \A m \in Subtree(n) \ {n} : token[n] < token[m]
      <4>1. \A m \in Subtree(n) \ {n} : m \in built[n].first .. n - 1
        BY <3>2 DEF Subtree
      <4> QED
        BY <3>1, <3>3, <4>1 DEF Reads
    <3>4. ASSUME built[n].kind \in BinaryKinds
          PROVE  /\ \A m \in Subtree(Lhs(built, n)) : token[m] < token[n]
                 /\ \A m \in Subtree(Rhs(built, n)) : token[n] < token[m]
      <4>1. PICK right : right = built[n - 1].first
        OBVIOUS
      <4>2. built[right - 1].first = built[n].first
        BY <3>1, <3>4, <4>1 DEF Formed
      <4>3. Subtree(Lhs(built, n)) = built[n].first .. right - 1 /\ Subtree(Rhs(built, n)) = right .. n - 1
        BY <4>1, <4>2 DEF Subtree, Lhs, Rhs
      <4> QED
        BY <3>1, <3>4, <4>1, <4>3 DEF Reads
    <3> QED
      BY <3>3, <3>4
  <2>2. \A m, n \in DOMAIN token : token[m] = token[n] => m = n
    <3>1. DOMAIN token = 1 .. Len(built)
      BY <1>1, Found DEF IsSeq
    <3> QED
      BY <1>1, <3>1, Found DEF Finished
  <2>3. ASSUME Supported
        PROVE  \A i \in 1 .. position - 1 :
                 \/ input[i].kind \in {"OP_PAREN_OPEN", "OP_PAREN_CLOSE"}
                 \/ i \in {token[n] : n \in DOMAIN token} \cup {frames[f].at : f \in DOMAIN frames}
    <3>1. Covers(frames, token, input, position)
      BY <1>1, <2>3, SupportedIsSentence DEF FollowsIInv, Follows
    <3>2. DOMAIN token = 1 .. Len(token)
      BY <1>1, Found DEF IsSeq
    <3>3. \A i : Has(token, i) => i \in {token[n] : n \in DOMAIN token}
      BY <3>2 DEF Has
    <3>4. \A i : Awaits(frames, i) => i \in {frames[f].at : f \in DOMAIN frames}
      <4>1. IsSeq(frames)
        BY <1>1, <2>3, SupportedIsSentence DEF FollowsIInv, Follows
      <4>2. DOMAIN frames = 1 .. Len(frames)
        BY <4>1 DEF IsSeq
      <4> QED
        BY <4>2 DEF Awaits
    <3> QED
      BY <3>1, <3>3, <3>4 DEF Covers
  <2> QED
    BY <2>1, <2>2, <2>3 DEF InReadingOrder
<1> QED
  BY <1>1, SentencesFollow, PTL
-----------------------------------------------------------------------------
(* A node is made of its token: its line, its kind, and the value of a     *)
(* literal.                                                                *)
Prefixes == {"KW_NOT", "OP_SUBTRACTION"}

IsOperatorNode(node) ==
  node = [kind |-> node.kind, line |-> node.line, value |-> Junk("BOOL"), chars |-> <<>>, first |-> node.first]

Made(b, t, x, n) ==
  LET node == b[n]  source == x[t[n]]
  IN  /\ node.line = source.line
      /\ node.kind \in LiteralKinds => source.kind \in Literals /\ node = LiteralNode(source, n)
      /\ node.kind \notin LiteralKinds => IsOperatorNode(node)
      /\ node.kind \in UnaryKinds   => source.kind \in Prefixes /\ node.kind = UnaryKind(source.kind)
      /\ node.kind \in BinaryKinds  => source.kind \in Operators /\ node.kind = BinaryKind(source.kind)

(* What a prefix function waits with.                                      *)
OpensWith(w, x) ==
  /\ w.task = "unary" => x[w.at].kind \in Prefixes
  /\ w.task = "group" => x[w.at].kind = "OP_PAREN_OPEN"

NodesMade ==
  /\ \A n \in 1 .. Len(built) : Made(built, token, input, n)
  /\ \A i \in 1 .. Len(frames) : OpensWith(frames[i], input)

NodesLined == \A n \in 1 .. Len(built) : built[n].line = input[token[n]].line

LEMMA MadeLater ==
  ASSUME NEW b, NEW t, NEW x, NEW n, Made(b, t, x, n), NEW b2, NEW t2, b2[n] = b[n], t2[n] = t[n]
  PROVE  Made(b2, t2, x, n)
BY DEF Made

LEMMA MadeAdds ==
  ASSUME ParserIInv, NodesMade, NEW e, NEW a,
         built' = Append(built, e), token' = Append(token, a), input' = input,
         \A b, t, n : n = Len(built) + 1 /\ b[n] = e /\ t[n] = a => Made(b, t, input, n)
  PROVE  (\A n \in 1 .. Len(built) : Made(built, token, input, n))'
<1>1. PICK b2, t2, x, last : b2 = Append(built, e) /\ t2 = Append(token, a) /\ x = input /\ last = Len(built)
  OBVIOUS
<1>2. Adds(built, token, grouped, position, last + 1, e, a, b2, t2, position)
  <2>1. position \in Nat /\ position <= position
    BY Found
  <2> QED
    BY <1>1, <2>1, NodeAdded
<1>3. /\ last \in Nat /\ Len(b2) = last + 1 /\ b2[last + 1] = e /\ t2[last + 1] = a
      /\ \A m \in 1 .. last : b2[m] = built[m] /\ t2[m] = token[m]
  BY <1>1, <1>2, Found DEF Adds
<1>4. \A n \in 1 .. Len(b2) : Made(b2, t2, x, n)
  <2> TAKE n \in 1 .. Len(b2)
  <2>1. CASE n = last + 1
    BY <1>1, <1>3, <2>1
  <2>2. CASE n # last + 1
    <3>1. n \in 1 .. last
      BY <1>3, <2>2
    <3>2. Made(built, token, x, n)
      BY <1>1, <3>1 DEF NodesMade
    <3> QED
      BY <1>3, <3>1, <3>2, MadeLater
  <2> QED
    BY <2>1, <2>2
<1> QED
  BY <1>1, <1>4

(* The functions that wait are called by the tokens they are for.          *)
LEMMA OpensKept ==
  ASSUME ParserIInv, NodesMade, Step
  PROVE  (\A i \in 1 .. Len(frames) : OpensWith(frames[i], input))'
<1>1. input' = input
  BY DEF Step, Literal, _unary, _group, _binary, EndOfOperators, Node, EndOfGroup, parser_parse, CallNull, ReadBeyond
<1>2. PICK x, f2 : x = input /\ f2 = frames'
  OBVIOUS
<1>3. \A i \in 1 .. Len(frames) : OpensWith(frames[i], x)
  BY <1>2 DEF NodesMade
<1>4. CASE Literal
  <2>1. PICK task : At(task)
    BY <1>4 DEF Literal
  <2>2. IsReplaced(f2, frames, OperatorsOf(Top.precedence)) /\ Len(frames) \in Nat
    BY <1>2, <1>4, <2>1, FramesFound, Replaced DEF Literal, Rest
  <2>3. OpensWith(OperatorsOf(Top.precedence), x)
    BY DEF OpensWith, OperatorsOf, Frame
  <2>4. \A i \in 1 .. Len(f2) : i = 1 \/ f2[i] = frames[i]
    BY <2>2 DEF IsReplaced
  <2> QED
    BY <1>1, <1>2, <1>3, <2>2, <2>3, <2>4 DEF IsReplaced
<1>5. CASE _unary \/ _group
  <2>1. At("operand") /\ Current \in {"KW_NOT", "OP_SUBTRACTION", "OP_PAREN_OPEN"}
    BY <1>5 DEF _unary, _group
  <2>2. PICK y, z, e, q : /\ y = Operand(IF Current = "OP_PAREN_OPEN" THEN PRECEDENCE_ASSIGNMENT ELSE PRECEDENCE_UNARY)
                          /\ z = Frame(IF Current = "OP_PAREN_OPEN" THEN "group" ELSE "unary", 0, position, Len(built) + 1)
                          /\ e = OperatorsOf(Top.precedence) /\ q = <<e>> \o Tail(frames)
    OBVIOUS
  <2>3. f2 = <<y, z, e>> \o Tail(frames)
    BY <1>2, <1>5, <2>2 DEF _unary, _group, Rest
  <2>4. IsReplaced(q, frames, e) /\ Len(frames) \in Nat
    BY <2>1, <2>2, FramesFound, Replaced
  <2>5. IsRaised(f2, q, y, z)
    BY <2>1, <2>3, <2>4, FramesFound, Opened
  <2>6. OpensWith(y, x) /\ OpensWith(z, x) /\ OpensWith(e, x)
    <3>1. x[position].kind = Current
      BY <1>2, <2>1, Found
    <3> QED
      BY <2>1, <2>2, <3>1 DEF OpensWith, Operand, OperatorsOf, Frame, Prefixes
  <2>7. /\ Len(f2) = Len(frames) + 2 /\ f2[1] = y /\ f2[2] = z
        /\ \A i \in 1 .. Len(frames) : f2[i + 2] = IF i = 1 THEN e ELSE frames[i]
    BY <2>4, <2>5 DEF IsReplaced, IsRaised, Below
  <2>8. \A i \in 1 .. Len(f2) : i = 1 \/ i = 2 \/ (i - 2 \in 1 .. Len(frames) /\ (i - 2) + 2 = i)
    BY <2>4, <2>7
  <2>9. \A i \in 1 .. Len(f2) : OpensWith(f2[i], x)
    BY <1>3, <2>6, <2>7, <2>8
  <2> QED
    BY <1>1, <1>2, <2>9
<1>6. CASE _binary
  <2>1. PICK y, z : y = RightOperand(Current) /\ z = Frame("binary", 0, position, built[Len(built)].first)
    OBVIOUS
  <2>2. f2 = <<y, z>> \o frames /\ At("operators")
    BY <1>2, <1>6, <2>1 DEF _binary
  <2>3. IsRaised(f2, frames, y, z) /\ Len(frames) \in Nat
    BY <2>2, FramesFound, Raised
  <2>4. OpensWith(y, x) /\ OpensWith(z, x)
    BY <2>1 DEF OpensWith, RightOperand, Operand, Frame
  <2>5. Len(f2) = Len(frames) + 2 /\ f2[1] = y /\ f2[2] = z /\ \A i \in 1 .. Len(frames) : f2[i + 2] = frames[i]
    BY <2>3 DEF IsRaised, Below
  <2>6. \A i \in 1 .. Len(f2) : i = 1 \/ i = 2 \/ (i - 2 \in 1 .. Len(frames) /\ (i - 2) + 2 = i)
    BY <2>3, <2>5
  <2>7. \A i \in 1 .. Len(f2) : OpensWith(f2[i], x)
    BY <1>3, <2>4, <2>5, <2>6
  <2> QED
    BY <1>1, <1>2, <2>7
<1>7. CASE EndOfOperators \/ Node \/ EndOfGroup
  <2>1. PICK task : At(task)
    BY <1>7 DEF EndOfOperators, Node, EndOfGroup
  <2>2. f2 = Tail(frames)
    BY <1>2, <1>7 DEF EndOfOperators, Node, EndOfGroup, Rest
  <2>3. IsSeq(f2) /\ Below(f2, frames, 1)
    BY <2>1, <2>2, FramesFound, Dropped
  <2>4. Len(f2) \in Nat /\ Len(frames) = Len(f2) + 1 /\ \A i \in 1 .. Len(f2) : frames[i + 1] = f2[i]
    BY <2>3, SeqLength DEF Below
  <2>5. \A i \in 1 .. Len(f2) : i + 1 \in 1 .. Len(frames)
    BY <2>4
  <2>6. \A i \in 1 .. Len(f2) : OpensWith(f2[i], x)
    BY <1>3, <2>4, <2>5
  <2> QED
    BY <1>1, <1>2, <2>6
<1>8. CASE parser_parse \/ CallNull \/ ReadBeyond
  <2>1. f2 = frames
    BY <1>2, <1>8 DEF parser_parse, CallNull, ReadBeyond
  <2> QED
    BY <1>1, <1>2, <1>3, <2>1
<1> QED
  BY <1>4, <1>5, <1>6, <1>7, <1>8 DEF Step

LEMMA MadeStep ==
  ASSUME ParserIInv, NodesMade, [Next]_vars
  PROVE  NodesMade'
<1>1. CASE Literal
  <2>1. PICK e, a : e = LiteralNode(input[position], Len(built) + 1) /\ a = position
    OBVIOUS
  <2>2. built' = Append(built, e) /\ token' = Append(token, a) /\ input' = input
    BY <1>1, <2>1 DEF Literal
  <2>3. input[position].kind \in Literals
    <3>1. Current \in Literals /\ Current # "SP_EOF"
      BY <1>1 DEF Literal, Literals
    <3> QED
      BY <3>1, Found
  <2>4. e.line = input[a].line /\ e.kind \in LiteralKinds
    BY <2>1, <2>3 DEF LiteralNode, Literals, LiteralKinds
  <2>5. \A b, t, n : n = Len(built) + 1 /\ b[n] = e /\ t[n] = a => Made(b, t, input, n)
    BY <2>1, <2>3, <2>4, NodeKindsApart DEF Made
  <2>6. (\A n \in 1 .. Len(built) : Made(built, token, input, n))'
    BY <2>2, <2>5, MadeAdds
  <2> QED
    BY <1>1, <2>6, OpensKept DEF NodesMade, Step
<1>2. CASE Node
  <2>1. PICK kind, e, a :
          /\ kind = (IF Top.task = "unary" THEN UnaryKind(input[Top.at].kind) ELSE BinaryKind(input[Top.at].kind))
          /\ e = OperatorNode(kind, Top.at, Top.first) /\ a = Top.at
    OBVIOUS
  <2>2. built' = Append(built, e) /\ token' = Append(token, a) /\ input' = input
    BY <1>2, <2>1 DEF Node
  <2>3. e.line = input[a].line /\ e.kind = kind /\ IsOperatorNode(e)
    BY <2>1 DEF OperatorNode, IsOperatorNode
  <2>4. At(Top.task) /\ Top.task \in {"unary", "binary"}
    BY <1>2 DEF Node
  <2>5. PICK c : Forest(frames, c, built, token, grouped, input, position)
    BY <2>4 DEF ParserIInv, Parses, At
  <2>6. Top = frames[1] /\ 1 \in 1 .. Len(frames) /\ Underway(frames, c, built, token, grouped, input, position)
    BY <2>4, <2>5, FoundFrames
  <2>7. Top.task = "unary" => input[a].kind \in Prefixes
    BY <2>1, <2>6 DEF NodesMade, OpensWith
  <2>8. Top.task = "binary" => input[a].kind \in Operators
    BY <2>1, <2>6 DEF Underway, Waits, Waiting, Joins
  <2>9. \A b, t, n : n = Len(built) + 1 /\ b[n] = e /\ t[n] = a => Made(b, t, input, n)
    BY <2>1, <2>3, <2>4, <2>7, <2>8, NodeKindsApart, KindsOfOperators DEF Made
  <2>10. (\A n \in 1 .. Len(built) : Made(built, token, input, n))'
    BY <2>2, <2>9, MadeAdds
  <2> QED
    BY <1>2, <2>10, OpensKept DEF NodesMade, Step
<1>3. CASE \/ _unary \/ _group \/ _binary \/ EndOfOperators \/ EndOfGroup
           \/ parser_parse \/ CallNull \/ ReadBeyond
  <2>1. UNCHANGED <<built, token, input>>
    BY <1>3 DEF _unary, _group, _binary, EndOfOperators, EndOfGroup, parser_parse, CallNull, ReadBeyond
  <2> QED
    BY <1>3, <2>1, OpensKept DEF NodesMade, Step
<1>4. CASE UNCHANGED vars
  BY <1>4 DEF NodesMade, vars
<1> QED
  BY <1>1, <1>2, <1>3, <1>4 DEF Next, Step, Ended

LEMMA MadeStarts == Init => NodesMade
<1> SUFFICES ASSUME Init PROVE NodesMade
  OBVIOUS
<1>1. PICK f : f = <<Operand(PRECEDENCE_ASSIGNMENT)>>
  OBVIOUS
<1>2. Len(f) = 1 /\ f[1] = Operand(PRECEDENCE_ASSIGNMENT)
  BY <1>1
<1>3. \A i \in 1 .. Len(f) : OpensWith(f[i], input)
  BY <1>2 DEF OpensWith, Operand, Frame
<1> QED
  BY <1>1, <1>3 DEF Init, NodesMade

LEMMA NodesOfTokens == Spec => []NodesMade
BY MadeStarts, MadeStep, ParserInvariant, PTL DEF Spec

(* Whatever the tokens, the line a node is given (parser.c) is the one the *)
(* scanner gave its token, which for an operator is not the current one by *)
(* the time its right operand has been parsed.                             *)
THEOREM NodesHaveTheirLines == Spec => []NodesLined
<1>1. NodesMade => NodesLined
  BY DEF NodesMade, Made, NodesLined
<1> QED
  BY <1>1, NodesOfTokens, PTL

-----------------------------------------------------------------------------
(***************************************************************************)
(* Where a node lies in a sentence: its subtree is the tokens from lo to   *)
(* hi, of which the depth outer ones on either side are parentheses around *)
(* it.                                                                     *)
(***************************************************************************)
Spanned(b, t, g, x, d, n) ==
  LET lo == d[n].lo + d[n].depth  hi == d[n].hi - d[n].depth
  IN  /\ d[n].lo \in 1 .. Len(x) /\ d[n].hi \in 1 .. Len(x) /\ d[n].depth \in Nat
      /\ n \in g <=> d[n].depth > 0
      /\ \A i \in d[n].lo .. lo - 1 : x[i].kind = "OP_PAREN_OPEN"
      /\ \A i \in hi + 1 .. d[n].hi : x[i].kind = "OP_PAREN_CLOSE"
      /\ b[n].kind \in LiteralKinds => t[n] = lo /\ t[n] = hi
      /\ b[n].kind \in UnaryKinds => t[n] = lo /\ d[n - 1].lo = t[n] + 1 /\ d[n - 1].hi = hi
      /\ b[n].kind \in BinaryKinds =>
           LET left == b[n - 1].first - 1
           IN  /\ d[left].lo = lo /\ d[left].hi = t[n] - 1
               /\ d[n - 1].lo = t[n] + 1 /\ d[n - 1].hi = hi

(* Where a call of _parse_precedence began to read.                        *)
Begin(f, i) == IF i = Len(f) THEN 1 ELSE f[i + 1].at + 1

LastBefore(t, a, l) == t[l] < a /\ \A m \in 1 .. Len(t) : m > l => a < t[m]

(* A function that waits began where the call it belongs to began, unless  *)
(* it has a left operand, which lies there.                                *)
Placed(f, t, d, i) ==
  /\ f[i].task # "binary" => f[i].at = Begin(f, i + 1)
  /\ f[i].task = "binary" =>
       \A l \in 1 .. Len(t) : LastBefore(t, f[i].at, l) =>
         d[l].lo = Begin(f, i + 1) /\ d[l].hi = f[i].at - 1

(* The tokens of the last tree are all that was read since.                *)
Start(f) == IF Len(f) = 0 THEN 1 ELSE IF f[1].task \in Waits THEN f[1].at + 1 ELSE Begin(f, 1)

Reached(f, d, last, p) ==
  IF Len(f) > 0 /\ f[1].task = "operand" THEN p = Start(f)
  ELSE d[last].lo = Start(f) /\ d[last].hi = p - 1

AllPlaced(f, t, d) == \A i \in 1 .. Len(f) : f[i].task \in Waits => Placed(f, t, d, i)

AllSpanned(b, t, g, x, d) ==
  g \subseteq 1 .. Len(b) /\ \A n \in 1 .. Len(b) : Spanned(b, t, g, x, d, n)

Laid(f, b, t, g, x, p, d) ==
  /\ AllSpanned(b, t, g, x, d)
  /\ AllPlaced(f, t, d)
  /\ Reached(f, d, Len(b), p)

SpansIInv == Sentence(input) => \E d : Laid(frames, built, token, grouped, input, position, d)

(* The operands of a node come before it.                                  *)
LEMMA OperandsBefore ==
  ASSUME NEW b, NEW n \in Nat \ {0}, \A m \in 1 .. n : Formed(b, m)
  PROVE  /\ b[n].kind \in UnaryKinds => n - 1 \in 1 .. n - 1 /\ b[n].first = b[n - 1].first
         /\ b[n].kind \in BinaryKinds =>
              /\ n - 1 \in 1 .. n - 1 /\ b[n - 1].first - 1 \in 1 .. n - 2
              /\ b[n].first = b[b[n - 1].first - 1].first
<1>1. Formed(b, n)
  OBVIOUS
<1>2. b[n].kind \in UnaryKinds \cup BinaryKinds => n > 1
  BY <1>1 DEF Formed
<1>3. b[n].kind \in BinaryKinds => b[n - 1].first \in 1 .. n - 1 /\ b[n - 1].first > 1
  <2> SUFFICES ASSUME b[n].kind \in BinaryKinds PROVE b[n - 1].first \in 1 .. n - 1 /\ b[n - 1].first > 1
    OBVIOUS
  <2>1. n - 1 \in 1 .. n
    BY <1>2
  <2>2. Formed(b, n - 1)
    BY <2>1
  <2> QED
    BY <1>1, <2>2 DEF Formed
<1> QED
  BY <1>1, <1>2, <1>3 DEF Formed

FormedUpTo(b, n) == \A m \in 1 .. n : Formed(b, m)

SameUpTo(b, t, d, b2, t2, d2, n) == \A m \in 1 .. n : b2[m] = b[m] /\ t2[m] = t[m] /\ d2[m] = d[m]

LEMMA SpannedLater ==
  ASSUME NEW b, NEW n \in Nat \ {0}, FormedUpTo(b, n), NEW t, NEW g, NEW x, NEW d,
         Spanned(b, t, g, x, d, n), NEW b2, NEW t2, NEW g2, NEW d2,
         SameUpTo(b, t, d, b2, t2, d2, n), n \in g2 <=> n \in g
  PROVE  Spanned(b2, t2, g2, x, d2, n)
<1>0. (\A m \in 1 .. n : Formed(b, m)) /\ \A m \in 1 .. n : b2[m] = b[m] /\ t2[m] = t[m] /\ d2[m] = d[m]
  BY DEF FormedUpTo, SameUpTo
<1>1. b2[n] = b[n] /\ t2[n] = t[n] /\ d2[n] = d[n]
  BY <1>0
<1>2. b[n].kind \in UnaryKinds => d2[n - 1] = d[n - 1]
  <2>1. b[n].kind \in UnaryKinds => n - 1 \in 1 .. n
    BY <1>0, OperandsBefore
  <2> QED
    BY <1>0, <2>1
<1>3. b[n].kind \in BinaryKinds =>
        d2[n - 1] = d[n - 1] /\ b2[n - 1] = b[n - 1] /\ d2[b[n - 1].first - 1] = d[b[n - 1].first - 1]
  <2>1. b[n].kind \in BinaryKinds => n - 1 \in 1 .. n /\ b[n - 1].first - 1 \in 1 .. n
    BY <1>0, OperandsBefore
  <2> QED
    BY <1>0, <2>1
<1> QED
  BY <1>1, <1>2, <1>3 DEF Spanned

(* More nodes are finished, with tokens behind that of a waiting function. *)
LEMMA PlacedLater ==
  ASSUME NEW f, NEW t, NEW d, NEW i, Placed(f, t, d, i), Len(t) \in Nat, NEW t2, NEW d2, Len(t2) \in Nat,
         Len(t) <= Len(t2), f[i].at \in Nat, \A m \in 1 .. Len(t2) : t2[m] \in Nat,
         \A m \in 1 .. Len(t) : t2[m] = t[m] /\ (t[m] < f[i].at => d2[m] = d[m]),
         \A m \in 1 .. Len(t2) : m > Len(t) => f[i].at < t2[m]
  PROVE  Placed(f, t2, d2, i)
<1> SUFFICES ASSUME f[i].task = "binary", NEW l \in 1 .. Len(t2), LastBefore(t2, f[i].at, l)
             PROVE  d2[l].lo = Begin(f, i + 1) /\ d2[l].hi = f[i].at - 1
  BY DEF Placed
<1>1. t2[l] < f[i].at /\ t2[l] \in Nat
  BY DEF LastBefore
<1>2. l \in 1 .. Len(t)
  <2>1. ~(l > Len(t))
    BY <1>1
  <2> QED
    BY <2>1
<1>3. LastBefore(t, f[i].at, l)
  <2>1. \A m \in 1 .. Len(t) : m \in 1 .. Len(t2) /\ t2[m] = t[m]
    OBVIOUS
  <2> QED
    BY <1>2, <2>1 DEF LastBefore
<1>4. d2[l] = d[l]
  BY <1>1, <1>2
<1> QED
  BY <1>2, <1>3, <1>4 DEF Placed

(* Functions are called above a waiting one, or return from above it.      *)
LEMMA PlacedBelow ==
  ASSUME NEW f, NEW f2, NEW k \in Nat, Below(f, f2, k), Len(f) \in Nat, NEW t, NEW d,
         NEW i \in 1 .. Len(f), i + 1 \in 1 .. Len(f)
  PROVE  /\ Begin(f2, i + k) = Begin(f, i)
         /\ Placed(f, t, d, i) <=> Placed(f2, t, d, i + k)
<1>1. Len(f2) = Len(f) + k /\ f2[i + k] = f[i] /\ \A j \in 1 .. Len(f) : f2[j + k] = f[j]
  BY DEF Below
<1>2. Begin(f2, i + k) = Begin(f, i)
  <2>1. f2[(i + 1) + k] = f[i + 1] /\ (i + 1) + k = (i + k) + 1
    BY <1>1
  <2>2. i # Len(f) /\ i + k # Len(f2)
    BY <1>1
  <2> QED
    BY <2>1, <2>2 DEF Begin
<1>3. Begin(f2, (i + k) + 1) = Begin(f, i + 1)
  <2>1. (i + k) + 1 = (i + 1) + k
    OBVIOUS
  <2>2. CASE i + 1 = Len(f)
    BY <1>1, <2>1, <2>2 DEF Begin
  <2>3. CASE i + 1 # Len(f)
    <3>1. (i + 1) + 1 \in 1 .. Len(f) /\ ((i + 1) + 1) + k = ((i + k) + 1) + 1
      BY <2>3
    <3>2. f2[((i + k) + 1) + 1] = f[(i + 1) + 1]
      BY <1>1, <3>1
    <3>3. (i + k) + 1 # Len(f2)
      BY <1>1, <2>3
    <3> QED
      BY <2>3, <3>2, <3>3 DEF Begin
  <2> QED
    BY <2>2, <2>3
<1> QED
  BY <1>1, <1>2, <1>3 DEF Placed

LEMMA PlacedReplaced ==
  ASSUME NEW f, NEW f2, NEW e, IsReplaced(f2, f, e), Len(f) \in Nat
  PROVE  /\ \A i \in 1 .. Len(f) : Begin(f2, i) = Begin(f, i)
         /\ \A t, d : \A i \in 2 .. Len(f) : i + 1 \in 1 .. Len(f) =>
              (Placed(f, t, d, i) <=> Placed(f2, t, d, i))
<1>1. Len(f2) = Len(f) /\ \A i \in 1 .. Len(f) : i > 1 => f2[i] = f[i]
  BY DEF IsReplaced
<1>2. ASSUME NEW i \in 1 .. Len(f) PROVE Begin(f2, i) = Begin(f, i)
  <2>1. i # Len(f) => i + 1 \in 1 .. Len(f) /\ i + 1 > 1
    OBVIOUS
  <2> QED
    BY <1>1, <2>1 DEF Begin
<1>3. ASSUME NEW t, NEW d, NEW i \in 2 .. Len(f), i + 1 \in 1 .. Len(f)
      PROVE  Placed(f, t, d, i) <=> Placed(f2, t, d, i)
  BY <1>1, <1>2, <1>3 DEF Placed
<1> QED
  BY <1>2, <1>3

(* A function that waits is called by another one.                         *)
HaveCallers(f) == \A i \in 1 .. Len(f) : f[i].task \in Waits => i + 1 \in 1 .. Len(f)

LEMMA CallersFound ==
  ASSUME NEW f, NEW c, NEW b, NEW t, NEW g, NEW x, NEW p, Underway(f, c, b, t, g, x, p), Len(f) \in Nat
  PROVE  HaveCallers(f)
<1> SUFFICES ASSUME NEW i \in 1 .. Len(f), f[i].task \in Waits PROVE i + 1 \in 1 .. Len(f)
  BY DEF HaveCallers
<1>1. i < Len(f)
  BY DEF Underway, Waiting
<1> QED
  BY <1>1

LEMMA PlacedDropped ==
  ASSUME NEW f, NEW f2, Below(f2, f, 1), Len(f2) \in Nat, NEW t, NEW d, AllPlaced(f, t, d), HaveCallers(f)
  PROVE  AllPlaced(f2, t, d)
<1> SUFFICES ASSUME NEW i \in 1 .. Len(f2), f2[i].task \in Waits PROVE Placed(f2, t, d, i)
  BY DEF AllPlaced
<1>1. Len(f) = Len(f2) + 1 /\ i + 1 \in 1 .. Len(f) /\ f[i + 1] = f2[i]
  BY DEF Below
<1>2. i + 1 \in 1 .. Len(f2) /\ Placed(f, t, d, i + 1)
  BY <1>1 DEF AllPlaced, HaveCallers
<1> QED
  BY <1>2, PlacedBelow

LEMMA PlacedRaised ==
  ASSUME NEW f, NEW f2, NEW y, NEW z, IsRaised(f2, f, y, z), Len(f) \in Nat, NEW t, NEW d,
         AllPlaced(f, t, d), HaveCallers(f), y.task \notin Waits, Placed(f2, t, d, 2)
  PROVE  AllPlaced(f2, t, d)
<1> SUFFICES ASSUME NEW i \in 1 .. Len(f2), f2[i].task \in Waits PROVE Placed(f2, t, d, i)
  BY DEF AllPlaced
<1>1. Below(f, f2, 2) /\ f2[1] = y /\ f2[2] = z
  BY DEF IsRaised
<1>2. Len(f2) = Len(f) + 2 /\ \A j \in 1 .. Len(f) : f2[j + 2] = f[j]
  BY <1>1 DEF Below
<1>3. CASE i = 1
  BY <1>1, <1>3
<1>4. CASE i = 2
  BY <1>4
<1>5. CASE i # 1 /\ i # 2
  <2>1. PICK j \in 1 .. Len(f) : j + 2 = i
    <3>1. i - 2 \in 1 .. Len(f) /\ (i - 2) + 2 = i
      BY <1>2, <1>5
    <3> QED
      BY <3>1
  <2>2. f[j].task \in Waits
    BY <1>2, <2>1
  <2>3. j + 1 \in 1 .. Len(f) /\ Placed(f, t, d, j)
    BY <2>2 DEF AllPlaced, HaveCallers
  <2> QED
    BY <1>1, <2>1, <2>3, PlacedBelow
<1> QED
  BY <1>3, <1>4, <1>5

LEMMA PlacedSwapped ==
  ASSUME NEW f, NEW f2, NEW e, IsReplaced(f2, f, e), Len(f) \in Nat, NEW t, NEW d,
         AllPlaced(f, t, d), HaveCallers(f), e.task \notin Waits
  PROVE  AllPlaced(f2, t, d) /\ HaveCallers(f2)
<1>1. Len(f2) = Len(f) /\ f2[1] = e /\ \A i \in 1 .. Len(f) : i > 1 => f2[i] = f[i]
  BY DEF IsReplaced
<1>2. ASSUME NEW i \in 1 .. Len(f), f2[i].task \in Waits
      PROVE  Placed(f2, t, d, i) /\ i + 1 \in 1 .. Len(f)
  <2>1. i \in 2 .. Len(f) /\ f2[i] = f[i]
    BY <1>1, <1>2
  <2>2. i + 1 \in 1 .. Len(f) /\ Placed(f, t, d, i)
    BY <1>2, <2>1 DEF AllPlaced, HaveCallers
  <2> QED
    BY <2>1, <2>2, PlacedReplaced
<1> QED
  BY <1>1, <1>2 DEF AllPlaced, HaveCallers

(* A node is added: the spans of the others stay.                          *)
WithSpan(d, n, s) == [m \in 1 .. n |-> IF m = n THEN s ELSE d[m]]

LEMMA NodeLaid ==
  ASSUME NEW b, NEW t, NEW g, NEW p, NEW n, NEW e, NEW a, NEW b2, NEW t2, NEW p2,
         Adds(b, t, g, p, n, e, a, b2, t2, p2), NEW x, Finished(b, t, g, x, p),
         Len(b) \in Nat, NEW d, AllSpanned(b, t, g, x, d),
         NEW s, NEW d2, d2 = WithSpan(d, n, s),
         Spanned(b2, t2, g, x, d2, n)
  PROVE  /\ AllSpanned(b2, t2, g, x, d2)
         /\ d2[n] = s /\ \A m \in 1 .. Len(b) : d2[m] = d[m]
<1>0. g \subseteq 1 .. Len(b) /\ \A m \in 1 .. Len(b) : Spanned(b, t, g, x, d, m)
  BY DEF AllSpanned
<1>1. /\ n = Len(b) + 1 /\ Len(b2) = n /\ n \in Nat
      /\ \A m \in 1 .. Len(b) : b2[m] = b[m] /\ t2[m] = t[m]
  BY DEF Adds
<1>2. d2[n] = s /\ \A m \in 1 .. Len(b) : d2[m] = d[m]
  BY <1>1 DEF WithSpan
<1>3. ASSUME NEW m \in 1 .. Len(b) PROVE Spanned(b2, t2, g, x, d2, m)
  <2>1. m \in Nat \ {0} /\ (\A k \in 1 .. m : k \in 1 .. Len(b))
    BY <1>1
  <2>2. FormedUpTo(b, m)
    BY <2>1 DEF Finished, FormedUpTo
  <2>3. SameUpTo(b, t, d, b2, t2, d2, m)
    BY <1>1, <1>2, <2>1 DEF SameUpTo
  <2>4. Spanned(b, t, g, x, d, m)
    BY <1>0
  <2> QED
    BY <2>1, <2>2, <2>3, <2>4, SpannedLater
<1>4. (\A m \in 1 .. Len(b2) : m = n \/ m \in 1 .. Len(b)) /\ \A m \in 1 .. Len(b) : m \in 1 .. Len(b2)
  BY <1>1
<1>5. \A m \in 1 .. Len(b2) : Spanned(b2, t2, g, x, d2, m)
  BY <1>3, <1>4
<1> QED
  BY <1>0, <1>2, <1>4, <1>5 DEF AllSpanned

(* The parser's functions, and what they were given, one by one.           *)
Lies == \E d : Laid(frames, built, token, grouped, input, position, d)

LEMMA LiteralLies ==
  ASSUME ParserIInv, Lies, Literal
  PROVE  Lies'
<1>1. PICK p, n, e, b2, t2, f2, o :
        /\ p = position /\ n = Len(built) + 1
        /\ e = LiteralNode(input[position], n)
        /\ b2 = Append(built, e) /\ t2 = Append(token, p)
        /\ o = OperatorsOf(Top.precedence)
        /\ f2 = <<o>> \o Tail(frames)
  OBVIOUS
<1>2. /\ At("operand") /\ Current \in Literals
      /\ built' = b2 /\ token' = t2 /\ frames' = f2
      /\ input' = input /\ state' = "parse" /\ grouped' = grouped
  BY <1>1 DEF Literal, At, Rest
<1>3. p \in 1 .. Len(input) /\ Current = input[p].kind /\ position' = p + 1
  <2>1. Current # "SP_EOF"
    BY <1>2 DEF Literals
  <2> QED
    BY <1>1, <2>1, Found, PositionMoves DEF Literal
<1>4. PICK c : Forest(frames, c, built, token, grouped, input, position)
  BY <1>2 DEF ParserIInv, Parses, At
<1>5. /\ IsSeq(frames) /\ frames # <<>> /\ Len(frames) \in Nat /\ Len(frames) > 0 /\ 1 \in 1 .. Len(frames)
      /\ frames[1].task = "operand"
      /\ Underway(frames, c, built, token, grouped, input, position)
  BY <1>2, <1>4, FoundFrames
<1>6. PICK d : Laid(frames, built, token, grouped, input, position, d)
  BY DEF Lies
<1>7. /\ Len(input) \in Nat /\ Len(built) \in Nat /\ Len(token) = Len(built) /\ n \in Nat /\ p \in Nat
      /\ Finished(built, token, grouped, input, position)
      /\ \A m \in 1 .. Len(token) : token[m] \in 1 .. Len(input) /\ token[m] < p
  BY <1>1, <1>3, Found
<1>8. Adds(built, token, grouped, position, n, e, p, b2, t2, p + 1)
  <2>1. b2 = Append(built, e) /\ t2 = Append(token, p) /\ p + 1 \in Nat /\ position <= p + 1
    BY <1>1, <1>7
  <2> QED
    BY <1>1, <2>1, NodeAdded
<1>9. /\ Len(b2) = n /\ Len(t2) = n /\ b2[n] = e /\ t2[n] = p
      /\ \A m \in 1 .. Len(built) : b2[m] = built[m] /\ t2[m] = token[m]
  BY <1>8 DEF Adds
<1>10. e.kind \notin UnaryKinds /\ e.kind \notin BinaryKinds
  <2>1. e.kind \in LiteralKinds
    BY <1>1, <1>2, <1>3 DEF LiteralNode, Literals, LiteralKinds
  <2> QED
    BY <2>1, NodeKindsApart
<1>11. PICK s, d2 : s = [lo |-> p, hi |-> p, depth |-> 0] /\ d2 = WithSpan(d, n, s)
  OBVIOUS
<1>12. s.lo = p /\ s.hi = p /\ s.depth = 0
  BY <1>11
<1>13. AllSpanned(built, token, grouped, input, d)
  BY <1>6 DEF Laid
<1>14. Spanned(b2, t2, grouped, input, d2, n)
  <2>1. d2[n] = s /\ n \notin grouped
    BY <1>1, <1>7, <1>11, <1>13 DEF AllSpanned, WithSpan
  <2>2. d2[n].lo + d2[n].depth = p /\ d2[n].hi - d2[n].depth = p
    BY <1>7, <1>12, <2>1
  <2> QED
    BY <1>3, <1>7, <1>9, <1>10, <1>12, <2>1, <2>2 DEF Spanned
<1>15. /\ AllSpanned(b2, t2, grouped, input, d2)
       /\ d2[n] = s /\ \A m \in 1 .. Len(built) : d2[m] = d[m]
  BY <1>7, <1>8, <1>11, <1>13, <1>14, NodeLaid
<1>16. IsReplaced(f2, frames, o) /\ o.task = "operators" /\ o.task \notin Waits
  BY <1>1, <1>5, Replaced DEF OperatorsOf, Frame, Waits
<1>17. AllPlaced(frames, t2, d2)
  <2> SUFFICES ASSUME NEW i \in 1 .. Len(frames), frames[i].task \in Waits PROVE Placed(frames, t2, d2, i)
    BY DEF AllPlaced
  <2>1. frames[i].at \in 1 .. Len(input) /\ frames[i].at < p
    BY <1>1, <1>5 DEF Underway, Waiting
  <2>2. Placed(frames, token, d, i)
    BY <1>6 DEF Laid, AllPlaced
  <2>3. \A m \in 1 .. Len(t2) : t2[m] \in Nat /\ (m > Len(token) => frames[i].at < t2[m])
    <3>1. \A m \in 1 .. n : (m = n /\ t2[m] = p) \/ (m \in 1 .. Len(token) /\ t2[m] = token[m])
      BY <1>1, <1>7, <1>9
    <3>2. \A m \in 1 .. Len(token) : token[m] \in Nat /\ ~(m > Len(token))
      BY <1>7
    <3> QED
      BY <1>7, <1>9, <2>1, <3>1, <3>2
  <2>4. \A m \in 1 .. Len(token) : t2[m] = token[m] /\ (token[m] < frames[i].at => d2[m] = d[m])
    BY <1>7, <1>9, <1>15
  <2>5. Len(token) \in Nat /\ Len(t2) \in Nat /\ Len(token) <= Len(t2) /\ frames[i].at \in Nat
    BY <1>1, <1>7, <1>9, <2>1
  <2> QED
    BY <2>2, <2>3, <2>4, <2>5, PlacedLater
<1>18. AllPlaced(f2, t2, d2)
  BY <1>5, <1>16, <1>17, CallersFound, PlacedSwapped
<1>19. Reached(f2, d2, Len(b2), p + 1)
  <2>1. p = Begin(frames, 1)
    BY <1>1, <1>5, <1>6 DEF Laid, Reached, Start, Waits
  <2>2. Begin(f2, 1) = Begin(frames, 1) /\ Len(f2) = Len(frames) /\ f2[1] = o
    BY <1>5, <1>16, PlacedReplaced DEF IsReplaced
  <2>3. Start(f2) = p /\ f2[1].task = "operators"
    BY <1>5, <1>16, <2>1, <2>2 DEF Start
  <2>4. (p + 1) - 1 = p
    BY <1>7
  <2> QED
    BY <1>9, <1>12, <1>15, <2>3, <2>4 DEF Reached
<1>20. Laid(f2, b2, t2, grouped, input, p + 1, d2)
  BY <1>15, <1>18, <1>19 DEF Laid
<1> QED
  BY <1>2, <1>3, <1>20 DEF Lies

LEMMA PrefixLies ==
  ASSUME ParserIInv, Lies, _unary \/ _group
  PROVE  Lies'
<1>1. PICK p, y, z, e :
        /\ p = position
        /\ y = Operand(IF Current = "OP_PAREN_OPEN" THEN PRECEDENCE_ASSIGNMENT ELSE PRECEDENCE_UNARY)
        /\ z = Frame(IF Current = "OP_PAREN_OPEN" THEN "group" ELSE "unary", 0, p, Len(built) + 1)
        /\ e = OperatorsOf(Top.precedence)
  OBVIOUS
<1>2. PICK q, f2 : q = <<e>> \o Tail(frames) /\ f2 = <<y, z, e>> \o Tail(frames)
  OBVIOUS
<1>3. /\ At("operand") /\ Current \in {"KW_NOT", "OP_SUBTRACTION", "OP_PAREN_OPEN"}
      /\ built' = built /\ token' = token /\ frames' = f2
      /\ input' = input /\ grouped' = grouped /\ _advance
  BY <1>1, <1>2 DEF _unary, _group, Rest
<1>4. p \in 1 .. Len(input) /\ position' = p + 1 /\ p \in Nat
  BY <1>1, <1>3, Found, PositionMoves
<1>5. PICK c : Forest(frames, c, built, token, grouped, input, position)
  BY <1>3 DEF ParserIInv, Parses, At
<1>6. /\ IsSeq(frames) /\ frames # <<>> /\ Len(frames) \in Nat /\ Len(frames) > 0 /\ 1 \in 1 .. Len(frames)
      /\ frames[1].task = "operand"
      /\ Underway(frames, c, built, token, grouped, input, position)
  BY <1>3, <1>5, FoundFrames
<1>7. PICK d : Laid(frames, built, token, grouped, input, position, d)
  BY DEF Lies
<1>8. IsReplaced(q, frames, e)
  BY <1>2, <1>6, Replaced
<1>9. IsRaised(f2, q, y, z)
  BY <1>2, <1>6, <1>8, Opened
<1>10. /\ e.task \notin Waits /\ y.task = "operand" /\ y.task \notin Waits /\ z.task # "binary" /\ z.at = p
  BY <1>1 DEF Operand, OperatorsOf, Frame, Waits
<1>11. AllPlaced(q, token, d) /\ HaveCallers(q) /\ Len(q) = Len(frames) /\ Begin(q, 1) = Begin(frames, 1)
  <2>1. AllPlaced(frames, token, d)
    BY <1>7 DEF Laid
  <2>2. HaveCallers(frames)
    BY <1>6, CallersFound
  <2>3. AllPlaced(q, token, d) /\ HaveCallers(q)
    BY <1>6, <1>8, <1>10, <2>1, <2>2, PlacedSwapped
  <2>4. Len(q) = Len(frames) /\ Begin(q, 1) = Begin(frames, 1)
    BY <1>6, <1>8, PlacedReplaced DEF IsReplaced
  <2> QED
    BY <2>3, <2>4
<1>12. p = Begin(frames, 1)
  BY <1>1, <1>6, <1>7 DEF Laid, Reached, Start, Waits
<1>13. Len(f2) = Len(q) + 2 /\ f2[1] = y /\ f2[2] = z /\ \A i \in 1 .. Len(q) : f2[i + 2] = q[i]
  BY <1>9 DEF IsRaised, Below
<1>14. Begin(f2, 2 + 1) = Begin(q, 1)
  <2>1. 2 + 1 = Len(f2) <=> 1 = Len(q)
    BY <1>6, <1>11, <1>13
  <2>2. 1 # Len(q) => 2 \in 1 .. Len(q) /\ (2 + 1) + 1 = 2 + 2
    BY <1>6, <1>11
  <2>3. 1 # Len(q) => f2[(2 + 1) + 1] = q[1 + 1]
    <3>1. 1 + 1 = 2
      OBVIOUS
    <3> QED
      BY <1>13, <2>2, <3>1
  <2> QED
    BY <2>1, <2>3 DEF Begin
<1>15. Placed(f2, token, d, 2)
  BY <1>10, <1>11, <1>12, <1>13, <1>14 DEF Placed
<1>16. AllPlaced(f2, token, d)
  BY <1>6, <1>9, <1>10, <1>11, <1>15, PlacedRaised
<1>17. Reached(f2, d, Len(built), p + 1)
  <2>1. Len(f2) > 0 /\ 1 # Len(f2) /\ 1 + 1 = 2
    BY <1>6, <1>11, <1>13
  <2>2. Start(f2) = p + 1
    BY <1>10, <1>13, <2>1 DEF Start, Begin
  <2> QED
    BY <1>10, <1>13, <2>1, <2>2 DEF Reached
<1>18. Laid(f2, built, token, grouped, input, p + 1, d)
  BY <1>7, <1>16, <1>17 DEF Laid
<1> QED
  BY <1>3, <1>4, <1>18 DEF Lies

LEMMA BinaryLies ==
  ASSUME ParserIInv, Lies, _binary
  PROVE  Lies'
<1>1. PICK p, y, z, f2 :
        /\ p = position /\ y = RightOperand(Current)
        /\ z = Frame("binary", 0, p, built[Len(built)].first)
        /\ f2 = <<y, z>> \o frames
  OBVIOUS
<1>2. /\ At("operators") /\ HasInfix(Current)
      /\ built' = built /\ token' = token /\ frames' = f2
      /\ input' = input /\ grouped' = grouped /\ _advance
  BY <1>1 DEF _binary
<1>3. /\ p \in 1 .. Len(input) /\ position' = p + 1 /\ p \in Nat
  <2>1. Current # "SP_EOF"
    BY <1>2 DEF HasInfix, Operators
  <2> QED
    BY <1>1, <1>2, <2>1, Found, PositionMoves
<1>4. PICK c : Forest(frames, c, built, token, grouped, input, position)
  BY <1>2 DEF ParserIInv, Parses, At
<1>5. /\ IsSeq(frames) /\ Len(frames) \in Nat /\ Len(frames) > 0 /\ frames[1].task = "operators"
      /\ Underway(frames, c, built, token, grouped, input, position)
  BY <1>2, <1>4, FoundFrames
<1>6. PICK d : Laid(frames, built, token, grouped, input, position, d)
  BY DEF Lies
<1>7. IsRaised(f2, frames, y, z)
  BY <1>1, <1>5, Raised
<1>8. /\ y.task = "operand" /\ y.task \notin Waits /\ z.task = "binary" /\ z.at = p
  BY <1>1 DEF RightOperand, Operand, Frame, Waits
<1>9. Len(f2) = Len(frames) + 2 /\ f2[1] = y /\ f2[2] = z /\ \A i \in 1 .. Len(frames) : f2[i + 2] = frames[i]
  BY <1>7 DEF IsRaised, Below
<1>10. Begin(f2, 2 + 1) = Begin(frames, 1)
  <2>1. 2 + 1 = Len(f2) <=> 1 = Len(frames)
    <3>1. PICK k, l : k = Len(f2) /\ l = Len(frames)
      OBVIOUS
    <3>2. k = l + 2 /\ l \in Nat
      BY <1>5, <1>9, <3>1
    <3>3. 2 + 1 = k <=> 1 = l
      BY <3>2
    <3> QED
      BY <3>1, <3>3
  <2>2. 1 # Len(frames) => 2 \in 1 .. Len(frames) /\ (2 + 1) + 1 = 2 + 2
    BY <1>5
  <2>3. 1 # Len(frames) => f2[(2 + 1) + 1] = frames[1 + 1]
    <3>1. 1 + 1 = 2
      OBVIOUS
    <3> QED
      BY <1>9, <2>2, <3>1
  <2> QED
    BY <2>1, <2>3 DEF Begin
<1>11. d[Len(built)].lo = Begin(frames, 1) /\ d[Len(built)].hi = p - 1
  BY <1>1, <1>5, <1>6 DEF Laid, Reached, Start, Waits
<1>12. Placed(f2, token, d, 2)
  <2> SUFFICES ASSUME NEW l \in 1 .. Len(token), LastBefore(token, p, l)
               PROVE  d[l].lo = Begin(f2, 2 + 1) /\ d[l].hi = p - 1
    BY <1>8, <1>9 DEF Placed
  <2>1. l = Len(built)
    <3>1. /\ Len(built) \in Nat /\ Len(token) = Len(built)
          /\ \A m \in 1 .. Len(token) : token[m] \in Nat /\ token[m] < p
      BY <1>1, <1>3, Found
    <3>2. ~(Len(built) > l)
      <4>1. Len(built) > l => p < token[Len(built)]
        BY <3>1 DEF LastBefore
      <4>2. Len(built) > l => token[Len(built)] \in Nat /\ token[Len(built)] < p
        BY <3>1
      <4> QED
        BY <1>3, <4>1, <4>2
    <3> QED
      BY <3>1, <3>2
  <2> QED
    BY <1>10, <1>11, <2>1
<1>13. AllPlaced(f2, token, d)
  <2>1. AllPlaced(frames, token, d)
    BY <1>6 DEF Laid
  <2>2. HaveCallers(frames)
    BY <1>5, CallersFound
  <2> QED
    BY <1>5, <1>7, <1>8, <1>12, <2>1, <2>2, PlacedRaised
<1>14. Reached(f2, d, Len(built), p + 1)
  <2>1. Len(f2) > 0 /\ 1 # Len(f2) /\ 1 + 1 = 2
    BY <1>5, <1>9
  <2>2. Start(f2) = p + 1
    BY <1>8, <1>9, <2>1 DEF Start, Begin
  <2> QED
    BY <1>8, <1>9, <2>1, <2>2 DEF Reached
<1>15. Laid(f2, built, token, grouped, input, p + 1, d)
  BY <1>6, <1>13, <1>14 DEF Laid
<1> QED
  BY <1>2, <1>3, <1>15 DEF Lies

LEMMA EndOfOperatorsLies ==
  ASSUME ParserIInv, Lies, EndOfOperators
  PROVE  Lies'
<1>1. PICK f2 : f2 = Tail(frames)
  OBVIOUS
<1>2. /\ At("operators")
      /\ built' = built /\ token' = token /\ frames' = f2 /\ position' = position
      /\ input' = input /\ grouped' = grouped
  BY <1>1 DEF EndOfOperators, Rest
<1>3. PICK c : Forest(frames, c, built, token, grouped, input, position)
  BY <1>2 DEF ParserIInv, Parses, At
<1>4. /\ IsSeq(frames) /\ frames # <<>> /\ Len(frames) \in Nat /\ Len(frames) > 0 /\ 1 \in 1 .. Len(frames)
      /\ frames[1].task = "operators"
      /\ Underway(frames, c, built, token, grouped, input, position)
  BY <1>2, <1>3, FoundFrames
<1>5. IsSeq(f2) /\ Below(f2, frames, 1) /\ Len(f2) \in Nat
  BY <1>1, <1>4, Dropped, SeqLength
<1>6. Len(frames) = Len(f2) + 1 /\ \A i \in 1 .. Len(f2) : frames[i + 1] = f2[i]
  BY <1>5 DEF Below
<1>7. PICK d : Laid(frames, built, token, grouped, input, position, d)
  BY DEF Lies
<1>8. AllPlaced(f2, token, d)
  <2>1. AllPlaced(frames, token, d)
    BY <1>7 DEF Laid
  <2>2. HaveCallers(frames)
    BY <1>4, CallersFound
  <2> QED
    BY <1>5, <2>1, <2>2, PlacedDropped
<1>9. d[Len(built)].lo = Begin(frames, 1) /\ d[Len(built)].hi = position - 1
  BY <1>4, <1>7 DEF Laid, Reached, Start, Waits
<1>10. Reached(f2, d, Len(built), position)
  <2>1. CASE Len(f2) = 0
    <3>1. Begin(frames, 1) = 1
      BY <1>6, <2>1 DEF Begin
    <3> QED
      BY <1>9, <2>1, <3>1 DEF Reached, Start
  <2>2. CASE Len(f2) # 0
    <3>1. 1 \in 1 .. Len(f2) /\ 1 < Len(frames)
      BY <1>5, <1>6, <2>2
    <3>2. frames[1 + 1] = f2[1]
      BY <1>6, <3>1
    <3>3. f2[1].task \in Waits
      <4>1. Called(frames, c, input, 1)
        BY <1>4 DEF Underway, Calls
      <4> QED
        BY <3>1, <3>2, <4>1 DEF Called
    <3>4. Begin(frames, 1) = f2[1].at + 1
      BY <3>1, <3>2 DEF Begin
    <3>5. Start(f2) = f2[1].at + 1 /\ f2[1].task # "operand"
      BY <2>2, <3>3 DEF Start, Waits
    <3> QED
      BY <1>9, <3>4, <3>5 DEF Reached
  <2> QED
    BY <2>1, <2>2
<1>11. Laid(f2, built, token, grouped, input, position, d)
  BY <1>7, <1>8, <1>10 DEF Laid
<1> QED
  BY <1>2, <1>11 DEF Lies

LEMMA NodeLies ==
  ASSUME ParserIInv, NodesMade, Lies, Node
  PROVE  Lies'
<1>1. PICK f2, n, a, kind, e, b2, t2 :
        /\ f2 = Tail(frames) /\ n = Len(built) + 1 /\ a = frames[1].at
        /\ kind = (IF frames[1].task = "unary" THEN UnaryKind(input[a].kind) ELSE BinaryKind(input[a].kind))
        /\ e = OperatorNode(kind, a, frames[1].first)
        /\ b2 = Append(built, e) /\ t2 = Append(token, a)
  OBVIOUS
<1>2. At(Top.task) /\ state = "parse"
  BY DEF Node, At
<1>3. PICK c : Forest(frames, c, built, token, grouped, input, position)
  BY <1>2 DEF ParserIInv, Parses
<1>4. /\ IsSeq(frames) /\ frames # <<>> /\ Len(frames) \in Nat /\ 1 \in 1 .. Len(frames)
      /\ Top = frames[1] /\ frames[1].task \in {"unary", "binary"}
      /\ Underway(frames, c, built, token, grouped, input, position)
  BY <1>2, <1>3, FoundFrames DEF Node
<1>5. /\ built' = b2 /\ token' = t2 /\ frames' = f2 /\ position' = position
      /\ input' = input /\ grouped' = grouped
  BY <1>1, <1>2, <1>4 DEF Node, Rest
<1>6. Adds(built, token, grouped, position, n, e, a, b2, t2, position)
  <2>1. position \in Nat /\ position <= position
    BY Found
  <2> QED
    BY <1>1, <2>1, NodeAdded
<1>7. PICK last : last = Len(built)
  OBVIOUS
<1>8. /\ Len(frames) > 1 /\ frames[2].task = "operators"
      /\ c[1] \in 0 .. last /\ c[1] < last /\ built[last].first = c[1] + 1
      /\ a \in 1 .. Len(input) /\ a < position
      /\ Divides(frames, c, token, 1)
      /\ frames[1].task = "binary" => c[1] > 0
  BY <1>1, <1>3, <1>7, OperandsFound
<1>9. /\ Len(input) \in Nat /\ last \in Nat /\ Len(token) = last /\ position \in Nat /\ position <= Len(input) + 1
      /\ Finished(built, token, grouped, input, position)
      /\ \A m \in 1 .. Len(token) : token[m] \in Nat /\ token[m] < position
  BY <1>7, Found
<1>10. /\ n \in Nat /\ n = last + 1 /\ n - 1 = last /\ Len(b2) = n /\ Len(t2) = n /\ b2[n] = e /\ t2[n] = a
       /\ \A m \in 1 .. last : b2[m] = built[m] /\ t2[m] = token[m]
  BY <1>1, <1>6, <1>7, <1>9 DEF Adds
<1>11. IsSeq(f2) /\ Below(f2, frames, 1) /\ Len(f2) \in Nat
  BY <1>1, <1>4, Dropped, SeqLength
<1>12. Len(frames) = Len(f2) + 1 /\ f2[1] = frames[2] /\ Len(f2) > 0
  <2>1. Len(frames) = Len(f2) + 1 /\ \A i \in 1 .. Len(f2) : frames[i + 1] = f2[i]
    BY <1>11 DEF Below
  <2>2. 1 \in 1 .. Len(f2) /\ 1 + 1 = 2
    BY <1>8, <1>11, <2>1
  <2>3. f2[1] = frames[2]
    BY <2>1, <2>2
  <2> QED
    BY <2>1, <2>2, <2>3
<1>13. PICK d : Laid(frames, built, token, grouped, input, position, d)
  BY DEF Lies
<1>14. AllSpanned(built, token, grouped, input, d) /\ AllPlaced(frames, token, d)
  BY <1>13 DEF Laid
<1>15. /\ Placed(frames, token, d, 1)
       /\ d[last].lo = a + 1 /\ d[last].hi = position - 1
  BY <1>1, <1>4, <1>7, <1>13, <1>14 DEF AllPlaced, Laid, Reached, Start, Waits
<1>16. PICK from : from = IF frames[1].task = "binary" THEN d[c[1]].lo ELSE a
  OBVIOUS
<1>17. from = Begin(frames, 2)
  <2>1. 1 + 1 = 2
    OBVIOUS
  <2>2. CASE frames[1].task = "binary"
    <3>1. c[1] \in 1 .. Len(token) /\ LastBefore(token, a, c[1])
      <4>1. c[1] \in 1 .. Len(token) /\ c[1] \in 1 .. c[1]
        BY <1>8, <1>9, <2>2
      <4> QED
        BY <1>1, <1>8, <4>1 DEF Divides, LastBefore
    <3> QED
      BY <1>1, <1>15, <1>16, <2>1, <2>2, <3>1 DEF Placed
  <2>3. CASE frames[1].task # "binary"
    BY <1>1, <1>15, <1>16, <2>1, <2>3 DEF Placed
  <2> QED
    BY <2>2, <2>3
<1>18. frames[1].task = "binary" => d[c[1]].hi = a - 1 /\ from \in 1 .. Len(input)
  <2> SUFFICES ASSUME frames[1].task = "binary" PROVE d[c[1]].hi = a - 1 /\ from \in 1 .. Len(input)
    OBVIOUS
  <2>1. c[1] \in 1 .. Len(token) /\ LastBefore(token, a, c[1])
    <3>1. c[1] \in 1 .. Len(token) /\ c[1] \in 1 .. c[1]
      BY <1>8, <1>9
    <3> QED
      BY <1>1, <1>8, <3>1 DEF Divides, LastBefore
  <2>2. Spanned(built, token, grouped, input, d, c[1])
    BY <1>7, <1>9, <1>14, <2>1 DEF AllSpanned
  <2> QED
    BY <1>1, <1>15, <1>16, <2>1, <2>2 DEF Placed, Spanned
<1>19. PICK s, d2 : s = [lo |-> from, hi |-> position - 1, depth |-> 0] /\ d2 = WithSpan(d, n, s)
  OBVIOUS
<1>20. s.lo = from /\ s.hi = position - 1 /\ s.depth = 0 /\ d2[n] = s /\ \A m \in 1 .. last : d2[m] = d[m]
  <2>1. n \in 1 .. n /\ \A m \in 1 .. last : m \in 1 .. n /\ m # n
    BY <1>9, <1>10
  <2>2. d2[n] = s /\ \A m \in 1 .. last : d2[m] = d[m]
    BY <1>19, <2>1 DEF WithSpan
  <2> QED
    BY <1>19, <2>2
<1>21. e.kind = kind /\ e.kind \notin LiteralKinds
       /\ (e.kind \in UnaryKinds => frames[1].task = "unary") /\ (e.kind \in BinaryKinds => frames[1].task = "binary")
  <2>1. e.kind = kind
    BY <1>1 DEF OperatorNode
  <2>2. frames[1].task = "binary" => input[a].kind \in Operators
    BY <1>1, <1>3, OperandsFound
  <2> QED
    BY <1>1, <1>4, <2>1, <2>2, KindsOfOperators, NodeKindsApart
<1>22. Spanned(b2, t2, grouped, input, d2, n)
  <2>1. n \notin grouped
    BY <1>7, <1>9, <1>10, <1>14 DEF AllSpanned
  <2>2. from \in 1 .. Len(input) /\ position - 1 \in 1 .. Len(input) /\ a \in Nat
    BY <1>4, <1>8, <1>9, <1>16, <1>18
  <2>3. d2[n].lo + d2[n].depth = from /\ d2[n].hi - d2[n].depth = position - 1
    BY <1>9, <1>20, <2>2
  <2>4. d2[n].depth \in Nat /\ ~(d2[n].depth > 0)
        /\ (\A i \in d2[n].lo .. from - 1 : FALSE) /\ (\A i \in (position - 1) + 1 .. d2[n].hi : FALSE)
    BY <1>9, <1>20, <2>2
  <2>5. d2[n - 1].lo = a + 1 /\ d2[n - 1].hi = position - 1
    <3>1. last \in 1 .. last
      BY <1>8, <1>9
    <3> QED
      BY <1>10, <1>15, <1>20, <3>1
  <2>6. ASSUME e.kind \in UnaryKinds PROVE from = a
    BY <1>16, <1>21, <2>6
  <2>7. ASSUME e.kind \in BinaryKinds
        PROVE  d2[b2[n - 1].first - 1].lo = from /\ d2[b2[n - 1].first - 1].hi = a - 1
    <3>1. b2[n - 1].first - 1 = c[1] /\ c[1] \in 1 .. last
      <4>1. last \in 1 .. last /\ c[1] \in 1 .. last /\ (c[1] + 1) - 1 = c[1]
        BY <1>8, <1>9, <1>21, <2>7
      <4> QED
        BY <1>8, <1>10, <4>1
    <3> QED
      BY <1>16, <1>18, <1>20, <1>21, <2>7, <3>1
  <2> QED
    BY <1>10, <1>20, <1>21, <2>1, <2>2, <2>3, <2>4, <2>5, <2>6, <2>7 DEF Spanned
<1>23. AllSpanned(b2, t2, grouped, input, d2)
  BY <1>6, <1>7, <1>9, <1>14, <1>19, <1>22, NodeLaid
<1>24. AllPlaced(f2, token, d) /\ HaveCallers(frames)
  <2>1. HaveCallers(frames)
    BY <1>4, CallersFound
  <2> QED
    BY <1>11, <1>14, <2>1, PlacedDropped
<1>25. AllPlaced(f2, t2, d2)
  <2> SUFFICES ASSUME NEW i \in 1 .. Len(f2), f2[i].task \in Waits PROVE Placed(f2, t2, d2, i)
    BY DEF AllPlaced
  <2>1. f2[i].at \in 1 .. Len(input) /\ f2[i].at < a
    <3>1. Waiting(frames, c, built, token, grouped, input, position, 1)
      BY <1>4 DEF Underway, Waits
    <3>2. i + 1 \in 1 .. Len(frames) /\ 1 < i + 1 /\ frames[i + 1] = f2[i]
      BY <1>11, <1>12 DEF Below
    <3>3. Waiting(frames, c, built, token, grouped, input, position, i + 1)
      BY <1>4, <3>2 DEF Underway
    <3> QED
      BY <1>1, <3>1, <3>2, <3>3 DEF Waiting
  <2>2. Placed(f2, token, d, i)
    BY <1>24 DEF AllPlaced
  <2>3. \A m \in 1 .. Len(t2) : t2[m] \in Nat /\ (m > Len(token) => f2[i].at < t2[m])
    <3>1. \A m \in 1 .. n : (m = n /\ t2[m] = a) \/ (m \in 1 .. Len(token) /\ t2[m] = token[m])
      BY <1>9, <1>10
    <3>2. \A m \in 1 .. Len(token) : token[m] \in Nat /\ ~(m > Len(token))
      BY <1>9
    <3>3. a \in Nat /\ Len(t2) = n /\ f2[i].at < a
      BY <1>8, <1>10, <2>1
    <3> QED
      BY <3>1, <3>2, <3>3
  <2>4. \A m \in 1 .. Len(token) : t2[m] = token[m] /\ (token[m] < f2[i].at => d2[m] = d[m])
    BY <1>9, <1>10, <1>20
  <2>5. Len(token) \in Nat /\ Len(t2) \in Nat /\ Len(token) <= Len(t2) /\ f2[i].at \in Nat
    BY <1>9, <1>10, <2>1
  <2> QED
    BY <2>2, <2>3, <2>4, <2>5, PlacedLater
<1>26. Reached(f2, d2, Len(b2), position)
  <2>1. Begin(f2, 1) = Begin(frames, 2)
    <3>1. PICK k, l : k = Len(f2) /\ l = Len(frames)
      OBVIOUS
    <3>2. k \in Nat /\ k > 0 /\ l = k + 1
      BY <1>11, <1>12, <3>1
    <3>3. (1 = k <=> 2 = l) /\ (1 # k => 2 \in 1 .. k) /\ 1 + 1 = 2
      BY <3>2
    <3>4. 1 # k => frames[2 + 1] = f2[2]
      BY <1>11, <3>1, <3>3 DEF Below
    <3> QED
      BY <3>1, <3>3, <3>4 DEF Begin
  <2>2. Start(f2) = from
    BY <1>8, <1>12, <1>17, <2>1 DEF Start, Waits
  <2> QED
    BY <1>8, <1>10, <1>12, <1>20, <2>2 DEF Reached
<1>27. Laid(f2, b2, t2, grouped, input, position, d2)
  BY <1>23, <1>25, <1>26 DEF Laid
<1> QED
  BY <1>5, <1>27 DEF Lies

LEMMA EndOfGroupLies ==
  ASSUME ParserIInv, NodesMade, Sentence(input), Follows(frames, token, input, position, state), Lies, EndOfGroup
  PROVE  Lies'
<1>1. PICK p, f2, last, g2 : p = position /\ f2 = Tail(frames) /\ last = Len(built) /\ g2 = grouped \cup {last}
  OBVIOUS
<1>2. /\ At("group")
      /\ built' = built /\ token' = token /\ frames' = f2 /\ input' = input /\ grouped' = g2
  BY <1>1 DEF EndOfGroup, Rest
<1>3. PICK c : Forest(frames, c, built, token, grouped, input, position)
  BY <1>2 DEF ParserIInv, Parses, At
<1>4. /\ IsSeq(frames) /\ frames # <<>> /\ Len(frames) \in Nat /\ 1 \in 1 .. Len(frames)
      /\ frames[1].task = "group"
      /\ Underway(frames, c, built, token, grouped, input, position)
      /\ Resumes(frames, c, built, token, grouped, input, position)
  BY <1>2, <1>3, FoundFrames
<1>5. p \in 1 .. Len(input) /\ position' = p + 1 /\ input[p].kind = "OP_PAREN_CLOSE"
  BY <1>1, GroupCloses
<1>6. PICK a : a = frames[1].at
  OBVIOUS
<1>7. /\ 1 < Len(frames) /\ frames[2].task = "operators" /\ a \in 1 .. Len(input) /\ a < p
      /\ Divides(frames, c, token, 1) /\ c[1] \in 0 .. last /\ c[1] < last
      /\ \A j \in 1 .. Len(frames) : 1 < j /\ frames[j].task \in Waits => frames[j].at < a
  <2>1. Waiting(frames, c, built, token, grouped, input, position, 1) /\ c[1] \in 0 .. last
    BY <1>1, <1>4 DEF Underway, Waits
  <2>2. 1 + 1 = 2
    OBVIOUS
  <2>3. c[1] < last
    BY <1>1, <1>4 DEF Resumes, From
  <2> QED
    BY <1>1, <1>6, <2>1, <2>2, <2>3 DEF Waiting
<1>8. /\ Len(input) \in Nat /\ last \in Nat /\ Len(token) = last /\ p \in Nat
      /\ \A m \in 1 .. Len(token) : token[m] \in Nat
      /\ Finished(built, token, grouped, input, position)
  BY <1>1, Found
<1>9. last \in 1 .. last /\ a < token[last]
  <2>1. last \in 1 .. last /\ last > c[1]
    BY <1>7, <1>8
  <2> QED
    BY <1>6, <1>7, <1>8, <2>1 DEF Divides
<1>10. IsSeq(f2) /\ Below(f2, frames, 1) /\ Len(f2) \in Nat
  BY <1>1, <1>4, Dropped, SeqLength
<1>11. PICK d : Laid(frames, built, token, grouped, input, position, d)
  BY DEF Lies
<1>12. AllSpanned(built, token, grouped, input, d) /\ AllPlaced(frames, token, d)
  BY <1>11 DEF Laid
<1>13. d[last].lo = a + 1 /\ d[last].hi = p - 1 /\ a = Begin(frames, 2)
  <2>1. Placed(frames, token, d, 1)
    BY <1>4, <1>12 DEF AllPlaced, Waits
  <2>2. 1 + 1 = 2
    OBVIOUS
  <2>3. a = Begin(frames, 2)
    BY <1>4, <1>6, <2>1, <2>2 DEF Placed
  <2> QED
    BY <1>1, <1>4, <1>6, <1>11, <2>3 DEF Laid, Reached, Start, Waits
<1>14. input[a].kind = "OP_PAREN_OPEN"
  BY <1>4, <1>6 DEF NodesMade, OpensWith
<1>15. PICK s, d2 : s = [lo |-> a, hi |-> p, depth |-> d[last].depth + 1] /\ d2 = WithSpan(d, last, s)
  OBVIOUS
<1>16. s.lo = a /\ s.hi = p /\ s.depth = d[last].depth + 1 /\ d2[last] = s
       /\ \A m \in 1 .. last : m # last => d2[m] = d[m]
  BY <1>9, <1>15 DEF WithSpan
<1>17. Spanned(built, token, grouped, input, d, last)
  BY <1>1, <1>9, <1>12 DEF AllSpanned
<1>18. Spanned(built, token, g2, input, d2, last)
  <2>1. PICK k, lo, hi : k = d[last].depth /\ lo = d[last].lo + k /\ hi = d[last].hi - k
    OBVIOUS
  <2>2. k \in Nat /\ d[last].lo \in 1 .. Len(input) /\ d[last].hi \in 1 .. Len(input) /\ a \in Nat
    BY <1>7, <1>17, <2>1 DEF Spanned
  <2>3. d2[last].lo + d2[last].depth = lo /\ d2[last].hi - d2[last].depth = hi
        /\ d2[last].depth \in Nat /\ d2[last].depth > 0
    <3>1. lo = (a + 1) + k /\ hi = (p - 1) - k
      BY <1>13, <2>1
    <3>2. d2[last].lo = a /\ d2[last].hi = p /\ d2[last].depth = k + 1
      BY <1>16, <2>1
    <3>3. k \in Nat /\ a \in Nat /\ p \in Nat
      BY <1>8, <2>2
    <3> QED
      BY <3>1, <3>2, <3>3
  <2>4. \A i \in a .. lo - 1 : input[i].kind = "OP_PAREN_OPEN"
    <3>1. \A i \in d[last].lo .. lo - 1 : input[i].kind = "OP_PAREN_OPEN"
      BY <1>17, <2>1 DEF Spanned
    <3>2. \A i \in a .. lo - 1 : i = a \/ i \in d[last].lo .. lo - 1
      BY <1>13, <2>1, <2>2
    <3> QED
      BY <1>14, <3>1, <3>2
  <2>5. \A i \in hi + 1 .. p : input[i].kind = "OP_PAREN_CLOSE"
    <3>1. \A i \in hi + 1 .. d[last].hi : input[i].kind = "OP_PAREN_CLOSE"
      BY <1>17, <2>1 DEF Spanned
    <3>2. \A i \in hi + 1 .. p : i = p \/ i \in hi + 1 .. d[last].hi
      BY <1>8, <1>13, <2>1, <2>2
    <3> QED
      BY <1>5, <3>1, <3>2
  <2>6. last - 1 # last /\ (built[last].kind \in BinaryKinds => built[last - 1].first - 1 # last)
        /\ (built[last].kind \in UnaryKinds \cup BinaryKinds => last - 1 \in 1 .. last)
        /\ (built[last].kind \in BinaryKinds => built[last - 1].first - 1 \in 1 .. last)
    <3>1. \A m \in 1 .. last : Formed(built, m)
      BY <1>1, <1>8 DEF Finished
    <3>2. last \in Nat \ {0}
      BY <1>8, <1>9
    <3> QED
      BY <3>1, <3>2, OperandsBefore
  <2>7. built[last].kind \in UnaryKinds \cup BinaryKinds => d2[last - 1] = d[last - 1]
    BY <1>16, <2>6
  <2>8. built[last].kind \in BinaryKinds => d2[built[last - 1].first - 1] = d[built[last - 1].first - 1]
    BY <1>16, <2>6
  <2>9. last \in g2
    BY <1>1
  <2> QED
    BY <1>5, <1>7, <1>16, <1>17, <2>1, <2>3, <2>4, <2>5, <2>7, <2>8, <2>9 DEF Spanned
<1>19. ASSUME NEW n \in 1 .. last, n # last PROVE Spanned(built, token, g2, input, d2, n)
  <2>1. n \in Nat \ {0} /\ \A m \in 1 .. n : m \in 1 .. last /\ m # last
    BY <1>8, <1>19
  <2>2. FormedUpTo(built, n)
    BY <1>1, <1>8, <2>1 DEF FormedUpTo, Finished
  <2>3. SameUpTo(built, token, d, built, token, d2, n)
    BY <1>16, <2>1 DEF SameUpTo
  <2>4. Spanned(built, token, grouped, input, d, n) /\ (n \in g2 <=> n \in grouped)
    BY <1>1, <1>12, <1>19 DEF AllSpanned
  <2> QED
    BY <2>1, <2>2, <2>3, <2>4, SpannedLater
<1>20. AllSpanned(built, token, g2, input, d2)
  <2>1. g2 \subseteq 1 .. last
    BY <1>1, <1>9, <1>12 DEF AllSpanned
  <2> QED
    BY <1>1, <1>18, <1>19, <2>1 DEF AllSpanned
<1>21. AllPlaced(f2, token, d)
  <2>1. HaveCallers(frames)
    BY <1>4, CallersFound
  <2> QED
    BY <1>10, <1>12, <2>1, PlacedDropped
<1>22. Len(frames) = Len(f2) + 1 /\ \A i \in 1 .. Len(f2) : frames[i + 1] = f2[i]
  BY <1>10 DEF Below
<1>23. AllPlaced(f2, token, d2)
  <2> SUFFICES ASSUME NEW i \in 1 .. Len(f2), f2[i].task \in Waits PROVE Placed(f2, token, d2, i)
    BY DEF AllPlaced
  <2>1. f2[i].at \in 1 .. Len(input) /\ f2[i].at < a
    <3>1. i + 1 \in 1 .. Len(frames) /\ 1 < i + 1 /\ frames[i + 1] = f2[i]
      BY <1>10, <1>22
    <3>2. Waiting(frames, c, built, token, grouped, input, position, i + 1)
      BY <1>4, <3>1 DEF Underway
    <3> QED
      BY <1>7, <3>1, <3>2 DEF Waiting
  <2>2. Placed(f2, token, d, i)
    BY <1>21 DEF AllPlaced
  <2>3. ASSUME NEW m \in 1 .. Len(token), token[m] < f2[i].at PROVE d2[m] = d[m]
    <3>1. m # last
      BY <1>7, <1>8, <1>9, <2>1, <2>3
    <3> QED
      BY <1>8, <1>16, <3>1
  <2>4. \A m \in 1 .. Len(token) : ~(m > Len(token))
    BY <1>8
  <2>5. Len(token) \in Nat /\ Len(token) <= Len(token) /\ f2[i].at \in Nat
    BY <1>8, <2>1
  <2> QED
    BY <1>8, <2>2, <2>3, <2>4, <2>5, PlacedLater
<1>24. Reached(f2, d2, last, p + 1)
  <2>1. PICK k, l : k = Len(f2) /\ l = Len(frames)
    OBVIOUS
  <2>2. k \in Nat /\ k > 0 /\ l = k + 1
    BY <1>7, <1>10, <1>22, <2>1
  <2>3. (1 = k <=> 2 = l) /\ (1 # k => 2 \in 1 .. k) /\ 1 \in 1 .. k /\ 1 + 1 = 2
    BY <2>2
  <2>4. (1 # k => frames[2 + 1] = f2[2]) /\ f2[1] = frames[2]
    BY <1>22, <2>1, <2>3
  <2>5. Begin(f2, 1) = Begin(frames, 2)
    BY <2>1, <2>3, <2>4 DEF Begin
  <2>6. Start(f2) = a /\ Len(f2) > 0 /\ f2[1].task = "operators"
    BY <1>7, <1>13, <2>1, <2>2, <2>4, <2>5 DEF Start, Waits
  <2>7. (p + 1) - 1 = p
    BY <1>8
  <2> QED
    BY <1>16, <2>6, <2>7 DEF Reached
<1>25. Laid(f2, built, token, g2, input, p + 1, d2)
  BY <1>1, <1>20, <1>23, <1>24 DEF Laid
<1> QED
  BY <1>2, <1>5, <1>25 DEF Lies

LEMMA ParsedLies ==
  ASSUME ParserIInv, Follows(frames, token, input, position, state), Lies, parser_parse
  PROVE  Lies'
<1>1. /\ state = "parse" /\ frames = <<>> /\ _advance
      /\ input' = input /\ frames' = frames /\ token' = token /\ built' = built /\ grouped' = grouped
  BY DEF parser_parse
<1>2. Len(frames) = 0
  <2>1. PICK c : Forest(frames, c, built, token, grouped, input, position)
    BY <1>1 DEF ParserIInv, Parses
  <2> QED
    BY <1>1, <2>1, SeqLength DEF Forest
<1>3. position = Len(input) + 1 /\ ~(position <= Len(input))
  BY <1>2, Found DEF Follows
<1>4. position' = position
  BY <1>1, <1>3 DEF _advance
<1> QED
  BY <1>1, <1>4 DEF Lies

(* The first function is called at the first token.                        *)
LEMMA LiesAtFirst ==
  ASSUME NEW x
  PROVE  Laid(<<Operand(PRECEDENCE_ASSIGNMENT)>>, <<>>, <<>>, {}, x, 1, <<>>)
<1>1. PICK f, b : f = <<Operand(PRECEDENCE_ASSIGNMENT)>> /\ b = <<>>
  OBVIOUS
<1>2. Len(f) = 1 /\ f[1].task = "operand" /\ Len(b) = 0
  BY <1>1 DEF Operand, Frame
<1>3. AllSpanned(b, b, {}, x, b)
  BY <1>2 DEF AllSpanned
<1>4. AllPlaced(f, b, b)
  <2>1. \A i \in 1 .. Len(f) : f[i].task \notin Waits
    BY <1>2 DEF Waits
  <2> QED
    BY <2>1 DEF AllPlaced
<1>5. Reached(f, b, Len(b), 1)
  BY <1>2 DEF Reached, Start, Begin, Waits
<1>6. Laid(f, b, b, {}, x, 1, b)
  BY <1>3, <1>4, <1>5 DEF Laid
<1> QED
  BY <1>1, <1>6

LEMMA SpansStart == Init => SpansIInv
<1> SUFFICES ASSUME Init PROVE SpansIInv
  OBVIOUS
<1>1. Laid(frames, built, token, grouped, input, position, <<>>)
  BY LiesAtFirst DEF Init
<1> QED
  BY <1>1 DEF SpansIInv

LEMMA SpansStep ==
  ASSUME ParserIInv, FollowsIInv, NodesMade, SpansIInv, [Next]_vars
  PROVE  SpansIInv'
<1> SUFFICES ASSUME Sentence(input') PROVE Lies'
  BY DEF SpansIInv, Lies
<1>1. CASE UNCHANGED vars
  BY <1>1 DEF SpansIInv, Lies, vars
<1>2. CASE Step
  <2>1. input' = input
    BY <1>2 DEF Step, Literal, _unary, _group, _binary, EndOfOperators, Node, EndOfGroup, parser_parse,
                CallNull, ReadBeyond
  <2>2. Sentence(input) /\ Follows(frames, token, input, position, state) /\ Lies
    BY <2>1 DEF FollowsIInv, SpansIInv, Lies
  <2> QED
    BY <1>2, <2>2, LiteralLies, PrefixLies, BinaryLies, EndOfOperatorsLies, NodeLies,
       EndOfGroupLies, ParsedLies, NeverGivenUp DEF Step
<1> QED
  BY <1>1, <1>2 DEF Next, Ended

LEMMA SubtreesAreSpans == Spec => []SpansIInv
BY SpansStart, SpansStep, SentencesFollow, NodesOfTokens, PTL DEF Spec

-----------------------------------------------------------------------------
(* How the tokens i .. j read: between them as many parentheses close as   *)
(* open, none that was not opened there, and the last ends an operand.     *)
Whole(x, i, j) ==
  /\ i \in 1 .. Len(x) /\ j \in i .. Len(x)
  /\ BalanceOf(x, j) = BalanceOf(x, i - 1)
  /\ \A k \in i .. j : BalanceOf(x, i - 1) <= BalanceOf(x, k)
  /\ Ends(x, j)

(* The operators among them that are outside all their parentheses, and of *)
(* these the last of those that bind least.                                *)
SplitsOf(x, i, j) ==
  {k \in i + 1 .. j - 1 : /\ x[k].kind \in Operators
                          /\ x[k - 1].kind \in Literals \cup {"OP_PAREN_CLOSE"}
                          /\ BalanceOf(x, k) = BalanceOf(x, i - 1)}

Splits(x, S, k) ==
  /\ k \in S
  /\ \A l \in S : \/ Precedence(x[k].kind) < Precedence(x[l].kind)
                  \/ Precedence(x[k].kind) = Precedence(x[l].kind) /\ l <= k

LEMMA BalancesAreInts ==
  ASSUME NEW x, NEW i \in Nat
  PROVE  BalanceOf(x, i) \in Int
<1>1. i + 1 \in Nat \ {0} /\ (i + 1) - 1 = i
  OBVIOUS
<1> QED
  BY <1>1, BalanceMore

LEMMA LiteralIsWhole ==
  ASSUME NEW x, Len(x) \in Nat, NEW i \in 1 .. Len(x), x[i].kind \in Literals
  PROVE  Whole(x, i, i) /\ SplitsOf(x, i, i) = {}
<1>1. BalanceOf(x, i) = BalanceOf(x, i - 1) /\ BalanceOf(x, i - 1) \in Int
  BY BalanceMore DEF Literals
<1>2. Ends(x, i) /\ i \in i .. Len(x) /\ \A k \in i .. i : k = i
  BY DEF Ends
<1>3. i + 1 .. i - 1 = {}
  OBVIOUS
<1>4. SplitsOf(x, i, i) = {}
  BY <1>3 DEF SplitsOf
<1> QED
  BY <1>1, <1>2, <1>4 DEF Whole

(* In parentheses.                                                         *)
LEMMA WrappedIsWhole ==
  ASSUME NEW x, Len(x) \in Nat, NEW i \in 2 .. Len(x), NEW j \in 1 .. Len(x) - 1, Whole(x, i, j),
         x[i - 1].kind = "OP_PAREN_OPEN", x[j + 1].kind = "OP_PAREN_CLOSE"
  PROVE  Whole(x, i - 1, j + 1) /\ SplitsOf(x, i - 1, j + 1) = {}
<1>1. PICK o : o = BalanceOf(x, (i - 1) - 1)
  OBVIOUS
<1>2. o \in Int /\ BalanceOf(x, i - 1) = o + 1
  <2>1. i - 1 \in Nat \ {0}
    OBVIOUS
  <2> QED
    BY <1>1, <2>1, BalanceMore
<1>3. BalanceOf(x, j + 1) = o
  <2>1. j + 1 \in Nat \ {0} /\ (j + 1) - 1 = j
    OBVIOUS
  <2>2. BalanceOf(x, j) = o + 1
    BY <1>2 DEF Whole
  <2> QED
    BY <1>2, <2>1, <2>2, BalanceMore
<1>4. \A k \in i .. j : o + 1 <= BalanceOf(x, k) /\ BalanceOf(x, k) \in Int
  BY <1>2, BalancesAreInts DEF Whole
<1>5. \A k \in i - 1 .. j + 1 : k = i - 1 \/ k \in i .. j \/ k = j + 1
  OBVIOUS
<1>6. \A k \in i - 1 .. j + 1 : o <= BalanceOf(x, k)
  BY <1>2, <1>3, <1>4, <1>5
<1>7. i - 1 \in 1 .. Len(x) /\ j + 1 \in i - 1 .. Len(x) /\ j + 1 > 0
  BY DEF Whole
<1>8. Whole(x, i - 1, j + 1)
  BY <1>1, <1>3, <1>6, <1>7 DEF Whole, Ends
<1>9. \A k \in (i - 1) + 1 .. (j + 1) - 1 : BalanceOf(x, k) # o
  <2>1. (i - 1) + 1 .. (j + 1) - 1 = i .. j
    OBVIOUS
  <2> QED
    BY <1>2, <1>4, <2>1
<1>10. SplitsOf(x, i - 1, j + 1) = {}
  BY <1>1, <1>9 DEF SplitsOf
<1> QED
  BY <1>8, <1>10

(* Behind a prefix operator.                                               *)
LEMMA PrefixedIsWhole ==
  ASSUME NEW x, Len(x) \in Nat, NEW i \in 2 .. Len(x), NEW j, Whole(x, i, j), x[i - 1].kind \in Prefixes
  PROVE  Whole(x, i - 1, j) /\ SplitsOf(x, i - 1, j) = SplitsOf(x, i, j)
<1>1. PICK o : o = BalanceOf(x, (i - 1) - 1)
  OBVIOUS
<1>2. o \in Int /\ BalanceOf(x, i - 1) = o
  <2>1. i - 1 \in Nat \ {0}
    OBVIOUS
  <2> QED
    BY <1>1, <2>1, BalanceMore DEF Prefixes
<1>3. j \in i .. Len(x) /\ BalanceOf(x, j) = o /\ Ends(x, j) /\ \A k \in i .. j : o <= BalanceOf(x, k)
  BY <1>2 DEF Whole
<1>4. \A k \in i - 1 .. j : k = i - 1 \/ k \in i .. j
  BY <1>3
<1>5. i - 1 \in 1 .. Len(x) /\ j \in i - 1 .. Len(x)
  BY <1>3
<1>6. Whole(x, i - 1, j)
  BY <1>1, <1>2, <1>3, <1>4, <1>5 DEF Whole
<1>7. x[i - 1].kind \notin Literals \cup {"OP_PAREN_CLOSE"}
  BY DEF Prefixes, Literals
<1>8. ASSUME NEW k PROVE k \in SplitsOf(x, i - 1, j) <=> k \in SplitsOf(x, i, j)
  <2>1. CASE k \in i + 1 .. j - 1
    <3>1. k \in (i - 1) + 1 .. j - 1
      BY <1>3, <2>1
    <3> QED
      BY <1>1, <1>2, <2>1, <3>1 DEF SplitsOf
  <2>2. CASE k = i
    BY <1>7, <2>2 DEF SplitsOf
  <2>3. CASE k \notin i + 1 .. j - 1 /\ k # i
    <3>1. k \notin (i - 1) + 1 .. j - 1
      BY <1>3, <2>3
    <3> QED
      BY <2>3, <3>1 DEF SplitsOf
  <2> QED
    BY <2>1, <2>2, <2>3
<1> QED
  BY <1>6, <1>8

(* On both sides of an operator.                                           *)
LEMMA JoinedIsWhole ==
  ASSUME NEW x, Len(x) \in Nat, NEW i \in Nat, NEW k \in 1 .. Len(x), NEW j \in Nat,
         Whole(x, i, k - 1), Whole(x, k + 1, j), x[k].kind \in Operators
  PROVE  Whole(x, i, j) /\ SplitsOf(x, i, j) = SplitsOf(x, i, k - 1) \cup {k} \cup SplitsOf(x, k + 1, j)
<1>1. PICK o : o = BalanceOf(x, i - 1)
  OBVIOUS
<1>2. /\ i \in 1 .. Len(x) /\ i < k /\ j \in k + 1 .. Len(x) /\ o \in Int
  <2>1. i \in 1 .. Len(x) /\ k - 1 \in i .. Len(x) /\ j \in k + 1 .. Len(x)
    BY DEF Whole
  <2>2. i - 1 \in Nat
    BY <2>1
  <2> QED
    BY <1>1, <2>1, <2>2, BalancesAreInts
<1>3. BalanceOf(x, k - 1) = o /\ BalanceOf(x, k) = o
  <2>1. BalanceOf(x, k - 1) = o
    BY <1>1 DEF Whole
  <2>2. BalanceOf(x, k) = BalanceOf(x, k - 1)
    BY BalanceMore DEF Operators
  <2> QED
    BY <2>1, <2>2
<1>4. (k + 1) - 1 = k
  OBVIOUS
<1>5. BalanceOf(x, j) = o /\ Ends(x, j)
  BY <1>3, <1>4 DEF Whole
<1>6. \A l \in i .. j : o <= BalanceOf(x, l)
  <2>1. \A l \in i .. j : l \in i .. k - 1 \/ l = k \/ l \in k + 1 .. j
    BY <1>2
  <2>2. (\A l \in i .. k - 1 : o <= BalanceOf(x, l)) /\ \A l \in k + 1 .. j : o <= BalanceOf(x, l)
    BY <1>1, <1>3, <1>4 DEF Whole
  <2> QED
    BY <1>2, <1>3, <2>1, <2>2
<1>7. Whole(x, i, j)
  <2>1. j \in i .. Len(x)
    BY <1>2
  <2> QED
    BY <1>1, <1>2, <1>5, <1>6, <2>1 DEF Whole
<1>8. x[k - 1].kind \in Literals \cup {"OP_PAREN_CLOSE"} /\ x[k - 1].kind \notin Operators
      /\ x[k].kind \notin Literals \cup {"OP_PAREN_CLOSE"}
  BY DEF Whole, Ends, Literals, Operators
<1>9. ASSUME NEW l \in i + 1 .. j - 1
      PROVE  l \in SplitsOf(x, i, j) <=> l \in SplitsOf(x, i, k - 1) \cup {k} \cup SplitsOf(x, k + 1, j)
  <2>1. CASE l \in i + 1 .. (k - 1) - 1
    <3>1. l # k /\ l \notin (k + 1) + 1 .. j - 1
      BY <1>2, <2>1
    <3> QED
      BY <2>1, <3>1 DEF SplitsOf
  <2>2. CASE l = k - 1
    <3>1. l # k /\ l \notin (k + 1) + 1 .. j - 1
      BY <2>2
    <3> QED
      BY <1>8, <2>2, <3>1 DEF SplitsOf
  <2>3. CASE l = k
    BY <1>1, <1>3, <1>8, <2>3 DEF SplitsOf
  <2>4. CASE l = k + 1
    <3>1. l - 1 = k /\ l # k /\ l \notin i + 1 .. (k - 1) - 1 /\ l \notin (k + 1) + 1 .. j - 1
      BY <1>2, <2>4
    <3> QED
      BY <1>8, <3>1 DEF SplitsOf
  <2>5. CASE l \in (k + 1) + 1 .. j - 1
    <3>1. l # k /\ l \notin i + 1 .. (k - 1) - 1
      BY <1>2, <2>5
    <3> QED
      BY <1>1, <1>3, <1>4, <2>5, <3>1 DEF SplitsOf
  <2> QED
    BY <1>2, <2>1, <2>2, <2>3, <2>4, <2>5
<1>10. ASSUME NEW l, l \in SplitsOf(x, i, k - 1) \cup {k} \cup SplitsOf(x, k + 1, j)
       PROVE  l \in i + 1 .. j - 1
  <2>1. l \in i + 1 .. (k - 1) - 1 \/ l = k \/ l \in (k + 1) + 1 .. j - 1
    BY <1>10 DEF SplitsOf
  <2> QED
    BY <1>2, <2>1
<1>11. \A l : l \in SplitsOf(x, i, j) => l \in i + 1 .. j - 1
  BY DEF SplitsOf
<1> QED
  BY <1>7, <1>9, <1>10, <1>11

(* A set of numbers has a least one.                                       *)
LEMMA Least ==
  ASSUME NEW S, S \subseteq Nat, S # {}
  PROVE  \E m \in S : \A k \in S : m <= k
<1> DEFINE R == OpToRel(<, Nat)
<1>1. IsWellFoundedOn(R, Nat)
  BY NatLessThanWellFounded
<1>2. \A m, k \in Nat : m < k => <<m, k>> \in R
  BY DEF OpToRel
<1> HIDE DEF R
<1>3. PICK m \in S : \A k \in S : ~(<<k, m>> \in R)
  BY <1>1, WFMin
<1>4. ASSUME NEW k \in S PROVE m <= k
  <2>1. k \in Nat /\ m \in Nat
    OBVIOUS
  <2>2. ~(k < m)
    BY <1>2, <1>3, <2>1
  <2> QED
    BY <2>1, <2>2
<1> QED
  BY <1>4

(* A node reads as its span says, whichever of its e inner parentheses are *)
(* taken with it: it is what the tokens split at.                          *)
First(d, n, e) == d[n].lo + d[n].depth - e
Final(d, n, e) == d[n].hi - d[n].depth + e

ReadsWith(b, t, x, d, n, e) ==
  LET i == First(d, n, e)  j == Final(d, n, e)  splits == SplitsOf(x, i, j)
  IN  /\ Whole(x, i, j)
      /\ e > 0 => splits = {} /\ i < j /\ x[i].kind = "OP_PAREN_OPEN"
      /\ e = 0 /\ b[n].kind \in LiteralKinds => i = t[n] /\ j = t[n] /\ splits = {}
      /\ e = 0 /\ b[n].kind \in UnaryKinds   => i = t[n] /\ i < j /\ splits = {}
      /\ e = 0 /\ b[n].kind \in BinaryKinds  => Splits(x, splits, t[n])

ReadsAs(b, t, x, d, n) == \A e \in 0 .. d[n].depth : ReadsWith(b, t, x, d, n, e)

(* What the whole span of an operand splits at.                            *)
LEMMA OperandReads ==
  ASSUME NEW b, NEW t, NEW g, NEW x, NEW d, NEW n, Spanned(b, t, g, x, d, n), ReadsAs(b, t, x, d, n),
         b[n].kind \in NodeKinds
  PROVE  /\ Whole(x, d[n].lo, d[n].hi)
         /\ n \in g \/ b[n].kind \notin BinaryKinds => SplitsOf(x, d[n].lo, d[n].hi) = {}
         /\ n \notin g /\ b[n].kind \in BinaryKinds => Splits(x, SplitsOf(x, d[n].lo, d[n].hi), t[n])
<1>1. PICK s : s = d[n]
  OBVIOUS
<1>2. s.depth \in Nat /\ s.lo \in Int /\ s.hi \in Int /\ (n \in g <=> s.depth > 0)
  BY <1>1 DEF Spanned
<1>3. First(d, n, s.depth) = s.lo /\ Final(d, n, s.depth) = s.hi
  BY <1>1, <1>2 DEF First, Final
<1>4. ReadsWith(b, t, x, d, n, s.depth)
  BY <1>1, <1>2 DEF ReadsAs
<1> QED
  BY <1>1, <1>2, <1>3, <1>4 DEF ReadsWith, NodeKinds

LEMMA PrecedencesAreInts == \A kind : Precedence(kind) \in 0 .. 7
BY DEF Precedence

(* A node without its own parentheses, from its operands.                  *)
LEMMA InnerReads ==
  ASSUME NEW b, NEW t, NEW g, NEW x, NEW d, NEW n \in Nat \ {0}, Len(x) \in Nat,
         Spanned(b, t, g, x, d, n), Formed(b, n), Made(b, t, x, n), Groups(b, t, g, x, n),
         t[n] \in 1 .. Len(x),
         FormedUpTo(b, n), \A m \in 1 .. n - 1 : Spanned(b, t, g, x, d, m) /\ ReadsAs(b, t, x, d, m)
  PROVE  ReadsWith(b, t, x, d, n, 0)
<1>1. PICK i, j, k : i = d[n].lo + d[n].depth /\ j = d[n].hi - d[n].depth /\ k = t[n]
  OBVIOUS
<1>2. i \in Int /\ j \in Int /\ k \in 1 .. Len(x)
  BY <1>1 DEF Spanned
<1>3. First(d, n, 0) = i /\ Final(d, n, 0) = j
  BY <1>1 DEF First, Final, Spanned
<1>4. \A m \in 1 .. n - 1 : b[m].kind \in NodeKinds
  BY DEF FormedUpTo, Formed
<1>5. CASE b[n].kind \in LiteralKinds
  <2>1. k = i /\ k = j /\ x[k].kind \in Literals
    BY <1>1, <1>5 DEF Spanned, Made
  <2>2. Whole(x, i, j) /\ SplitsOf(x, i, j) = {}
    BY <1>2, <2>1, LiteralIsWhole
  <2>3. b[n].kind \notin UnaryKinds /\ b[n].kind \notin BinaryKinds
    BY <1>5 DEF LiteralKinds, UnaryKinds, BinaryKinds
  <2> QED
    BY <1>1, <1>3, <2>1, <2>2, <2>3 DEF ReadsWith
<1>6. CASE b[n].kind \in UnaryKinds
  <2>1. n - 1 \in 1 .. n - 1
    BY <1>6, OperandsBefore DEF FormedUpTo
  <2>2. k = i /\ d[n - 1].lo = k + 1 /\ d[n - 1].hi = j
    BY <1>1, <1>6 DEF Spanned
  <2>3. Whole(x, k + 1, j)
    BY <1>4, <2>1, <2>2, OperandReads
  <2>4. n - 1 \in g \/ b[n - 1].kind \notin BinaryKinds
    <3>1. Tight(b, t, g, x, n - 1, PRECEDENCE_UNARY)
      BY <1>6 DEF Groups
    <3> QED
      BY <3>1, PrecedencesAreInts DEF Tight, PRECEDENCE_UNARY
  <2>5. SplitsOf(x, k + 1, j) = {}
    BY <1>4, <2>1, <2>2, <2>4, OperandReads
  <2>6. x[k].kind \in Prefixes
    BY <1>1, <1>6 DEF Made
  <2>7. k + 1 \in 2 .. Len(x) /\ (k + 1) - 1 = k /\ k < j
    BY <1>2, <2>3 DEF Whole
  <2>8. Whole(x, i, j) /\ SplitsOf(x, i, j) = {}
    BY <2>2, <2>3, <2>5, <2>6, <2>7, PrefixedIsWhole
  <2>9. b[n].kind \notin LiteralKinds /\ b[n].kind \notin BinaryKinds
    BY <1>6 DEF LiteralKinds, UnaryKinds, BinaryKinds
  <2> QED
    BY <1>1, <1>3, <2>2, <2>7, <2>8, <2>9 DEF ReadsWith
<1>7. CASE b[n].kind \in BinaryKinds
  <2>1. PICK l : l = b[n - 1].first - 1
    OBVIOUS
  <2>2. n - 1 \in 1 .. n - 1 /\ l \in 1 .. n - 1
    <3>1. n - 1 \in 1 .. n - 1 /\ l \in 1 .. n - 2
      BY <1>7, <2>1, OperandsBefore DEF FormedUpTo
    <3> QED
      BY <3>1
  <2>3. d[l].lo = i /\ d[l].hi = k - 1 /\ d[n - 1].lo = k + 1 /\ d[n - 1].hi = j
    BY <1>1, <1>7, <2>1 DEF Spanned
  <2>4. PICK left, right, splits : /\ left = SplitsOf(x, i, k - 1) /\ right = SplitsOf(x, k + 1, j)
                                   /\ splits = SplitsOf(x, i, j)
    OBVIOUS
  <2>5. /\ Whole(x, i, k - 1)
        /\ l \in g \/ b[l].kind \notin BinaryKinds => left = {}
        /\ l \notin g /\ b[l].kind \in BinaryKinds => Splits(x, left, t[l])
    BY <1>4, <2>2, <2>3, <2>4, OperandReads
  <2>6. /\ Whole(x, k + 1, j)
        /\ n - 1 \in g \/ b[n - 1].kind \notin BinaryKinds => right = {}
        /\ n - 1 \notin g /\ b[n - 1].kind \in BinaryKinds => Splits(x, right, t[n - 1])
    BY <1>4, <2>2, <2>3, <2>4, OperandReads
  <2>7. x[k].kind \in Operators
    BY <1>1, <1>7 DEF Made
  <2>8. Whole(x, i, j) /\ splits = left \cup {k} \cup right
    <3>1. i \in Nat /\ j \in Nat
      BY <2>5, <2>6 DEF Whole
    <3> QED
      BY <1>2, <2>4, <2>5, <2>6, <2>7, <3>1, JoinedIsWhole
  <2>9. PICK p : p = Precedence(x[k].kind) /\ p \in Int
    BY PrecedencesAreInts
  <2>10. Tight(b, t, g, x, l, p) /\ Tight(b, t, g, x, n - 1, p + 1)
    BY <1>1, <1>7, <2>1, <2>9 DEF Groups
  <2>11. ASSUME NEW m \in left
         PROVE  p <= Precedence(x[m].kind) /\ m <= k
    <3>1. l \notin g /\ b[l].kind \in BinaryKinds /\ Splits(x, left, t[l])
      BY <2>5
    <3>2. Precedence(x[t[l]].kind) >= p
      BY <2>10, <3>1 DEF Tight
    <3>3. Precedence(x[t[l]].kind) <= Precedence(x[m].kind)
      BY <3>1, PrecedencesAreInts DEF Splits
    <3>4. m <= k
      BY <1>2, <2>4 DEF SplitsOf
    <3> QED
      BY <2>9, <3>2, <3>3, <3>4, PrecedencesAreInts
  <2>12. ASSUME NEW m \in right
         PROVE  p < Precedence(x[m].kind)
    <3>1. n - 1 \notin g /\ b[n - 1].kind \in BinaryKinds /\ Splits(x, right, t[n - 1])
      BY <2>6
    <3>2. Precedence(x[t[n - 1]].kind) >= p + 1
      BY <2>10, <3>1 DEF Tight
    <3>3. Precedence(x[t[n - 1]].kind) <= Precedence(x[m].kind)
      BY <3>1, PrecedencesAreInts DEF Splits
    <3> QED
      BY <2>9, <3>2, <3>3, PrecedencesAreInts
  <2>13. Splits(x, splits, k)
    <3>1. ASSUME NEW m \in splits
          PROVE  p < Precedence(x[m].kind) \/ (p = Precedence(x[m].kind) /\ m <= k)
      <4>1. CASE m \in left
        BY <2>9, <2>11, <4>1, PrecedencesAreInts
      <4>2. CASE m \in right
        BY <2>12, <4>2
      <4>3. CASE m = k
        BY <1>2, <2>9, <4>3
      <4> QED
        BY <2>8, <4>1, <4>2, <4>3
    <3> QED
      BY <2>8, <2>9, <3>1 DEF Splits
  <2>14. b[n].kind \notin LiteralKinds /\ b[n].kind \notin UnaryKinds
    BY <1>7 DEF LiteralKinds, UnaryKinds, BinaryKinds
  <2> QED
    BY <1>1, <1>3, <2>4, <2>8, <2>13, <2>14 DEF ReadsWith
<1> QED
  BY <1>5, <1>6, <1>7 DEF Formed, NodeKinds

(* One more pair of parentheses.                                           *)
LEMMA OuterReads ==
  ASSUME NEW b, NEW t, NEW g, NEW x, NEW d, NEW n, Len(x) \in Nat, Spanned(b, t, g, x, d, n),
         NEW e \in Nat, e < d[n].depth, ReadsWith(b, t, x, d, n, e)
  PROVE  ReadsWith(b, t, x, d, n, e + 1)
<1>1. PICK lo, hi, depth : lo = d[n].lo /\ hi = d[n].hi /\ depth = d[n].depth
  OBVIOUS
<1>2. /\ lo \in 1 .. Len(x) /\ hi \in 1 .. Len(x) /\ depth \in Nat /\ e < depth
      /\ \A k \in lo .. lo + depth - 1 : x[k].kind = "OP_PAREN_OPEN"
      /\ \A k \in hi - depth + 1 .. hi : x[k].kind = "OP_PAREN_CLOSE"
  BY <1>1 DEF Spanned
<1>3. PICK i, j : i = lo + depth - e /\ j = hi - depth + e
  OBVIOUS
<1>4. /\ First(d, n, e) = i /\ Final(d, n, e) = j
      /\ First(d, n, e + 1) = i - 1 /\ Final(d, n, e + 1) = j + 1
  <2>1. /\ First(d, n, e) = lo + depth - e /\ Final(d, n, e) = hi - depth + e
        /\ First(d, n, e + 1) = lo + depth - (e + 1) /\ Final(d, n, e + 1) = hi - depth + (e + 1)
    BY <1>1 DEF First, Final
  <2>2. lo \in Int /\ hi \in Int /\ depth \in Int
    BY <1>2
  <2> QED
    BY <1>3, <2>1, <2>2
<1>5. Whole(x, i, j)
  BY <1>4 DEF ReadsWith
<1>6. i - 1 \in lo .. lo + depth - 1 /\ j + 1 \in hi - depth + 1 .. hi
  BY <1>2, <1>3
<1>7. i \in 2 .. Len(x) /\ j \in 1 .. Len(x) - 1 /\ i <= j
  <2>1. i \in 1 .. Len(x) /\ j \in i .. Len(x)
    BY <1>5 DEF Whole
  <2>2. i > lo /\ j < hi
    BY <1>2, <1>3
  <2> QED
    BY <1>2, <2>1, <2>2
<1>8. x[i - 1].kind = "OP_PAREN_OPEN" /\ x[j + 1].kind = "OP_PAREN_CLOSE"
  BY <1>2, <1>6
<1>9. Whole(x, i - 1, j + 1) /\ SplitsOf(x, i - 1, j + 1) = {}
  BY <1>5, <1>7, <1>8, WrappedIsWhole
<1>10. i - 1 < j + 1 /\ e + 1 # 0
  BY <1>7
<1> QED
  BY <1>4, <1>8, <1>9, <1>10 DEF ReadsWith

LEMMA NodeReads ==
  ASSUME NEW b, NEW t, NEW g, NEW x, NEW d, NEW n, Len(x) \in Nat, Spanned(b, t, g, x, d, n),
         ReadsWith(b, t, x, d, n, 0)
  PROVE  ReadsAs(b, t, x, d, n)
<1> DEFINE S == {e \in 0 .. d[n].depth : ~ReadsWith(b, t, x, d, n, e)}
<1> SUFFICES ASSUME S # {} PROVE FALSE
  BY DEF ReadsAs
<1>1. PICK e \in S : \A k \in S : e <= k
  <2>1. S \subseteq Nat
    OBVIOUS
  <2> HIDE DEF S
  <2> QED
    BY <2>1, Least
<1>2. d[n].depth \in Nat /\ e \in Nat /\ e <= d[n].depth /\ e # 0
  BY DEF Spanned
<1>3. PICK c : c = e - 1 /\ c \in Nat /\ c < d[n].depth /\ c + 1 = e
  BY <1>2
<1>4. ReadsWith(b, t, x, d, n, c)
  BY <1>1, <1>2, <1>3
<1>5. ReadsWith(b, t, x, d, n, e)
  BY <1>3, <1>4, OuterReads
<1> QED
  BY <1>5

AllRead(b, t, x, d) == \A n \in 1 .. Len(b) : ReadsAs(b, t, x, d, n)

LEMMA NodesRead ==
  ASSUME NEW b, NEW t, NEW g, NEW x, NEW p, NEW d, Len(x) \in Nat, Len(b) \in Nat,
         Finished(b, t, g, x, p), AllSpanned(b, t, g, x, d), \A n \in 1 .. Len(b) : Made(b, t, x, n)
  PROVE  AllRead(b, t, x, d)
<1> DEFINE S == {n \in 1 .. Len(b) : ~ReadsAs(b, t, x, d, n)}
<1> SUFFICES ASSUME S # {} PROVE FALSE
  BY DEF AllRead
<1>1. PICK n \in S : \A k \in S : n <= k
  <2>1. S \subseteq Nat
    OBVIOUS
  <2> HIDE DEF S
  <2> QED
    BY <2>1, Least
<1>2. n \in 1 .. Len(b) /\ n \in Nat \ {0} /\ ~ReadsAs(b, t, x, d, n)
  OBVIOUS
<1>3. \A m \in 1 .. Len(b) : Spanned(b, t, g, x, d, m)
  BY DEF AllSpanned
<1>4. \A m \in 1 .. n - 1 : Spanned(b, t, g, x, d, m) /\ ReadsAs(b, t, x, d, m)
  <2> TAKE m \in 1 .. n - 1
  <2>1. m \in 1 .. Len(b) /\ ~(n <= m)
    BY <1>2
  <2> QED
    BY <1>1, <1>3, <2>1
<1>5. FormedUpTo(b, n) /\ Formed(b, n) /\ Groups(b, t, g, x, n) /\ t[n] \in 1 .. Len(x)
  BY <1>2 DEF FormedUpTo, Finished
<1>6. Spanned(b, t, g, x, d, n) /\ Made(b, t, x, n)
  BY <1>2, <1>3
<1>7. ReadsWith(b, t, x, d, n, 0)
  BY <1>2, <1>4, <1>5, <1>6, InnerReads
<1>8. ReadsAs(b, t, x, d, n)
  BY <1>6, <1>7, NodeReads
<1> QED
  BY <1>2, <1>8

(***************************************************************************)
(* The tree of a sentence is the one its tokens spell: the root spans them *)
(* all, and every node the tokens from lo to hi, which split at its own    *)
(* token, the last of the operators outside their parentheses that bind    *)
(* least, or have none.                                                    *)
(***************************************************************************)
IsReading(b, t, g, x, d) ==
  /\ AllSpanned(b, t, g, x, d) /\ AllRead(b, t, x, d)
  /\ d[Len(b)].lo = 1 /\ d[Len(b)].hi = Len(x)

TreeIsReading ==
  state = "parsed" /\ Sentence(input) => \E d : IsReading(built, token, grouped, input, d)

LEMMA ParsedIsDone == Spec => [](state = "parsed" => frames = <<>>)
<1>1. Init => (state = "parsed" => frames = <<>>)
  BY DEF Init
<1>2. (state = "parsed" => frames = <<>>) /\ [Next]_vars => (state = "parsed" => frames = <<>>)'
  <2> SUFFICES ASSUME state = "parsed" => frames = <<>>, [Next]_vars, state' = "parsed" PROVE frames' = <<>>
    OBVIOUS
  <2>1. CASE UNCHANGED <<state, frames>>
    BY <2>1
  <2>2. CASE Step
    BY <2>2 DEF Step, At, Literal, _unary, _group, _binary, EndOfOperators, Node, EndOfGroup, parser_parse,
                CallNull, ReadBeyond
  <2> QED
    BY <2>1, <2>2 DEF Next, Ended, vars
<1> QED
  BY <1>1, <1>2, PTL DEF Spec

LEMMA ReadingFound ==
  ASSUME ParserIInv, FollowsIInv, NodesMade, SpansIInv, state = "parsed" => frames = <<>>
  PROVE  TreeIsReading
<1> SUFFICES ASSUME state = "parsed", Sentence(input) PROVE \E d : IsReading(built, token, grouped, input, d)
  BY DEF TreeIsReading
<1>1. PICK d : Laid(frames, built, token, grouped, input, position, d)
  BY DEF SpansIInv
<1>2. frames = <<>> /\ Len(frames) = 0
  OBVIOUS
<1>3. position = Len(input) + 1 /\ Len(input) \in Nat /\ Len(built) \in Nat
  BY <1>2, Found DEF FollowsIInv, Follows
<1>4. d[Len(built)].lo = 1 /\ d[Len(built)].hi = Len(input)
  BY <1>1, <1>2, <1>3 DEF Laid, Reached, Start
<1>5. AllSpanned(built, token, grouped, input, d)
  BY <1>1 DEF Laid
<1>6. AllRead(built, token, input, d)
  <2>1. Finished(built, token, grouped, input, position)
    BY Found
  <2>2. \A n \in 1 .. Len(built) : Made(built, token, input, n)
    BY DEF NodesMade
  <2> QED
    BY <1>3, <1>5, <2>1, <2>2, NodesRead
<1> QED
  BY <1>4, <1>5, <1>6 DEF IsReading

(* For every sentence: the tree that _parse_precedence and its rules build *)
(* is the one its tokens spell, read without a parser.                     *)
THEOREM TreesAreReadings == Spec => []TreeIsReading
BY ReadingFound, SubtreesAreSpans, SentencesFollow, NodesOfTokens, ParsedIsDone, PTL
=============================================================================
