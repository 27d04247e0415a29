----------------------------- MODULE MCPrograms -----------------------------
(***************************************************************************)
(* The trees the model-checking instances compile: every tree of a size    *)
(* over given literals and operators, with the lines the scanner gives     *)
(* their tokens (a line ends inside a CHAR or STRING literal only).        *)
(***************************************************************************)
EXTENDS Program, FiniteSets

Literal(kind, num, den) ==
  [kind |-> kind, line |-> 1, value |-> [kind |-> kind, num |-> num, den |-> den],
   chars |-> <<>>, first |-> 1]
(* A STRING's chars are its token's: the contents between quotes.          *)
StringLiteral(contents) ==
  [kind |-> "STRING", line |-> 1, value |-> Value("OBJ", 0),
   chars |-> <<"\"">> \o contents \o <<"\"">>, first |-> 1]
Operator(kind, line, first) ==
  [kind |-> kind, line |-> line, value |-> Junk("BOOL"), chars |-> <<>>, first |-> first]

(* The literal, written over two lines.                                    *)
OverTwoLines(literal) == [literal EXCEPT !.line = 2]

LastLine(p) == CHOOSE l \in {p[n].line : n \in DOMAIN p} :
                 \A n \in DOMAIN p : p[n].line <= l

(* The tree p with its tokens moved behind nodes and lines more.           *)
Behind(p, nodes, lines) ==
  [n \in DOMAIN p |-> [p[n] EXCEPT !.first = @ + nodes, !.line = @ + lines]]

Unary(kind, p)     == Append(p, Operator(kind, 1, 1))
Binary(kind, p, q) ==
  Append(p \o Behind(q, Len(p), LastLine(p) - 1), Operator(kind, LastLine(p), 1))

RECURSIVE Trees(_, _, _, _)
Trees(size, literals, unary, binary) ==
  LET smaller(k) == Trees(k, literals, unary, binary)
  IN  IF size = 1 THEN {<<l>> : l \in literals}
      ELSE {Unary(kind, p) : kind \in unary, p \in smaller(size - 1)}
           \cup UNION {{Binary(kind, p, q) : kind \in binary, p \in smaller(k),
                                             q \in smaller(size - 1 - k)} : k \in 1 .. size - 2}

TreesUpTo(size, literals, unary, binary) ==
  UNION {Trees(k, literals, unary, binary) : k \in 1 .. size}
=============================================================================
