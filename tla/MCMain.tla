------------------------------- MODULE MCMain -------------------------------
(***************************************************************************)
(* Three families of texts: short sequences of pieces that the scanner has *)
(* to tell apart, right or wrong; words that are nearly keywords; and      *)
(* expressions, some over several lines.                                   *)
(***************************************************************************)
EXTENDS Main

Hash(chars) == Len(chars)
InOrder == {<<1, 2, 3>>}

ArenaSizes == {1, 2, 3, 4, 6}

Pieces == {"1", "2.5", ".", "<", "=", "/", " ", "\n", "\"", "'", "e0", "#"}
PiecesUpTo3 == {""} \cup Pieces \cup {p \o q : p, q \in Pieces} \cup {p \o q \o r : p, q, r \in Pieces}

NearKeywords ==
  LET words == Range(Keywords) \cup {"TRUE", "FALSE", "NET"}
  IN  words \cup {SubSeq(w, 1, Len(w) - 1) : w \in words} \cup {w \o "S" : w \in words}
            \cup {SubSeq(w, 1, 2) \o "T" : w \in words}

Operands  == {"7", "2.5", "TRUE", "\"a\"", "\"b\n\"", "(1 + 2)", "- 2.5", "NOT TRUE"}
Infixes   == {" + ", "*", " & ", "=", " <= ", " // note\n", " OR "}
Sentences == {a \o f \o b \o g \o "\"b\n\"" : a \in Operands, b \in {"7", "NOT TRUE"}, f, g \in Infixes}
                \cup {"(" \o a \o f \o b \o ")" : a, b \in Operands, f \in Infixes}
                \cup {"2.5e-1", "2.5E+1", "200", "5 =", "(5", "7 = 7 = TRUE", "(7 - 2) - 2", "7 / 2 / 2",
                     "5 DIV 2 MOD 2", "7 <> 2", "7 >= 2 AND 2 > 2.5 OR 'a' = 'b'", "- 7 < 2", "x + 1",
                     "\"\"", "\"\" & \"a\"",
                     "1 + 1 + 1 + 1 + 1 + 1 + 1 + 1 + 1 + 1"}

Chars(string) == [i \in 1 .. Len(string) |-> SubSeq(string, i, i)]

AnyText == {Chars(string) : string \in PiecesUpTo3 \cup NearKeywords \cup Sentences}
=============================================================================
