------------------------------ MODULE Keywords ------------------------------
(***************************************************************************)
(* Words: enum token_kind (scanner.h) and the trie that tells a keyword    *)
(* from an identifier (scanner.c, _make_identifier_kind).  A word is a     *)
(* sequence of characters, as it stands in the text.                       *)
(***************************************************************************)
EXTENDS Integers, Sequences

(* The keywords that have a kind of their own, in the order of the enum.   *)
Keywords ==
  <<"AND", "APPEND", "ARRAY", "BOOLEAN", "BYREF", "BYVAL", "CALL", "CASE", "CHAR", "CLASS",
    "CLOSEFILE", "CONSTANT", "DATE", "DECLARE", "DEFINE", "DIV", "ELSE", "ENDCASE", "ENDCLASS",
    "ENDFUNCTION", "ENDIF", "ENDPROCEDURE", "ENDTYPE", "ENDWHILE", "FOR", "FUNCTION",
    "GETRECORD", "IF", "INHERITS", "INPUT", "INTEGER", "MOD", "NEW", "NEXT", "NOT", "OF",
    "OPENFILE", "OR", "OTHERWISE", "OUTPUT", "PRIVATE", "PROCEDURE", "PUBLIC", "PUTRECORD",
    "RANDOM", "READFILE", "READ", "REAL", "REPEAT", "RETURNS", "RETURN", "SEEK", "SET", "STEP",
    "STRING", "SUPER", "THEN", "TO", "TYPE", "UNTIL", "WHILE", "WRITEFILE", "WRITE">>

(***************************************************************************)
(* The trie: the letters the switches test one by one, the rest that       *)
(* _check_keyword compares with the length of the word, and the kind.  A   *)
(* rest of ANY is compared with nothing, and where there is NO_REST the    *)
(* word must be over.                                                      *)
(***************************************************************************)
ANY     == "*"
NO_REST == ""

KeywordsAE ==
  {<<<<"A", "N">>, "D", "KW_AND">>, <<<<"A", "P">>, "PEND", "KW_APPEND">>,
   <<<<"A", "R">>, "RAY", "KW_ARRAY">>, <<<<"B", "O">>, "OLEAN", "KW_BOOLEAN">>,
   <<<<"B", "Y", "V">>, "AL", "KW_BYVAL">>, <<<<"B", "Y", "R">>, "EF", "KW_BYREF">>,
   <<<<"C", "A", "L">>, "L", "KW_CALL">>, <<<<"C", "A", "S">>, "E", "KW_CASE">>,
   <<<<"C", "H">>, "AR", "KW_CHAR">>, <<<<"C", "L", "A">>, "SS", "KW_CLASS">>,
   <<<<"C", "L", "O">>, "SEFILE", "KW_CLOSEFILE">>, <<<<"C", "O">>, "NSTANT", "KW_CONSTANT">>,
   <<<<"D", "A">>, "TE", "KW_DATE">>, <<<<"D", "E", "C">>, "LARE", "KW_DECLARE">>,
   <<<<"D", "E", "F">>, "INE", "KW_DEFINE">>, <<<<"D", "I">>, "V", "KW_DIV">>,
   <<<<"E", "L">>, "SE", "KW_ELSE">>, <<<<"E", "N", "D", "C", "A">>, "SE", "KW_ENDCASE">>,
   <<<<"E", "N", "D", "C", "L">>, "ASS", "KW_ENDCLASS">>,
   <<<<"E", "N", "D", "F">>, "UNCTION", "KW_ENDFUNCTION">>,
   <<<<"E", "N", "D", "I">>, "F", "KW_ENDIF">>,
   <<<<"E", "N", "D", "P">>, "ROCEDURE", "KW_ENDPROCEDURE">>,
   <<<<"E", "N", "D", "T">>, "YPE", "KW_ENDTYPE">>,
   <<<<"E", "N", "D", "W">>, "HILE", "KW_ENDWHILE">>}

(* The case for NE has no break behind its switch: a word that is neither  *)
(* NEX.. nor NEW.. falls through to the case for NO.                       *)
KeywordsFO ==
  {<<<<"F", "A">>, "LSE", "LT_FALSE">>, <<<<"F", "O">>, "R", "KW_FOR">>,
   <<<<"F", "U">>, "NCTION", "KW_FUNCTION">>, <<<<"G">>, "ETRECORD", "KW_GETRECORD">>,
   <<<<"I", "F">>, ANY, "KW_IF">>, <<<<"I", "N", "H">>, "ERITS", "KW_INHERITS">>,
   <<<<"I", "N", "P">>, "UT", "KW_INPUT">>, <<<<"I", "N", "T">>, "EGER", "KW_INTEGER">>,
   <<<<"M">>, "OD", "KW_MOD">>, <<<<"N", "E", "X">>, "T", "KW_NEXT">>,
   <<<<"N", "E", "W">>, ANY, "KW_NEW">>, <<<<"N", "E">>, "T", "KW_NOT">>,
   <<<<"N", "O">>, "T", "KW_NOT">>, <<<<"O", "P">>, "ENFILE", "KW_OPENFILE">>,
   <<<<"O", "R">>, ANY, "KW_OR">>, <<<<"O", "T">>, "HERWISE", "KW_OTHERWISE">>,
   <<<<"O", "U">>, "TPUT", "KW_OUTPUT">>}

KeywordsPW ==
  {<<<<"P", "R", "O">>, "CEDURE", "KW_PROCEDURE">>, <<<<"P", "R", "I">>, "VATE", "KW_PRIVATE">>,
   <<<<"P", "U", "B">>, "LIC", "KW_PUBLIC">>, <<<<"P", "U", "T">>, "RECORD", "KW_PUTRECORD">>,
   <<<<"R", "A">>, "NDOM", "KW_RANDOM">>, <<<<"R", "E", "A", "D">>, "FILE", "KW_READFILE">>,
   <<<<"R", "E", "A", "D">>, NO_REST, "KW_READ">>, <<<<"R", "E", "A", "L">>, NO_REST, "KW_REAL">>,
   <<<<"R", "E", "P">>, "EAT", "KW_REPEAT">>, <<<<"R", "E", "T">>, "URN", "KW_RETURN">>,
   <<<<"R", "E", "T">>, "URNS", "KW_RETURNS">>, <<<<"S", "E">>, "EK", "KW_SEEK">>,
   <<<<"S", "T", "E">>, "P", "KW_STEP">>, <<<<"S", "T", "R">>, "ING", "KW_STRING">>,
   <<<<"S", "U">>, "PER", "KW_SUPER">>, <<<<"T", "H">>, "EN", "KW_THEN">>,
   <<<<"T", "R">>, "UE", "LT_TRUE">>, <<<<"T", "Y">>, "PE", "KW_TYPE">>,
   <<<<"U">>, "NTIL", "KW_UNTIL">>, <<<<"W", "H">>, "ILE", "KW_WHILE">>,
   <<<<"W", "R">>, "ITE", "KW_WRITE">>, <<<<"W", "R">>, "ITEFILE", "KW_WRITEFILE">>}

Begins(word, prefix) ==
  Len(prefix) <= Len(word) /\ SubSeq(word, 1, Len(prefix)) = prefix

(* The characters of a word as one string.                                 *)
Joined(word) ==
  LET upTo[i \in 0 .. Len(word)] == IF i = 0 THEN "" ELSE upTo[i - 1] \o word[i]
  IN  upTo[Len(word)]

RestOf(word, row) == Joined(SubSeq(word, Len(row[1]) + 1, Len(word)))

\* Mutant: the rest is compared, but not the length of the word.
_check_keywordNoLength(word, row) == row[2] = ANY \/ Begins(RestOf(word, row), row[2])

_check_keyword(word, row) == row[2] = ANY \/ RestOf(word, row) = row[2]

(* uint16_t length, by which the switches choose; _check_keyword compares  *)
(* the length of the whole word.                                           *)
Length(word) == Len(word) % 65536

(* A word takes the deepest path it can; two rows at the end of one path   *)
(* are told apart by the length of the word.                               *)
_make_identifier_kind(word) ==
  LET reached == {row \in KeywordsAE \cup KeywordsFO \cup KeywordsPW :
                    Begins(word, row[1]) /\ Len(row[1]) <= Length(word)}
      found   == {row \in reached : /\ \A other \in reached : Len(other[1]) <= Len(row[1])
                                    /\ _check_keyword(word, row)}
  IN  IF found = {} THEN "SP_IDENT" ELSE (CHOOSE row \in found : TRUE)[3]
=============================================================================
