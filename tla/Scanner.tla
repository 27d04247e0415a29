------------------------------ MODULE Scanner ------------------------------
(***************************************************************************)
(* scanner.c: scanner_scan_token called until it returns the end of the    *)
(* file, as by the loop of interpret (main.c) and, one token at a time, by *)
(* the parser.  A text is a sequence of characters, each a string of one;  *)
(* its positions count from 1, and behind the last one is the terminating  *)
(* NUL.                                                                    *)
(***************************************************************************)
EXTENDS Keywords, FiniteSetsExt, Functions

CONSTANT Texts   \* the source texts

NUL == ""

(* A text has no NUL before its end.                                       *)
ASSUME TextsAssumption == \A t \in Texts : t \in Seq(Range(t) \ {NUL})

VARIABLES
  text,      \* the source
  start,     \* where the token begins that was scanned last
  current,   \* the next character
  line,      \* the line of that character
  tokens     \* history: what was returned, [kind, first, last, line]

scannerVars == <<text, start, current, line, tokens>>

ScannerInit ==
  /\ text \in Texts
  /\ start = 1 /\ current = 1 /\ line = 1
  /\ tokens = <<>>

Char(i)    == IF i <= Len(text) THEN text[i] ELSE NUL
_peek      == Char(current)
_peek_next == IF _peek = NUL THEN NUL ELSE Char(current + 1)

Digits     == {"0", "1", "2", "3", "4", "5", "6", "7", "8", "9"}
Alphas     == {"A", "B", "C", "D", "E", "F", "G", "H", "I", "J", "K", "L", "M",
               "N", "O", "P", "Q", "R", "S", "T", "U", "V", "W", "X", "Y", "Z",
               "a", "b", "c", "d", "e", "f", "g", "h", "i", "j", "k", "l", "m",
               "n", "o", "p", "q", "r", "s", "t", "u", "v", "w", "x", "y", "z"}
Blanks     == {" ", "\r", "\t"}

(* Where a loop stops that advances over the characters of a set, and one  *)
(* that looks for a character or the end.                                  *)
After(i, set) == Min({j \in i .. Len(text) + 1 : Char(j) \notin set})
Find(i, char) == Min({j \in i .. Len(text) + 1 : Char(j) \in {char, NUL}})

-----------------------------------------------------------------------------
(* _skip_whitespace, one round of its loop per step.                       *)
AtComment == _peek = "/" /\ _peek_next = "/"

Skip(end) ==
  /\ current' = end
  /\ UNCHANGED <<text, start, line, tokens>>

SkipBlank   == _peek \in Blanks /\ Skip(current + 1)

\* Mutant: the newline that ends a comment is skipped with it.
SkipCommentLine == AtComment /\ Skip(Min({Find(current, "\n") + 1, Len(text) + 1}))

SkipComment == AtComment /\ Skip(Find(current, "\n"))

(* The rest of a call.  A token reaches up to the character before end;    *)
(* its line is the scanner's after it.                                     *)
AtToken == ~AtComment /\ _peek \notin Blanks

NewLines(from, to) == Cardinality({i \in from .. to : Char(i) = "\n"})

Token(kind, end) ==
  /\ AtToken
  /\ start' = current /\ current' = end
  /\ line' = line + NewLines(current, end - 1)
  /\ tokens' = Append(tokens, [kind |-> kind, first |-> current, last |-> end - 1, line |-> line'])
  /\ UNCHANGED text

EndOfFile == _peek = NUL /\ Token("SP_EOF", current)

EndOfLine == _peek = "\n" /\ Token("SP_EOL", current + 1)

_make_identifier ==
  /\ _peek \in Alphas \cup {"_"}
  /\ LET end == After(current, Alphas \cup Digits \cup {"_"})
     IN  Token(_make_identifier_kind(SubSeq(text, current, end - 1)), end)

\* Mutant: a point after the digits makes a number REAL, whatever follows.
IsRealAnyPoint(point) == Char(point) = "."

IsReal(point) == Char(point) = "." /\ Char(point + 1) \in Digits

_make_number ==
  /\ _peek \in Digits
  /\ LET point == After(current, Digits)
     IN  IF IsReal(point) THEN Token("LT_REAL", After(point + 1, Digits))
         ELSE Token("LT_INTEGER", point)

(* Operators: of one character, or of two when the second one fits.        *)
Punctuation ==
  [OP_SUBTRACTION |-> <<"-">>, OP_MULTIPLICATION |-> <<"*">>, OP_DIVISION |-> <<"/">>,
   OP_ADDITION |-> <<"+">>, OP_LESS_THAN |-> <<"<">>, OP_ASSIGN |-> <<"<", "-">>,
   OP_LESS_OR_EQUAL_TO |-> <<"<", "=">>, OP_NOT_EQUAL_TO |-> <<"<", ">">>, OP_EQUAL_TO |-> <<"=">>,
   OP_GREATER_THAN |-> <<">">>, OP_GREATER_OR_EQUAL_TO |-> <<">", "=">>, OP_CARET |-> <<"^">>,
   OP_CONCAT |-> <<"&">>, OP_COLON |-> <<":">>, OP_COMMA |-> <<",">>, OP_PAREN_OPEN |-> <<"(">>,
   OP_PAREN_CLOSE |-> <<")">>, OP_BRACKET_OPEN |-> <<"[">>, OP_BRACKET_CLOSE |-> <<"]">>,
   OP_DOT |-> <<".">>]

Operator(kind) ==
  LET two  == <<_peek, Char(current + 1)>>
      fits == Char(current + 1) # NUL /\ two \in Range(Punctuation)
  IN  /\ _peek # NUL
      /\ Punctuation[kind] = IF fits THEN two ELSE <<_peek>>
      /\ Token(kind, IF fits THEN current + 2 ELSE current + 1)

(* A STRING or CHAR runs to the next quote, over lines if need be; what is *)
(* not closed is an error up to the end of the text.                       *)
_make_string ==
  /\ _peek = "\""
  /\ LET quote == Find(current + 1, "\"")
     IN  IF Char(quote) = NUL THEN Token("SP_ERROR", quote) ELSE Token("LT_STRING", quote + 1)

make_char ==
  /\ _peek = "'"
  /\ LET quote  == Find(current + 1, "'")
         length == quote + 1 - current
     IN  IF Char(quote) = NUL THEN Token("SP_ERROR", quote)
         ELSE Token(IF length = 2 \/ length > 4 THEN "SP_ERROR" ELSE "LT_CHAR", quote + 1)

Unexpected ==
  /\ _peek \notin Alphas \cup Digits \cup {"_", "\n", "\"", "'", NUL}
  /\ <<_peek>> \notin Range(Punctuation)
  /\ Token("SP_ERROR", current + 1)

scanner_scan_token ==
  \/ SkipBlank \/ SkipComment \/ EndOfFile \/ EndOfLine \/ _make_identifier \/ _make_number
  \/ \E kind \in DOMAIN Punctuation : Operator(kind)
  \/ _make_string \/ make_char \/ Unexpected

Scanned == tokens # <<>> /\ tokens[Len(tokens)].kind = "SP_EOF"

interpret == ~Scanned /\ scanner_scan_token

-----------------------------------------------------------------------------
(* Nothing but blanks and comments lies between two positions.             *)
Skipped(from, to) ==
  \A i \in from .. to :
    \/ Char(i) \in Blanks
    \/ \E c \in from .. to : /\ c <= i /\ c + 1 \in from .. to /\ Char(c) = "/" /\ Char(c + 1) = "/"
                            /\ \A j \in c .. i : Char(j) # "\n"

(* Where the search for a token begins.                                    *)
Behind(n) == IF n = 0 THEN 1 ELSE tokens[n].last + 1

(* The tokens cover the text: nothing but blanks and comments lies between *)
(* two of them, they do not overlap, and the last one is at the end.       *)
NothingIsLost ==
  /\ \A n \in DOMAIN tokens :
       Behind(n - 1) <= tokens[n].first /\ Skipped(Behind(n - 1), tokens[n].first - 1)
  /\ Scanned => tokens[Len(tokens)].last = Len(text)

(* A token, or an error, has the line of the text it ends on; the end of a *)
(* line counts to the next.                                                *)
LineOf(t) == 1 + Cardinality({i \in 1 .. t.last : Char(i) = "\n"})

LinesOfTokens == \A n \in DOMAIN tokens : tokens[n].line = LineOf(tokens[n])

(* The lexemes of the language, said without a scanner.  (A CHAR is closed *)
(* after one character or, as make_char counts, after two.)                *)
AllIn(i, j, set)    == \A k \in i .. j : Char(k) \in set
Quoted(quote, i, j) == Char(i) = quote /\ Char(j) = quote /\ i < j /\ \A k \in i + 1 .. j - 1 : Char(k) # quote

Lexeme(kind, i, j) ==
  CASE kind = "SP_IDENT"   -> AllIn(i, i, Alphas \cup {"_"}) /\ AllIn(i, j, Alphas \cup Digits \cup {"_"})
    [] kind = "LT_INTEGER" -> AllIn(i, j, Digits)
    [] kind = "LT_REAL"    -> \E p \in i + 1 .. j - 1 :
                                Char(p) = "." /\ AllIn(i, p - 1, Digits) /\ AllIn(p + 1, j, Digits)
    [] kind = "LT_STRING"  -> Quoted("\"", i, j)
    [] kind = "LT_CHAR"    -> Quoted("'", i, j) /\ j - i \in {2, 3}
    [] kind = "SP_EOL"     -> i = j /\ Char(i) = "\n"
    [] OTHER               -> SubSeq(text, i, j) = Punctuation[kind]

LexemeKinds ==
  {"SP_IDENT", "LT_INTEGER", "LT_REAL", "LT_STRING", "LT_CHAR", "SP_EOL"} \cup DOMAIN Punctuation

KindOfWord(kind) == IF kind \in LexemeKinds \cup {"SP_EOF", "SP_ERROR"} THEN kind ELSE "SP_IDENT"

(* The token that was scanned last; each of them was that once.            *)
Newest == tokens[Len(tokens)]

(* A token is the longest lexeme that begins where it begins, and an error *)
(* is reported only where none does.                                       *)
TokensAreLongest ==
  tokens # <<>> /\ ~Scanned =>
    LET kind    == KindOfWord(Newest.kind)
        matches == {m \in LexemeKinds \X (Newest.first .. Len(text)) : Lexeme(m[1], Newest.first, m[2])}
    IN  IF kind = "SP_ERROR" THEN matches = {}
        ELSE <<kind, Newest.last>> \in matches /\ \A m \in matches : m[2] <= Newest.last

(* A word is a keyword just if it is spelled like one, but that OF, SET    *)
(* and TO are not known, NET is NOT, and every word that begins with IF,   *)
(* NEW or OR is taken for that keyword.                                    *)
Prefixes == {"IF", "NEW", "OR"}

KeywordsAreExact ==
  LET word == Joined(SubSeq(text, Newest.first, Newest.last))
  IN  tokens # <<>> /\ KindOfWord(Newest.kind) = "SP_IDENT" =>
        Newest.kind =
          CASE word \in {"TRUE", "FALSE"} -> "LT_" \o word
            [] \E p \in Prefixes : Begins(word, p) ->
                 "KW_" \o (CHOOSE p \in Prefixes : Begins(word, p))
            [] word = "NET" -> "KW_NOT"
            [] word \in Range(Keywords) \ {"OF", "SET", "TO"} -> "KW_" \o word
            [] OTHER -> "SP_IDENT"
=============================================================================
