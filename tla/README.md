# A verification project for campseudo

campseudo is an interpreter, in C, for a teaching pseudocode.  A source text is
scanned and parsed to a tree of expressions (`parser.c`), the tree is compiled to
byte code (`chunk.c`), and a stack machine runs the code (`vm.c`).  So far only
expressions have code; `grammer.txt` describes the whole language.  `main` compiles
one fixed text; the models take many texts, every small tree, and every short sequence
of tokens, because nothing in the code depends on that text.

The modules here are translated from the code.  TLC checks them on small instances
(`tlc -config X.cfg M`), and TLAPS proves theorems about the line table, the value stack, compiler and machine,
the parser, the intern table, memory, the scanner, the arena and the program that joins
them, for every value of the constants (`tlapm M_proofs.tla`).

## 1. Inventory

| component | state | operations | interacts with |
|---|---|---|---|
| scanner (`scanner.c`) | `start`, `current`, `line` into the text | `scanner_scan_token` | called by the parser for each token |
| parser (`parser.c`) | the current token; the C call stack | `parser_init`, `parser_parse` | takes tokens, makes nodes in the arena |
| syntax tree (`ast.c`) | a chain of blocks of nodes | `ast_arena_make`, `_new`, `_free` | filled by the parser, read by the compiler |
| compiler (`chunk.c`) | the chunk: code, constants, line table | `chunk_write_from_ast`, `chunk_write`, `chunk_write_constant` | creates string objects while it writes |
| line table (`chunk.c`) | runs `[line, bytes]` in one array | `_line_write`, `chunk_get_line` | written with every byte of code, read by the disassembler |
| virtual machine (`vm.c`) | `ip`, the value stack, objects, intern table | `vm_interpret` (`_run`) | reads the chunk, pushes and pops values |
| value stack (`stack.c`) | one heap block with a pointer `top` into it | `stack_put`, `stack_pop`, `stack_reset`, init, free | used by every instruction |
| values (`value.c`) | a tag and a union | `value_is_equal`, the growing array of constants | everywhere |
| string objects (`obj.c`) | a linked list `vm.objects` | `obj_string_ref`, `obj_string_copy`, `objects_free` | made by compiler and machine, interned |
| intern table (`table.c`) | open addressing, linear probing, `count`, `capacity` | insert, member, delete, find_string, add_all | used by string objects |
| memory (`memory.c`) | none | `reallocate` | all arrays |
| main (`main.c`) | none | `main`, `interpret` | calls all the others in turn |

What makes them correct, and what is hard about it:

* **Line table**: each byte is blamed on the line it was written for.  Two words per
  run in an array whose capacity counts words; merging with the last run; a loop
  that subtracts counts.
* **Compiler and machine** agree on a byte format that nothing declares: two forms
  of the constant instruction, chosen by the size of the code and not by the index;
  lengths known separately to the writer, the machine and the disassembler;
  recursion that must leave the operands in order.
* **Machine**: nothing is checked at run time.  Pops have no guard, a union is read
  by the tag of one operand, one instruction returns from the loop.  C leaves several
  of these undefined; the models say what a build can make of them.
* **Value stack**: `top` is a pointer into a block that `realloc` may move.
* **Strings**: what is interned, what is linked and what owns its characters are
  three different sets.
* **Intern table**: its loops end only at an empty slot; the state of a slot is
  encoded in its value.
* **Parser**: precedence climbing through function pointers that may be `NULL`,
  and an index beyond the array of rules.
* **Scanner**: a keyword trie written by hand, two characters of lookahead for a
  number, newlines that are counted in three places.
* **Arena**: nodes are known by their address, are made before their operands are
  parsed and filled in after, while blocks are added; the size of a block is computed
  in 32 bits.
* **Memory**: blocks move under their owners; `vm_free` and `chunk_free` know only some
  of the pointers into what they free.

There is one thread and no message, file or crash to recover from; the hazards in
`PROJECT.json` are therefore those of ordering, limits, stale pointers and sequences
of calls.

## 2. The modules

```
Bytecode  <-  ChunkOps  <-  LineTable  <-  LineTable_proofs, MCLineTable
                 ^------  ChunkOps_proofs  <-  LineTable_proofs, Interpreter_proofs
    ^            ^
TableOps  <-  ObjOps  <-  Session  <-  Compiler, Vm  <-  Interpreter  <-  MCAnyTree, MCMeaning, MCWide,
    ^                                     ^                  |            MCGrammar, Interpreter_proofs
  Table  <-  Table_proofs, MCTable        |                  |
Program  <--------------------------------+--- Reference  <--+ (INSTANCE)
   ^
Parser  <-  Parser_proofs, MCParser, MCSentences
Keywords  <-  Scanner
Scanner, Arena, Parser (INSTANCE), Interpreter (INSTANCE)  <-  Main  <-  MCMain
NodeStore  <- (INSTANCE, refinement) -  Arena
Main, ChunkOps_proofs, Parser_proofs, Interpreter_proofs (INSTANCE)  <-  Main_proofs
Lifo  <- (INSTANCE, refinement) -  Stack  <-  Stack_proofs, MCStack
Memory  <-  Memory_proofs, MCMemory
```

| module | models | state and actions |
|---|---|---|
| `Bytecode` | `enum opcode`, `struct value` | opcodes are their numbers; a value is `[kind, num, den]`, a double an exact fraction, a union member that was never written `den = 0` (`Junk`) |
| `ChunkOps` | the arrays of a chunk | operators: `LineWrite`, `GetLine`, `ChunkWrite`, `WriteConstant`, `WriteValue`, and the disassembler's steps |
| `LineTable` | `_line_write`, `chunk_get_line` | one action per call of the writer; the loop of the lookup one iteration per step |
| `TableOps` | `table.c`, as the interpreter uses it | operators with an outcome: "ok", "crash" (a NULL key is read), "spin" (the loop has no end) |
| `Table` | `table.c`, as its header offers it | one action per call with any key and value; the loop of an insertion one slot per step |
| `ObjOps` | `obj_string_ref`, `obj_string_copy` | a store: heap, list of objects, intern table |
| `Memory` | who owns which block, and who frees it | `reallocate` as `Allocate`, `Move`, `Release`; one action per caller, `vm_free` call by call, the loop of `objects_free` object by object |
| `Session` | what `main` passes on | `chunk`, `store`, `phase` |
| `Program` | `struct ast` | a tree is the sequence of its nodes in post-order; a node knows where its subtree begins |
| `Arena` | `ast.c` | blocks, cells, the pointer each node was given; `ast_arena_free` block by block; refines `NodeStore` |
| `NodeStore` | what an arena promises | abstract specification |
| `Compiler` | `chunk_write_from_ast`, `main`'s RETURN | the recursion is a sequence of pending visits; one action per group of cases of the switch |
| `Vm` | `_run` | one action per instruction (or its way of failing) |
| `Reference` | what an expression means | no machine: the meaning of a node from those of its operands |
| `Interpreter` | compiler then machine | composes `Compiler` and `Vm`; all properties of the two |
| `Lifo` | what a stack promises | abstract specification |
| `Stack` | `stack.c` in memory | block, cells, `top` as a pointer `[block, index]`; refines `Lifo` |
| `Keywords` | the keyword trie | a table of the paths of `_make_identifier_kind` and what `_check_keyword` compares at their ends |
| `Scanner` | `scanner.c`, the loop of `interpret` | position and line in a text; one action per kind of token, and for blanks and comments |
| `Parser` | `parser.c` | the C call stack is the sequence `frames`; one action per function, return or loop exit |
| `Main` | `main.c`, from the text to the freed arena | composes `Scanner`, `Parser`, `Arena` and `Interpreter`; a parser's step that makes or fills a node is also a step of the arena |

`Main` lets the scanner take all its tokens before the parser asks for the first: the
scanner reads nothing but the text and the parser looks at no token before it has
asked for it, so that when a token is taken makes no difference to either.  The arena
acts in `Main` by its own actions only, so all that is proved of `ArenaSpec` holds there
(`ProgramKeepsArena`, `ProgramHasNodeStore`).

Conventions.  Names are the source's where TLA+ allows.  History variables
(`written`, `starts`, `emitted`, `token`, `grouped`, `made`, `latest`, `used`) record what happened and guard
nothing.  A definition that begins with the comment `Mutant:` is a plausible bug,
used by no specification; it stands before the definition it would replace, and the
property listed with it in `PROJECT.json` is violated when it does.

What C leaves open is a choice in the model:

* Reading a union by another tag gives `Junk`; comparing or equating junk gives
  either truth value; dividing it may trap or not; printing or joining a junk
  pointer, popping an empty stack and a constant index beyond the array lead to the
  phase "wild", after which nothing is modelled.
* `value_is_equal` compares a CHAR, REAL or INTEGER with the *bool* member of its
  partner.  `LowBytes` and `BoolLoads` give every value a build may load.
* The three reads of `READ_CONSTANT_LONG` are unsequenced: `READ_ORDERS` is a
  parameter.  gcc reads from left to right.
* INTEGER overflow wraps; `x / 0` and the least integer by -1 trap.
* Whatever `_run` returns keeps the low `RESULT_BITS` bits (an `enum` is unsigned).

The phases also make the following behaviour of the code visible; each is modelled as
it is: subtraction, MOD, AND and OR are compiled to nothing; `-5` ends the run with -5
as its result code; `>=` is carried out as `<=`; `0.5 = 0.5` is false; `<>` is `=` in
the machine (and the parser calls a NULL function for it, as for a unary `+`); a CHAR
is always 0, because `atoi` meets its quote; `(1 2` is parsed as `1`; no key of a
table is ever counted, so no string is ever found interned, and one interned later
takes the slot of one that hashes alike.  In the scanner: OF, SET and TO are no keywords; NET is
NOT; every word that begins with IF, NEW or OR is that keyword (but for one
whose length, which the switches test as a `uint16_t`, wraps to less than the keyword's); a CHAR may have two
characters; the exponent of `2.5e3` is read by `strtod` in the parser and is the
scanner's next token.

## 3. What is checked

Twelve runs.  Nine must pass:

| run | question | bounds, and why they are enough |
|---|---|---|
| `source` | is what a text says what is printed, through all components? | all sequences of three pieces the scanner has to tell apart; every keyword, and words one letter shorter, longer or different; a thousand expressions of three operands, some over several lines; an arena of 2 cells and sizes modulo 16, so that blocks are added, of 3, 4, 6 and 1 cells, the last after the size has wrapped |
| `table` | what does the table do, whatever it is given? | three keys for three slots, two of which start at the last one: a full table, a probe that comes round; `TABLE_NIL`, the deleted mark and two INTEGERs as values |
| `memory` | is what is in use live, and what is freed freed once? | ten blocks: a machine and a chunk, either of them twice, strings of both kinds, and moves in between |
| `line_table` | is a byte blamed on its line, and does the lookup find it? | 6 bytes over 3 lines, capacity 3: two growths of the array (from an odd capacity, where one word is left of it when a run needs two), a line that comes back, every offset including those past the end |
| `stack` | does the stack in memory behave as a stack, across reallocations? | capacity 2, depth 5: two growths, every order of put, pop, `top[-1]`, reset and free |
| `any_tree` | is the code well formed, and does the machine keep its place in it and stop, whatever the tree? | all trees up to three nodes over 8 literals of all kinds and every operator, and all sums and concatenations of three literals; `SHORT_LIMIT` 3 instead of 255 puts both forms of constant into one chunk; INTEGERs of 3 bits overflow; three read orders |
| `meaning` | does a supported program print what it means? | trees up to four nodes over numbers and truth values, supported trees up to five nodes, with strings as well; INTEGERs of 8 bits, so that overflow is a special case |
| `wide` | what happens at the limits of the source? | one sum of 258 literals with the source's limits of 255 and 256 |
| `parser` | is the parse a tree of the whole sentence, in order, by precedence? | all sequences of 3 tokens out of 11 kinds, all sentences of 7 tokens over three precedences with both unary operators and parentheses, all chains of 3 operators out of 15 |

Trees of three nodes put every operator on every pair of kinds; five nodes put one
operator's result into another, on either side.  More nodes add no new pair of
neighbours.  A chain of three operators shows grouping of three precedences at once.

Properties:

* `source`: `PrintsTheText` (a text that has a value, told by splitting it at its
  operators and without a parser, prints it and nothing else; `"a" & "b"` prints `ab`), `NothingIsLost` (the
  tokens, blanks and comments are the text, in order), `TokensAreLongest`,
  `KeywordsAreExact` (which words are keywords, and which others are taken for one),
  `LinesOfText` (every token has the line of its place in the text, `LinesOfTokens`, and
  every byte of an instruction that of the token it was compiled from), `NumbersAreTheirDigits`, `TreeInArena` (each finished node is in its cell and
  points to the cells of its operands), `ArenaIInv` (the inductive invariant of the proofs: no
  cell is handed out twice, blocks are linked and freed in turn), `ImplementsNodeStore`
  (the refinement of `NodeStore`), `EveryTextEnds`.
* `table`: `NothingIsFound` (no key is counted, found or deleted, and the table never
  grows, so the code that rebuilds it is never reached), `LoopIsFindEntry` (the loop
  stores where the operator `FindEntry` of the other modules says), `InsertReturns` (it
  ends if a slot is empty or holds the key), `IsMap` (while no value looks like a
  mark, each key has one slot with its last value), `InternsAtHome` (as the interpreter
  uses it, each slot holds one of the strings that hash to it).
* `memory`: `NothingDangles` (what is in use is live, between the calls of `vm_free`
  too), `VmFreeFaults` (a block is freed twice or from within just if a string was made
  by `&`), `LiteralsLeak` (what is left when all is freed).
* `line_table`: `InBounds` (no word is written past the capacity), `LookupCorrect` (a
  lookup returns the line the byte was written for), `LoopIsGetLine` (the loop computes
  the operator `GetLine` that other modules use).
* `stack`: `IInv`, and `ImplementsLifo`, the refinement of `Lifo` with the live cells
  as contents.
* `any_tree`: `InstructionsTile` (each instruction begins where the one before it
  ends), `ArraysFit`, `OperandNamesLiteral` (the operand names the literal of its
  node), `CodeIsPostOrder`, `IpAligned` (`ip` is never inside an instruction),
  `ObjectsAreOwned` (what the list of objects really holds), `Terminates`, `TypeOK`.
* `meaning`: `PrintsItsMeaning` (a supported program prints its meaning, leaves an
  empty stack and returns OK), `WildHasCause` (undefined behaviour needs a string or an
  operator that was dropped), `TraceIsTrue` (the trace tells what the step does).
* `wide`: `FetchedConstant` (constant *i* is fetched for *i* < 256, constant *i* mod 256
  for later ones).
* `parser`: `ParsesToTree`, `InReadingOrder`, `BindsByPrecedence`, `AcceptsSentences`,
  `ParseEnds`.

"Supported" excludes what the code does not carry out: subtraction, MOD, AND, OR,
`>=`, `<>`, negation of an INTEGER, `=` on anything but truth values, `/` on INTEGERs
(the machine gives an INTEGER quotient), operands of two kinds, overflow and division
by zero.  It is a condition on the meaning of the operands, not on what the machine
does.  A GROUP, POINTER or NOT_EQUAL node is a node kind the parser never makes; trees
with them are compiled in `any_tree` because the compiler has cases for them.
A sentence is an expression of `grammer.txt` without identifiers; truth values and
operators around parentheses are taken as sentences too, as the parser does.

Three runs are violations of what the documents and declarations of the repository
say: `negation` (`ResultIsAResultCode`), `greater_equal` (`PrintsTheRelation`) and
`inequality` (`ParsesEverySentence`).  Each compiles or parses the smallest expression
that shows it.

Fairness.  The program is one thread that waits for nothing, so a step that can be
taken is taken: weak fairness of the whole step relation in `Interpreter`, `Parser` and
`Main`, and of the steps of the probe loop in `Table`, whose client may stop calling.
`Stack`, `LineTable`, `Arena` and `Memory` have no liveness property and no fairness.

Deadlock is checked in every run but `memory`, where no block may be left; where the
program ends, an explicit stuttering action says so.

## 4. What is proved

For every capacity, every set of lines, trees, token sequences, keys or values and every
bound.  Each proof has one step per action of `Next` and one inductive invariant, or
several that are laid one upon the other.

### The line table (`LineTable_proofs`)

* `LineTableInBounds`: `Spec => []InBounds`, and `LineTableLookup`:
  `Spec => LookupCorrect`.  The invariant `IInv` relates the runs to the histories
  `written` and `starts`: run *k* begins at `starts[k]`, all its bytes were written for
  its line, the next run begins where it ends, and while a lookup is under way its
  running total is the start of the run it looks at and the byte lies beyond that
  start.  Without the histories neither property is inductive: the runs alone do not
  remember which byte was written for which line.
* `LoopGetsLine`: `Spec => LoopIsGetLine`.  `GetLine` adds up the runs; that its sums are
  the `starts` of the history is shown by induction (`RunEnds`), and `Skipped` says that
  the loop has passed over no run that ends beyond the byte.

Needed of the constants: lines are natural numbers, the first capacity is positive (the
code's is 8).

### The value stack (`Stack_proofs`)

* `StackTopInBlock`: `Spec => []IInv`, and `StackImplementsLifo`:
  `Spec => ImplementsLifo`.  `IInv` says that while the stack is live `top` points into
  the *current* block, at most one past its last cell, and that all cells below it were
  stored by a put.  It is inductive because growth moves `top` to the new block by its
  index; each step then maps to a step of `Lifo`: the cells below `top` are the contents,
  so `PutInPlace` and `PutGrowing` are the same abstract put.

### Compiler and machine (`Interpreter_proofs`)

For every set of trees, every width of an INTEGER and of a result, every limit of the
short form and every set of loads C leaves open.  Needed of the constants: the programs
are trees whose literals have the kind of their node (`ProgramsAssumption`), the first
capacity is positive.

* `CodeIsTiled`: `Spec => []InstructionsTile`, `ChunkFits`: `Spec => []ArraysFit`, and
  `MachineInStep`: `Spec => []IpAligned`.  The argument has two halves.  While the
  compiler is at work, `Tiles` says that the instructions written so far cover the code
  without a gap and that each lies inside it; `Pending` says that every call under way is
  for a node of the tree, and that an opcode is pending only for an operator that has one:
  without it `WriteOperator` could write anything.  While the machine runs,
  `AtInstruction` says that it is at one of these instructions and that the last one is a
  RETURN; a step moves `ip` by the length of its instruction (`StepLength`) and RETURN
  ends the run, so the next one is there.  `IpAligned` alone is not inductive: it does
  not say that there is a next instruction.  What is on the stack plays no part, so
  undefined behaviour of the data cannot break this.
* `OperandsNameLiterals`: `Spec => []OperandNamesLiteral`, and `StringsAreOwned`:
  `Spec => []ObjectsAreOwned`, by `LiteralsIInv`: the *k*-th constant instruction has the
  *k*-th constant, which shows the literal of its node; the characters of an object never
  change; and the list of objects is what `&` made, newest first.  The property counts
  constant instructions, so every instruction that is written has to be shown to move
  that count as it moves the number of constants.
* `CodeInPostOrder`: `Spec => []CodeIsPostOrder`, by `OrderIInv`.  The calls under way do
  not say what was compiled already.  What does is a mark in the tree's post-order: the
  pending calls, from the innermost on, are for the subtrees that follow the mark one
  after the other (`Chain`), and the instructions written are those of the nodes before
  it (`WrittenTo`).  Each action moves the mark over one node or leaves it.  The same
  invariant gives every instruction the depth the stack has there (`Heights`).
* `WildlyOnlyWithCause`: `Spec => []WildHasCause`, by `TameIInv`: in a program without
  strings, `&` and dropped operators all constants are plain values, the stack holds
  plain values, and it is as deep as the instruction's height says, so that no pop finds
  it empty and no pointer is followed.
* `FetchesLiteral`: `Spec => FetchedConstant`, an action property.  The push of a
  constant ends in phase "wild" if that is an object whose pointer was never written;
  `SoundIInv` says that there is none among the constants or on the stack.

* `TypeCorrect`: `Spec => []TypeOK`.  `TypedIInv` adds to it that the values in the heap,
  among the constants and on the stack are of the machine's widths, whatever was read by
  the wrong tag.  What has to be shown of the operators is that wrapping and the
  quotient that truncates stay in the width of an INTEGER.
* `TraceTellsTruth`: `Spec => TraceIsTrue`.  The disassembler puts an index together with
  `|`; a byte is the sum of its bits (by induction over the bits, in
  `ChunkOps_proofs`), and the second and third byte of an operand are 0, because the
  index is cut to a byte before it is taken apart.
* `PrintsMeaning`: `Spec => [](ConstantCount(chunk) <= 256 => PrintsItsMeaning)`, the
  correctness of compiler and machine.  The bound is the code's: a later constant is
  fetched as another one (`FetchesLiteral`).  `SpokenIInv` says that each instruction is
  the one its node asks for; `MeaningIInv`, that in a supported program the stack holds
  the meanings of the subtrees that are done and whose parent is not, the innermost on
  top.  Where `CodeInPostOrder` has the mark of compilation, this has the instruction the
  machine is at.  A constant instruction pushes the literal of a new subtree, an operator
  replaces the topmost one or two subtrees by the one they are the operands of, and
  RETURN is met with one subtree left, the program.  That each operator of the machine
  computes the reference's meaning on values that denote its operands' meanings is a
  lemma for each; a GROUP has no instruction, and its meaning is its operand's.

Some of these have a hypothesis.  `Hashed`, that a hash is a natural number
(`CodeInPostOrder`, `WildlyOnlyWithCause`, `PrintsMeaning`): it is a `uint32_t`, and
without it the intern table could crash and leave compilation unfinished.  `LowByteFirst`,
that the first read of a long operand gives its low byte (`WildlyOnlyWithCause`,
`FetchesLiteral`, `TraceTellsTruth`, `PrintsMeaning`): the reads of `READ_CONSTANT_LONG`
are unsequenced, and gcc makes them from left to right.  Where they are made in another
order a long constant is indeed another one: the run `any_tree` has such orders,
`meaning` and `wide` have gcc's.

Needed of the constants besides: literals of a tree are values of the machine
(`LiteralsAssumption`, `IntegersAssumption`), and what is used of powers of two, of which
the provers know nothing: that an INTEGER has as many values below 0 as from 0 on
(`PowersAssumption`) and a result has room for the two result codes
(`ResultBitsAssumption`).  TLC evaluates them in every run of `Interpreter`.

### The parser (`Parser_proofs`)

For every set of token sequences, sentences or not.  Needed of the constant: a token has a
kind of the scanner's and a line from 1 on (`InputsAssumption`).

* `ParserMakesTrees`: `Spec => []ParsesToTree`, and `OperatorsBind`:
  `Spec => []BindsByPrecedence`.  The invariant `ParserIInv` gives every function on the C
  stack a *cut*: how many nodes had been finished when its operand began.  Between two
  cuts lies one finished tree or none, so that what is built is a forest with one tree
  for each function that waits (`Forest`); a binary operator has its left operand just
  before its cut, and what it holds, and what the call it belongs to may still take,
  is bounded by the precedences both ask for (`Tight`).  The cuts are no variable of the
  parser, so the invariant says that there are some.
* `SentencesAreAccepted`: `Spec => []AcceptsSentences`, and `TreesAreInReadingOrder`:
  `Spec => []InReadingOrder`.  `FollowsIInv` says how the stack reads the sentence: as
  many groups wait as parentheses are open, an operand is asked for just where the
  sentence has one, and each token taken is a parenthesis, has a node, or waits on the
  stack.  Where the grammar allows a token, the rule it meets is therefore never NULL,
  and the loops end only where the sentence, or its group, does.

* `NodesHaveTheirLines`: `Spec => []NodesLined`, by `NodesMade`: a node is made of the token
  of its number, a literal its value, an operator its kind and its line, which
  for an operator the parser has long passed when it fills in the node.
* `TreesAreReadings`: `Spec => []TreeIsReading`, what precedence climbing is for.  The
  tree of a sentence is the one its tokens spell when they are read without a parser:
  split at the last of the operators outside all parentheses that bind least; failing
  that, apply the prefix operator; failing that, take off the parentheses.  `SpansIInv`
  gives every node of the forest the tokens it stands for, the parentheses around it
  included (`Laid`); with `OperatorsBind` that makes the node's token the last of those
  that bind least (`NodeReads`), which is shown from the leaves to the root.

The first two invariants were checked by TLC, with the cuts written out, before they were proved.

### The intern table (`Table_proofs`)

Assumed: hashes are natural numbers, the first capacity is positive.

* `TableFindsNothing`: `Spec => NothingIsFound`, by the invariant that the count is zero
  and the capacity the first one (`Uncounted`), from which every branch that looks at keys
  is dead.
* `StringsStayHome`: `Spec => []InternsAtHome`.  A probe for `TABLE_NIL` values stops at
  the slot it starts at, because a slot that holds a key still looks empty; `Homed` says
  so of the call that is under way.
* `LoopFindsEntry`: `Spec => LoopIsFindEntry`.  `Probing` says of the call under way which
  slots it has passed, none of which it could stop at, and which was the first that looks
  deleted.  The rest is arithmetic of remainders: as many steps as there are slots come
  round to each once (`RoundOnce`), and the loop stops at the first step at which
  `FindEntry` would (`FindsWhereItStops`).
* `TableIsMap`: `Spec => []IsMap`.  `MapHolds` says that each slot that does not look empty
  holds a key with its latest value, that no two hold the same, and that the slots
  from a key's home to its own look occupied: storing in the first free slot keeps that,
  and no key is ever deleted, because `table_delete` finds none.

### The arena, the scanner and the program (`Main_proofs`)

* `ArenaIsSafe`: `ArenaSpec => []ArenaIInv`, and `ArenaIsNodeStore`:
  `ArenaSpec => ImplementsNodeStore`.  `ArenaIInv` is inductive by itself: what was handed
  out of a block lies below its offset (`TakenInOrder`), the offset of a block that is
  not full lies below its size, and a new block is larger than zero.  So a cell that is
  handed out is new, and storing through one node leaves the others as they are, which is
  all that `NodeStore` asks.  Assumed (`ArenaAssumption`): the sizes reached from the first
  one are never zero.  For the code's 1024 and 32 bits this was computed: the growth first
  wraps from 1491036823 to 89071586, and runs into a cycle after 57453 sizes without
  meeting zero.
* `ProgramKeepsArena`: `Spec => []ArenaIInv`, and `ProgramHasNodeStore`:
  `Spec => ImplementsNodeStore`, for the program of `Main`: whatever the text, each of its
  steps makes a node, stores through the pointer of one, frees a block or leaves the arena
  alone.
* `TokensAreTheText`: `Spec => []NothingIsLost`, and `TokensHaveTheirLines`:
  `Spec => []LinesOfTokens`.  `ScannerIInv` adds to the two what the scanner knows between
  them: from the end of the last token to `current` all is blank or comment, and `line`
  is one more than the newlines behind it.  A comment has no newline in it, so that
  skipping one keeps both; the newlines of a token that runs over lines are counted once,
  because the set of those in a row of characters splits where the row does
  (`NewLinesAdd`).  Where a loop of the scanner stops is a least position, which exists by
  the well-ordering of the naturals (`MinIsLeast`), and the terminating NUL stops each.
* `ScannerTakesTheLongest`: `Spec => []TokensAreLongest`.  Each branch of the switch is
  matched with the lexemes of the language: which of them can begin with the character
  it is for (`LexemeStarts`), and how far the longest of these goes (`NumberIsLongest`,
  `QuoteIsNext`, `OperatorIs`, ...).  What the loop of `_make_number` finds is the longest
  number because the digits in front of the point of a REAL are all that are there
  (`PointIsNext`).
* `TreeIsInArena`: `Spec => []TreeInArena`.  Everything proved of the parser alone holds of
  the parser in the program, by an instance of its proofs: the scanner's tokens are an
  input as `InputsAssumption` wants it (`TokensAreInput`), and a step of the one is a step of
  the other (`SameSteps`).  Two facts about its nodes are used: the operands of a node come
  before it (`OperandsBefore`), and no finished node has the token of an operator that
  still waits (`WaitsApart`, from the cuts of `ParserIInv`).  So when the operator's node
  is filled in at last, it is in no finished node's cell, and its operands have their
  cells for good.  `TreeIInv` says besides that what waits has a node in the arena.

* `CodeHasTheLinesOfText`: `Spec => []LinesOfText`, by `LinesIInv`, which has a part for each
  component: the parser's tokens have the scanner's lines, the program compiled is what the
  parser built, and every instruction's bytes are blamed on the line of its node
  (`Blames` of `ChunkOps_proofs`, which every write keeps).
* `NumbersAreAsWritten`: `Spec => []NumbersAreTheirDigits`.  A token of a kind that has
  lexemes is one (`LexemesIInv`, from `TokensAreLongest`), the parser's token is made of the
  scanner's, and the node of its (`NodesMade`).  `Numeral` and `TenTo` are recursive
  functions: that they exist, and unfold, is shown by induction (`RecursionExists`,
  `RecursionIsUnique`).  An exponent of any value but 0 changes a REAL because the powers
  of ten grow (`ScaledDigits`).
* `TextsPrintTheirMeaning`: `Spec => [](ConstantCount(chunk) <= 256 => PrintsTheText)`, from
  the bytes to the value printed.  `PrintsTheText` knows neither nodes nor instructions:
  it takes the value of a span of tokens by splitting it.  The argument has three parts.
  * `WholeIInv` says what the stages hand on.  The tree is one that `Interpreter_proofs`
    allows as a program (`BuiltIsGiven`): of the set `Trees`, which is what its assumptions
    ask and no less than the parser can build.  So all that is proved there holds of
    compiler and machine in the program, by an instance with `Programs <- Trees`
    (`RunIsMachine`), and `PrintsMeaning` says that the value of the last node is printed.
  * `Meaning` unfolds span by span (`MeaningIs`; by induction on the width of a span, as the
    values of the narrower ones are all it asks for), and its split is `TreesAreReadings`'s
    (`SameSplits`).  So a span that reads as a node has no value, or that of the node, by
    induction along the tree and, for a node in parentheses, from the inner pair to the
    outer (`NodesAgree`); and if it has one the machine was written for the whole subtree.
  * A literal has the value of its characters (`LiteralMeans`), a string that of those
    between its quotes: a node holds the token with them, and `StringChars` takes them off
    when the object is made (`StringCharsUnquoted`, `ExcerptUnquoted`).  For a REAL this needs that
    `strtod` finds no exponent behind it: `WordsIInv` says that no operator,
    parenthesis or end of the text begins with an `e` or `E`, and in a sentence nothing
    else follows a literal (`NoExponent`).

  Assumed besides what follows: `MachineAssumption` (the constants of the machine, as in
  `TableOps` and `Vm`), and as in `PrintsMeaning` that hashes are natural numbers (`Hashed`)
  and that the build reads the low byte of a long operand first (`LowByteFirst`).

A text, and a word, is a sequence of characters, and a character a string of length one:
to the provers a string is an opaque constant, but two different ones differ.  Of a text
it is assumed that there is no NUL before its end (`TextsAssumption`); TLC evaluates it in
`source`.  `ChunkAssumption` is that of `ChunkOps`.

### Memory (`Memory_proofs`)

Whatever the number of blocks, and nothing is assumed.

* `FreeingFaults`: `Spec => []VmFreeFaults`.  The invariant `MemoryIInv` says who holds what:
  the blocks of the machine, as far as `vm_free` has come, and the three of the chunk are
  live and apart, and the list of objects is empty unless a string was made by `&`, in
  which case it begins with one.  So `stack_free`, `table_free` and `chunk_free` free live
  blocks, and the loop of `objects_free` faults at its first object or has none.
* `NoBlockDangles`: `Spec => []NothingDangles`, and `OnlyLiteralsLeak`:
  `Spec => []LiteralsLeak`, by `StringsIInv`: until a call faults the blocks of every string
  ever made are live and apart from the arrays (`StringsHeld`), and a block that is live
  is one of these (`Accounted`).  What the list of objects reaches is a recursive set; that
  its members are strings made by `&` follows by induction on the number of links.

### What is not proved

Induction over the natural numbers is not out of reach: `Induction` is proved, where it is
needed, from the well-foundedness of `<`, and a recursive *function* can be shown to exist
and unfolded by it.  The following properties are model-checked only:

* liveness under fairness (`Terminates`, `EveryTextEnds`, `InsertReturns`, `ParseEnds`):
  the provers have no rule for `ENABLED`;
* `PrintsTheText` and `PrintsItsMeaning` beyond 256 constants, where a constant instruction
  fetches another constant than its own (`FetchedConstant`), so that neither need hold;
* which words are keywords (`KeywordsAreExact`): it joins and compares strings, of whose
  contents the provers know nothing.

`Stack!IInv` and `ArenaIInv` are also invariants of the runs.  The other inductive
invariants were given to TLC while their proofs were made.

## 5. What is not modelled

* Allocations that fail: some callers end the process, the others go on with a NULL
  pointer.
* `repl`, `readFile` and `run_file` of `main.c`: they are input only, and `main` does not
  call them.
* What is printed, apart from which value: the texts of the disassembler, the tree
  printer and the value and object printers.  `DEBUG_TRACE_EXECUTION` is on in the
  build, and the trace is modelled as far as how it steps and what it names.
* `table_add_all`: it tests the address of an entry for NULL and so does nothing to a
  table whose entries were never counted; the hash function is a parameter, which is
  all its callers know of it.
* `stack_reset` and the `free` functions in the composition: `main` calls none of them;
  `Stack` and `Memory` have them.
* Rounding of doubles (they are exact); the width of the constants' index beyond the
  three bytes of the code; characters that are not ASCII (`isdigit` of a negative `char`).

## 6. Plan

All are done.

1. `LineTable` and `Stack`, the two data structures of the run, with proofs.
2. `Compiler`, `Vm`, `Interpreter`, `Reference`: the core.
3. `Parser`.
4. `Table`, with proofs.
5. `Arena` and `Memory`, with proofs.
6. `Keywords`, `Scanner`, and `Main`: the whole pipeline on texts.
7. Proofs for `Interpreter`, `Parser`, `Memory`, and the loops of `Table` and `LineTable`.
8. Proofs for the scanner, the arena in the program, and the tree in the arena.
9. Proofs that lines and numbers come through the whole pipeline.
10. The proof that what a text says is what is printed, through all components.
