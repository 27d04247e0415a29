------------------------------- MODULE Table -------------------------------
(***************************************************************************)
(* table.c in the hands of a client that may call what table.h offers with *)
(* any key and any value, the loop of _find_entry one slot per step.  What *)
(* the intern table is told (obj.c) is the value TABLE_NIL only.           *)
(***************************************************************************)
EXTENDS TableOps, Functions

CONSTANTS
  Keys,     \* the strings
  HashOf,   \* the hash of each, a function
  Values    \* the values

ASSUME HashAssumption == HashOf \in [Keys -> Nat]

VARIABLES
  table,
  call,        \* what is under way: [task, key, value]
  index,       \* the slot _find_entry looks at
  tombstone,   \* the deleted slot it has passed, or NONE
  answer,      \* what the last call returned
  latest,      \* history: the value each key was inserted with last
  used         \* history: every value that was inserted

vars == <<table, call, index, tombstone, answer, latest, used>>

NONE == -1

Idle == [task |-> "idle", key |-> NULL, value |-> TABLE_NIL]

Init ==
  /\ table = table_init
  /\ call = Idle /\ index = 0 /\ tombstone = NONE
  /\ answer = FALSE
  /\ latest = <<>> /\ used = {}

Slots == 0 .. table.capacity - 1

HashOfAny == [k \in Keys \cup {NULL} |-> IF k = NULL THEN 0 ELSE HashOf[k]]

(* table_insert up to the call of _find_entry.                             *)
Insert(key, value) ==
  /\ call = Idle
  /\ LET grown == IF NeedsToGrow(table)
                  THEN AdjustCapacity(table, 2 * table.capacity, HashOfAny)
                  ELSE Outcome("ok", table)
     IN  /\ table' = grown.table
         /\ call' = [task |-> IF grown.outcome = "ok" THEN "probe" ELSE grown.outcome,
                     key |-> key, value |-> value]
         /\ index' = HashOf[key] % grown.table.capacity
  /\ tombstone' = NONE
  /\ UNCHANGED <<answer, latest, used>>

Entry == table.entries[index]

(* The loop goes past a deleted slot, the first of which it remembers, and *)
(* past another key.                                                       *)
\* Mutant: the last one is remembered.
PassedLast == IF Entry.value = Tombstone THEN index ELSE tombstone

Passed == IF Entry.value = Tombstone /\ tombstone = NONE THEN index ELSE tombstone

\* Mutant: any key will do.
FoundAny == Entry.value = TABLE_NIL \/ Entry.value.kind # "BOOL"

\* Mutant: a slot that has a key is not taken for an empty one.
FoundByKey == Entry.key \in {NULL, call.key}

Found ==
  \/ Entry.value = TABLE_NIL
  \/ Entry.value.kind # "BOOL" /\ Entry.key = call.key

\* Mutant: the loop does not come round to the first slot.
NextSlotStays == IF index + 1 = table.capacity THEN index ELSE index + 1

NextSlot == (index + 1) % table.capacity

GoOn ==
  /\ call.task = "probe" /\ ~Found
  /\ index' = NextSlot
  /\ tombstone' = Passed
  /\ UNCHANGED <<table, call, answer, latest, used>>

(* The rest of table_insert.  It counts a key only if the pointer to its   *)
(* entry is NULL.                                                          *)
\* Mutant: it counts one if the entry has no key.
CountsNew(slot) == IF table.entries[slot].key = NULL THEN 1 ELSE 0

Counts(slot) == 0

Destination == IF Entry.value = TABLE_NIL /\ tombstone # NONE THEN tombstone ELSE index

table_insert ==
  /\ call.task = "probe" /\ Found
  /\ table' = [Stored(table, Destination, call.key, call.value)
                 EXCEPT !.count = @ + Counts(Destination)]
  /\ answer' = TRUE
  /\ latest' = [k \in DOMAIN latest \cup {call.key} |->
                  IF k = call.key THEN call.value ELSE latest[k]]
  /\ used' = used \cup {call.value}
  /\ call' = Idle /\ index' = 0 /\ tombstone' = NONE

(* table_member, table_delete and table_find_string give up when count is  *)
(* zero.                                                                   *)
SlotOf(key) == FindEntry(table.entries, table.capacity, key, HashOf[key])

Has(key) == table.count # 0 /\ SlotOf(key) # SPIN /\ table.entries[SlotOf(key)].key # NULL

table_member(key) ==
  /\ call = Idle
  /\ answer' = Has(key)
  /\ UNCHANGED <<table, call, index, tombstone, latest, used>>

CharsOf == [k \in Keys |-> <<k>>]

table_find_string(key) ==
  /\ call = Idle
  /\ answer' = (FindString(table, CharsOf[key], HashOf[key], CharsOf, HashOf).key # NULL)
  /\ UNCHANGED <<table, call, index, tombstone, latest, used>>

table_delete(key) ==
  /\ call = Idle
  /\ answer' = Has(key)
  /\ table' = IF Has(key) THEN Stored(table, SlotOf(key), NULL, Tombstone) ELSE table
  /\ UNCHANGED <<call, index, tombstone, latest, used>>

Probe == GoOn \/ table_insert

Next ==
  \/ \E key \in Keys, value \in Values : Insert(key, value)
  \/ \E key \in Keys : table_member(key) \/ table_delete(key) \/ table_find_string(key)
  \/ Probe

(* A call that was made goes on.                                           *)
Spec == Init /\ [][Next]_vars /\ WF_vars(Probe)

-----------------------------------------------------------------------------
(* The code that reads and rebuilds the table is never reached: no key is  *)
(* ever counted, so that none is found or deleted, and the table does not  *)
(* grow, however many keys it is given.                                    *)
NothingIsFound ==
  [][/\ table'.count = 0 /\ table'.capacity = TABLE_CAPACITY_INIT /\ call'.task # "crash"
     /\ (call = Idle /\ call' = Idle => ~answer' /\ table' = table)]_vars

(* The loop stores where FindEntry, which looks at the whole table at once,*)
(* says it does.                                                           *)
LoopIsFindEntry ==
  [][call.task = "probe" /\ call' = Idle =>
       LET slot == SlotOf(call.key)
       IN  slot # SPIN /\ table' = Stored(table, slot, call.key, call.value)]_vars

(* It comes to an end unless every slot holds another key or looks deleted:*)
(* then, as nothing makes room, the insertion never returns.               *)
InsertReturns ==
  \A key \in Keys :
    call.task = "probe" /\ call.key = key /\ SlotOf(key) # SPIN ~> call = Idle

(* Given no BOOL, the table is a map: each key inserted is in one slot,    *)
(* with the value it was inserted with last, and that slot is found.       *)
IsMap ==
  (\A value \in used : value.kind # "BOOL") =>
    /\ \A k \in DOMAIN latest :
         /\ SlotOf(k) # SPIN
         /\ table.entries[SlotOf(k)] = [key |-> k, value |-> latest[k]]
    /\ \A s, t \in Slots :
         table.entries[s].key = table.entries[t].key => s = t \/ table.entries[s].key = NULL

(* As the intern table is used, with TABLE_NIL only, a string stays in its *)
(* home slot until another one with this slot comes and takes its place.   *)
InternsAtHome ==
  used \subseteq {TABLE_NIL} =>
    \A s \in Slots :
      LET here == {k \in DOMAIN latest : HashOf[k] % table.capacity = s}
      IN  table.entries[s].key \in IF here = {} THEN {NULL} ELSE here
=============================================================================
