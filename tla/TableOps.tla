------------------------------ MODULE TableOps ------------------------------
(***************************************************************************)
(* table.c: an open-addressing hash table with linear probing, as          *)
(* operators on a record [count, capacity, entries].  Keys are pointers to *)
(* strings: here positive numbers, with NULL = 0; a key's hash is deleted   *)
(* beside it.  An entry has no state of its own: that it is empty or was   *)
(* deleted is encoded in its value, BOOL false (TABLE_NIL) and BOOL true.  *)
(***************************************************************************)
EXTENDS Bytecode, FiniteSetsExt, Sequences

CONSTANT TABLE_CAPACITY_INIT   \* CAPACITY_INIT of table.c

ASSUME TableCapacityAssumption == TABLE_CAPACITY_INIT \in Nat \ {0}

NULL      == 0
TABLE_NIL == Bool(FALSE)
Tombstone == Bool(TRUE)

EmptyEntries(capacity) == [s \in 0 .. capacity - 1 |-> [key |-> NULL, value |-> TABLE_NIL]]

table_init ==
  [count |-> 0, capacity |-> TABLE_CAPACITY_INIT,
   entries |-> EmptyEntries(TABLE_CAPACITY_INIT)]

(***************************************************************************)
(* _find_entry: the first slot from the home slot on that is empty or      *)
(* holds the key, or the first deleted slot passed on the way to an empty  *)
(* one.  A key stored with a BOOL value is not seen.  SPIN: every slot is  *)
(* taken by other keys or deleted, and the loop has no bound.              *)
(***************************************************************************)
SPIN == -1

FindEntry(entries, capacity, key, hash) ==
  LET slot(j)  == (hash + j) % capacity
      value(j) == entries[slot(j)].value
      stops    == {j \in 0 .. capacity - 1 :
                     \/ value(j) = TABLE_NIL
                     \/ value(j).kind # "BOOL" /\ entries[slot(j)].key = key}
      deleted  == {j \in 0 .. Min(stops) - 1 : value(j) = Tombstone}
  IN  IF stops = {} THEN SPIN
      ELSE IF value(Min(stops)) = TABLE_NIL /\ deleted # {} THEN slot(Min(deleted))
      ELSE slot(Min(stops))

-----------------------------------------------------------------------------
(* A call has an outcome: "ok", "crash" (a NULL pointer is dereferenced)   *)
(* or "spin" (it never returns); the table it leaves is that of the "ok"   *)
(* outcome.                                                                *)
Outcome(outcome, table) == [outcome |-> outcome, table |-> table]

NeedsToGrow(table) == 4 * table.count >= 3 * table.capacity

(***************************************************************************)
(* _adjust_capacity re-inserts every slot of the old table, used or not,   *)
(* so it reads the hash of the NULL key of an unused one.  A key keeps the *)
(* value of its new slot; that is TABLE_NIL, so every new slot goes on     *)
(* looking empty and every key ends in its home slot, the last one wins.   *)
(***************************************************************************)
AdjustCapacity(table, capacity, hashOf) ==
  LET old     == table.entries
      home(t) == hashOf[old[t].key] % capacity
      at(s)   == {t \in DOMAIN old : home(t) = s}
      moved   == [s \in 0 .. capacity - 1 |->
                    [key   |-> IF at(s) = {} THEN NULL ELSE old[Max(at(s))].key,
                     value |-> TABLE_NIL]]
  IN  IF \E t \in DOMAIN old : old[t].key = NULL
      THEN Outcome("crash", table)
      ELSE Outcome("ok", [count    |-> table.capacity,
                          capacity |-> capacity,
                          entries  |-> moved])

(***************************************************************************)
(* table_insert.  The test that would count a new key is on the address of *)
(* the entry, which is never NULL: count stays what it was.                *)
(***************************************************************************)
Stored(table, slot, key, value) ==
  [table EXCEPT !.entries[slot] = [key |-> key, value |-> value]]

Filled(table, key, value, hash) ==
  LET slot == FindEntry(table.entries, table.capacity, key, hash)
  IN  IF slot = SPIN THEN Outcome("spin", table)
      ELSE Outcome("ok", Stored(table, slot, key, value))

TableInsert(table, key, value, hashOf) ==
  LET grown == IF NeedsToGrow(table)
               THEN AdjustCapacity(table, 2 * table.capacity, hashOf)
               ELSE Outcome("ok", table)
  IN  IF grown.outcome # "ok" THEN grown
      ELSE Filled(grown.table, key, value, hashOf[key])

(***************************************************************************)
(* table_find_string walks the slots from the hash on.  Every slot has an  *)
(* address, so its key is read even when it is NULL, and no slot ends the  *)
(* walk; memcmp's result is used as if it were true of equal strings.      *)
(***************************************************************************)
FindString(table, chars, hash, charsOf, hashOf) ==
  LET slot(j)  == (hash + j) % table.capacity
      key(j)   == table.entries[slot(j)].key
      crash    == {j \in 0 .. table.capacity - 1 : key(j) = NULL}
      match    == {j \in (0 .. table.capacity - 1) \ crash :
                     /\ Len(charsOf[key(j)]) = Len(chars)
                     /\ hashOf[key(j)] = hash
                     /\ charsOf[key(j)] # chars}
      stops    == crash \cup match
  IN  IF table.count = 0 \/ stops = {}
      THEN [outcome |-> IF table.count = 0 THEN "ok" ELSE "spin", key |-> NULL]
      ELSE IF Min(stops) \in crash THEN [outcome |-> "crash", key |-> NULL]
      ELSE [outcome |-> "ok", key |-> key(Min(stops))]
=============================================================================
