------------------------------- MODULE ObjOps -------------------------------
(***************************************************************************)
(* obj.c: heap strings.  A store is what vm_init sets up for them:         *)
(*   heap      every string object ever allocated, by number; its chars    *)
(*             and whether it owns a copy of them (obj_string_copy) or     *)
(*             points into the source text (obj_string_ref),               *)
(*   objects   the list objects_free walks, newest first,                  *)
(*   strings   the intern table.                                           *)
(***************************************************************************)
EXTENDS TableOps

CONSTANT StringHash(_)   \* table_hash: any function of the chars

EmptyStore == [heap |-> <<>>, objects |-> <<>>, strings |-> table_init]

HashOf(heap) == [id \in DOMAIN heap |-> StringHash(heap[id].chars)]

(* The interned string with these chars, if table_find_string has one.     *)
Interned(store, chars) ==
  FindString(store.strings, chars, StringHash(chars),
             [id \in DOMAIN store.heap |-> store.heap[id].chars], HashOf(store.heap))

(* A new object; an owned one is linked, and both are put into the table.  *)
\* Mutant: both are linked.
LinkedBoth(objects, id, owned) == <<id>> \o objects

Linked(objects, id, owned) == IF owned THEN <<id>> \o objects ELSE objects

NewString(store, chars, owned) ==
  LET id   == Len(store.heap) + 1
      heap == Append(store.heap, [chars |-> chars, owned |-> owned])
      put  == TableInsert(store.strings, id, TABLE_NIL, HashOf(heap))
  IN  [outcome |-> put.outcome,
       string  |-> id,
       store   |-> [heap    |-> heap,
                    objects |-> Linked(store.objects, id, owned),
                    strings |-> put.table]]

ObjString(store, chars, owned) ==
  LET found == Interned(store, chars)
  IN  IF found.outcome = "ok" /\ found.key = NULL
      THEN NewString(store, chars, owned)
      ELSE [outcome |-> found.outcome, string |-> found.key, store |-> store]

obj_string_ref(store, chars)  == ObjString(store, chars, FALSE)
obj_string_copy(store, chars) == ObjString(store, chars, TRUE)
=============================================================================
