---------------------------- MODULE Table_proofs ----------------------------
(***************************************************************************)
(* For every capacity, whatever keys and values a table is given, in       *)
(* whatever order, and how ever they hash: its count stays zero            *)
(* (Uncounted); strings that are interned stay at their home slot          *)
(* (Homed); a probe passes over no slot it could stop at, and so stores    *)
(* where FindEntry says (Probing); and without a BOOL among the values     *)
(* the table is a map (Mapped).                                            *)
(***************************************************************************)
EXTENDS Table, TLAPS

(* The inductive invariant: NothingIsFound says the same of single steps.  *)
Uncounted ==
  /\ DOMAIN table = {"count", "capacity", "entries"}
  /\ table.count = 0 /\ table.capacity = TABLE_CAPACITY_INIT
  /\ call.task # "crash"

LEMMA InitUncounted == Init => Uncounted
BY DEF Init, Uncounted, table_init, Idle

LEMMA NeverGrows == Uncounted => ~NeedsToGrow(table)
BY TableCapacityAssumption DEF NeedsToGrow, Uncounted

LEMMA InsertKeeps ==
  ASSUME Uncounted, NEW key, NEW value, Insert(key, value)
  PROVE  table' = table /\ call'.task = "probe"
BY NeverGrows DEF Insert, Outcome

LEMMA NothingHad == ASSUME Uncounted, NEW key PROVE ~Has(key)
BY DEF Has, Uncounted

LEMMA NoStringFound ==
  ASSUME Uncounted, NEW key
  PROVE  FindString(table, CharsOf[key], HashOf[key], CharsOf, HashOf).key = NULL
BY Zenon DEF FindString, Uncounted

LEMMA StoreKeeps ==
  ASSUME Uncounted, table_insert
  PROVE  Uncounted' /\ call' = Idle
<1>1. PICK slot, entry :
        table' = [[table EXCEPT !.entries[slot] = entry] EXCEPT !.count = @ + 0]
  BY DEF table_insert, Stored, Counts
<1>2. /\ DOMAIN table' = {"count", "capacity", "entries"}
      /\ table'.count = 0 /\ table'.capacity = TABLE_CAPACITY_INIT
  BY <1>1 DEF Uncounted
<1> QED
  BY <1>2 DEF Uncounted, table_insert, Idle

(* What every step does that is not an insertion's end.                    *)
LEMMA StepKeeps ==
  ASSUME Uncounted, Next, ~table_insert
  PROVE  /\ table' = table /\ call'.task # "crash"
         /\ call = Idle /\ call' = Idle => ~answer'
<1>1. ASSUME NEW key \in Keys, NEW value \in Values, Insert(key, value)
      PROVE  table' = table /\ call'.task = "probe"
  BY <1>1, InsertKeeps
<1>2. ASSUME NEW key \in Keys, table_member(key) \/ table_delete(key) \/ table_find_string(key)
      PROVE  table' = table /\ call' = call /\ ~answer'
  BY <1>2, NothingHad, NoStringFound DEF table_member, table_delete, table_find_string
<1>3. CASE GoOn
  BY <1>3 DEF GoOn, Idle
<1> QED
  BY <1>1, <1>2, <1>3 DEF Next, Probe, Uncounted, Idle

LEMMA NextUncounted ==
  Uncounted /\ [Next]_vars =>
    /\ Uncounted'
    /\ [/\ table'.count = 0 /\ table'.capacity = TABLE_CAPACITY_INIT /\ call'.task # "crash"
        /\ (call = Idle /\ call' = Idle => ~answer' /\ table' = table)]_vars
<1> SUFFICES ASSUME Uncounted, [Next]_vars
    PROVE  /\ Uncounted'
           /\ [/\ table'.count = 0 /\ table'.capacity = TABLE_CAPACITY_INIT /\ call'.task # "crash"
               /\ (call = Idle /\ call' = Idle => ~answer' /\ table' = table)]_vars
  OBVIOUS
<1>1. CASE table_insert
  <2>1. call # Idle
    BY <1>1 DEF table_insert, Idle
  <2> QED
    BY <1>1, <2>1, StoreKeeps DEF Uncounted
<1>2. CASE Next /\ ~table_insert
  BY <1>2, StepKeeps DEF Uncounted
<1>3. CASE UNCHANGED vars
  BY <1>3 DEF vars, Uncounted
<1> QED
  BY <1>1, <1>2, <1>3

(* No client can make the table count, find, delete or grow: table_insert  *)
(* (table.c) never reaches _adjust_capacity, the others never _find_entry. *)
THEOREM TableFindsNothing == Spec => NothingIsFound
<1> QED
  BY InitUncounted, NextUncounted, PTL DEF Spec, NothingIsFound

(***************************************************************************)
(* Used as obj.c uses it, with TABLE_NIL only, every slot looks empty, so  *)
(* that a probe ends where it begins and nothing is ever passed.           *)
(***************************************************************************)
Homes == 0 .. TABLE_CAPACITY_INIT - 1

Home(key) == HashOf[key] % TABLE_CAPACITY_INIT

At(s) == {k \in DOMAIN latest : Home(k) = s}

LooksEmpty ==
  /\ DOMAIN table.entries = Homes
  /\ \A s \in Homes :
       /\ table.entries[s].value = TABLE_NIL
       /\ table.entries[s].key \in IF At(s) = {} THEN {NULL} ELSE At(s)

ProbesHome ==
  /\ tombstone = NONE
  /\ call.task = "probe" => call.key \in Keys /\ index = Home(call.key)

Homed == used \subseteq {TABLE_NIL} => LooksEmpty /\ ProbesHome

LEMMA HomeIsSlot == ASSUME NEW key \in Keys PROVE Home(key) \in Homes
BY HashAssumption, TableCapacityAssumption DEF Home, Homes

LEMMA InitHomed == Init => Homed
BY DEF Init, Homed, LooksEmpty, ProbesHome, At, Homes, Idle, table_init, EmptyEntries

(* The next key goes to its home, over whatever is there.                  *)
LEMMA StoreStaysHome ==
  ASSUME Uncounted, Homed, table_insert
  PROVE  Homed'
<1> SUFFICES ASSUME used' \subseteq {TABLE_NIL}
    PROVE  LooksEmpty' /\ ProbesHome'
  BY DEF Homed
<1>1. LooksEmpty /\ ProbesHome /\ call.value = TABLE_NIL
  BY DEF table_insert, Homed
<1>2. call.key \in Keys /\ index = Home(call.key) /\ index \in Homes /\ Destination = index
  BY <1>1, HomeIsSlot DEF ProbesHome, table_insert, Destination
<1>3. table'.entries =
        [table.entries EXCEPT ![index] = [key |-> call.key, value |-> TABLE_NIL]]
  <2>1. PICK slot, entry :
          /\ slot = index /\ entry = [key |-> call.key, value |-> TABLE_NIL]
          /\ table' = [[table EXCEPT !.entries[slot] = entry] EXCEPT !.count = @ + 0]
    BY <1>1, <1>2 DEF table_insert, Stored, Counts
  <2>2. table'.entries = [table.entries EXCEPT ![slot] = entry]
    BY <2>1 DEF Uncounted
  <2> QED
    BY <2>1, <2>2
<1>4. /\ DOMAIN latest' = DOMAIN latest \cup {call.key}
      /\ call' = Idle /\ tombstone' = NONE
  BY DEF table_insert
<1>5. ASSUME NEW s \in Homes
      PROVE  /\ table'.entries[s].value = TABLE_NIL
             /\ table'.entries[s].key \in IF At(s)' = {} THEN {NULL} ELSE At(s)'
  <2>1. At(s)' = IF s = index THEN At(s) \cup {call.key} ELSE At(s)
    BY <1>2, <1>4 DEF At, Home
  <2>2. CASE s = index
    BY <1>1, <1>2, <1>3, <2>1, <2>2 DEF LooksEmpty
  <2>3. CASE s # index
    BY <1>1, <1>2, <1>3, <2>1, <2>3 DEF LooksEmpty
  <2> QED
    BY <2>2, <2>3
<1>6. DOMAIN table'.entries = Homes
  BY <1>1, <1>3 DEF LooksEmpty
<1> QED
  BY <1>4, <1>5, <1>6 DEF LooksEmpty, ProbesHome, Idle

LEMMA InsertProbesHome ==
  ASSUME Uncounted, Homed, NEW key \in Keys, NEW value, Insert(key, value)
  PROVE  Homed'
<1>1. table' = table /\ index' = Home(key) /\ tombstone' = NONE /\ call'.key = key
      /\ used' = used /\ latest' = latest
  BY NeverGrows DEF Insert, Outcome, Home, Uncounted
<1> QED
  BY <1>1 DEF Homed, LooksEmpty, ProbesHome, At

LEMMA StepStaysHome ==
  ASSUME Uncounted, Homed, [Next]_vars, ~table_insert
  PROVE  Homed'
<1>1. ASSUME NEW key \in Keys, NEW value \in Values, Insert(key, value)
      PROVE  Homed'
  BY <1>1, InsertProbesHome
<1>2. ASSUME NEW key \in Keys, table_member(key) \/ table_delete(key) \/ table_find_string(key)
      PROVE  Homed'
  <2>1. table' = table /\ UNCHANGED <<call, index, tombstone, latest, used>>
    BY <1>2, NothingHad DEF table_member, table_delete, table_find_string
  <2> QED
    BY <2>1 DEF Homed, LooksEmpty, ProbesHome, At
<1>3. CASE GoOn
  <2>1. used' = used /\ call.task = "probe" /\ table.entries[index].value # TABLE_NIL
    BY <1>3 DEF GoOn, Found, Entry
  <2>2. ~(used \subseteq {TABLE_NIL})
    BY <2>1, HomeIsSlot DEF Homed, LooksEmpty, ProbesHome
  <2> QED
    BY <2>1, <2>2 DEF Homed
<1>4. CASE UNCHANGED vars
  BY <1>4 DEF vars, Homed, LooksEmpty, ProbesHome, At
<1> QED
  BY <1>1, <1>2, <1>3, <1>4 DEF Next, Probe

LEMMA HomedIsInterned == Uncounted /\ Homed => InternsAtHome
BY DEF Uncounted, Homed, LooksEmpty, At, Home, Homes, InternsAtHome, Slots

(* A string that was interned stays in its home slot until another one     *)
(* with this home takes its place (obj_string_ref and obj_string_copy,     *)
(* which call table_insert with TABLE_NIL): for every capacity and hash.   *)
THEOREM StringsStayHome == Spec => []InternsAtHome
<1>1. Init => Uncounted /\ Homed
  BY InitUncounted, InitHomed
<1>2. Uncounted /\ Homed /\ [Next]_vars => (Uncounted /\ Homed)'
  BY NextUncounted, StoreStaysHome, StepStaysHome
<1> QED
  BY <1>1, <1>2, HomedIsInterned, PTL DEF Spec
-----------------------------------------------------------------------------
(* The slots a probe visits: j steps from the home slot on, come round at  *)
(* the last one.                                                           *)
LEMMA Division ==
  ASSUME NEW x \in Nat, NEW c \in Nat \ {0}
  PROVE  \E q \in Nat : \E r \in 0 .. c - 1 : x = q * c + r /\ x % c = r
OBVIOUS

LEMMA Remainder ==
  ASSUME NEW c \in Nat \ {0}, NEW q \in Nat, NEW r \in 0 .. c - 1
  PROVE  (q * c + r) % c = r
OBVIOUS

LEMMA RoundOnce == ASSUME NEW x \in Nat, NEW c \in Nat \ {0} PROVE (x + c) % c = x % c
<1>1. PICK q \in Nat, r \in 0 .. c - 1 : x = q * c + r /\ x % c = r
  BY Division
<1>2. x + c = (q + 1) * c + r /\ q + 1 \in Nat
  BY <1>1
<1>3. ((q + 1) * c + r) % c = r
  BY <1>2, Remainder
<1> QED
  BY <1>1, <1>2, <1>3

LEMMA StepRound == ASSUME NEW x \in Nat, NEW c \in Nat \ {0} PROVE ((x % c) + 1) % c = (x + 1) % c
<1>1. PICK q \in Nat, r \in 0 .. c - 1 : x = q * c + r /\ x % c = r
  BY Division
<1>2. CASE r + 1 < c
  <2>1. r + 1 \in 0 .. c - 1 /\ x + 1 = q * c + (r + 1) /\ 0 * c + (r + 1) = r + 1 /\ 0 \in Nat
    BY <1>1, <1>2
  <2>2. (q * c + (r + 1)) % c = r + 1 /\ (0 * c + (r + 1)) % c = r + 1
    BY <2>1, Remainder
  <2> QED
    BY <1>1, <2>1, <2>2
<1>3. CASE r + 1 = c
  <2>1. 0 \in 0 .. c - 1 /\ q + 1 \in Nat /\ x + 1 = (q + 1) * c + 0 /\ 1 * c + 0 = r + 1 /\ 1 \in Nat
    BY <1>1, <1>3
  <2>2. ((q + 1) * c + 0) % c = 0 /\ (1 * c + 0) % c = 0
    BY <2>1, Remainder
  <2> QED
    BY <1>1, <2>1, <2>2
<1> QED
  BY <1>1, <1>2, <1>3

Slot(h, j) == (h + j) % TABLE_CAPACITY_INIT

LEMMA SlotIsHome == ASSUME NEW h \in Nat, NEW j \in Nat PROVE Slot(h, j) \in Homes
<1>1. h + j \in Nat /\ TABLE_CAPACITY_INIT \in Nat \ {0}
  BY TableCapacityAssumption
<1> QED
  BY <1>1 DEF Slot, Homes

(* A probe stops at the first slot that is empty or holds the key; it has  *)
(* passed those before and remembers the first deleted one of them.        *)
StopsAt(entries, key, s) ==
  entries[s].value = TABLE_NIL \/ (entries[s].value.kind # "BOOL" /\ entries[s].key = key)

PassedAll(entries, key, h, j) == \A i \in 0 .. j - 1 : ~StopsAt(entries, key, Slot(h, i))

IsDeleted(entries, h, i) == entries[Slot(h, i)].value = Tombstone

Remembers(entries, h, j, tomb) ==
  \/ tomb = NONE /\ \A i \in 0 .. j - 1 : ~IsDeleted(entries, h, i)
  \/ \E i \in 0 .. j - 1 :
       /\ tomb = Slot(h, i) /\ IsDeleted(entries, h, i)
       /\ \A m \in 0 .. i - 1 : ~IsDeleted(entries, h, m)

(* A slot at which it stops is reached within one round.                   *)
LEMMA WithinARound ==
  ASSUME NEW entries, NEW key, NEW h \in Nat, NEW j \in Nat,
         PassedAll(entries, key, h, j), StopsAt(entries, key, Slot(h, j))
  PROVE  j \in 0 .. TABLE_CAPACITY_INIT - 1
<1> SUFFICES ASSUME j >= TABLE_CAPACITY_INIT PROVE FALSE
  BY TableCapacityAssumption
<1>1. PICK i : i = j - TABLE_CAPACITY_INIT
  OBVIOUS
<1>2. i \in 0 .. j - 1 /\ h + i \in Nat /\ h + j = (h + i) + TABLE_CAPACITY_INIT
  BY <1>1, TableCapacityAssumption
<1>3. Slot(h, j) = Slot(h, i)
  BY <1>2, RoundOnce, TableCapacityAssumption DEF Slot
<1> QED
  BY <1>2, <1>3 DEF PassedAll

LEMMA IsMin ==
  ASSUME NEW S \in SUBSET Nat, NEW m \in S, \A x \in S : m <= x
  PROVE  Min(S) = m
<1>1. \E y \in S : \A x \in S : y <= x
  OBVIOUS
<1>2. Min(S) \in S /\ \A x \in S : Min(S) <= x
  BY Zenon, <1>1 DEF Min
<1>3. PICK y : y = Min(S)
  OBVIOUS
<1>4. y \in Nat /\ m \in Nat /\ y <= m /\ m <= y
  BY <1>2, <1>3
<1> QED
  BY <1>3, <1>4

(* What FindEntry finds, from where the loop stops.                        *)
LEMMA FindsWhereItStops ==
  ASSUME NEW entries, NEW key, NEW h \in Nat, NEW j \in Nat, NEW tomb,
         PassedAll(entries, key, h, j), StopsAt(entries, key, Slot(h, j)),
         Remembers(entries, h, j, tomb)
  PROVE  /\ FindEntry(entries, TABLE_CAPACITY_INIT, key, h) # SPIN
         /\ FindEntry(entries, TABLE_CAPACITY_INIT, key, h) =
              IF entries[Slot(h, j)].value = TABLE_NIL /\ tomb # NONE THEN tomb ELSE Slot(h, j)
<1> DEFINE slot(i) == (h + i) % TABLE_CAPACITY_INIT
           value(i) == entries[slot(i)].value
           stops == {i \in 0 .. TABLE_CAPACITY_INIT - 1 :
                       \/ value(i) = TABLE_NIL
                       \/ value(i).kind # "BOOL" /\ entries[slot(i)].key = key}
           deleted(m) == {i \in 0 .. m - 1 : value(i) = Tombstone}
           found == FindEntry(entries, TABLE_CAPACITY_INIT, key, h)
<1>1. found = IF stops = {} THEN SPIN
              ELSE IF value(Min(stops)) = TABLE_NIL /\ deleted(Min(stops)) # {}
                   THEN slot(Min(deleted(Min(stops)))) ELSE slot(Min(stops))
  BY Zenon DEF FindEntry
<1>2. j \in 0 .. TABLE_CAPACITY_INIT - 1
  BY WithinARound
<1>3. j \in stops /\ stops \in SUBSET Nat
  BY <1>2 DEF StopsAt, Slot
<1>4. ASSUME NEW i \in stops PROVE j <= i
  <2>1. StopsAt(entries, key, Slot(h, i)) /\ i \in Nat
    BY <1>4 DEF StopsAt, Slot
  <2>2. i \notin 0 .. j - 1
    BY <2>1 DEF PassedAll
  <2> QED
    BY <2>1, <2>2
<1>5. Min(stops) = j /\ stops # {}
  <2> HIDE DEF stops
  <2> QED
    BY <1>3, <1>4, IsMin
<1>6. found = IF value(j) = TABLE_NIL /\ deleted(j) # {} THEN slot(Min(deleted(j))) ELSE slot(j)
  <2> HIDE DEF stops, deleted, value, slot, found
  <2> QED
    BY <1>1, <1>5
<1>7. CASE tomb = NONE /\ \A i \in 0 .. j - 1 : ~IsDeleted(entries, h, i)
  <2>1. deleted(j) = {}
    BY <1>7 DEF IsDeleted, Slot
  <2>2. found = Slot(h, j)
    BY <1>6, <2>1 DEF Slot
  <2> QED
    BY <1>7, <2>2, SlotIsHome DEF SPIN, Homes
<1>8. ASSUME NEW i \in 0 .. j - 1, tomb = Slot(h, i), IsDeleted(entries, h, i),
             \A m \in 0 .. i - 1 : ~IsDeleted(entries, h, m)
      PROVE  found # SPIN /\ found = IF entries[Slot(h, j)].value = TABLE_NIL /\ tomb # NONE
                                     THEN tomb ELSE Slot(h, j)
  <2>1. i \in deleted(j) /\ deleted(j) \in SUBSET Nat
    BY <1>8 DEF IsDeleted, Slot
  <2>2. ASSUME NEW m \in deleted(j) PROVE i <= m
    <3>1. IsDeleted(entries, h, m) /\ m \in Nat
      BY <2>2 DEF IsDeleted, Slot
    <3>2. m \notin 0 .. i - 1
      BY <1>8, <3>1
    <3> QED
      BY <3>1, <3>2
  <2>3. Min(deleted(j)) = i /\ deleted(j) # {}
    <3> HIDE DEF deleted
    <3> QED
      BY <2>1, <2>2, IsMin
  <2>4. found = IF entries[Slot(h, j)].value = TABLE_NIL THEN Slot(h, i) ELSE Slot(h, j)
    <3>1. found = IF value(j) = TABLE_NIL THEN slot(i) ELSE slot(j)
      <4> HIDE DEF deleted, value, slot, found
      <4> QED
        BY <1>6, <2>3
    <3> QED
      BY <3>1 DEF Slot
  <2>5. Slot(h, i) \in Homes /\ Slot(h, j) \in Homes
    BY SlotIsHome
  <2>6. Slot(h, i) # NONE /\ Slot(h, i) # SPIN /\ Slot(h, j) # SPIN
    BY <2>5 DEF Homes, NONE, SPIN
  <2> HIDE DEF found
  <2> QED
    BY <1>8, <2>4, <2>6
<1> QED
  BY <1>7, <1>8 DEF Remembers

(* The loop of _find_entry, between two of its steps.                      *)
Probing ==
  /\ DOMAIN table.entries = Homes
  /\ call.task = "probe" =>
       /\ call.key \in Keys
       /\ \E j \in Nat :
            /\ index = Slot(HashOf[call.key], j)
            /\ PassedAll(table.entries, call.key, HashOf[call.key], j)
            /\ Remembers(table.entries, HashOf[call.key], j, tombstone)

LEMMA HashIsNat == ASSUME NEW key \in Keys PROVE HashOf[key] \in Nat
BY HashAssumption

LEMMA InitProbing == Init => Probing
BY DEF Init, Probing, Homes, Idle, table_init, EmptyEntries

(* A new call begins at the home slot.                                     *)
LEMMA InsertProbing ==
  ASSUME Uncounted, Probing, NEW key \in Keys, NEW value, Insert(key, value)
  PROVE  Probing'
<1>1. table' = table /\ index' = HashOf[key] % TABLE_CAPACITY_INIT /\ tombstone' = NONE /\ call'.key = key
  BY NeverGrows DEF Insert, Outcome, Uncounted
<1>2. HashOf[key] + 0 = HashOf[key] /\ 0 \in Nat /\ 0 .. 0 - 1 = {}
  BY HashIsNat
<1>3. index' = Slot(HashOf[key], 0)
  BY <1>1, <1>2 DEF Slot
<1>4. PassedAll(table.entries, key, HashOf[key], 0) /\ Remembers(table.entries, HashOf[key], 0, NONE)
  BY <1>2 DEF PassedAll, Remembers
<1> QED
  BY <1>1, <1>2, <1>3, <1>4 DEF Probing

(* It goes on past a slot at which it does not stop.                       *)
LEMMA GoOnProbing == ASSUME Uncounted, Probing, GoOn PROVE Probing'
<1>1. table' = table /\ call' = call /\ call.task = "probe" /\ call.key \in Keys
      /\ index' = (index + 1) % TABLE_CAPACITY_INIT
      /\ tombstone' = Passed /\ ~Found
  BY DEF GoOn, NextSlot, Uncounted, Probing
<1>2. PICK h, entries, key : h = HashOf[call.key] /\ entries = table.entries /\ key = call.key
  OBVIOUS
<1>3. PICK j \in Nat :
        /\ index = Slot(h, j) /\ PassedAll(entries, key, h, j) /\ Remembers(entries, h, j, tombstone)
  BY <1>1, <1>2 DEF Probing
<1>4. h \in Nat /\ ~StopsAt(entries, key, Slot(h, j))
  BY <1>1, <1>2, <1>3, HashIsNat DEF Found, Entry, StopsAt
<1>5. index' = Slot(h, j + 1)
  <2>1. h + j \in Nat /\ TABLE_CAPACITY_INIT \in Nat \ {0} /\ (h + j) + 1 = h + (j + 1)
    BY <1>4, TableCapacityAssumption
  <2> QED
    BY <1>1, <1>3, <2>1, StepRound DEF Slot
<1>6. /\ j + 1 \in Nat /\ (j + 1) - 1 = j /\ j \in 0 .. j
      /\ \A i \in 0 .. j : i \in 0 .. j - 1 \/ i = j
      /\ \A i \in 0 .. j - 1 : i \in 0 .. j
  OBVIOUS
<1>7. PassedAll(entries, key, h, j + 1)
  BY <1>3, <1>4, <1>6 DEF PassedAll
<1>8. Remembers(entries, h, j + 1, tombstone')
  <2>1. tombstone' = IF IsDeleted(entries, h, j) /\ tombstone = NONE THEN Slot(h, j) ELSE tombstone
    BY <1>1, <1>2, <1>3 DEF Passed, Entry, IsDeleted
  <2>2. CASE tombstone = NONE /\ \A i \in 0 .. j - 1 : ~IsDeleted(entries, h, i)
    <3>1. CASE IsDeleted(entries, h, j)
      BY <1>6, <2>1, <2>2, <3>1 DEF Remembers
    <3>2. CASE ~IsDeleted(entries, h, j)
      BY <1>6, <2>1, <2>2, <3>2 DEF Remembers
    <3> QED
      BY <3>1, <3>2
  <2>3. ASSUME NEW i \in 0 .. j - 1, tombstone = Slot(h, i), IsDeleted(entries, h, i),
               \A m \in 0 .. i - 1 : ~IsDeleted(entries, h, m)
        PROVE  Remembers(entries, h, j + 1, tombstone')
    <3>1. Slot(h, i) \in Homes
      BY <1>4, SlotIsHome
    <3>2. tombstone # NONE
      BY <2>3, <3>1 DEF Homes, NONE
    <3> QED
      BY <1>6, <2>1, <2>3, <3>2 DEF Remembers
  <2> QED
    BY <1>3, <2>2, <2>3 DEF Remembers
<1> QED
  BY <1>1, <1>2, <1>5, <1>6, <1>7, <1>8 DEF Probing

(* What the end of an insertion stores, and where.                         *)
LEMMA StoreWrites ==
  ASSUME Uncounted, Probing, table_insert
  PROVE  /\ table' = Stored(table, Destination, call.key, call.value)
         /\ table'.entries =
              [table.entries EXCEPT ![Destination] = [key |-> call.key, value |-> call.value]]
<1>1. PICK slot, entry, stored :
        /\ slot = Destination /\ entry = [key |-> call.key, value |-> call.value]
        /\ stored = [table EXCEPT !.entries[slot] = entry]
  OBVIOUS
<1>2. stored = Stored(table, Destination, call.key, call.value) /\ table' = [stored EXCEPT !.count = @ + 0]
  BY <1>1 DEF table_insert, Stored, Counts
<1>3. /\ DOMAIN stored = {"count", "capacity", "entries"} /\ stored.count = 0
      /\ stored.entries = [table.entries EXCEPT ![slot] = entry]
  BY <1>1 DEF Uncounted
<1>4. stored.count + 0 = stored.count
  BY <1>3
<1>5. [stored EXCEPT !.count = @ + 0] = stored
  BY <1>1, <1>3, <1>4
<1> QED
  BY <1>1, <1>2, <1>3, <1>5

LEMMA StoreProbing == ASSUME Uncounted, Probing, table_insert PROVE Probing'
BY StoreWrites DEF Probing, table_insert, Idle

LEMMA NextProbing == Uncounted /\ Probing /\ [Next]_vars => Probing'
<1> SUFFICES ASSUME Uncounted, Probing, [Next]_vars PROVE Probing'
  OBVIOUS
<1>1. ASSUME NEW key \in Keys, NEW value \in Values, Insert(key, value) PROVE Probing'
  BY <1>1, InsertProbing
<1>2. ASSUME NEW key \in Keys, table_member(key) \/ table_delete(key) \/ table_find_string(key)
      PROVE  Probing'
  <2>1. table' = table /\ UNCHANGED <<call, index, tombstone>>
    BY <1>2, NothingHad DEF table_member, table_delete, table_find_string
  <2> QED
    BY <2>1 DEF Probing
<1>3. CASE UNCHANGED vars
  BY <1>3 DEF vars, Probing
<1> QED
  BY <1>1, <1>2, <1>3, GoOnProbing, StoreProbing DEF Next, Probe

(* Where the loop stops, FindEntry agrees with it.                         *)
LEMMA LoopFinds ==
  ASSUME Uncounted, Probing, table_insert
  PROVE  SlotOf(call.key) # SPIN /\ Destination = SlotOf(call.key)
<1>1. PICK h, entries, key : h = HashOf[call.key] /\ entries = table.entries /\ key = call.key
  OBVIOUS
<1>2. key \in Keys /\ h \in Nat
  BY <1>1, HashIsNat DEF table_insert, Probing
<1>3. PICK j \in Nat :
        /\ index = Slot(h, j) /\ PassedAll(entries, key, h, j) /\ Remembers(entries, h, j, tombstone)
  BY <1>1 DEF Probing, table_insert
<1>4. StopsAt(entries, key, Slot(h, j))
  BY <1>1, <1>3 DEF table_insert, Found, Entry, StopsAt
<1>5. SlotOf(call.key) = FindEntry(entries, TABLE_CAPACITY_INIT, key, h)
  BY <1>1 DEF SlotOf, Uncounted
<1>6. Destination = IF entries[Slot(h, j)].value = TABLE_NIL /\ tombstone # NONE THEN tombstone ELSE Slot(h, j)
  BY <1>1, <1>3 DEF Destination, Entry
<1> QED
  BY <1>2, <1>3, <1>4, <1>5, <1>6, FindsWhereItStops

(* The loop of _find_entry, whatever it is called with and whatever is in  *)
(* the table, stores where FindEntry says: for every capacity and hash.    *)
THEOREM LoopFindsEntry == Spec => LoopIsFindEntry
<1>1. Init => Uncounted /\ Probing
  BY InitUncounted, InitProbing
<1>2. Uncounted /\ Probing /\ [Next]_vars => (Uncounted /\ Probing)'
  BY NextUncounted, NextProbing
<1>3. Uncounted /\ Probing /\ [Next]_vars =>
        [call.task = "probe" /\ call' = Idle =>
           LET slot == SlotOf(call.key)
           IN  slot # SPIN /\ table' = Stored(table, slot, call.key, call.value)]_vars
  <2> SUFFICES ASSUME Uncounted, Probing, Next, call.task = "probe", call' = Idle
               PROVE  SlotOf(call.key) # SPIN
                      /\ table' = Stored(table, SlotOf(call.key), call.key, call.value)
    OBVIOUS
  <2>1. call # Idle
    BY DEF Idle
  <2>2. table_insert
    BY <2>1 DEF Next, Probe, Insert, table_member, table_delete, table_find_string, GoOn
  <2> QED
    BY <2>2, LoopFinds, StoreWrites
<1> QED
  BY <1>1, <1>2, <1>3, PTL DEF Spec, LoopIsFindEntry
-----------------------------------------------------------------------------
(* Given no BOOL, nothing looks deleted: a slot is empty or holds a key    *)
(* with its latest value, no other slot holds it, and a probe for it stops *)
(* there, with no slot before that is empty.                               *)
Full(entries, s) == entries[s].value.kind # "BOOL"

Empty(entries, s) == entries[s] = [key |-> NULL, value |-> TABLE_NIL]

Reached(entries, key, value) ==
  \E j \in 0 .. TABLE_CAPACITY_INIT - 1 :
    /\ entries[Slot(HashOf[key], j)] = [key |-> key, value |-> value]
    /\ PassedAll(entries, key, HashOf[key], j)

MapHolds(entries, map) ==
  /\ \A s \in Homes : Empty(entries, s) \/ (Full(entries, s) /\ entries[s].key \in DOMAIN map)
  /\ \A s, t \in Homes :
       Full(entries, s) /\ Full(entries, t) /\ entries[s].key = entries[t].key => s = t
  /\ \A k \in DOMAIN map : k \in Keys /\ map[k].kind # "BOOL" /\ Reached(entries, k, map[k])

NoBool == \A value \in used : value.kind # "BOOL"

Mapped == NoBool => MapHolds(table.entries, latest)

LEMMA NilIsBool == TABLE_NIL.kind = "BOOL" /\ Tombstone.kind = "BOOL"
BY DEF TABLE_NIL, Tombstone, Bool, Value

LEMMA EmptyOrFull ==
  ASSUME NEW entries, NEW s
  PROVE  Empty(entries, s) => entries[s].value = TABLE_NIL /\ entries[s].key = NULL /\ ~Full(entries, s)
BY NilIsBool DEF Empty, Full

LEMMA InitMapped == Init => Mapped
<1> SUFFICES ASSUME Init PROVE MapHolds(table.entries, latest)
  BY DEF Mapped
<1>1. table = table_init /\ latest = <<>>
  BY DEF Init
<1>2. \A s \in Homes : Empty(table.entries, s)
  BY <1>1 DEF Empty, table_init, EmptyEntries, Homes
<1>3. DOMAIN latest = {}
  BY <1>1
<1> QED
  BY <1>2, <1>3, EmptyOrFull DEF MapHolds

(* One more key, or another value for one, is written where a probe for it *)
(* stops.                                                                  *)
Written(entries, s, key, value) == [entries EXCEPT ![s] = [key |-> key, value |-> value]]

Longer(map, key, value) == [k \in DOMAIN map \cup {key} |-> IF k = key THEN value ELSE map[k]]

LEMMA WriteMaps ==
  ASSUME NEW entries, NEW map, MapHolds(entries, map), DOMAIN entries = Homes,
         NEW key \in Keys, NEW value, value.kind # "BOOL",
         NEW j \in Nat, PassedAll(entries, key, HashOf[key], j),
         NEW here, here = Slot(HashOf[key], j), StopsAt(entries, key, here)
  PROVE  MapHolds(Written(entries, here, key, value), Longer(map, key, value))
<1>0. PICK written, longer :
        written = Written(entries, here, key, value) /\ longer = Longer(map, key, value)
  OBVIOUS
<1>1. here \in Homes /\ j \in 0 .. TABLE_CAPACITY_INIT - 1 /\ HashOf[key] \in Nat
  BY HashIsNat, SlotIsHome, WithinARound
<1>2. PICK entry : entry = [key |-> key, value |-> value]
  OBVIOUS
<1>3. /\ entry.key = key /\ entry.value = value
      /\ written[here] = entry /\ \A s \in Homes \ {here} : written[s] = entries[s]
  BY <1>0, <1>1, <1>2 DEF Written
<1>4. /\ DOMAIN longer = DOMAIN map \cup {key} /\ longer[key] = value
      /\ \A k \in DOMAIN map \ {key} : longer[k] = map[k]
  BY <1>0 DEF Longer
<1>5. Full(written, here) /\ written[here].key = key
  BY <1>3 DEF Full
<1>6. \A s \in Homes \ {here} : /\ Empty(written, s) <=> Empty(entries, s)
                                /\ Full(written, s) <=> Full(entries, s)
                                /\ written[s].key = entries[s].key
  BY <1>3 DEF Empty, Full
(* Nowhere else is the key.                                                *)
<1>7. ASSUME NEW s \in Homes \ {here}, Full(entries, s) PROVE entries[s].key # key
  <2>1. CASE Full(entries, here) /\ entries[here].key = key
    BY <1>1, <1>7, <2>1 DEF MapHolds
  <2>2. CASE entries[here].value = TABLE_NIL
    <3> SUFFICES ASSUME entries[s].key = key PROVE FALSE
      OBVIOUS
    <3>1. ~Empty(entries, s)
      BY <1>7, EmptyOrFull
    <3>2. key \in DOMAIN map
      BY <1>7, <3>1 DEF MapHolds
    <3>3. map[key].kind # "BOOL" /\ Reached(entries, key, map[key])
      BY <3>2 DEF MapHolds
    <3>4. PICK i \in 0 .. TABLE_CAPACITY_INIT - 1 :
            /\ entries[Slot(HashOf[key], i)] = [key |-> key, value |-> map[key]]
            /\ PassedAll(entries, key, HashOf[key], i)
      BY <3>3 DEF Reached
    <3>5. entries[Slot(HashOf[key], i)].value.kind # "BOOL" /\ entries[Slot(HashOf[key], i)].key = key
      BY <3>3, <3>4
    <3>6. StopsAt(entries, key, Slot(HashOf[key], i))
      BY <3>5 DEF StopsAt
    <3>7. i \notin 0 .. j - 1 /\ j \notin 0 .. i - 1
      BY <3>4, <3>6 DEF PassedAll
    <3>8. i = j
      BY <3>7
    <3> QED
      BY <2>2, <3>5, <3>8, NilIsBool
  <2> QED
    BY <2>1, <2>2 DEF StopsAt, Full
<1>8. \A s \in Homes : Empty(written, s) \/ (Full(written, s) /\ written[s].key \in DOMAIN longer)
  BY <1>4, <1>5, <1>6 DEF MapHolds
<1>9. \A s, t \in Homes :
        Full(written, s) /\ Full(written, t) /\ written[s].key = written[t].key => s = t
  <2> TAKE s, t \in Homes
  <2>1. CASE s # here /\ t # here
    BY <1>6, <2>1 DEF MapHolds
  <2>2. CASE s = here \/ t = here
    BY <1>5, <1>6, <1>7, <2>2
  <2> QED
    BY <2>1, <2>2
<1>10. PassedAll(written, key, HashOf[key], j)
  <2> SUFFICES ASSUME NEW i \in 0 .. j - 1 PROVE ~StopsAt(written, key, Slot(HashOf[key], i))
    BY DEF PassedAll
  <2>1. ~StopsAt(entries, key, Slot(HashOf[key], i))
    BY DEF PassedAll
  <2>2. Slot(HashOf[key], i) \in Homes \ {here}
    BY <1>1, <2>1, SlotIsHome
  <2> QED
    BY <1>3, <2>1, <2>2 DEF StopsAt
<1>11. Reached(written, key, value)
  BY <1>1, <1>2, <1>3, <1>10 DEF Reached
<1>12. ASSUME NEW k \in DOMAIN map, k # key PROVE Reached(written, k, map[k])
  <2>1. k \in Keys /\ map[k].kind # "BOOL" /\ Reached(entries, k, map[k])
    BY <1>12 DEF MapHolds
  <2>2. PICK i \in 0 .. TABLE_CAPACITY_INIT - 1 :
          /\ entries[Slot(HashOf[k], i)] = [key |-> k, value |-> map[k]]
          /\ PassedAll(entries, k, HashOf[k], i)
    BY <2>1 DEF Reached
  <2>3. PICK s : s = Slot(HashOf[k], i)
    OBVIOUS
  <2>4. HashOf[k] \in Nat /\ s \in Homes
    BY <2>1, <2>3, HashIsNat, SlotIsHome
  <2>5. entries[s].key = k /\ entries[s].value.kind # "BOOL"
    BY <2>1, <2>2, <2>3
  <2>6. s # here
    BY <1>12, <2>5, NilIsBool DEF StopsAt
  <2>7. written[s] = [key |-> k, value |-> map[k]]
    BY <1>3, <2>2, <2>3, <2>4, <2>6
  <2>8. PassedAll(written, k, HashOf[k], i)
    <3> SUFFICES ASSUME NEW m \in 0 .. i - 1 PROVE ~StopsAt(written, k, Slot(HashOf[k], m))
      BY DEF PassedAll
    <3>1. ~StopsAt(entries, k, Slot(HashOf[k], m)) /\ Slot(HashOf[k], m) \in Homes
      BY <2>2, <2>4, SlotIsHome DEF PassedAll
    <3>2. CASE Slot(HashOf[k], m) = here
      BY <1>3, <1>12, <3>2, NilIsBool DEF StopsAt
    <3>3. CASE Slot(HashOf[k], m) # here
      BY <1>3, <3>1, <3>3 DEF StopsAt
    <3> QED
      BY <3>2, <3>3
  <2> QED
    BY <2>3, <2>7, <2>8 DEF Reached
<1>13. \A k \in DOMAIN longer : k \in Keys /\ longer[k].kind # "BOOL" /\ Reached(written, k, longer[k])
  BY <1>4, <1>11, <1>12 DEF MapHolds
<1>14. MapHolds(written, longer)
  BY <1>8, <1>9, <1>13 DEF MapHolds
<1> QED
  BY <1>0, <1>14

LEMMA StoreMaps == ASSUME Uncounted, Probing, Mapped, table_insert PROVE Mapped'
<1> SUFFICES ASSUME NoBool' PROVE MapHolds(table.entries, latest)'
  BY DEF Mapped
<1>1. PICK entries, key, value, map :
        entries = table.entries /\ key = call.key /\ value = call.value /\ map = latest
  OBVIOUS
<1>2. NoBool /\ value.kind # "BOOL"
  BY <1>1 DEF NoBool, table_insert
<1>3. MapHolds(entries, map) /\ DOMAIN entries = Homes /\ key \in Keys
  BY <1>1, <1>2 DEF Mapped, Probing, table_insert
<1>4. PICK j \in Nat :
        /\ index = Slot(HashOf[key], j) /\ PassedAll(entries, key, HashOf[key], j)
        /\ Remembers(entries, HashOf[key], j, tombstone)
  BY <1>1 DEF Probing, table_insert
<1>5. StopsAt(entries, key, index)
  BY <1>1 DEF table_insert, Found, Entry, StopsAt
<1>6. tombstone = NONE
  <2>1. \A i \in Nat : ~IsDeleted(entries, HashOf[key], i)
    <3> TAKE i \in Nat
    <3>1. Slot(HashOf[key], i) \in Homes
      BY <1>3, HashIsNat, SlotIsHome
    <3>2. entries[Slot(HashOf[key], i)].value = TABLE_NIL \/ Full(entries, Slot(HashOf[key], i))
      BY <1>3, <3>1, EmptyOrFull DEF MapHolds
    <3>3. TABLE_NIL # Tombstone
      BY DEF TABLE_NIL, Tombstone, Bool, Value
    <3> QED
      BY <3>2, <3>3, NilIsBool DEF IsDeleted, Full
  <2> QED
    BY <1>4, <2>1 DEF Remembers
<1>7. Destination = index
  BY <1>6 DEF Destination
<1>8. MapHolds(Written(entries, index, key, value), Longer(map, key, value))
  BY <1>2, <1>3, <1>4, <1>5, WriteMaps
<1>9. table'.entries = Written(entries, index, key, value) /\ latest' = Longer(map, key, value)
  BY <1>1, <1>7, StoreWrites DEF table_insert, Written, Longer
<1> QED
  BY <1>8, <1>9

LEMMA NextMaps == Uncounted /\ Probing /\ Mapped /\ [Next]_vars => Mapped'
<1> SUFFICES ASSUME Uncounted, Probing, Mapped, [Next]_vars PROVE Mapped'
  OBVIOUS
<1>1. CASE table_insert
  BY <1>1, StoreMaps
<1>2. CASE ~table_insert
  <2>1. ASSUME NEW key \in Keys, NEW value \in Values, Insert(key, value)
        PROVE  UNCHANGED <<table, latest, used>>
    BY <2>1, InsertKeeps DEF Insert
  <2>2. ASSUME NEW key \in Keys, table_member(key) \/ table_delete(key) \/ table_find_string(key)
        PROVE  UNCHANGED <<table, latest, used>>
    BY <2>2, NothingHad DEF table_member, table_delete, table_find_string
  <2>3. ASSUME GoOn PROVE UNCHANGED <<table, latest, used>>
    BY <2>3 DEF GoOn
  <2>4. ASSUME UNCHANGED vars PROVE UNCHANGED <<table, latest, used>>
    BY <2>4 DEF vars
  <2>5. UNCHANGED <<table, latest, used>>
    BY <1>2, <2>1, <2>2, <2>3, <2>4 DEF Next, Probe
  <2> QED
    BY <2>5 DEF Mapped, NoBool
<1> QED
  BY <1>1, <1>2

LEMMA MappedIsMap == ASSUME Uncounted, Probing, Mapped PROVE IsMap
<1> SUFFICES ASSUME NoBool
             PROVE  /\ \A k \in DOMAIN latest :
                         /\ SlotOf(k) # SPIN
                         /\ table.entries[SlotOf(k)] = [key |-> k, value |-> latest[k]]
                    /\ \A s, t \in Slots :
                         table.entries[s].key = table.entries[t].key => s = t \/ table.entries[s].key = NULL
  BY DEF IsMap, NoBool
<1>1. PICK entries : entries = table.entries
  OBVIOUS
<1>2. MapHolds(entries, latest) /\ Slots = Homes
  BY <1>1 DEF Mapped, Slots, Homes, Uncounted
<1>3. ASSUME NEW k \in DOMAIN latest
      PROVE  SlotOf(k) # SPIN /\ entries[SlotOf(k)] = [key |-> k, value |-> latest[k]]
  <2>1. k \in Keys /\ latest[k].kind # "BOOL" /\ Reached(entries, k, latest[k])
    BY <1>2 DEF MapHolds
  <2>2. PICK j \in 0 .. TABLE_CAPACITY_INIT - 1 :
          /\ entries[Slot(HashOf[k], j)] = [key |-> k, value |-> latest[k]]
          /\ PassedAll(entries, k, HashOf[k], j)
    BY <2>1 DEF Reached
  <2>3. HashOf[k] \in Nat /\ j \in Nat
    BY <2>1, HashIsNat
  <2>4. entries[Slot(HashOf[k], j)].key = k /\ entries[Slot(HashOf[k], j)].value.kind # "BOOL"
    BY <2>1, <2>2
  <2>5. StopsAt(entries, k, Slot(HashOf[k], j)) /\ entries[Slot(HashOf[k], j)].value # TABLE_NIL
    BY <2>4, NilIsBool DEF StopsAt
  <2>6. \A i \in Nat : ~IsDeleted(entries, HashOf[k], i)
    <3> TAKE i \in Nat
    <3>1. Slot(HashOf[k], i) \in Homes
      BY <2>3, SlotIsHome
    <3>2. entries[Slot(HashOf[k], i)].value = TABLE_NIL \/ Full(entries, Slot(HashOf[k], i))
      BY <1>2, <3>1, EmptyOrFull DEF MapHolds
    <3>3. TABLE_NIL # Tombstone
      BY DEF TABLE_NIL, Tombstone, Bool, Value
    <3> QED
      BY <3>2, <3>3, NilIsBool DEF IsDeleted, Full
  <2>7. Remembers(entries, HashOf[k], j, NONE)
    BY <2>6 DEF Remembers
  <2>8. SlotOf(k) = FindEntry(entries, TABLE_CAPACITY_INIT, k, HashOf[k])
    BY <1>1 DEF SlotOf, Uncounted
  <2>9. SlotOf(k) # SPIN /\ SlotOf(k) = Slot(HashOf[k], j)
    BY <2>2, <2>3, <2>5, <2>7, <2>8, FindsWhereItStops
  <2> QED
    BY <2>2, <2>9
<1>4. ASSUME NEW s \in Homes, NEW t \in Homes, entries[s].key = entries[t].key, entries[s].key # NULL
      PROVE  s = t
  <2>1. Full(entries, s) /\ Full(entries, t)
    BY <1>2, <1>4, EmptyOrFull DEF MapHolds
  <2> QED
    BY <1>2, <1>4, <2>1 DEF MapHolds
<1> QED
  BY <1>1, <1>2, <1>3, <1>4

(* Given no BOOL, every client finds every key it has inserted where the   *)
(* probe for it stops, with the value it was inserted with last, and in    *)
(* one slot only (table_insert, _find_entry): for every capacity and hash. *)
THEOREM TableIsMap == Spec => []IsMap
<1>1. Init => Uncounted /\ Probing /\ Mapped
  BY InitUncounted, InitProbing, InitMapped
<1>2. Uncounted /\ Probing /\ Mapped /\ [Next]_vars => (Uncounted /\ Probing /\ Mapped)'
  BY NextUncounted, NextProbing, NextMaps
<1> QED
  BY <1>1, <1>2, MappedIsMap, PTL DEF Spec
=============================================================================
