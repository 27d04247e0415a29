--------------------------- MODULE Memory_proofs ---------------------------
(***************************************************************************)
(* In whatever order a machine and a chunk are used, moved and freed:      *)
(* vm_free faults just if a string was made by &, what is in use is live,  *)
(* and only the objects of the literals are never freed.                   *)
(***************************************************************************)
EXTENDS Memory, SequenceTheorems, WellFoundedInduction, TLAPS

Typed ==
  /\ heap \in Seq(BOOLEAN)
  /\ vm \in [stack : Nat, strings : Nat, objects : Nat]
  /\ chunk \in [code : Nat, lines : Nat, constants : Nat]
  /\ DOMAIN header \subseteq 1 .. Len(heap)

(* The blocks of the machine, as far as vm_free has come.                  *)
VmHeld ==
  /\ freeing = "" => vm = NoVm \/ (Live(vm.stack) /\ Live(vm.strings) /\ vm.stack # vm.strings)
  /\ freeing = "strings" => vm.stack = NULL /\ Live(vm.strings)
  /\ freeing = "objects" => vm.stack = NULL /\ vm.strings = NULL

ChunkHeld ==
  chunk # NoChunk =>
    \A a \in DOMAIN chunk :
      /\ Live(chunk[a]) /\ chunk[a] \notin {vm.stack, vm.strings}
      /\ \A b \in DOMAIN chunk : chunk[b] = chunk[a] => b = a

(* The list holds strings made by & alone, and one if there are any.       *)
Owned == {o \in DOMAIN header : header[o].owned}

ListHoldsOwned == IF vm.objects = NULL THEN Owned = {} ELSE vm.objects \in Owned

Held == VmHeld /\ ChunkHeld /\ ListHoldsOwned

(* Once a call has faulted, no step is taken any more.                     *)
MemoryIInv ==
  /\ fault => freeing = "objects" /\ Owned # {}
  /\ ~fault => Typed /\ Held /\ freeing \in {"", "strings", "objects"}
-----------------------------------------------------------------------------
(* What the three uses of reallocate do to the blocks.                     *)
LEMMA LiveBlocks == ASSUME Typed, NEW b, Live(b) PROVE b \in 1 .. Len(heap) /\ b \in Nat \ {0}
BY DEF Typed, Live

LEMMA AllocateKeeps ==
  ASSUME Typed, NEW n \in Nat, Allocate(n)
  PROVE  /\ heap' \in Seq(BOOLEAN) /\ Len(heap') = Len(heap) + n
         /\ \A b : Live(b) => Live(b)'
         /\ \A k \in 1 .. n : Len(heap) + k \in DOMAIN heap' /\ heap'[Len(heap) + k]
<1> DEFINE fresh == [k \in 1 .. n |-> TRUE]
<1>1. fresh \in Seq(BOOLEAN) /\ Len(fresh) = n
  OBVIOUS
<1>2. heap' = heap \o fresh
  BY DEF Allocate
<1> HIDE DEF fresh
<1>3. heap' \in Seq(BOOLEAN) /\ Len(heap') = Len(heap) + n
  BY <1>1, <1>2, ConcatProperties DEF Typed
<1>4. \A b \in 1 .. Len(heap) : heap'[b] = heap[b]
  BY <1>1, <1>2, ConcatProperties DEF Typed
<1>5. \A k \in 1 .. n : heap'[Len(heap) + k] = fresh[k]
  BY <1>1, <1>2 DEF Typed
<1>6. ASSUME NEW b, Live(b) PROVE Live(b)'
  <2>1. b \in 1 .. Len(heap) /\ b \in 1 .. Len(heap') /\ heap[b]
    BY <1>3, <1>6, LiveBlocks DEF Live, Typed
  <2>2. heap'[b] = heap[b]
    BY <1>4, <2>1
  <2>3. b \in DOMAIN heap'
    BY <1>3, <2>1
  <2> QED
    BY <2>1, <2>2, <2>3 DEF Live
<1>7. ASSUME NEW k \in 1 .. n PROVE Len(heap) + k \in DOMAIN heap' /\ heap'[Len(heap) + k]
  <2>1. heap'[Len(heap) + k] = TRUE
    BY <1>5 DEF fresh
  <2>2. Len(heap) + k \in 1 .. Len(heap') /\ DOMAIN heap' = 1 .. Len(heap')
    BY <1>3 DEF Typed
  <2> QED
    BY <2>1, <2>2
<1> QED
  BY <1>3, <1>6, <1>7

LEMMA MoveKeeps ==
  ASSUME Typed, NEW b, Live(b), Move(b)
  PROVE  /\ heap' \in Seq(BOOLEAN) /\ Len(heap') = Len(heap) + 1
         /\ \A c : Live(c) /\ c # b => Live(c)'
         /\ New \in DOMAIN heap' /\ heap'[New]
<1> DEFINE freed == [heap EXCEPT ![b] = FALSE]
<1>1. freed \in Seq(BOOLEAN) /\ Len(freed) = Len(heap)
  <2>1. heap \in Seq(BOOLEAN) /\ b \in 1 .. Len(heap) /\ FALSE \in BOOLEAN
    BY LiveBlocks DEF Typed
  <2> QED
    BY <2>1, ExceptSeq
<1>2. \A c \in 1 .. Len(heap) : c # b => freed[c] = heap[c]
  BY DEF Typed
<1>3. heap' = Append(freed, TRUE)
  BY DEF Move
<1> HIDE DEF freed
<1>4. /\ heap' \in Seq(BOOLEAN) /\ Len(heap') = Len(heap) + 1 /\ Len(heap) \in Nat
      /\ \A c \in 1 .. Len(heap) : heap'[c] = freed[c]
      /\ heap'[Len(heap) + 1] = TRUE
  <2>1. \A t \in BOOLEAN :
          LET longer == Append(freed, t)
          IN  /\ longer \in Seq(BOOLEAN) /\ Len(longer) = Len(freed) + 1
              /\ \A c \in 1 .. Len(freed) : longer[c] = freed[c]
              /\ longer[Len(freed) + 1] = t
    BY <1>1, AppendProperties
  <2>2. Len(heap) \in Nat
    BY DEF Typed
  <2> QED
    BY <1>1, <1>3, <2>1, <2>2
<1>5. ASSUME NEW c, Live(c), c # b PROVE Live(c)'
  <2>1. c \in 1 .. Len(heap) /\ c \in 1 .. Len(heap') /\ heap[c]
    BY <1>4, <1>5, LiveBlocks DEF Live
  <2>2. heap'[c] = heap[c]
    BY <1>2, <1>4, <1>5, <2>1
  <2>3. c \in DOMAIN heap'
    BY <1>4, <2>1
  <2> QED
    BY <2>1, <2>2, <2>3 DEF Live
<1> QED
  BY <1>4, <1>5 DEF New

LEMMA ReleaseKeeps ==
  ASSUME Typed, NEW bs, Release(bs)
  PROVE  /\ heap' \in Seq(BOOLEAN) /\ Len(heap') = Len(heap)
         /\ \A c : Live(c) /\ c \notin bs => Live(c)'
         /\ fault' = \E b \in bs : ~Live(b)
<1>1. heap' = [b \in 1 .. Len(heap) |-> heap[b] /\ b \notin bs] /\ Len(heap) \in Nat
  BY DEF Typed, Release
<1>2. heap' \in Seq(BOOLEAN) /\ Len(heap') = Len(heap)
  BY <1>1
<1> QED
  BY <1>1, <1>2 DEF Live, Typed, Release
-----------------------------------------------------------------------------
(* What is in use is neither NULL nor a block that is new.                 *)
LEMMA LiveIsOld == ASSUME Typed, NEW b, Live(b) PROVE b \notin {New, New + 1, New + 2, NULL}
BY LiveBlocks DEF New, NULL, Typed

LEMMA HeapLength == ASSUME Typed PROVE Len(heap) \in Nat
BY DEF Typed

(* Between the calls of vm_free, and without a fault.                      *)
LEMMA IdleHolds ==
  ASSUME MemoryIInv, Idle
  PROVE  /\ Typed /\ ~fault /\ VmHeld /\ ChunkHeld /\ ListHoldsOwned /\ freeing = ""
         /\ vm # NoVm => Live(vm.stack) /\ Live(vm.strings) /\ vm.stack # vm.strings
BY DEF MemoryIInv, Idle, Held, VmHeld

LEMMA Establish ==
  ASSUME ~fault', Typed', VmHeld', ChunkHeld', ListHoldsOwned',
         freeing' \in {"", "strings", "objects"}
  PROVE  MemoryIInv'
BY DEF MemoryIInv, Held

LEMMA StaysTyped ==
  ASSUME Typed, heap' \in Seq(BOOLEAN), NEW n \in Nat, Len(heap') = Len(heap) + n, header' = header,
         vm' \in [stack : Nat, strings : Nat, objects : Nat],
         chunk' \in [code : Nat, lines : Nat, constants : Nat]
  PROVE  Typed'
<1>1. Len(heap) \in Nat
  BY HeapLength
<1>2. 1 .. Len(heap) \subseteq 1 .. Len(heap')
  BY <1>1
<1>3. DOMAIN header' \subseteq 1 .. Len(heap')
  <2>1. DOMAIN header \subseteq 1 .. Len(heap)
    BY Zenon DEF Typed
  <2> QED
    BY <1>2, <2>1
<1> QED
  BY <1>3 DEF Typed

LEMMA InitHolds == Init => MemoryIInv
<1> SUFFICES ASSUME Init PROVE MemoryIInv
  OBVIOUS
<1>1. heap = <<>> /\ header = <<>> /\ vm = NoVm /\ chunk = NoChunk /\ freeing = "" /\ fault = FALSE
  BY Zenon DEF Init
<1>2. DOMAIN header = {}
  <2>1. header \in Seq({}) /\ Len(header) = 0
    BY <1>1, EmptySeq
  <2> QED
    BY <2>1
<1>3. heap \in Seq(BOOLEAN)
  BY <1>1, EmptySeq
<1>4. Typed
  BY <1>1, <1>2, <1>3 DEF Typed, NoVm, NoChunk, NULL
<1>5. VmHeld /\ ChunkHeld
  BY <1>1 DEF VmHeld, ChunkHeld
<1>6. ListHoldsOwned
  BY <1>1, <1>2 DEF ListHoldsOwned, Owned, NoVm
<1> QED
  BY <1>1, <1>4, <1>5, <1>6 DEF MemoryIInv, Held
-----------------------------------------------------------------------------
(* What is set up, and what moves, stays apart from what was there.        *)
LEMMA VmInitKeeps == ASSUME MemoryIInv, vm_init PROVE MemoryIInv'
<1>1. Typed /\ ~fault /\ ChunkHeld /\ ListHoldsOwned /\ freeing = "" /\ vm = NoVm
  BY IdleHolds DEF vm_init
<1>0. Len(heap) \in Nat
  BY <1>1, HeapLength
<1>2. PICK s, t : s = New /\ t = New + 1
  OBVIOUS
<1>3. /\ heap' \in Seq(BOOLEAN) /\ Len(heap') = Len(heap) + 2
      /\ \A b : Live(b) => Live(b)' /\ b # s /\ b # t
      /\ Live(s)' /\ Live(t)' /\ s # t /\ s \in Nat /\ t \in Nat
  <2>1. /\ heap' \in Seq(BOOLEAN) /\ Len(heap') = Len(heap) + 2
        /\ \A b : Live(b) => Live(b)'
        /\ \A k \in 1 .. 2 : Len(heap) + k \in DOMAIN heap' /\ heap'[Len(heap) + k]
    BY <1>1, AllocateKeeps DEF vm_init
  <2>2. Len(heap) \in Nat /\ s = Len(heap) + 1 /\ t = Len(heap) + 2
    BY <1>0, <1>2 DEF New
  <2>3. Live(s)' /\ Live(t)'
    BY <2>1, <2>2 DEF Live
  <2>4. \A b : Live(b) => b # s /\ b # t
    BY <1>1, <1>2, LiveIsOld
  <2>5. s # t /\ s \in Nat /\ t \in Nat
    BY <2>2
  <2> QED
    BY <2>1, <2>3, <2>4, <2>5
<1>4. vm' = [stack |-> s, strings |-> t, objects |-> NULL]
      /\ chunk' = chunk /\ header' = header /\ freeing' = freeing /\ fault' = fault
  BY <1>2 DEF vm_init
<1>5. Typed'
  <2>1. vm' \in [stack : Nat, strings : Nat, objects : Nat]
    BY <1>3, <1>4 DEF NULL
  <2>2. chunk' \in [code : Nat, lines : Nat, constants : Nat]
    BY <1>1, <1>4 DEF Typed
  <2> QED
    BY <1>1, <1>3, <1>4, <2>1, <2>2, StaysTyped
<1>6. VmHeld'
  BY <1>1, <1>3, <1>4 DEF VmHeld
<1>7. ChunkHeld'
  BY <1>1, <1>3, <1>4 DEF ChunkHeld
<1>8. ListHoldsOwned'
  BY <1>1, <1>4 DEF ListHoldsOwned, Owned, NoVm
<1> QED
  BY <1>1, <1>4, <1>5, <1>6, <1>7, <1>8, Establish

LEMMA ChunkInitKeeps == ASSUME MemoryIInv, chunk_init PROVE MemoryIInv'
<1>1. Typed /\ ~fault /\ VmHeld /\ ListHoldsOwned /\ freeing = ""
      /\ (vm # NoVm => Live(vm.stack) /\ Live(vm.strings))
  BY IdleHolds DEF chunk_init
<1>0. Len(heap) \in Nat
  BY <1>1, HeapLength
<1>2. PICK c, d, e : c = New /\ d = New + 1 /\ e = New + 2
  OBVIOUS
<1>3. /\ heap' \in Seq(BOOLEAN) /\ Len(heap') = Len(heap) + 3
      /\ \A b : Live(b) => Live(b)' /\ b \notin {c, d, e}
      /\ Live(c)' /\ Live(d)' /\ Live(e)'
      /\ c # d /\ c # e /\ d # e /\ NULL \notin {c, d, e}
      /\ c \in Nat /\ d \in Nat /\ e \in Nat
  <2>1. /\ heap' \in Seq(BOOLEAN) /\ Len(heap') = Len(heap) + 3
        /\ \A b : Live(b) => Live(b)'
        /\ \A k \in 1 .. 3 : Len(heap) + k \in DOMAIN heap' /\ heap'[Len(heap) + k]
    BY <1>1, AllocateKeeps DEF chunk_init
  <2>2. Len(heap) \in Nat /\ c = Len(heap) + 1 /\ d = Len(heap) + 2 /\ e = Len(heap) + 3
    BY <1>0, <1>2 DEF New
  <2>3. Live(c)' /\ Live(d)' /\ Live(e)'
    BY <2>1, <2>2 DEF Live
  <2>4. \A b : Live(b) => b \notin {c, d, e}
    BY <1>1, <1>2, LiveIsOld
  <2>5. c # d /\ c # e /\ d # e /\ NULL \notin {c, d, e} /\ c \in Nat /\ d \in Nat /\ e \in Nat
    BY <2>2 DEF NULL
  <2> QED
    BY <2>1, <2>3, <2>4, <2>5
<1>4. chunk' = [code |-> c, constants |-> d, lines |-> e]
      /\ vm' = vm /\ header' = header /\ freeing' = freeing /\ fault' = fault
  BY <1>2 DEF chunk_init
<1>5. Typed'
  <2>1. vm' \in [stack : Nat, strings : Nat, objects : Nat]
    BY <1>1, <1>4 DEF Typed
  <2>2. chunk' \in [code : Nat, lines : Nat, constants : Nat]
    BY <1>3, <1>4
  <2> QED
    BY <1>1, <1>3, <1>4, <2>1, <2>2, StaysTyped
<1>6. VmHeld'
  BY <1>1, <1>3, <1>4 DEF VmHeld
<1>7. ChunkHeld'
  <2>1. vm.stack \notin {c, d, e} /\ vm.strings \notin {c, d, e}
    <3>1. NULL \notin {c, d, e} /\ \A b : Live(b) => b \notin {c, d, e}
      BY <1>3
    <3>2. CASE vm = NoVm
      BY <3>1, <3>2 DEF NoVm
    <3>3. CASE vm # NoVm
      BY <1>1, <3>1, <3>3
    <3> QED
      BY <3>2, <3>3
  <2>2. PICK new : new = [code |-> c, constants |-> d, lines |-> e]
    OBVIOUS
  <2>3. \A a \in DOMAIN new : Live(new[a])' /\ new[a] \in {c, d, e}
    BY <1>3, <2>2
  <2>4. \A a, b \in DOMAIN new : new[b] = new[a] => b = a
    BY <1>3, <2>2
  <2>5. chunk' = new /\ vm' = vm
    BY <1>4, <2>2
  <2> QED
    BY <2>1, <2>3, <2>4, <2>5 DEF ChunkHeld
<1>8. ListHoldsOwned'
  BY <1>1, <1>4 DEF ListHoldsOwned, Owned
<1> QED
  BY <1>1, <1>4, <1>5, <1>6, <1>7, <1>8, Establish

LEMMA MovedApart ==
  ASSUME Typed, NEW b, Live(b), Move(b), NEW n, n = New
  PROVE  /\ heap' \in Seq(BOOLEAN) /\ Len(heap') = Len(heap) + 1
         /\ n \in Nat /\ n # NULL /\ Live(n)'
         /\ \A c : Live(c) => c # n /\ (c # b => Live(c)')
<1>1. n \in Nat /\ n # NULL
  <2>1. Len(heap) \in Nat
    BY HeapLength
  <2> QED
    BY <2>1 DEF New, NULL
<1>2. heap' \in Seq(BOOLEAN) /\ Len(heap') = Len(heap) + 1
      /\ n \in DOMAIN heap' /\ heap'[n] /\ \A c : Live(c) /\ c # b => Live(c)'
  BY MoveKeeps
<1>3. Live(n)'
  BY <1>2 DEF Live
<1>4. \A c : Live(c) => c # n
  BY LiveIsOld
<1> QED
  BY <1>1, <1>2, <1>3, <1>4

LEMMA StackPutKeeps == ASSUME MemoryIInv, stack_put PROVE MemoryIInv'
<1>1. Typed /\ ~fault /\ ChunkHeld /\ ListHoldsOwned /\ freeing = ""
      /\ Live(vm.stack) /\ Live(vm.strings) /\ vm.stack # vm.strings
  BY IdleHolds DEF stack_put
<1>0. Len(heap) \in Nat
  BY <1>1, HeapLength
<1>2. PICK n : n = New
  OBVIOUS
<1>3. /\ heap' \in Seq(BOOLEAN) /\ Len(heap') = Len(heap) + 1 /\ n \in Nat /\ Live(n)'
      /\ \A c : Live(c) => c # n /\ (c # vm.stack => Live(c)')
  <2>1. Move(vm.stack)
    BY DEF stack_put
  <2> QED
    BY <1>1, <1>2, <2>1, MovedApart
<1>4. vm' = [vm EXCEPT !.stack = n]
      /\ chunk' = chunk /\ header' = header /\ freeing' = freeing /\ fault' = fault
  BY <1>2 DEF stack_put
<1>5. Typed' /\ vm'.stack = n /\ vm'.strings = vm.strings /\ vm'.objects = vm.objects
  <2>1. vm \in [stack : Nat, strings : Nat, objects : Nat] /\ n \in Nat
    BY <1>1, <1>3 DEF Typed
  <2>2. vm' \in [stack : Nat, strings : Nat, objects : Nat]
        /\ vm'.stack = n /\ vm'.strings = vm.strings /\ vm'.objects = vm.objects
    BY <1>4, <2>1
  <2>3. chunk' \in [code : Nat, lines : Nat, constants : Nat]
    BY <1>1, <1>4 DEF Typed
  <2> QED
    BY <1>1, <1>3, <1>4, <2>2, <2>3, StaysTyped
<1>6. VmHeld'
  BY <1>1, <1>3, <1>4, <1>5 DEF VmHeld
<1>7. ChunkHeld'
  BY <1>1, <1>3, <1>4, <1>5 DEF ChunkHeld
<1>8. ListHoldsOwned'
  BY <1>1, <1>4, <1>5 DEF ListHoldsOwned, Owned
<1> QED
  BY <1>1, <1>4, <1>5, <1>6, <1>7, <1>8, Establish

LEMMA ChunkWriteKeeps ==
  ASSUME MemoryIInv, NEW array \in DOMAIN chunk, chunk_write(array)
  PROVE  MemoryIInv'
<1>1. Typed /\ ~fault /\ VmHeld /\ ChunkHeld /\ ListHoldsOwned /\ freeing = "" /\ chunk # NoChunk
      /\ (vm # NoVm => Live(vm.stack) /\ Live(vm.strings))
  BY IdleHolds DEF chunk_write
<1>0. Len(heap) \in Nat
  BY <1>1, HeapLength
<1>2. PICK n : n = New
  OBVIOUS
<1>3. PICK b : b = chunk[array]
  OBVIOUS
<1>4. Live(b) /\ b \notin {vm.stack, vm.strings}
      /\ \A a \in DOMAIN chunk : a # array => Live(chunk[a]) /\ chunk[a] # b
  BY <1>1, <1>3 DEF ChunkHeld
<1>5. /\ heap' \in Seq(BOOLEAN) /\ Len(heap') = Len(heap) + 1 /\ n \in Nat /\ n # NULL /\ Live(n)'
      /\ \A c : Live(c) => c # n /\ (c # b => Live(c)')
  <2>1. Move(b)
    BY <1>3 DEF chunk_write
  <2> QED
    BY <1>1, <1>2, <1>4, <2>1, MovedApart
<1>6. chunk' = [chunk EXCEPT ![array] = n]
      /\ vm' = vm /\ header' = header /\ freeing' = freeing /\ fault' = fault
  BY <1>2 DEF chunk_write, Moved
<1>7. Typed' /\ DOMAIN chunk' = DOMAIN chunk
      /\ \A a \in DOMAIN chunk : chunk'[a] = IF a = array THEN n ELSE chunk[a]
  <2>1. chunk \in [code : Nat, lines : Nat, constants : Nat] /\ n \in Nat
    BY <1>1, <1>5 DEF Typed
  <2>2. chunk' \in [code : Nat, lines : Nat, constants : Nat]
        /\ DOMAIN chunk' = DOMAIN chunk
        /\ \A a \in DOMAIN chunk : chunk'[a] = IF a = array THEN n ELSE chunk[a]
    BY <1>6, <2>1
  <2>3. vm' \in [stack : Nat, strings : Nat, objects : Nat]
    BY <1>1, <1>6 DEF Typed
  <2> QED
    BY <1>1, <1>5, <1>6, <2>2, <2>3, StaysTyped
<1>8. VmHeld'
  BY <1>1, <1>4, <1>5, <1>6 DEF VmHeld
<1>9. ChunkHeld'
  <2>1. n \notin {vm.stack, vm.strings}
    <3>1. n # NULL /\ \A c : Live(c) => c # n
      BY <1>5
    <3>2. CASE vm = NoVm
      BY <3>1, <3>2 DEF NoVm
    <3>3. CASE vm # NoVm
      BY <1>1, <3>1, <3>3
    <3> QED
      BY <3>2, <3>3
  <2>2. PICK new : new = [chunk EXCEPT ![array] = n]
    OBVIOUS
  <2>3. DOMAIN new = DOMAIN chunk /\ \A a \in DOMAIN chunk : new[a] = IF a = array THEN n ELSE chunk[a]
    BY <2>2
  <2>4. \A a \in DOMAIN new : Live(new[a])' /\ new[a] \notin {vm.stack, vm.strings}
    BY <1>1, <1>4, <1>5, <2>1, <2>3 DEF ChunkHeld
  <2>5. \A a, c \in DOMAIN new : new[c] = new[a] => c = a
    BY <1>1, <1>4, <1>5, <2>3 DEF ChunkHeld
  <2>6. chunk' = new /\ vm' = vm
    BY <1>6, <2>2
  <2> QED
    BY <2>4, <2>5, <2>6 DEF ChunkHeld
<1>10. ListHoldsOwned'
  BY <1>1, <1>6 DEF ListHoldsOwned, Owned
<1> QED
  BY <1>1, <1>6, <1>7, <1>8, <1>9, <1>10, Establish
-----------------------------------------------------------------------------
(* A new string adds to what is owned just if it is made by &.             *)
LEMMA RecordField == ASSUME NEW o, NEW n PROVE [owned |-> o, next |-> n].owned = o
OBVIOUS

LEMMA NewStringKeeps ==
  ASSUME Typed, NEW owned \in BOOLEAN, NEW next, NewString(owned, next)
  PROVE  /\ heap' \in Seq(BOOLEAN) /\ DOMAIN header' \subseteq 1 .. Len(heap')
         /\ New \in Nat /\ New # NULL
         /\ \A b : Live(b) => Live(b)'
         /\ Owned' = IF owned THEN Owned \cup {New} ELSE Owned
<1>1. Len(heap) \in Nat /\ New = Len(heap) + 1
  BY HeapLength DEF New
<1>2. PICK n : n = New
  OBVIOUS
<1>3. PICK r : r = [owned |-> owned, next |-> next]
  OBVIOUS
<1>4. Allocate(1) /\ header' = [o \in DOMAIN header \cup {n} |-> IF o = n THEN r ELSE header[o]]
  BY <1>2, <1>3 DEF NewString
<1>5. heap' \in Seq(BOOLEAN) /\ Len(heap') = Len(heap) + 1 /\ \A b : Live(b) => Live(b)'
  BY <1>4, AllocateKeeps
<1>6. /\ n \notin DOMAIN header /\ DOMAIN header' = DOMAIN header \cup {n}
      /\ \A o \in DOMAIN header : header'[o] = header[o]
      /\ header'[n] = r
  <2>1. n \notin DOMAIN header
    BY <1>1, <1>2 DEF Typed
  <2> QED
    BY <1>4, <2>1
<1>7. Owned' = IF owned THEN Owned \cup {n} ELSE Owned
  <2>1. r.owned = owned
    BY <1>3, RecordField
  <2>2. header'[n] = r
    BY <1>6
  <2>3. header'[n].owned = owned
    BY Zenon, <2>1, <2>2
  <2> QED
    BY <1>6, <2>3 DEF Owned
<1>8. DOMAIN header' \subseteq 1 .. Len(heap')
  BY <1>1, <1>2, <1>5, <1>6 DEF Typed
<1> QED
  BY <1>1, <1>2, <1>5, <1>7, <1>8 DEF NULL

LEMMA RefKeeps == ASSUME MemoryIInv, obj_string_ref PROVE MemoryIInv'
<1>1. Typed /\ ~fault /\ VmHeld /\ ChunkHeld /\ ListHoldsOwned /\ freeing = ""
  BY IdleHolds DEF obj_string_ref
<1>2. vm' = vm /\ chunk' = chunk /\ freeing' = freeing /\ fault' = fault
  BY DEF obj_string_ref, RefLink
<1>3. /\ heap' \in Seq(BOOLEAN) /\ DOMAIN header' \subseteq 1 .. Len(heap')
      /\ \A b : Live(b) => Live(b)'
      /\ Owned' = Owned
  BY <1>1, NewStringKeeps DEF obj_string_ref
<1>4. Typed'
  BY <1>1, <1>2, <1>3 DEF Typed
<1>5. VmHeld'
  BY <1>1, <1>2, <1>3 DEF VmHeld
<1>6. ChunkHeld'
  BY <1>1, <1>2, <1>3 DEF ChunkHeld
<1>7. ListHoldsOwned'
  BY <1>1, <1>2, <1>3 DEF ListHoldsOwned
<1> QED
  BY <1>1, <1>2, <1>4, <1>5, <1>6, <1>7, Establish

LEMMA CopyKeeps == ASSUME MemoryIInv, obj_string_copy PROVE MemoryIInv'
<1>1. Typed /\ ~fault /\ ChunkHeld /\ freeing = ""
      /\ Live(vm.stack) /\ Live(vm.strings) /\ vm.stack # vm.strings
  BY IdleHolds DEF obj_string_copy
<1>2. PICK n : n = New
  OBVIOUS
<1>3. vm' = [vm EXCEPT !.objects = n] /\ chunk' = chunk /\ freeing' = freeing /\ fault' = fault
  BY <1>2 DEF obj_string_copy, CopyLink
<1>4. /\ heap' \in Seq(BOOLEAN) /\ DOMAIN header' \subseteq 1 .. Len(heap')
      /\ n \in Nat /\ n # NULL
      /\ \A b : Live(b) => Live(b)'
      /\ Owned' = Owned \cup {n}
  BY <1>1, <1>2, NewStringKeeps DEF obj_string_copy
<1>5. Typed' /\ vm'.stack = vm.stack /\ vm'.strings = vm.strings /\ vm'.objects = n
  BY <1>1, <1>3, <1>4 DEF Typed
<1>6. VmHeld'
  BY <1>1, <1>3, <1>4, <1>5 DEF VmHeld
<1>7. ChunkHeld'
  BY <1>1, <1>3, <1>4, <1>5 DEF ChunkHeld
<1>8. ListHoldsOwned'
  BY <1>4, <1>5 DEF ListHoldsOwned
<1> QED
  BY <1>1, <1>3, <1>5, <1>6, <1>7, <1>8, Establish
-----------------------------------------------------------------------------
(* Stack and table are freed without a fault, and nothing of the chunk's   *)
(* with them.                                                              *)
LEMMA ReleaseOne ==
  ASSUME Typed, NEW b, Live(b), Release({b})
  PROVE  /\ heap' \in Seq(BOOLEAN) /\ Len(heap') = Len(heap) /\ ~fault'
         /\ \A c : Live(c) /\ c # b => Live(c)'
<1>1. /\ heap' \in Seq(BOOLEAN) /\ Len(heap') = Len(heap)
      /\ \A c : Live(c) /\ c \notin {b} => Live(c)'
      /\ fault' = \E c \in {b} : ~Live(c)
  BY ReleaseKeeps
<1>2. ~fault'
  BY <1>1
<1> QED
  BY <1>1, <1>2

LEMMA StackFreeKeeps == ASSUME MemoryIInv, stack_free PROVE MemoryIInv'
<1>1. Typed /\ ChunkHeld /\ ListHoldsOwned
      /\ Live(vm.stack) /\ Live(vm.strings) /\ vm.stack # vm.strings
  BY IdleHolds DEF stack_free
<1>2. vm' = [vm EXCEPT !.stack = NULL]
      /\ chunk' = chunk /\ header' = header /\ freeing' = "strings"
  BY DEF stack_free
<1>3. /\ heap' \in Seq(BOOLEAN) /\ Len(heap') = Len(heap) /\ ~fault'
      /\ \A c : Live(c) /\ c # vm.stack => Live(c)'
  BY <1>1, ReleaseOne DEF stack_free
<1>4. Typed' /\ vm'.stack = NULL /\ vm'.strings = vm.strings /\ vm'.objects = vm.objects
  BY <1>1, <1>2, <1>3 DEF Typed, NULL
<1>5. VmHeld'
  BY <1>1, <1>2, <1>3, <1>4 DEF VmHeld
<1>6. ChunkHeld'
  <2>1. \A c : Live(c) => c # NULL
    BY <1>1, LiveIsOld
  <2> QED
    BY <1>1, <1>2, <1>3, <1>4, <2>1 DEF ChunkHeld
<1>7. ListHoldsOwned'
  BY <1>1, <1>2, <1>4 DEF ListHoldsOwned, Owned
<1> QED
  BY <1>2, <1>3, <1>4, <1>5, <1>6, <1>7, Establish

LEMMA TableFreeKeeps == ASSUME MemoryIInv, table_free PROVE MemoryIInv'
<1>1. Typed /\ ChunkHeld /\ ListHoldsOwned /\ vm.stack = NULL /\ Live(vm.strings)
  BY DEF MemoryIInv, Held, VmHeld, table_free
<1>2. vm' = [vm EXCEPT !.strings = NULL]
      /\ chunk' = chunk /\ header' = header /\ freeing' = "objects"
  BY DEF table_free
<1>3. /\ heap' \in Seq(BOOLEAN) /\ Len(heap') = Len(heap) /\ ~fault'
      /\ \A c : Live(c) /\ c # vm.strings => Live(c)'
  BY <1>1, ReleaseOne DEF table_free
<1>4. Typed' /\ vm'.stack = NULL /\ vm'.strings = NULL /\ vm'.objects = vm.objects
  BY <1>1, <1>2, <1>3 DEF Typed, NULL
<1>5. VmHeld'
  BY <1>2, <1>4 DEF VmHeld
<1>6. ChunkHeld'
  BY <1>1, <1>2, <1>3, <1>4 DEF ChunkHeld
<1>7. ListHoldsOwned'
  BY <1>1, <1>2, <1>4 DEF ListHoldsOwned, Owned
<1> QED
  BY <1>2, <1>3, <1>4, <1>5, <1>6, <1>7, Establish

(* The first object of the list was made by &: freeing it faults.          *)
LEMMA ObjFreeFaults == ASSUME MemoryIInv, obj_free PROVE fault' /\ Owned # {}
<1>1. Typed /\ vm.objects \in Owned
  BY DEF MemoryIInv, Held, ListHoldsOwned, obj_free
<1>2. PICK o : o = vm.objects
  OBVIOUS
<1>3. Release({CharsOf(o), o})
  BY <1>1, <1>2 DEF obj_free, Owned
<1>4. ~Live(CharsOf(o))
  <2>1. o \in Nat \ {0} /\ CharsOf(o) = -o
    BY <1>1, <1>2 DEF Owned, Typed, CharsOf
  <2>2. CharsOf(o) \notin Nat
    BY <2>1
  <2> QED
    BY <1>1, <2>2, LiveBlocks
<1>5. fault' = \E b \in {CharsOf(o), o} : ~Live(b)
  BY <1>1, <1>3, ReleaseKeeps
<1> QED
  BY <1>1, <1>4, <1>5

LEMMA ObjFreeKeeps == ASSUME MemoryIInv, obj_free PROVE MemoryIInv'
<1>1. header' = header /\ freeing' = freeing /\ freeing = "objects"
  BY DEF obj_free
<1> QED
  BY <1>1, ObjFreeFaults DEF MemoryIInv, Owned

LEMMA ObjectsFreeKeeps == ASSUME MemoryIInv, objects_free PROVE MemoryIInv'
<1>1. Typed /\ ~fault /\ ChunkHeld /\ ListHoldsOwned /\ vm.stack = NULL /\ vm.strings = NULL /\ vm.objects = NULL
  BY DEF MemoryIInv, Held, VmHeld, objects_free
<1>2. UNCHANGED <<heap, vm, chunk, header, fault>> /\ freeing' = ""
  BY DEF objects_free
<1>3. vm = NoVm
  BY <1>1 DEF Typed, NoVm
<1>4. Typed' /\ VmHeld' /\ ChunkHeld' /\ ListHoldsOwned'
  BY <1>1, <1>2, <1>3 DEF Typed, VmHeld, ChunkHeld, Live, ListHoldsOwned, Owned
<1> QED
  BY <1>1, <1>2, <1>4, Establish

LEMMA ChunkFreeKeeps == ASSUME MemoryIInv, chunk_free PROVE MemoryIInv'
<1>1. Typed /\ VmHeld /\ ChunkHeld /\ ListHoldsOwned /\ freeing = "" /\ chunk # NoChunk
      /\ (vm # NoVm => Live(vm.stack) /\ Live(vm.strings))
  BY IdleHolds DEF chunk_free
<1>2. chunk' = NoChunk /\ vm' = vm /\ header' = header /\ freeing' = freeing /\ Release(Arrays)
  BY DEF chunk_free
<1>3. \A b \in Arrays : Live(b) /\ b \notin {vm.stack, vm.strings}
  BY <1>1 DEF Arrays, ChunkHeld, Typed
<1>4. /\ heap' \in Seq(BOOLEAN) /\ Len(heap') = Len(heap) /\ ~fault'
      /\ \A c : Live(c) /\ c \notin Arrays => Live(c)'
  BY <1>1, <1>2, <1>3, ReleaseKeeps
<1>5. Typed'
  BY <1>1, <1>2, <1>4 DEF Typed, NoChunk, NULL
<1>6. VmHeld'
  BY <1>1, <1>2, <1>3, <1>4 DEF VmHeld
<1>7. ChunkHeld' /\ ListHoldsOwned'
  BY <1>1, <1>2 DEF ChunkHeld, ListHoldsOwned, Owned
<1> QED
  BY <1>1, <1>2, <1>4, <1>5, <1>6, <1>7, Establish
-----------------------------------------------------------------------------
LEMMA NextKeeps == MemoryIInv /\ [Next]_vars => MemoryIInv'
<1> SUFFICES ASSUME MemoryIInv, [Next]_vars PROVE MemoryIInv'
  OBVIOUS
<1>1. CASE vm_init \/ chunk_init \/ stack_put \/ \E array \in DOMAIN chunk : chunk_write(array)
  BY <1>1, VmInitKeeps, ChunkInitKeeps, StackPutKeeps, ChunkWriteKeeps
<1>2. CASE obj_string_ref \/ obj_string_copy
  BY <1>2, RefKeeps, CopyKeeps
<1>3. CASE stack_free \/ table_free \/ obj_free \/ objects_free \/ chunk_free
  BY <1>3, StackFreeKeeps, TableFreeKeeps, ObjFreeKeeps, ObjectsFreeKeeps, ChunkFreeKeeps
<1>4. CASE UNCHANGED vars
  BY <1>4 DEF vars, MemoryIInv, Typed, Held, VmHeld, ChunkHeld, ListHoldsOwned, Owned, Live
<1> QED
  BY <1>1, <1>2, <1>3, <1>4 DEF Next

(* In however many blocks, a machine is freed without a fault just if none *)
(* of its strings was made by & (vm_free, objects_free, obj_free).         *)
THEOREM FreeingFaults == Spec => []VmFreeFaults
<1>1. MemoryIInv => VmFreeFaults
  <2> SUFFICES ASSUME MemoryIInv PROVE VmFreeFaults
    OBVIOUS
  <2>1. fault => freeing = "objects" /\ \E o \in DOMAIN header : header[o].owned
    BY DEF MemoryIInv, Owned
  <2>2. ASSUME vm = NoVm, freeing = "" PROVE ~\E o \in DOMAIN header : header[o].owned
    <3>1. ListHoldsOwned /\ vm.objects = NULL
      BY <2>2 DEF MemoryIInv, Held, NoVm
    <3> QED
      BY <3>1 DEF ListHoldsOwned, Owned
  <2> QED
    BY <2>1, <2>2 DEF VmFreeFaults
<1> QED
  BY <1>1, InitHolds, NextKeeps, PTL DEF Spec
-----------------------------------------------------------------------------
(* Every string object is live and apart from the arrays; the next of one  *)
(* made by & is another one; nothing else is live.                         *)
Blocks == {vm.stack, vm.strings, chunk.code, chunk.lines, chunk.constants}

StringsHeld ==
  /\ \A o \in DOMAIN header : Live(o) /\ o \notin Blocks
  /\ \A o \in Owned : header[o].next = NULL \/ header[o].next \in Owned
  /\ keys \subseteq DOMAIN header /\ constants \subseteq DOMAIN header

Accounted == \A b : Live(b) => b \in DOMAIN header \cup Blocks

StringsIInv == ~fault => StringsHeld /\ Accounted

(* What reallocate leaves live is what was live, or is new.                *)
LEMMA AllocateAddsOnly ==
  ASSUME Typed, NEW n \in Nat, Allocate(n)
  PROVE  \A b : Live(b)' => Live(b) \/ \E k \in 1 .. n : b = Len(heap) + k
<1> DEFINE fresh == [k \in 1 .. n |-> TRUE]
<1>1. fresh \in Seq(BOOLEAN) /\ Len(fresh) = n
  OBVIOUS
<1>2. heap' = heap \o fresh
  BY DEF Allocate
<1> HIDE DEF fresh
<1>3. heap' \in Seq(BOOLEAN) /\ Len(heap') = Len(heap) + n /\ Len(heap) \in Nat
      /\ \A b \in 1 .. Len(heap) : heap'[b] = heap[b]
  <2>1. heap' \in Seq(BOOLEAN) /\ Len(heap') = Len(heap) + n
    BY <1>1, <1>2, ConcatProperties DEF Typed
  <2>2. \A b \in 1 .. Len(heap) : heap'[b] = heap[b]
    BY <1>1, <1>2, ConcatProperties DEF Typed
  <2> QED
    BY <2>1, <2>2, HeapLength
<1>4. ASSUME NEW b, Live(b)', ~\E k \in 1 .. n : b = Len(heap) + k PROVE Live(b)
  <2>1. b \in 1 .. Len(heap) + n /\ heap'[b]
    BY <1>3, <1>4 DEF Live
  <2>2. CASE b \in 1 .. Len(heap)
    <3>1. heap[b] /\ DOMAIN heap = 1 .. Len(heap)
      BY <1>3, <2>1, <2>2 DEF Typed
    <3> QED
      BY <2>2, <3>1 DEF Live
  <2>3. CASE b \notin 1 .. Len(heap)
    <3>1. b - Len(heap) \in 1 .. n /\ b = Len(heap) + (b - Len(heap))
      BY <1>3, <2>1, <2>3
    <3> QED
      BY <1>4, <3>1
  <2> QED
    BY <2>2, <2>3
<1> QED
  BY <1>4

LEMMA MoveAddsOnly ==
  ASSUME Typed, NEW b, Live(b), Move(b), NEW n, n = New
  PROVE  \A c : Live(c)' => c = n \/ (Live(c) /\ c # b)
<1> DEFINE freed == [heap EXCEPT ![b] = FALSE]
<1>1. freed \in Seq(BOOLEAN) /\ Len(freed) = Len(heap) /\ Len(heap) \in Nat
  <2>1. heap \in Seq(BOOLEAN) /\ b \in 1 .. Len(heap) /\ FALSE \in BOOLEAN
    BY LiveBlocks DEF Typed
  <2> QED
    BY <2>1, ExceptSeq
<1>2. ASSUME NEW c \in 1 .. Len(heap), freed[c] PROVE c # b /\ heap[c]
  <2>1. CASE c = b
    BY <1>2, <2>1 DEF Typed
  <2>2. CASE c # b
    BY <1>2, <2>2 DEF Typed
  <2> QED
    BY <2>1, <2>2
<1>3. heap' = Append(freed, TRUE)
  BY DEF Move
<1> HIDE DEF freed
<1>4. heap' \in Seq(BOOLEAN) /\ Len(heap') = Len(heap) + 1
      /\ \A c \in 1 .. Len(heap) : heap'[c] = freed[c]
  <2>1. \A t \in BOOLEAN :
          LET longer == Append(freed, t)
          IN  /\ longer \in Seq(BOOLEAN) /\ Len(longer) = Len(freed) + 1
              /\ \A c \in 1 .. Len(freed) : longer[c] = freed[c]
    BY <1>1, AppendProperties
  <2> QED
    BY <1>1, <1>3, <2>1
<1>5. ASSUME NEW c, Live(c)', c # n PROVE Live(c) /\ c # b
  <2>1. c \in 1 .. Len(heap) + 1 /\ heap'[c]
    BY <1>4, <1>5 DEF Live
  <2>2. c \in 1 .. Len(heap)
    BY <1>1, <1>5, <2>1 DEF New
  <2>3. freed[c]
    BY <1>4, <2>1, <2>2
  <2>4. c # b /\ heap[c] /\ DOMAIN heap = 1 .. Len(heap)
    BY <1>2, <2>2, <2>3 DEF Typed
  <2> QED
    BY <2>2, <2>4 DEF Live
<1> QED
  BY <1>5

LEMMA ReleaseAddsNone ==
  ASSUME Typed, NEW bs, Release(bs)
  PROVE  \A c : Live(c)' => Live(c) /\ c \notin bs
BY DEF Typed, Release, Live

(* A call that makes no string object.                                     *)
LEMMA NoNewString ==
  ASSUME StringsHeld, header' = header, keys' \subseteq keys, constants' \subseteq constants,
         \A o \in DOMAIN header : Live(o)' /\ o \notin Blocks',
         \A b : Live(b)' => b \in DOMAIN header \cup Blocks'
  PROVE  StringsIInv'
<1>1. StringsHeld'
  BY DEF StringsHeld, Owned
<1>2. Accounted'
  BY DEF Accounted
<1> QED
  BY <1>1, <1>2 DEF StringsIInv

LEMMA IdleStrings ==
  ASSUME MemoryIInv, StringsIInv, ~fault
  PROVE  /\ Typed /\ StringsHeld /\ Accounted
         /\ \A b : Live(b) => b \notin {New, New + 1, New + 2, NULL}
<1>1. Typed /\ StringsHeld /\ Accounted
  BY DEF MemoryIInv, StringsIInv
<1> QED
  BY <1>1, LiveIsOld

LEMMA VmInitStrings == ASSUME MemoryIInv, StringsIInv, vm_init PROVE StringsIInv'
<1>1. PICK s, t : s = New /\ t = New + 1
  OBVIOUS
<1>2. Typed /\ StringsHeld /\ Accounted /\ (\A b : Live(b) => b \notin {s, t, NULL})
  BY <1>1, IdleStrings DEF vm_init, Idle
<1>3. vm = NoVm /\ Allocate(2) /\ vm' = [stack |-> s, strings |-> t, objects |-> NULL]
      /\ keys' = {} /\ UNCHANGED <<chunk, header, constants>>
  BY <1>1 DEF vm_init
<1>4. \A b : Live(b) => Live(b)'
  BY <1>2, <1>3, AllocateKeeps
<1>5. \A b : Live(b)' => Live(b) \/ b \in {s, t}
  <2>1. Len(heap) \in Nat /\ s = Len(heap) + 1 /\ t = Len(heap) + 2
    BY <1>1, <1>2, HeapLength DEF New
  <2>2. \A k \in 1 .. 2 : Len(heap) + k \in {s, t}
    BY <2>1
  <2> QED
    BY <1>2, <1>3, <2>2, AllocateAddsOnly
<1>6. Blocks' = {s, t, chunk.code, chunk.lines, chunk.constants}
      /\ Blocks = {NULL, chunk.code, chunk.lines, chunk.constants}
  BY <1>3 DEF Blocks, NoVm
<1>7. \A o \in DOMAIN header : Live(o)' /\ o \notin Blocks'
  BY <1>2, <1>4, <1>6 DEF StringsHeld
<1>8. \A b : Live(b)' => b \in DOMAIN header \cup Blocks'
  BY <1>2, <1>5, <1>6 DEF Accounted
<1> QED
  BY <1>2, <1>3, <1>7, <1>8, NoNewString

LEMMA ChunkInitStrings == ASSUME MemoryIInv, StringsIInv, chunk_init PROVE StringsIInv'
<1>1. PICK c, d, e : c = New /\ d = New + 1 /\ e = New + 2
  OBVIOUS
<1>2. Typed /\ StringsHeld /\ Accounted /\ (\A b : Live(b) => b \notin {c, d, e, NULL})
  BY <1>1, IdleStrings DEF chunk_init, Idle
<1>3. chunk = NoChunk /\ Allocate(3) /\ chunk' = [code |-> c, constants |-> d, lines |-> e]
      /\ constants' = {} /\ UNCHANGED <<vm, header, keys>>
  BY <1>1 DEF chunk_init
<1>4. \A b : Live(b) => Live(b)'
  BY <1>2, <1>3, AllocateKeeps
<1>5. \A b : Live(b)' => Live(b) \/ b \in {c, d, e}
  <2>1. Len(heap) \in Nat /\ c = Len(heap) + 1 /\ d = Len(heap) + 2 /\ e = Len(heap) + 3
    BY <1>1, <1>2, HeapLength DEF New
  <2>2. \A k \in 1 .. 3 : Len(heap) + k \in {c, d, e}
    BY <2>1
  <2> QED
    BY <1>2, <1>3, <2>2, AllocateAddsOnly
<1>6. Blocks' = {vm.stack, vm.strings, c, d, e} /\ Blocks = {vm.stack, vm.strings, NULL}
  BY <1>3 DEF Blocks, NoChunk
<1>7. \A o \in DOMAIN header : Live(o)' /\ o \notin Blocks'
  BY <1>2, <1>4, <1>6 DEF StringsHeld
<1>8. \A b : Live(b)' => b \in DOMAIN header \cup Blocks'
  BY <1>2, <1>5, <1>6 DEF Accounted
<1> QED
  BY <1>2, <1>3, <1>7, <1>8, NoNewString

LEMMA StackPutStrings == ASSUME MemoryIInv, StringsIInv, stack_put PROVE StringsIInv'
<1>1. PICK n : n = New
  OBVIOUS
<1>2. Typed /\ StringsHeld /\ Accounted /\ (\A b : Live(b) => b # n) /\ Live(vm.stack) /\ ChunkHeld
      /\ vm.stack # vm.strings
  BY <1>1, IdleStrings, IdleHolds DEF stack_put, Idle
<1>3. Move(vm.stack) /\ vm' = [vm EXCEPT !.stack = n] /\ UNCHANGED <<chunk, header, constants, keys>>
  BY <1>1 DEF stack_put
<1>4. \A b : Live(b) /\ b # vm.stack => Live(b)'
  BY <1>2, <1>3, MoveKeeps
<1>5. \A b : Live(b)' => b = n \/ (Live(b) /\ b # vm.stack)
  BY <1>1, <1>2, <1>3, MoveAddsOnly
<1>6. Blocks' = {n, vm.strings, chunk.code, chunk.lines, chunk.constants}
  BY <1>2, <1>3 DEF Blocks, Typed
<1>7. \A o \in DOMAIN header : Live(o)' /\ o \notin Blocks'
  BY <1>2, <1>4, <1>6 DEF StringsHeld, Blocks
<1>8. \A b : Live(b)' => b \in DOMAIN header \cup Blocks'
  BY <1>2, <1>5, <1>6 DEF Accounted, Blocks
<1> QED
  BY <1>2, <1>3, <1>7, <1>8, NoNewString

LEMMA ChunkWriteStrings ==
  ASSUME MemoryIInv, StringsIInv, NEW array \in DOMAIN chunk, chunk_write(array)
  PROVE  StringsIInv'
<1>1. PICK n, b : n = New /\ b = chunk[array]
  OBVIOUS
<1>2. Typed /\ StringsHeld /\ Accounted /\ (\A c : Live(c) => c # n) /\ ChunkHeld /\ chunk # NoChunk
  BY <1>1, IdleStrings, IdleHolds DEF chunk_write, Idle
<1>3. Live(b) /\ Move(b) /\ chunk' = [chunk EXCEPT ![array] = n] /\ UNCHANGED <<vm, header, constants, keys>>
  BY <1>1, <1>2 DEF chunk_write, Moved, ChunkHeld
<1>4. \A c : Live(c) /\ c # b => Live(c)'
  BY <1>2, <1>3, MoveKeeps
<1>5. \A c : Live(c)' => c = n \/ (Live(c) /\ c # b)
  BY <1>1, <1>2, <1>3, MoveAddsOnly
<1>6. b \in Blocks /\ n \in Blocks' /\ Blocks' \subseteq Blocks \cup {n} /\ Blocks \subseteq Blocks' \cup {b}
  <2>1. chunk \in [code : Nat, lines : Nat, constants : Nat] /\ vm' = vm
    BY <1>2, <1>3 DEF Typed
  <2>2. CASE array = "code"
    BY <1>1, <1>3, <2>1, <2>2 DEF Blocks
  <2>3. CASE array = "lines"
    BY <1>1, <1>3, <2>1, <2>3 DEF Blocks
  <2>4. CASE array = "constants"
    BY <1>1, <1>3, <2>1, <2>4 DEF Blocks
  <2>5. array \in {"code", "lines", "constants"}
    BY <2>1
  <2> QED
    BY <2>2, <2>3, <2>4, <2>5
<1>7. \A o \in DOMAIN header : Live(o)' /\ o \notin Blocks'
  BY <1>2, <1>4, <1>6 DEF StringsHeld
<1>8. \A c : Live(c)' => c \in DOMAIN header \cup Blocks'
  BY <1>2, <1>5, <1>6 DEF Accounted
<1> QED
  BY <1>2, <1>3, <1>7, <1>8, NoNewString

LEMMA StackFreeStrings == ASSUME MemoryIInv, StringsIInv, stack_free PROVE StringsIInv'
<1>1. Typed /\ StringsHeld /\ Accounted /\ (\A b : Live(b) => b # NULL)
  BY IdleStrings DEF stack_free, Idle
<1>2. Release({vm.stack}) /\ vm' = [vm EXCEPT !.stack = NULL] /\ UNCHANGED <<chunk, header, constants, keys>>
  BY DEF stack_free
<1>3. \A b : Live(b) /\ b # vm.stack => Live(b)'
  BY <1>1, <1>2, ReleaseKeeps
<1>4. \A b : Live(b)' => Live(b) /\ b # vm.stack
  BY <1>1, <1>2, ReleaseAddsNone
<1>5. Blocks' = {NULL, vm.strings, chunk.code, chunk.lines, chunk.constants}
  BY <1>1, <1>2 DEF Blocks, Typed
<1>6. \A o \in DOMAIN header : Live(o)' /\ o \notin Blocks'
  BY <1>1, <1>3, <1>5 DEF StringsHeld, Blocks
<1>7. \A b : Live(b)' => b \in DOMAIN header \cup Blocks'
  BY <1>1, <1>4, <1>5 DEF Accounted, Blocks
<1> QED
  BY <1>1, <1>2, <1>6, <1>7, NoNewString

LEMMA TableFreeStrings == ASSUME MemoryIInv, StringsIInv, table_free, ~fault PROVE StringsIInv'
<1>1. Typed /\ StringsHeld /\ Accounted /\ (\A b : Live(b) => b # NULL)
  BY IdleStrings
<1>2. Release({vm.strings}) /\ vm' = [vm EXCEPT !.strings = NULL] /\ keys' = {}
      /\ UNCHANGED <<chunk, header, constants>>
  BY DEF table_free
<1>3. \A b : Live(b) /\ b # vm.strings => Live(b)'
  BY <1>1, <1>2, ReleaseKeeps
<1>4. \A b : Live(b)' => Live(b) /\ b # vm.strings
  BY <1>1, <1>2, ReleaseAddsNone
<1>5. Blocks' = {vm.stack, NULL, chunk.code, chunk.lines, chunk.constants}
  BY <1>1, <1>2 DEF Blocks, Typed
<1>6. \A o \in DOMAIN header : Live(o)' /\ o \notin Blocks'
  BY <1>1, <1>3, <1>5 DEF StringsHeld, Blocks
<1>7. \A b : Live(b)' => b \in DOMAIN header \cup Blocks'
  BY <1>1, <1>4, <1>5 DEF Accounted, Blocks
<1> QED
  BY <1>1, <1>2, <1>6, <1>7, NoNewString

LEMMA ChunkFreeStrings == ASSUME MemoryIInv, StringsIInv, chunk_free PROVE StringsIInv'
<1>1. Typed /\ StringsHeld /\ Accounted /\ (\A b : Live(b) => b # NULL)
  BY IdleStrings DEF chunk_free, Idle
<1>2. Release(Arrays) /\ chunk' = NoChunk /\ constants' = {} /\ UNCHANGED <<vm, header, keys>>
  BY DEF chunk_free
<1>3. \A b : Live(b) /\ b \notin Arrays => Live(b)'
  BY <1>1, <1>2, ReleaseKeeps
<1>4. \A b : Live(b)' => Live(b) /\ b \notin Arrays
  BY <1>1, <1>2, ReleaseAddsNone
<1>5. Blocks' = {vm.stack, vm.strings, NULL} /\ Blocks = {vm.stack, vm.strings} \cup Arrays
  BY <1>2 DEF Blocks, NoChunk, Arrays
<1>6. \A o \in DOMAIN header : Live(o)' /\ o \notin Blocks'
  BY <1>1, <1>3, <1>5 DEF StringsHeld
<1>7. \A b : Live(b)' => b \in DOMAIN header \cup Blocks'
  BY <1>1, <1>4, <1>5 DEF Accounted
<1> QED
  BY <1>1, <1>2, <1>6, <1>7, NoNewString

(* The arrays, as far as they are allocated, are live.                     *)
LEMMA BlocksAreHeld == ASSUME MemoryIInv, ~fault PROVE \A b \in Blocks : b = NULL \/ Live(b)
<1>1. Typed /\ VmHeld /\ ChunkHeld /\ freeing \in {"", "strings", "objects"}
  BY DEF MemoryIInv, Held
<1>2. (vm.stack = NULL \/ Live(vm.stack)) /\ (vm.strings = NULL \/ Live(vm.strings))
  <2>1. CASE freeing = "" /\ vm = NoVm
    <3>1. vm.stack = NULL /\ vm.strings = NULL
      BY <2>1 DEF NoVm
    <3> QED
      BY <3>1
  <2>2. CASE freeing = "" /\ vm # NoVm
    BY <1>1, <2>2 DEF VmHeld
  <2>3. CASE freeing \in {"strings", "objects"}
    BY <1>1, <2>3 DEF VmHeld
  <2> QED
    BY <1>1, <2>1, <2>2, <2>3
<1>3. \A a \in {"code", "lines", "constants"} : chunk[a] = NULL \/ Live(chunk[a])
  <2>1. CASE chunk = NoChunk
    BY <2>1 DEF NoChunk
  <2>2. CASE chunk # NoChunk
    <3>1. DOMAIN chunk = {"code", "lines", "constants"}
      BY <1>1 DEF Typed
    <3> QED
      BY <1>1, <2>2, <3>1 DEF ChunkHeld
  <2> QED
    BY <2>1, <2>2
<1> QED
  BY <1>2, <1>3 DEF Blocks

(* A new string object, if it is on the list, is before the others.        *)
LEMMA NewStringHeld ==
  ASSUME MemoryIInv, StringsIInv, ~fault, NEW owned \in BOOLEAN, NEW next, NewString(owned, next),
         owned => next = NULL \/ next \in Owned,
         Blocks' = Blocks, constants' \subseteq constants \cup {New}
  PROVE  StringsIInv'
<1>1. PICK n : n = New
  OBVIOUS
<1>2. PICK r : r = [owned |-> owned, next |-> next]
  OBVIOUS
<1>3. Typed /\ StringsHeld /\ Accounted /\ (\A b : Live(b) => b # n) /\ Len(heap) \in Nat
      /\ n = Len(heap) + 1 /\ n # NULL
  <2>1. Typed /\ StringsHeld /\ Accounted /\ (\A b : Live(b) => b # n)
    BY <1>1, IdleStrings
  <2>2. Len(heap) \in Nat
    BY <2>1, HeapLength
  <2> QED
    BY <1>1, <2>1, <2>2 DEF New, NULL
<1>4. Allocate(1) /\ header' = [o \in DOMAIN header \cup {n} |-> IF o = n THEN r ELSE header[o]]
      /\ keys' = keys \cup {n}
  BY <1>1, <1>2 DEF NewString
<1>5. (\A b : Live(b) => Live(b)') /\ Live(n)'
  <2>1. (\A b : Live(b) => Live(b)') /\ \A k \in 1 .. 1 : Len(heap) + k \in DOMAIN heap' /\ heap'[Len(heap) + k]
    BY <1>3, <1>4, AllocateKeeps
  <2> QED
    BY <1>3, <2>1 DEF Live
<1>6. \A b : Live(b)' => Live(b) \/ b = n
  <2>1. \A k \in 1 .. 1 : Len(heap) + k = n
    BY <1>3
  <2> QED
    BY <1>3, <1>4, <2>1, AllocateAddsOnly
<1>7. n \notin DOMAIN header
  BY <1>3 DEF StringsHeld
<1>8. DOMAIN header' = DOMAIN header \cup {n} /\ (\A o \in DOMAIN header : header'[o] = header[o]) /\ header'[n] = r
  BY <1>4, <1>7
<1>9. n \notin Blocks'
  <2>1. Blocks \subseteq 0 .. Len(heap)
    <3>1. Len(heap) \in Nat /\ \A b : Live(b) => b \in 0 .. Len(heap)
      BY <1>3, LiveBlocks
    <3>2. \A b \in Blocks : b = NULL \/ Live(b)
      BY BlocksAreHeld
    <3> QED
      BY <3>1, <3>2 DEF NULL
  <2> QED
    BY <1>3, <2>1
<1>10. \A o \in DOMAIN header' : Live(o)' /\ o \notin Blocks'
  BY <1>3, <1>5, <1>8, <1>9 DEF StringsHeld
<1>11. \A o \in Owned' : header'[o].next = NULL \/ header'[o].next \in Owned'
  <2>1. Owned \subseteq Owned'
    BY <1>8 DEF Owned
  <2>2. ASSUME NEW o \in Owned' PROVE header'[o].next = NULL \/ header'[o].next \in Owned
    <3>1. CASE o = n
      <4>1. r.owned = owned /\ r.next = next
        BY <1>2
      <4>2. header'[o].owned /\ header'[o] = r
        BY <1>8, <2>2, <3>1 DEF Owned
      <4>3. header'[o].next = next /\ owned
        BY Zenon, <4>1, <4>2
      <4> QED
        BY Zenon, <4>3
    <3>2. CASE o # n
      <4>1. o \in Owned /\ header'[o] = header[o]
        BY <1>8, <2>2, <3>2 DEF Owned
      <4> QED
        BY <1>3, <4>1 DEF StringsHeld
    <3> QED
      BY <3>1, <3>2
  <2> QED
    BY <2>1, <2>2
<1>12. keys' \subseteq DOMAIN header' /\ constants' \subseteq DOMAIN header'
  BY <1>1, <1>3, <1>4, <1>8 DEF StringsHeld
<1>13. Accounted'
  BY <1>3, <1>6, <1>8 DEF Accounted
<1> QED
  BY <1>10, <1>11, <1>12, <1>13 DEF StringsIInv, StringsHeld

LEMMA RefStrings == ASSUME MemoryIInv, StringsIInv, obj_string_ref PROVE StringsIInv'
<1>1. ~fault /\ NewString(FALSE, UNSET) /\ vm' = vm /\ chunk' = chunk /\ constants' = constants \cup {New}
  BY DEF obj_string_ref, Idle, RefLink
<1>2. Blocks' = Blocks
  BY <1>1 DEF Blocks
<1> QED
  BY <1>1, <1>2, NewStringHeld

LEMMA CopyStrings == ASSUME MemoryIInv, StringsIInv, obj_string_copy PROVE StringsIInv'
<1>1. ~fault /\ NewString(TRUE, vm.objects) /\ vm' = CopyLink /\ chunk' = chunk /\ constants' = constants
  BY DEF obj_string_copy, Idle
<1>2. Blocks' = Blocks
  <2>1. Typed
    BY <1>1 DEF MemoryIInv
  <2>2. vm'.stack = vm.stack /\ vm'.strings = vm.strings
    BY <1>1, <2>1 DEF CopyLink, Typed
  <2> QED
    BY <1>1, <2>2 DEF Blocks
<1>3. vm.objects = NULL \/ vm.objects \in Owned
  BY <1>1 DEF MemoryIInv, Held, ListHoldsOwned
<1> QED
  BY <1>1, <1>2, <1>3, NewStringHeld

LEMMA NextKeepsStrings == MemoryIInv /\ StringsIInv /\ [Next]_vars => StringsIInv'
<1> SUFFICES ASSUME MemoryIInv, StringsIInv, [Next]_vars PROVE StringsIInv'
  OBVIOUS
<1>1. CASE vm_init \/ chunk_init \/ stack_put \/ \E array \in DOMAIN chunk : chunk_write(array)
  BY <1>1, VmInitStrings, ChunkInitStrings, StackPutStrings, ChunkWriteStrings
<1>2. CASE obj_string_ref \/ obj_string_copy
  BY <1>2, RefStrings, CopyStrings
<1>3. CASE stack_free \/ chunk_free
  BY <1>3, StackFreeStrings, ChunkFreeStrings
<1>4. CASE table_free
  <2>1. ~fault
    BY <1>4 DEF table_free, MemoryIInv
  <2> QED
    BY <1>4, <2>1, TableFreeStrings
<1>5. CASE obj_free
  BY <1>5, ObjFreeFaults DEF StringsIInv
<1>6. CASE objects_free \/ UNCHANGED vars
  <2>1. UNCHANGED <<heap, vm, chunk, header, constants, keys, fault>>
    BY <1>6 DEF objects_free, vars
  <2> QED
    BY <2>1 DEF StringsIInv, StringsHeld, Accounted, Blocks, Owned, Live
<1> QED
  BY <1>1, <1>2, <1>3, <1>4, <1>5, <1>6 DEF Next
-----------------------------------------------------------------------------
(* Induction, from the well-ordering of the naturals.                      *)
LEMMA Induction ==
  ASSUME NEW S, 0 \in S, \A n \in Nat : n \in S => n + 1 \in S
  PROVE  Nat \subseteq S
<1> DEFINE R == OpToRel(<, Nat)
<1>1. IsWellFoundedOn(R, Nat)
  BY NatLessThanWellFounded
<1>2. \A m, n \in Nat : m < n => <<m, n>> \in R
  BY DEF OpToRel
<1> HIDE DEF R
<1> SUFFICES ASSUME ~(Nat \subseteq S) PROVE FALSE
  OBVIOUS
<1>3. PICK n \in Nat \ S : \A m \in Nat \ S : ~(<<m, n>> \in R)
  BY <1>1, WFMin
<1>4. n # 0 /\ n - 1 \in Nat /\ n - 1 < n /\ (n - 1) + 1 = n
  BY <1>3
<1>5. n - 1 \notin S
  <2>1. n - 1 \in S => (n - 1) + 1 \in S
    BY <1>4
  <2> QED
    BY <1>3, <1>4, <2>1
<1> QED
  BY <1>2, <1>3, <1>4, <1>5

(* The list followed n times, as Listed follows it, exists and stays in    *)
(* every set that its first object is in and no next leads out of.         *)
Nexts(h, S) == {h[o].next : o \in S} \ {NULL}

Follows(reach, N, h, first) ==
  reach = [n \in 0 .. N |->
             IF n = 0 THEN {first} \ {NULL} ELSE reach[n - 1] \cup Nexts(h, reach[n - 1])]

LEMMA ListIsFollowed ==
  ASSUME NEW h, NEW first, NEW N \in Nat
  PROVE  \E reach : Follows(reach, N, h, first)
<1> DEFINE S == {n \in Nat : \E reach : Follows(reach, n, h, first)}
<1>1. 0 \in S
  <2>1. PICK reach : reach = [n \in 0 .. 0 |-> {first} \ {NULL}]
    OBVIOUS
  <2>2. reach = [n \in 0 .. 0 |->
                   IF n = 0 THEN {first} \ {NULL} ELSE reach[n - 1] \cup Nexts(h, reach[n - 1])]
    BY <2>1
  <2> QED
    BY <2>2 DEF Follows
<1>2. ASSUME NEW k \in Nat, k \in S PROVE k + 1 \in S
  <2>1. PICK reach : Follows(reach, k, h, first)
    BY <1>2
  <2>2. PICK last : last = reach[k] \cup Nexts(h, reach[k])
    OBVIOUS
  <2>3. PICK more : more = [n \in 0 .. k + 1 |-> IF n = k + 1 THEN last ELSE reach[n]]
    OBVIOUS
  <2>4. \A n \in 0 .. k + 1 :
          more[n] = IF n = 0 THEN {first} \ {NULL} ELSE more[n - 1] \cup Nexts(h, more[n - 1])
    <3> TAKE n \in 0 .. k + 1
    <3>1. CASE n = k + 1
      <4>1. n # 0 /\ n - 1 = k /\ k \in 0 .. k + 1 /\ k # k + 1
        BY <3>1
      <4>2. more[n] = last /\ more[n - 1] = reach[k]
        BY <2>3, <3>1, <4>1
      <4> QED
        BY Zenon, <2>2, <4>1, <4>2
    <3>2. CASE n # k + 1
      <4>1. n \in 0 .. k
        BY <3>2
      <4>2. reach[n] = IF n = 0 THEN {first} \ {NULL} ELSE reach[n - 1] \cup Nexts(h, reach[n - 1])
        <5>1. reach = [m \in 0 .. k |->
                   IF m = 0 THEN {first} \ {NULL} ELSE reach[m - 1] \cup Nexts(h, reach[m - 1])]
          BY <2>1 DEF Follows
        <5> QED
          BY Zenon, <4>1, <5>1
      <4>3. more[n] = reach[n] /\ (n # 0 => more[n - 1] = reach[n - 1])
        BY <2>3, <3>2, <4>1
      <4> QED
        BY Zenon, <4>2, <4>3
    <3> QED
      BY <3>1, <3>2
  <2>5. more = [n \in 0 .. k + 1 |-> more[n]]
    BY <2>3
  <2>6. more = [n \in 0 .. k + 1 |->
                  IF n = 0 THEN {first} \ {NULL} ELSE more[n - 1] \cup Nexts(h, more[n - 1])]
    BY Zenon, <2>4, <2>5
  <2> QED
    BY <2>6 DEF Follows
<1>3. Nat \subseteq S
  <2> HIDE DEF S
  <2> QED
    BY <1>1, <1>2, Induction
<1> QED
  BY <1>3

LEMMA FollowedStays ==
  ASSUME NEW h, NEW first, NEW N \in Nat, NEW reach, Follows(reach, N, h, first),
         NEW C, first # NULL => first \in C, \A o \in C : h[o].next = NULL \/ h[o].next \in C
  PROVE  reach[N] \subseteq C
<1> DEFINE S == {n \in Nat : n <= N => reach[n] \subseteq C}
<1>1. \A n \in 0 .. N :
        reach[n] = IF n = 0 THEN {first} \ {NULL} ELSE reach[n - 1] \cup Nexts(h, reach[n - 1])
  BY Zenon DEF Follows
<1>2. 0 \in S
  <2>1. 0 \in 0 .. N
    OBVIOUS
  <2>2. reach[0] = {first} \ {NULL}
    BY <1>1, <2>1
  <2> QED
    BY <2>2
<1>3. ASSUME NEW n \in Nat, n \in S PROVE n + 1 \in S
  <2> SUFFICES ASSUME n + 1 <= N PROVE reach[n + 1] \subseteq C
    OBVIOUS
  <2>1. reach[n] \subseteq C
    BY <1>3
  <2>2. n + 1 \in 0 .. N /\ n + 1 # 0 /\ (n + 1) - 1 = n
    OBVIOUS
  <2>3. reach[n + 1] = reach[n] \cup Nexts(h, reach[n])
    BY Zenon, <1>1, <2>2
  <2>4. Nexts(h, reach[n]) \subseteq C
    BY <2>1 DEF Nexts
  <2> QED
    BY <2>1, <2>3, <2>4
<1>4. Nat \subseteq S
  <2> HIDE DEF S
  <2> QED
    BY <1>2, <1>3, Induction
<1> QED
  BY <1>4

LEMMA ListedAreOwned == ASSUME MemoryIInv, StringsIInv, ~fault PROVE Listed \subseteq Owned
<1>1. /\ Len(heap) \in Nat /\ (vm.objects # NULL => vm.objects \in Owned)
      /\ \A o \in Owned : header[o].next = NULL \/ header[o].next \in Owned
  <2>1. Len(heap) \in Nat
    BY HeapLength DEF MemoryIInv
  <2>2. vm.objects # NULL => vm.objects \in Owned
    BY DEF MemoryIInv, Held, ListHoldsOwned
  <2> QED
    BY <2>1, <2>2 DEF StringsIInv, StringsHeld
<1>2. \E reach : Follows(reach, Len(heap), header, vm.objects)
  BY <1>1, ListIsFollowed
<1>3. PICK reach : Follows(reach, Len(heap), header, vm.objects) /\ Listed = reach[Len(heap)]
  BY Zenon, <1>2 DEF Listed, Follows, Nexts
<1> QED
  BY <1>1, <1>3, FollowedStays

LEMMA NothingInUseDangles == ASSUME MemoryIInv, StringsIInv PROVE NothingDangles
<1> SUFFICES ASSUME ~fault, NEW b \in InUse PROVE Live(b)
  BY DEF NothingDangles
<1>1. CASE b \in Blocks \ {NULL}
  BY <1>1, BlocksAreHeld
<1>2. CASE b \in Listed \cup keys \cup constants
  <2>1. b \in DOMAIN header
    BY <1>2, ListedAreOwned DEF StringsIInv, StringsHeld, Owned
  <2> QED
    BY <2>1 DEF StringsIInv, StringsHeld
<1> QED
  BY <1>1, <1>2 DEF InUse, Blocks

LEMMA WhatIsLeft == ASSUME MemoryIInv, StringsIInv PROVE LiteralsLeak
<1> SUFFICES ASSUME vm = NoVm, chunk = NoChunk, Idle
             PROVE  {b \in DOMAIN heap : heap[b]} = {o \in DOMAIN header : ~header[o].owned}
  BY DEF LiteralsLeak
<1>1. Typed /\ StringsHeld /\ Accounted /\ (\A b : Live(b) => b # NULL)
  BY IdleStrings DEF Idle
<1>2. Owned = {}
  BY DEF MemoryIInv, Held, ListHoldsOwned, NoVm, Idle
<1>3. Blocks = {NULL}
  BY DEF Blocks, NoVm, NoChunk
<1>4. \A b : Live(b) => b \in DOMAIN header /\ ~header[b].owned
  BY <1>1, <1>2, <1>3 DEF Accounted, Owned
<1>5. \A o \in DOMAIN header : Live(o)
  BY <1>1 DEF StringsHeld
<1> QED
  BY <1>4, <1>5 DEF Live

LEMMA InitStrings == Init => StringsIInv
<1> SUFFICES ASSUME Init PROVE StringsHeld /\ Accounted
  BY DEF StringsIInv
<1>1. heap = <<>> /\ header = <<>> /\ keys = {} /\ constants = {}
  BY DEF Init
<1>2. DOMAIN heap = {} /\ DOMAIN header = {}
  BY <1>1
<1> QED
  BY <1>1, <1>2 DEF StringsHeld, Accounted, Owned, Live

(* In however many blocks, and in whatever order a machine and a chunk are *)
(* used and freed, what is in use is live: the arrays that have moved, the *)
(* list followed to its end, the keys and the constants (memory.c,         *)
(* vm_free, chunk_free, obj.c).                                            *)
THEOREM NoBlockDangles == Spec => []NothingDangles
<1> QED
  BY InitHolds, InitStrings, NextKeeps, NextKeepsStrings, NothingInUseDangles, PTL DEF Spec

(* All that stays allocated when machine and chunk are freed is the        *)
(* objects of the literals, which are on no list (obj.c, vm_free).         *)
THEOREM OnlyLiteralsLeak == Spec => []LiteralsLeak
<1> QED
  BY InitHolds, InitStrings, NextKeeps, NextKeepsStrings, WhatIsLeft, PTL DEF Spec
=============================================================================
