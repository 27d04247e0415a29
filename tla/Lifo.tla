-------------------------------- MODULE Lifo --------------------------------
(***************************************************************************)
(* What the virtual machine takes the value stack for: values come back    *)
(* in the reverse of the order in which they were put, and it never fills  *)
(* up.  To take from an empty stack is an error of the caller, after which *)
(* nothing is promised.                                                    *)
(***************************************************************************)
EXTENDS Integers, Sequences

CONSTANT Values

VARIABLES
  contents,   \* the values on the stack, top last
  returned,   \* what the last pop gave back
  phase       \* "live", "freed", "wild"

lifoVars == <<contents, returned, phase>>

NOTHING == "nothing"   \* no pop yet

LifoInit == contents = <<>> /\ returned = NOTHING /\ phase = "live"

Below == SubSeq(contents, 1, Len(contents) - 1)

LifoPut(v) ==
  phase = "live" /\ contents' = Append(contents, v) /\ UNCHANGED <<returned, phase>>

LifoReplace(v) ==
  /\ phase = "live" /\ contents # <<>>
  /\ contents' = Append(Below, v)
  /\ UNCHANGED <<returned, phase>>

LifoPop ==
  /\ phase = "live" /\ contents # <<>>
  /\ returned' = contents[Len(contents)]
  /\ contents' = Below
  /\ UNCHANGED phase

LifoMisuse ==
  /\ phase = "live" /\ contents = <<>>
  /\ phase' = "wild"
  /\ UNCHANGED <<contents, returned>>

LifoReset == phase = "live" /\ contents' = <<>> /\ UNCHANGED <<returned, phase>>

LifoFree == phase = "live" /\ phase' = "freed" /\ contents' = <<>> /\ UNCHANGED returned

LifoNext ==
  \/ \E v \in Values : LifoPut(v) \/ LifoReplace(v)
  \/ LifoPop \/ LifoMisuse \/ LifoReset \/ LifoFree

LifoSpec == LifoInit /\ [][LifoNext]_lifoVars
=============================================================================
