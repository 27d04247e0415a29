----------------------------- MODULE NodeStore -----------------------------
(***************************************************************************)
(* What the parser takes the arena for: new nodes without end, each of     *)
(* which keeps what was stored in it until all of them are given back.     *)
(***************************************************************************)
VARIABLES
  nodes,   \* what each node holds
  open     \* FALSE once they are given back

storeVars == <<nodes, open>>

StoreInit == DOMAIN nodes = {} /\ open = TRUE

New(n) ==
  /\ open /\ n \notin DOMAIN nodes
  /\ DOMAIN nodes' = DOMAIN nodes \cup {n}
  /\ \A m \in DOMAIN nodes : nodes'[m] = nodes[m]
  /\ open' = open

Set(n) ==
  /\ open
  /\ DOMAIN nodes' = DOMAIN nodes
  /\ \A m \in DOMAIN nodes \ {n} : nodes'[m] = nodes[m]
  /\ open' = open

Close == open /\ open' = FALSE /\ DOMAIN nodes' = {}

StoreNext ==
  \/ \E n \in DOMAIN nodes' : New(n)
  \/ \E n \in DOMAIN nodes : Set(n)
  \/ Close

StoreSpec == StoreInit /\ [][StoreNext]_storeVars
=============================================================================
