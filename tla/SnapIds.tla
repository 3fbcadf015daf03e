------------------------------ MODULE SnapIds ------------------------------
(***************************************************************************)
(* What a pool of snapshot ids promises: an id belongs to one owner at a   *)
(* time, and once given back it rests before it has another.               *)
(***************************************************************************)
CONSTANT Ids

VARIABLES
  owned,   \* ids that entities have
  resting  \* ids given back a short time ago

Init == owned = {} /\ resting = {}

\* the ids of rested come out of their rest first
New(id, rested) ==
  /\ id \notin owned \cup (resting \ rested)
  /\ owned' = owned \cup {id}
  /\ resting' = (resting \ rested)

Fails(rested) ==
  /\ owned \cup (resting \ rested) = Ids
  /\ resting' = resting \ rested
  /\ UNCHANGED owned

Free(id) ==
  /\ id \in owned
  /\ owned' = owned \ {id}
  /\ resting' = resting \cup {id}

Next ==
  \/ \E id \in Ids, rested \in SUBSET resting : New(id, rested)
  \/ \E rested \in SUBSET resting : Fails(rested)
  \/ \E id \in Ids : Free(id)
  \/ resting' = {} /\ UNCHANGED owned

Spec == Init /\ [][Next]_<<owned, resting>>
=============================================================================
