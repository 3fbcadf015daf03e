------------------------------ MODULE NetStream ------------------------------
(***************************************************************************)
(* What a connection promises for the vital chunks of its two directions:  *)
(* the peer gets them once each, in the order they were sent, until it     *)
(* stops getting any.                                                      *)
(***************************************************************************)
EXTENDS Naturals, Sequences

CONSTANT Peers

VARIABLES
  pending,   \* per sender: what it sent and the peer has not got, oldest first
  delivered  \* per sender: what the peer got, in its order

Init ==
  /\ pending = [p \in Peers |-> <<>>]
  /\ delivered = [p \in Peers |-> <<>>]

Send(p) ==
  /\ pending' = [pending EXCEPT ![p] = Append(@, Len(delivered[p]) + Len(@) + 1)]
  /\ UNCHANGED delivered

Deliver(p) ==
  /\ pending[p] # <<>>
  /\ delivered' = [delivered EXCEPT ![p] = Append(@, Head(pending[p]))]
  /\ pending' = [pending EXCEPT ![p] = Tail(@)]

Next == \E p \in Peers : Send(p) \/ Deliver(p)

Spec == Init /\ [][Next]_<<pending, delivered>>
=============================================================================
