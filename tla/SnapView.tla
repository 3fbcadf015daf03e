------------------------------ MODULE SnapView ------------------------------
(***************************************************************************)
(* What the exchange of snapshots promises: the server publishes one       *)
(* snapshot for a tick, and the player sees published snapshots, each      *)
(* newer than the one before.                                              *)
(***************************************************************************)
EXTENDS Integers

CONSTANTS
  Ticks,     \* the ticks of the game
  Snapshots  \* what a snapshot can be

VARIABLES
  published, \* the snapshot of every tick that has one
  shown      \* the tick and the snapshot on the player's screen

Init == published = <<>> /\ shown = <<>>

Publish(tick, snap) ==
  /\ \A t \in DOMAIN published : t < tick
  /\ published' = [t \in DOMAIN published \cup {tick} |-> IF t = tick THEN snap ELSE published[t]]
  /\ UNCHANGED shown

Show(tick) ==
  /\ shown # <<>> => tick > shown.tick
  /\ shown' = [tick |-> tick, snap |-> published[tick]]
  /\ UNCHANGED published

Next ==
  \/ \E tick \in Ticks, snap \in Snapshots : Publish(tick, snap)
  \/ \E tick \in DOMAIN published : Show(tick)

Spec == Init /\ [][Next]_<<published, shown>>
=============================================================================
