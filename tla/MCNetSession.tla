---------------------------- MODULE MCNetSession ----------------------------
(* Clients behind one address of the internet: one person's two, or one. *)
EXTENDS NetSession

CONSTANTS a1, a2

OneAddr == {a1}
TwoAddrs == {a1, a2}
MCIp == [a \in Addrs |-> "home"]
=============================================================================
