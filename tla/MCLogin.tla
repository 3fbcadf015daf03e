------------------------------ MODULE MCLogin -------------------------------
(* The client has one of two maps; the server starts with the other. *)
EXTENDS Login

MCMaps == {1, 2}
MCOnDisk == {2}
=============================================================================
