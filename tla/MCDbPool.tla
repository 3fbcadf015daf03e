------------------------------ MODULE MCDbPool ------------------------------
(* A server that registers its databases at any point of the run and submits
   one read and two writes. *)
EXTENDS DbPool, TLC

CONSTANTS aw, ab, r1, q1, q2

MCQueries == {aw, ab, r1, q1, q2}
MCKind ==
  aw :> "addWrite" @@ ab :> "addBackup" @@ r1 :> "read" @@ q1 :> "write"
    @@ q2 :> "write"
=============================================================================
