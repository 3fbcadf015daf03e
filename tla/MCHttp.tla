------------------------------- MODULE MCHttp -------------------------------
(* A download that is validated and one that is compared with what is there. *)
EXTENDS Http

CONSTANTS r1, r2

MCRequests == {r1, r2}
MCFiles == {r1, r2}
MCValidated == {r1}
MCHashed == {r2}
=============================================================================
