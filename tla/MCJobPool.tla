----------------------------- MODULE MCJobPool -----------------------------
(* Two workers, one abortable and two non-abortable jobs. *)
EXTENDS JobPool, TLC

CONSTANTS w1, w2, j1, j2, a1

MCWorkers == {w1, w2}
MCJobs == {j1, j2, a1}
MCAbortable == {a1}
=============================================================================
