----------------------------- MODULE MCJobQueue -----------------------------
(* Small instances of JobQueue for TLC. *)
EXTENDS JobQueue, TLC

CONSTANTS j1, j2, k1, w1, w2, p1

MCJobs == {j1, j2}
MCKeys == {k1}
MCWorkers == {w1, w2}
MCProducers == {p1}

=============================================================================
