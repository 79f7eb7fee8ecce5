---------------------------- MODULE MCSourceSync ----------------------------
(* Small instances of SourceSync for TLC. *)
EXTENDS SourceSync, TLC

CONSTANTS j1, j2, k1, w1, w2, p1, cron

MCJobs == {j1, j2}
MCKeys == {k1}
MCWorkers == {w1, w2}
MCOneWorker == {w1}
MCProducers == {p1}
MCInline == {cron}

\* No property tells two jobs or two workers apart, and the safety run has no
\* fairness.
MCSymmetry == Permutations(MCJobs) \cup Permutations(MCWorkers)

=============================================================================
