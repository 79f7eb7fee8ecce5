--------------------------- MODULE MCDailyCapture ---------------------------
(* Small instances of DailyCapture for TLC. *)
EXTENDS DailyCapture, TLC

CONSTANTS ws1, ws2, s1, s2, r1, r2

MCWorkspaces == {ws1, ws2}
MCScopes == {s1, s2}
MCOneScope == {s1}
MCRunners == {r1, r2}

\* Workspaces, scopes and runners are interchangeable.
MCSymmetry ==
    Permutations(MCWorkspaces) \cup Permutations(MCScopes) \cup Permutations(MCRunners)

=============================================================================
