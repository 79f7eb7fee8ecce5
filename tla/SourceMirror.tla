---------------------------- MODULE SourceMirror ----------------------------
(***************************************************************************)
(* What the sync of one connected source promises, without the queue, the  *)
(* run rows or the failures: the mirrored positions and `last_sync_at` are *)
(* written together, by whoever holds the source, and by nobody else.  A   *)
(* holder that dies, or whose last statement fails, loses the source for   *)
(* good: nothing in the code takes it back.                                *)
(***************************************************************************)
EXTENDS Naturals

CONSTANTS
    Actors,      \* whoever runs a sync pass
    Stamps,      \* the instants (syncedAt) a pass can carry
    Never,       \* last_sync_at IS NULL
    Free, Lost   \* the source is nobody's; its holder is gone

VARIABLES
    mirrored,  \* the syncedAt of the positions in the store
    lastSync,  \* connected_sources.last_sync_at
    holder     \* who may write them

mirrorVars == <<mirrored, lastSync, holder>>

Init ==
    /\ mirrored = Never
    /\ lastSync = Never
    /\ holder = Free

Begin(a) ==
    /\ holder = Free
    /\ holder' = a
    /\ UNCHANGED <<mirrored, lastSync>>

Write(a, s) ==
    /\ holder = a
    /\ mirrored' = s
    /\ lastSync' = s
    /\ UNCHANGED holder

End(a) ==
    /\ holder = a
    /\ holder' = Free
    /\ UNCHANGED <<mirrored, lastSync>>

Lose(a) ==
    /\ holder = a
    /\ holder' = Lost
    /\ UNCHANGED <<mirrored, lastSync>>

Next ==
    \E a \in Actors :
        \/ Begin(a)
        \/ \E s \in Stamps : Write(a, s)
        \/ End(a)
        \/ Lose(a)

Spec == Init /\ [][Next]_mirrorVars

=============================================================================
