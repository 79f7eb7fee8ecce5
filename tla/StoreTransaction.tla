-------------------------- MODULE StoreTransaction --------------------------
(***************************************************************************)
(* The unit of work of one workspace store (packages/db/src/store-context  *)
(* .ts, transaction).  The first call opens an interactive transaction and *)
(* redirects the store's client onto it; a call made meanwhile joins: it   *)
(* waits for the transaction to be open and runs inline, and the outer     *)
(* call commits or rolls back for both.  Calls of one process interleave   *)
(* at their awaits (daily-capture-deps.ts refreshes two sources of a store *)
(* at the same time), and each caller handles its own call's failure.      *)
(*                                                                         *)
(* Each call's work is a sequence of Writes statements, each sent to the   *)
(* client in force when it is made.  A statement on a transaction already  *)
(* settled throws; outside a transaction each statement commits alone.     *)
(***************************************************************************)
EXTENDS Naturals

CONSTANTS
    Calls,
    Writes,     \* statements of a unit of work
    MaxThrows,  \* bound: throws in a behaviour
    Base        \* the shared client

\* What the instances satisfy and the proofs assume.
StoreAssumption ==
    /\ Writes \in Nat \ {0}
    /\ MaxThrows \in Nat
    /\ Base \notin Calls

VARIABLES
    depth,      \* txDepth
    gate,       \* established: null, pending or resolved
    client,     \* currentClient: the base client, or the transaction of a call
    open,       \* transactions the database holds open
    pending,    \* statements in the open transaction
    durable,    \* statements committed
    joins,      \* inFlightJoins
    call,       \* where each call is
    throws

storeVars == <<depth, gate, client, open, pending, durable, joins, call, throws>>

-----------------------------------------------------------------------------

Statements == Calls \X (1..Writes)

\* role: the transaction the call opened (itself), joined (its outer's name), or none at
\* all; late: it joined after the outer had drained the joins it waits for; lost: its
\* commit took effect and the answer never came.
Call == [pc : {"idle", "opening", "waiting", "working", "draining", "flushing", "committing",
               "rolling", "settled", "leaving", "returned", "threw"},
         made : 0..Writes, role : Calls \cup {Base}, late : BOOLEAN, ok : BOOLEAN,
         lost : BOOLEAN]

Ended == {"returned", "threw"}
At(c, pc) == call' = [call EXCEPT ![c].pc = pc]
Outer == CHOOSE c \in Calls :
            call[c].role = c /\ call[c].pc \notin {"idle"} \cup Ended
Written(c) == {s \in durable : s[1] = c}

StoreInit ==
    /\ depth = 0
    /\ gate = "none"
    /\ client = Base
    /\ open = {}
    /\ pending = {} /\ durable = {}
    /\ joins = {}
    /\ call = [c \in Calls |-> [pc |-> "idle", made |-> 0, role |-> Base, late |-> FALSE,
                                ok |-> TRUE, lost |-> FALSE]]
    /\ throws = 0

Throw == throws < MaxThrows /\ throws' = throws + 1

-----------------------------------------------------------------------------
(* transaction().                                                          *)

\* txDepth 0: this call opens the transaction.
Begin(c) ==
    /\ call[c].pc = "idle"
    /\ depth = 0
    /\ depth' = 1
    /\ gate' = "pending"
    /\ call' = [call EXCEPT ![c].pc = "opening", ![c].role = c]
    /\ UNCHANGED <<client, open, pending, durable, joins, throws>>

\* txDepth above 0: join, waiting for the gate when there is one.
Join(c) ==
    /\ call[c].pc = "idle"
    /\ depth > 0
    /\ joins' = joins \cup {c}
    /\ call' = [call EXCEPT ![c].pc = IF gate = "pending" THEN "waiting" ELSE "working",
                            ![c].role = IF gate = "none" THEN Base ELSE Outer,
                            ![c].late = call[Outer].pc \in
                                            {"flushing", "committing", "settled"}]
    /\ UNCHANGED <<depth, gate, client, open, pending, durable, throws>>

\* Faulty variant: the joiners are let in before the client is redirected.
Opened_NoRedirect(c) ==
    /\ call[c].pc = "opening"
    /\ open' = open \cup {c}
    /\ gate' = "open"
    /\ call' = [d \in Calls |-> IF d = c \/ call[d].pc = "waiting"
                                THEN [call[d] EXCEPT !.pc = "working"] ELSE call[d]]
    /\ UNCHANGED <<depth, client, pending, durable, joins, throws>>

\* client.transaction("write") answered: redirect, then let the joiners in.
Opened(c) ==
    /\ call[c].pc = "opening"
    /\ open' = open \cup {c}
    /\ client' = c
    /\ gate' = "open"
    /\ call' = [d \in Calls |-> IF d = c \/ call[d].pc = "waiting"
                                THEN [call[d] EXCEPT !.pc = "working"] ELSE call[d]]
    /\ UNCHANGED <<depth, pending, durable, joins, throws>>

\* It failed: the joiners fall back to the client in force.
OpenFails(c) ==
    /\ Throw
    /\ call[c].pc = "opening"
    /\ gate' = "none"
    /\ call' = [d \in Calls |->
                   IF d = c THEN [call[d] EXCEPT !.pc = "leaving", !.ok = FALSE]
                   ELSE IF call[d].pc = "waiting"
                   THEN [call[d] EXCEPT !.pc = "working", !.role = Base] ELSE call[d]]
    /\ UNCHANGED <<depth, client, open, pending, durable, joins>>

-----------------------------------------------------------------------------
(* The work.                                                               *)

\* Faulty variant: a join that throws is never taken out of the joins in flight.
WorkEnds_KeepsJoin(c, ok) ==
    IF call[c].role = c
    THEN /\ call' = [call EXCEPT ![c].pc = IF ok THEN "draining" ELSE "rolling", ![c].ok = ok]
         /\ UNCHANGED joins
    ELSE /\ call' = [call EXCEPT ![c].pc = IF ok THEN "returned" ELSE "threw", ![c].ok = ok]
         /\ joins' = IF ok THEN joins \ {c} ELSE joins

\* A join leaves inFlightJoins however it settles (Promise.allSettled waits for both).
WorkEnds(c, ok) ==
    IF call[c].role = c
    THEN /\ call' = [call EXCEPT ![c].pc = IF ok THEN "draining" ELSE "rolling", ![c].ok = ok]
         /\ UNCHANGED joins
    ELSE /\ call' = [call EXCEPT ![c].pc = IF ok THEN "returned" ELSE "threw", ![c].ok = ok]
         /\ joins' = joins \ {c}

Write(c) ==
    LET statement == <<c, call[c].made + 1>> IN
    /\ call[c].pc = "working"
    /\ call[c].made < Writes
    /\ \/ /\ client = Base
          /\ durable' = durable \cup {statement}
          /\ call' = [call EXCEPT ![c].made = @ + 1]
          /\ UNCHANGED <<pending, joins>>
       \/ /\ client \in open
          /\ pending' = pending \cup {statement}
          /\ call' = [call EXCEPT ![c].made = @ + 1]
          /\ UNCHANGED <<durable, joins>>
       \/ /\ client \notin open \cup {Base}
          /\ WorkEnds(c, FALSE)
          /\ UNCHANGED <<pending, durable>>
    /\ UNCHANGED <<depth, gate, client, open, throws>>

WorkReturns(c) ==
    /\ call[c].pc = "working"
    /\ call[c].made = Writes
    /\ WorkEnds(c, TRUE)
    /\ UNCHANGED <<depth, gate, client, open, pending, durable, throws>>

WorkThrows(c) ==
    /\ Throw
    /\ call[c].pc = "working"
    /\ WorkEnds(c, FALSE)
    /\ UNCHANGED <<depth, gate, client, open, pending, durable>>

-----------------------------------------------------------------------------
(* The end of the outer transaction.                                       *)

\* Faulty variant: the outer call does not wait for the joins in flight.
DrainJoins_Skip(c) ==
    /\ call[c].pc = "draining"
    /\ At(c, "flushing")
    /\ UNCHANGED <<depth, gate, client, open, pending, durable, joins, throws>>

\* drainJoins.
DrainJoins(c) ==
    /\ call[c].pc = "draining"
    /\ joins = {}
    /\ At(c, "flushing")
    /\ UNCHANGED <<depth, gate, client, open, pending, durable, joins, throws>>

\* runBeforeCommit: a hook that throws rolls the unit back.
RunBeforeCommit(c) ==
    /\ call[c].pc = "flushing"
    /\ \/ At(c, "committing") /\ UNCHANGED throws
       \/ Throw /\ call' = [call EXCEPT ![c].pc = "rolling", ![c].ok = FALSE]
    /\ UNCHANGED <<depth, gate, client, open, pending, durable, joins>>

\* tx.commit at the database, or its refusal.  An answer lost on its way throws as well:
\* the rollback the catch then asks for finds no transaction and its error is swallowed.
Commit(c) ==
    /\ call[c].pc = "committing"
    /\ \/ /\ durable' = durable \cup pending
          /\ pending' = {}
          /\ open' = open \ {c}
          /\ \/ At(c, "settled") /\ UNCHANGED throws
             \/ /\ Throw
                /\ call' = [call EXCEPT ![c].pc = "settled", ![c].ok = FALSE, ![c].lost = TRUE]
       \/ /\ Throw
          /\ call' = [call EXCEPT ![c].pc = "rolling", ![c].ok = FALSE]
          /\ UNCHANGED <<durable, pending, open>>
    /\ UNCHANGED <<depth, gate, client, joins>>

\* Faulty variant: a failed unit is committed up to where it failed.
Rollback_Keeps(c) ==
    /\ call[c].pc = "rolling"
    /\ durable' = durable \cup pending
    /\ pending' = {}
    /\ open' = open \ {c}
    /\ At(c, "settled")
    /\ UNCHANGED <<depth, gate, client, joins, throws>>

\* discardBeforeCommit and tx.rollback: the joins in flight are not waited for.
Rollback(c) ==
    /\ call[c].pc = "rolling"
    /\ pending' = {}
    /\ open' = open \ {c}
    /\ At(c, "settled")
    /\ UNCHANGED <<depth, gate, client, durable, joins, throws>>

\* The inner finally: close, and back to the base client.
RestoreClient(c) ==
    /\ call[c].pc = "settled"
    /\ client' = Base
    /\ gate' = "none"
    /\ At(c, "leaving")
    /\ UNCHANGED <<depth, open, pending, durable, joins, throws>>

\* The outer finally.
Leave(c) ==
    /\ call[c].pc = "leaving"
    /\ depth' = 0
    /\ gate' = "none"
    /\ At(c, IF call[c].ok THEN "returned" ELSE "threw")
    /\ UNCHANGED <<client, open, pending, durable, joins, throws>>

Progress(c) ==
    \/ Opened(c) \/ Write(c) \/ WorkReturns(c) \/ DrainJoins(c) \/ RunBeforeCommit(c)
    \/ Commit(c) \/ Rollback(c) \/ RestoreClient(c) \/ Leave(c)

StoreNext ==
    \E c \in Calls : Begin(c) \/ Join(c) \/ OpenFails(c) \/ WorkThrows(c) \/ Progress(c)

\* The database and the event loop answer every call.
StoreFairness == \A c \in Calls : WF_storeVars(Progress(c))

StoreSpec == StoreInit /\ [][StoreNext]_storeVars /\ StoreFairness

-----------------------------------------------------------------------------
(* What UnitOfWork sees of the store: a transaction is settled for its     *)
(* caller once it is at the database.                                      *)

Fates ==
    [c \in Calls |->
        IF call[c].role = c /\ call[c].pc \in {"settled", "leaving"} \cup Ended
        THEN IF call[c].ok THEN "kept" ELSE IF call[c].lost THEN "unheard" ELSE "dropped"
        ELSE "none"]

Unit == INSTANCE UnitOfWork WITH
    staged <- pending, unit <- open, fate <- Fates, sent <- [c \in Calls |-> call[c].made]

-----------------------------------------------------------------------------
(* Properties.                                                             *)

\* Type correctness; the client is only ever redirected onto the one transaction, and
\* statements wait in it only while it is open.
StoreTypeOK ==
    /\ depth \in 0..1
    /\ gate \in {"none", "pending", "open"}
    /\ client \in Calls \cup {Base}
    /\ open \subseteq Calls
    /\ pending \subseteq Statements /\ durable \subseteq Statements
    /\ joins \subseteq Calls
    /\ call \in [Calls -> Call]
    /\ throws \in 0..MaxThrows
    /\ pending # {} => open = {client}

\* The unit of work of the call that opened the transaction is all or nothing, whatever
\* joined it: returned, all its statements are committed; none shows while it runs;
\* thrown, none, unless what was lost is the answer of its commit: then all of them are,
\* under an error its caller cannot tell from the others.
OuterAllOrNothing ==
    \A c \in Calls : call[c].role = c =>
        CASE call[c].pc = "returned" \/ call[c].lost -> Written(c) = {c} \X (1..Writes)
          [] call[c].pc \in {"settled", "leaving"} /\ call[c].ok ->
                Written(c) = {c} \X (1..Writes)
          [] OTHER -> Written(c) = {}

\* A call that joined in time and returned is committed with its outer call: the commit
\* waits for every join that began before the drain ended.
JoinedInTimeIsKept ==
    \A c, o \in Calls :
        (c # o /\ call[c].role = o /\ ~call[c].late /\ call[o].pc = "returned") =>
            /\ call[c].pc \in Ended
            /\ call[c].pc = "returned" => Written(c) = {c} \X (1..Writes)

\* UnitOfWork promises: while a transaction is open every statement of every call waits in
\* it, in its call's order, and nothing durable changes; it ends by making them durable at
\* once, its own call complete, or none of them; alone a statement commits only while none
\* is open.  The redirected client, the gate and the finally blocks keep those promises.
ImplementsUnitOfWork == Unit!Spec

\* Nobody waits for anybody for ever: gate, drain and joins never block each other.
EveryCallEnds ==
    \A c \in Calls : call[c].pc # "idle" ~> call[c].pc \in Ended

=============================================================================
