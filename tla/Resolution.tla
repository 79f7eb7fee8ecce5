----------------------------- MODULE Resolution -----------------------------
(***************************************************************************)
(* What the assistant promises of a proposal, whoever asks, however often  *)
(* and from however many cards: once drafted it takes documents while it   *)
(* is open, and is settled once and for good, by one step that writes it   *)
(* and marks it applied, or by one that discards it unwritten.  An         *)
(* amendment is a new proposal that remembers what it amends.              *)
(***************************************************************************)
EXTENDS Naturals

CONSTANTS
    Proposals,
    Drafted,  \* the proposals open at the start
    Rows      \* what the documents of a proposal may hold

VARIABLES
    status,   \* of each proposal
    docs,     \* the rows of its documents
    source,   \* the proposal it amends (itself: none)
    written   \* writes it caused

resolutionVars == <<status, docs, source, written>>

Init ==
    /\ status = [p \in Proposals |-> IF p \in Drafted THEN "draft" ELSE "none"]
    /\ docs \in [Proposals -> Rows]
    /\ source = [p \in Proposals |-> p]
    /\ written = [p \in Proposals |-> 0]

Draft(new) ==
    /\ status[new] = "none"
    /\ status' = [status EXCEPT ![new] = "draft"]
    /\ UNCHANGED <<docs, source, written>>

Amend(p, new) ==
    /\ status[p] # "none"
    /\ status[new] = "draft"
    /\ source' = [source EXCEPT ![new] = p]
    /\ UNCHANGED <<status, docs, written>>

Append(p, rows) ==
    /\ status[p] = "draft"
    /\ docs' = [docs EXCEPT ![p] = rows]
    /\ UNCHANGED <<status, source, written>>

Apply(p) ==
    /\ status[p] = "draft"
    /\ status' = [status EXCEPT ![p] = "applied"]
    /\ written' = [written EXCEPT ![p] = @ + 1]
    /\ UNCHANGED <<docs, source>>

Discard(p) ==
    /\ status[p] = "draft"
    /\ status' = [status EXCEPT ![p] = "discarded"]
    /\ UNCHANGED <<docs, source, written>>

Next ==
    \E p \in Proposals :
        \/ Draft(p) \/ Apply(p) \/ Discard(p)
        \/ \E rows \in Rows : Append(p, rows)
        \/ \E new \in Proposals : Amend(p, new)

Spec == Init /\ [][Next]_resolutionVars

\* An applied proposal was written once, any other never; what is settled stays so.
WrittenOnce == \A p \in Proposals : written[p] = IF status[p] = "applied" THEN 1 ELSE 0

SettledForGood ==
    [][\A p \in Proposals :
          status[p] \in {"applied", "discarded"} => status'[p] = status[p]]_status

=============================================================================
