---------------------------- MODULE MCWorkspace ----------------------------
(***************************************************************************)
(* Small instances of what runs over one workspace's database, for TLC.    *)
(* Each is a state space of its own, chosen by part in the initial state:  *)
(* the store's transactions, the proposals (imports, repayments and the    *)
(* rest each apart), the push to prod, and history under backdated facts.  *)
(* What a part leaves out stands still in its initial state.               *)
(***************************************************************************)
EXTENDS StoreTransaction, SyncPush, Proposals, History, TLC

CONSTANTS
    c1, c2, c3, base,
    imp1, imp2, rep1, rep2, corr, amended1, amended2, creation, d1, d2, hand, opening, none,
    key1, item1, never, fundA, fundB, a0, a1, ab

VARIABLE part

\* Three calls of a store: one opens, two may join.  Three requests of the assistant.
MCCalls == {c1, c2, c3}
MCRequests == {c1, c2, c3}

\* Two imports whose files share a date, over the ledger of one investment; two repayments
\* drafted on one balance, a correction and two ids for its amendments, a creation.
MCImports == {imp1, imp2}
MCProposals == MCImports \cup {rep1, rep2, corr, amended1, amended2, creation}
MCRepayments == {rep1, rep2}
MCDrafted == MCProposals \ {amended1, amended2}
MCKind ==
    imp1 :> "statement" @@ imp2 :> "statement" @@ rep1 :> "repayment" @@ rep2 :> "repayment"
    @@ corr :> "correction" @@ amended1 :> "correction" @@ amended2 :> "correction"
    @@ creation :> "creation"
MCDates == {d1, d2}
MCFileDates == imp1 :> {d1} @@ imp2 :> {d1, d2} @@ [p \in MCProposals |-> {}]

MCItems == {key1, item1}
MCSources == {key1}

\* Two funds, two purchases of the first, and its transfer to the second on the day of
\* the later one.
MCHoldings == {fundA, fundB}
MCPurchases == {a0, a1}
MCHoldingOf == a0 :> fundA @@ a1 :> fundA
MCDayOf == a0 :> 0 @@ a1 :> 1
MCTransfers == {ab}
MCOriginOf == ab :> fundA
MCDestinationOf == ab :> fundB
MCMoveDayOf == ab :> 1

\* The instances meet the components' assumptions.
ASSUME MCWorkspaceAssumption ==
    StoreAssumption /\ ProposalAssumption /\ SyncAssumption /\ HistoryAssumption

vars == <<part, storeVars, proposalVars, pushVars, historyVars>>

Parts == {"store", "imports", "repayments", "cards", "push", "history"}

\* The ledger starts with an opening, whose date no plan looks at.
Init ==
    /\ part \in Parts
    /\ StoreInit /\ ProposalInit /\ PushInit /\ HistoryInit
    /\ IF part = "imports" THEN DOMAIN ops = {<<opening, d1>>} ELSE ops = <<>>
    /\ part # "push" => prod = Never /\ local = {}

\* Requests that were not made are interchangeable, and so are the ids of amendments: they
\* are taken in order.
InTurn ==
    /\ request'[c2].pc # "idle" => request'[c1].pc # "idle"
    /\ request'[c3].pc # "idle" => request'[c2].pc # "idle"
    /\ status'[amended2] # "none" => status'[amended1] # "none"

\* The requests of a part are about its own proposals, and failures cross only the last
\* two: the three kinds share neither a balance nor a ledger.
About(proposals) == \A c \in Requests : request'[c].on \in {None} \cup proposals

ImportsNext ==
    /\ ProposalNext
    /\ InTurn
    /\ About(MCImports)
    /\ live' = live /\ faults' = faults

RepaymentsNext ==
    /\ ProposalNext
    /\ InTurn
    /\ About(MCRepayments)
    /\ ops' = ops

CardsNext ==
    /\ ProposalNext
    /\ InTurn
    /\ About(MCProposals \ (MCImports \cup MCRepayments))
    /\ ops' = ops /\ live' = live

\* The fund that only the transfer brings anything to is not opened before the other.
FundsNext ==
    /\ HistoryNext
    /\ opened' # {fundB}

Next ==
    /\ UNCHANGED part
    /\ \/ part = "store" /\ StoreNext /\ UNCHANGED <<proposalVars, pushVars, historyVars>>
       \/ part = "imports" /\ ImportsNext /\ UNCHANGED <<storeVars, pushVars, historyVars>>
       \/ part = "repayments" /\ RepaymentsNext /\ UNCHANGED <<storeVars, pushVars, historyVars>>
       \/ part = "cards" /\ CardsNext /\ UNCHANGED <<storeVars, pushVars, historyVars>>
       \/ part = "push" /\ PushNext /\ UNCHANGED <<storeVars, proposalVars, historyVars>>
       \/ part = "history" /\ FundsNext /\ UNCHANGED <<storeVars, proposalVars, pushVars>>

\* StoreFairness, in the part of the store; nothing else is asked to progress.
Spec ==
    /\ Init /\ [][Next]_vars
    /\ \A c \in Calls : WF_storeVars(part = "store" /\ Progress(c))

\* The state of the part's component has its type.
TypeOK ==
    /\ part = "store" => StoreTypeOK
    /\ part \in {"imports", "repayments", "cards"} => ProposalTypeOK
    /\ part = "push" => PushTypeOK
    /\ part = "history" => HistoryTypeOK

=============================================================================
