----------------------------- MODULE Proposals -----------------------------
(***************************************************************************)
(* The assistant's proposals over one workspace: drafted in the chat,      *)
(* confirmed or discarded from their cards, grown or amended by further    *)
(* tool calls.  A confirm reads the draft, prepares the write from live    *)
(* data, and applies it through one gate that re-reads the draft's status  *)
(* in the transaction of the write (commands/assistant-proposal-apply.ts); *)
(* the creation of a holding persists first and marks afterwards           *)
(* (holding-creation-proposal-action.ts).  Requests interleave at every    *)
(* await, and each may die between two of its writes.                      *)
(*                                                                         *)
(* Kinds: a statement import merges its file, by date, into the ledger of  *)
(* one investment; a repayment is written while the debt's balance is what *)
(* its card shows; a correction rewrites a series and may be amended, by a *)
(* new proposal that takes its place; a creation adds a holding.           *)
(***************************************************************************)
EXTENDS Naturals, FiniteSets, Functions

CONSTANTS
    Proposals,
    Kind,       \* the kind of each proposal
    Drafted,    \* the proposals drafted already; the rest are ids for amendments
    Dates,
    FileDates,  \* dates of the rows in the first document of each proposal
    Requests,   \* requests
    Hand,       \* the user's own entries
    Opening,    \* what an opening operation holds, and its author
    None,
    MaxEdits,   \* bound: writes of the user outside the proposals
    MaxFaults   \* bound: requests that fail or die

\* What the instances satisfy and the proofs assume.
ProposalAssumption ==
    /\ Kind \in [Proposals -> {"statement", "repayment", "correction", "creation"}]
    /\ Drafted \subseteq Proposals
    /\ FileDates \in [Proposals -> SUBSET Dates]
    /\ IsFiniteSet(Requests) /\ IsFiniteSet(Dates)
    /\ Opening \notin Proposals
    /\ MaxEdits \in Nat /\ MaxFaults \in Nat

VARIABLES
    status,         \* of each proposal; "none" until it is drafted
    docs,           \* rows of the documents of each proposal, by date
    source,         \* the proposal an amendment was made from (itself: none)
    ops,            \* the ledger: operation id -> what it holds
    live,           \* the debt's balance: the one the cards show, or another
    request,        \* where each request is
    written,        \* writes each proposal caused
    over,           \* the balance before and after each repayment's write
    moved,          \* confirms whose draft or ledger changed after they read it
    crossed,        \* proposals two requests resolved at the same time, or one died over
    edits, faults

proposalVars == <<status, docs, source, ops, live, request, written, over, moved, crossed,
                  edits, faults>>

-----------------------------------------------------------------------------

Ids == (Requests \cup {Hand, Opening}) \X Dates
Contents == Proposals \cup {Hand, Opening}
On(ledger, d) == {id \in DOMAIN ledger : id[2] = d /\ ledger[id] # Opening}

\* Rows by date: one in several documents and one repeated in a document are alike.
Rows == [Dates -> 0..2]
RowsOn(dates) == [d \in Dates |-> IF d \in dates THEN 1 ELSE 0]

Plan == [create : SUBSET Dates, overwrite : SUBSET Ids, drop : SUBSET Ids]
Answered == {"applied", "discarded", "appended", "amended", "refused", "dead"}
Request == [pc : {"idle", "read", "planned", "persisted", "created", "built"} \cup Answered,
            op : {"none", "confirm", "discard", "append", "amend"},
            on : {None} \cup Proposals, rows : Rows, plan : {None} \cup Plan,
            made : {None} \cup Proposals]
Balances == {"shown", "other"}
Active(c) == request[c].pc \notin {"idle"} \cup Answered
To(c, pc) == request' = [request EXCEPT ![c].pc = pc]

ProposalInit ==
    /\ status = [p \in Proposals |-> IF p \in Drafted THEN "draft" ELSE "none"]
    /\ docs = [p \in Proposals |-> RowsOn(FileDates[p])]
    /\ source = [p \in Proposals |-> p]
    /\ \E first \in SUBSET Dates :
          ops = [id \in {Opening} \X first |-> Opening]
    /\ live = "shown"
    /\ request = [c \in Requests |-> [pc |-> "idle", op |-> "none", on |-> None,
                                  rows |-> RowsOn({}), plan |-> None, made |-> None]]
    /\ written = [p \in Proposals |-> 0]
    /\ over = [p \in Proposals |-> <<"shown", "shown">>]
    /\ moved = {} /\ crossed = {}
    /\ edits = 0 /\ faults = 0

Fault == faults < MaxFaults /\ faults' = faults + 1

\* A draft created for an amendment that has no document yet, whose id nobody was told.
Bare(p) == p \notin Drafted /\ source[p] = p

\* The confirms that have read p's documents, or planned over the ledger.
Readers(p) == {c \in Requests : request[c].op = "confirm" /\ request[c].on = p /\ Active(c)}
Planners == {c \in Requests : request[c].pc = "planned"}

-----------------------------------------------------------------------------
(* The request reads the draft outside any transaction, and leaves when it *)
(* is resolved: runProposalConfirm, runProposalDiscard, the tools' reads.  *)

\* Faulty variant: the card's press is believed.
BeginRequest_Unread(c, op, p) ==
    /\ request[c].pc = "idle"
    /\ status[p] # "none" /\ ~Bare(p)
    /\ op = "append" => Kind[p] = "statement"
    /\ op = "amend" => Kind[p] = "correction"
    /\ request' = [request EXCEPT ![c].pc = "read", ![c].op = op, ![c].on = p]
    /\ UNCHANGED <<status, docs, source, ops, live, written, over, moved, crossed, edits,
                   faults>>

BeginRequest(c, op, p) ==
    /\ request[c].pc = "idle"
    /\ status[p] # "none" /\ ~Bare(p)
    /\ op = "append" => Kind[p] = "statement"
    /\ op = "amend" => Kind[p] = "correction"
    /\ request' = [request EXCEPT ![c].pc = IF status[p] = "draft" THEN "read" ELSE "refused",
                               ![c].op = op, ![c].on = p, ![c].rows = docs[p]]
    /\ crossed' = IF \E d \in Requests : request[d].on = p /\ Active(d) THEN crossed \cup {p}
                  ELSE crossed
    /\ UNCHANGED <<status, docs, source, ops, live, written, over, moved, edits, faults>>

Openings(ledger) == {id \in DOMAIN ledger : ledger[id] = Opening}

\* Faulty variant: an operation of the date does not keep the row from being made.
MergePlan_Append(rows, ledger) ==
    [create |-> {d \in Dates : rows[d] = 1}, overwrite |-> {}, drop |-> Openings(ledger)]

\* planStatementMerge over the ledger read now: the file wins on its dates, one operation
\* a date; an opening gives way; a date the file or the ledger holds twice is left alone.
MergePlan(rows, ledger) ==
    LET clear == {d \in Dates : rows[d] = 1 /\ Cardinality(On(ledger, d)) <= 1} IN
    [create |-> {d \in clear : On(ledger, d) = {}},
     overwrite |-> UNION {On(ledger, d) : d \in clear},
     drop |-> Openings(ledger)]

PlanImport(c) ==
    LET p == request[c].on IN
    /\ request[c].pc = "read" /\ request[c].op = "confirm" /\ Kind[p] = "statement"
    /\ request' = [request EXCEPT ![c].pc = "planned", ![c].plan = MergePlan(request[c].rows, ops)]
    /\ UNCHANGED <<status, docs, source, ops, live, written, over, moved, crossed, edits,
                   faults>>

-----------------------------------------------------------------------------
(* createApplyAssistantProposal: status, write and markApplied in one      *)
(* transaction.                                                            *)

Apply(p) ==
    /\ status' = [status EXCEPT ![p] = "applied"]
    /\ written' = [written EXCEPT ![p] = @ + 1]

Merged(c, plan) ==
    LET kept == DOMAIN ops \ plan.drop
        made == {c} \X plan.create
    IN [id \in kept \cup made |->
           IF id \in made \cup plan.overwrite THEN request[c].on ELSE ops[id]]

\* Faulty variant: the status the request read at its start is trusted.
ApplyImport_ReadOnce(c) ==
    /\ request[c].pc = "planned"
    /\ Apply(request[c].on)
    /\ ops' = Merged(c, request[c].plan)
    /\ moved' = moved \cup (Planners \ {c})
    /\ To(c, "applied")
    /\ UNCHANGED <<docs, source, live, over, crossed, edits, faults>>

\* applyStatementImportAndRipple writes the plan as it was made; an operation deleted
\* meanwhile is not overwritten, nor made again.
ApplyImport(c) ==
    LET p == request[c].on IN
    /\ request[c].pc = "planned"
    /\ IF status[p] = "draft"
       THEN /\ Apply(p)
            /\ ops' = Merged(c, request[c].plan)
            /\ moved' = moved \cup (Planners \ {c})
            /\ To(c, "applied")
       ELSE To(c, "refused") /\ UNCHANGED <<status, written, ops, moved>>
    /\ UNCHANGED <<docs, source, live, over, crossed, edits, faults>>

\* createApplyDebtEarlyRepayment.  A repayment may leave today's balance as it was: one
\* dated after today, or before the last declared balance.
Repay(p) ==
    /\ Apply(p)
    /\ live' \in Balances
    /\ over' = [over EXCEPT ![p] = <<live, live'>>]

\* Faulty variant: the balance is not asserted again.
ApplyRepayment_Trusting(c) ==
    LET p == request[c].on IN
    /\ request[c].pc = "read" /\ request[c].op = "confirm" /\ Kind[p] = "repayment"
    /\ IF status[p] = "draft"
       THEN Repay(p) /\ To(c, "applied")
       ELSE To(c, "refused") /\ UNCHANGED <<status, written, live, over>>
    /\ UNCHANGED <<docs, source, ops, moved, crossed, edits, faults>>

\* assertLiveBalanceUnchanged compares the balance with the one the card shows, by value.
ApplyRepayment(c) ==
    LET p == request[c].on IN
    /\ request[c].pc = "read" /\ request[c].op = "confirm" /\ Kind[p] = "repayment"
    /\ IF status[p] = "draft" /\ live = "shown"
       THEN Repay(p) /\ To(c, "applied")
       ELSE To(c, "refused") /\ UNCHANGED <<status, written, live, over>>
    /\ UNCHANGED <<docs, source, ops, moved, crossed, edits, faults>>

ApplyCorrection(c) ==
    LET p == request[c].on IN
    /\ request[c].pc = "read" /\ request[c].op = "confirm" /\ Kind[p] = "correction"
    /\ IF status[p] = "draft"
       THEN Apply(p) /\ To(c, "applied")
       ELSE To(c, "refused") /\ UNCHANGED <<status, written>>
    /\ UNCHANGED <<docs, source, ops, live, over, moved, crossed, edits, faults>>

-----------------------------------------------------------------------------
(* The creation of a holding: persist, then mark.                          *)

Persist(c) ==
    LET p == request[c].on IN
    /\ request[c].pc = "read" /\ request[c].op = "confirm" /\ Kind[p] = "creation"
    /\ written' = [written EXCEPT ![p] = @ + 1]
    /\ To(c, "persisted")
    /\ UNCHANGED <<status, docs, source, ops, live, over, moved, crossed, edits, faults>>

\* resolveProposal's guarded write; it throws when somebody else resolved the draft.
Mark(c) ==
    LET p == request[c].on IN
    /\ request[c].pc = "persisted"
    /\ IF status[p] = "draft"
       THEN status' = [status EXCEPT ![p] = "applied"] /\ To(c, "applied")
       ELSE To(c, "refused") /\ UNCHANGED status
    /\ UNCHANGED <<docs, source, ops, live, written, over, moved, crossed, edits, faults>>

-----------------------------------------------------------------------------
(* Discards, appended documents and amendments.                            *)

Resolved(c, p, pc) ==
    IF status[p] = "draft"
    THEN status' = [status EXCEPT ![p] = "discarded"] /\ To(c, pc)
    ELSE To(c, "refused") /\ UNCHANGED status

Discard(c) ==
    /\ request[c].pc = "read" /\ request[c].op = "discard"
    /\ Resolved(c, request[c].on, "discarded")
    /\ UNCHANGED <<docs, source, ops, live, written, over, moved, crossed, edits, faults>>

\* appendDocument asserts the draft again in its own transaction.
AppendDocument(c, d) ==
    LET p == request[c].on IN
    /\ request[c].pc = "read" /\ request[c].op = "append"
    /\ IF status[p] = "draft"
       THEN /\ docs' = [docs EXCEPT ![p][d] = IF @ < 2 THEN @ + 1 ELSE @]
            /\ moved' = moved \cup Readers(p)
            /\ To(c, "appended")
       ELSE To(c, "refused") /\ UNCHANGED <<docs, moved>>
    /\ UNCHANGED <<status, source, ops, live, written, over, crossed, edits, faults>>

\* buildReconstructionAmendment creates a draft...
CreateAmendment(c, new) ==
    /\ request[c].pc = "read" /\ request[c].op = "amend"
    /\ status[new] = "none" /\ Kind[new] = "correction"
    /\ status' = [status EXCEPT ![new] = "draft"]
    /\ request' = [request EXCEPT ![c].pc = "created", ![c].made = new]
    /\ UNCHANGED <<docs, source, ops, live, written, over, moved, crossed, edits, faults>>

\* ...gives it, in a transaction of its own, its document, which names what it amends...
AppendAmendment(c) ==
    LET new == request[c].made IN
    /\ request[c].pc = "created"
    /\ status[new] = "draft"
    /\ source' = [source EXCEPT ![new] = request[c].on]
    /\ To(c, "built")
    /\ UNCHANGED <<status, docs, ops, live, written, over, moved, crossed, edits, faults>>

\* Faulty variant: the amended proposal is left for its card to resolve.
RetireSource_Skip(c) ==
    /\ request[c].pc = "built"
    /\ To(c, "amended")
    /\ UNCHANGED <<status, docs, source, ops, live, written, over, moved, crossed, edits,
                   faults>>

\* ...and discards the one it amends, which throws when it is resolved already.
RetireSource(c) ==
    /\ request[c].pc = "built"
    /\ Resolved(c, request[c].on, "amended")
    /\ UNCHANGED <<docs, source, ops, live, written, over, moved, crossed, edits, faults>>

-----------------------------------------------------------------------------
(* Everything else.                                                        *)

\* A request fails before its next write, or its process dies there; a lost answer to the
\* write it made last is the same.
Fail(c) ==
    /\ Fault
    /\ Active(c)
    /\ To(c, "dead")
    /\ crossed' = IF request[c].pc \in {"persisted", "built"}
                  THEN crossed \cup {request[c].on} ELSE crossed
    /\ UNCHANGED <<status, docs, source, ops, live, written, over, moved, edits>>

Edit == edits < MaxEdits /\ edits' = edits + 1

HandRecord(d) ==
    /\ Edit
    /\ <<Hand, d>> \notin DOMAIN ops
    /\ ops' = [id \in DOMAIN ops \cup {<<Hand, d>>} |->
                   IF id \in DOMAIN ops THEN ops[id] ELSE Hand]
    /\ moved' = moved \cup Planners
    /\ UNCHANGED <<status, docs, source, live, request, written, over, crossed, faults>>

HandDelete(id) ==
    /\ Edit
    /\ ops' = Restrict(ops, DOMAIN ops \ {id})
    /\ moved' = moved \cup Planners
    /\ UNCHANGED <<status, docs, source, live, request, written, over, crossed, faults>>

HandPay ==
    /\ Edit
    /\ live' \in Balances
    /\ UNCHANGED <<status, docs, source, ops, request, written, over, moved, crossed, faults>>

ProposalNext ==
    \/ \E c \in Requests :
          \/ \E op \in {"confirm", "discard", "append", "amend"}, p \in Proposals :
                BeginRequest(c, op, p)
          \/ PlanImport(c) \/ ApplyImport(c) \/ ApplyRepayment(c) \/ ApplyCorrection(c)
          \/ Persist(c) \/ Mark(c) \/ Discard(c) \/ AppendAmendment(c)
          \/ RetireSource(c) \/ Fail(c)
          \/ \E d \in Dates : AppendDocument(c, d)
          \/ \E new \in Proposals : CreateAmendment(c, new)
    \/ \E d \in Dates : HandRecord(d)
    \/ \E id \in DOMAIN ops : HandDelete(id)
    \/ HandPay

ProposalSpec == ProposalInit /\ [][ProposalNext]_proposalVars

-----------------------------------------------------------------------------
(* What Resolution sees: the proposals that are written through the gate.  *)

Gated == {p \in Proposals : Kind[p] # "creation"}

Gate == INSTANCE Resolution WITH
    Proposals <- Gated,
    status <- Restrict(status, Gated), docs <- Restrict(docs, Gated),
    source <- Restrict(source, Gated), written <- Restrict(written, Gated)

-----------------------------------------------------------------------------
(* Properties.                                                             *)

\* Type correctness.
ProposalTypeOK ==
    /\ status \in [Proposals -> {"none", "draft", "applied", "discarded"}]
    /\ docs \in [Proposals -> Rows]
    /\ source \in [Proposals -> Proposals]
    /\ DOMAIN ops \subseteq Ids /\ \A id \in DOMAIN ops : ops[id] \in Contents
    /\ live \in Balances
    /\ request \in [Requests -> Request]
    /\ written \in [Proposals -> Nat] /\ over \in [Proposals -> Balances \X Balances]
    /\ moved \subseteq Requests /\ crossed \subseteq Proposals
    /\ edits \in 0..MaxEdits /\ faults \in 0..MaxFaults

\* However its card is pressed, retried, discarded or amended, a proposal of the gate is
\* written once when it is applied and never otherwise.
GateWritesOnce ==
    \A p \in Proposals : Kind[p] # "creation" =>
        written[p] = IF status[p] = "applied" THEN 1 ELSE 0

\* Resolution promises: a proposal takes documents only while it is open and is settled
\* once, for good, written in the very step that marks it applied, or discarded unwritten;
\* an amendment starts its own.  The gate keeps those promises, whatever its cards, retries
\* and amendments do at the same time.
ImplementsResolution == Gate!Spec

\* A creation is written once too, outside the window the code accepts: two requests at
\* the same time, or one that died between the write and the mark.
CreationWritesOnce ==
    \A p \in Proposals \ crossed : Kind[p] = "creation" =>
        written[p] = IF status[p] = "applied" \/ \E c \in Readers(p) : request[c].pc = "persisted"
                     THEN 1 ELSE 0

\* A repayment is only ever written while the balance is the one its card shows, and of
\* those drafted over one balance a single one moves it, unless the user put it back.  Two
\* whose writes leave today's balance may both be applied: it is all the gate compares.
RepaidAsShown ==
    LET repaid == {p \in Proposals : Kind[p] = "repayment" /\ status[p] = "applied"} IN
    /\ \A p \in repaid : over[p][1] = "shown"
    /\ Cardinality({p \in repaid : over[p][2] = "other"}) <= 1 + edits

\* The step in which c applies an import leaves each date of its documents as the file has
\* it, but where the documents or the ledger held several.
ImportedByDate(c) ==
    (request[c].pc = "planned" /\ request'[c].pc = "applied") =>
        \A d \in Dates :
            LET clear == docs[request[c].on][d] = 1 /\ Cardinality(On(ops, d)) <= 1 IN
            IF clear THEN \E id \in Ids : On(ops', d) = {id} /\ ops'[id] = request[c].on
            ELSE /\ On(ops', d) = On(ops, d)
                 /\ \A id \in On(ops, d) : ops'[id] = ops[id]

\* A confirmed import leaves each date of the documents of its proposal with one operation,
\* the file's, and every other date, or one the documents or the ledger held twice, as it
\* was; a draft or a ledger that moved while the request ran is what the plan cannot see.
ImportMergesByDate == [][\A c \in Requests \ moved : ImportedByDate(c)]_proposalVars

\* What an amendment started from, and what was made of it, that is still open.
Open(p) == {n \in Proposals : (n = p \/ source[n] = p) /\ status[n] = "draft"}

\* An amendment that answers leaves what it amended discarded and unwritten, one that fails
\* leaves it standing or its successor in its place, and between requests a proposal and
\* its amendments are one open card.  Two requests at a time over one card, or one that
\* died before it discarded it, can leave an open amendment each.
AmendmentLeavesOne ==
    /\ \A c \in Requests : request[c].pc = "amended" =>
          status[request[c].on] = "discarded" /\ written[request[c].on] = 0
    /\ \A p \in Proposals :
          (/\ status[p] = "discarded"
           /\ \A c \in Requests : request[c].on = p => request[c].op # "discard")
              => \E new \in Proposals \ {p} : source[new] = p /\ status[new] # "none"
    /\ \A p \in Proposals \ crossed :
          (\A c \in Requests : request[c].on = p => request[c].pc # "built")
              => Cardinality(Open(p)) <= 1

=============================================================================
