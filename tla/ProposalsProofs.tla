--------------------------- MODULE ProposalsProofs ---------------------------
(***************************************************************************)
(* Proofs about Proposals for every set of proposals, of requests and of   *)
(* dates, and any number of edits and failures.                            *)
(*                                                                         *)
(* The properties hold for different reasons: the gate's because status    *)
(* and write change in one step; the creation's because, outside the       *)
(* window, its request is alone (Alone); the amendment's because a built   *)
(* successor stays (Succeeded) and, outside the window, is the only one    *)
(* (Chained); the repayments' because who moves the balance ends them      *)
(* (Repaid); the import's because a plan that nothing   *)
(* moved is still the plan of what is there (PlansCurrent).                *)
(*                                                                         *)
(* The proposals of the gate implement Resolution: of what a request       *)
(* does, only the step that writes and marks, or discards, is seen.        *)
(***************************************************************************)
EXTENDS Proposals, FiniteSetTheorems, TLAPS

\* Where a request is says what it works on.
Place(c) ==
    /\ request[c].pc # "idle" => request[c].on \in Proposals /\ status[request[c].on] # "none"
    /\ request[c].pc = "idle" => request[c].op = "none"
    /\ request[c].op = "amend" => Kind[request[c].on] = "correction"
    /\ request[c].op = "append" => Kind[request[c].on] = "statement"
    /\ request[c].pc = "planned" =>
          /\ request[c].op = "confirm" /\ Kind[request[c].on] = "statement"
          /\ request[c].plan \in Plan
    /\ request[c].pc = "persisted" => request[c].op = "confirm" /\ Kind[request[c].on] = "creation"
    /\ request[c].pc \in {"created", "built", "amended"} => request[c].op = "amend"
    /\ request[c].pc = "created" =>
          /\ request[c].made \in Proposals /\ request[c].made # request[c].on
          /\ Kind[request[c].made] = "correction"

Places == \A c \in Requests : Place(c)

\* Outside the window one request at most works on a proposal, and it is still a draft.
Alone ==
    \A c \in Requests : (Active(c) /\ request[c].on \notin crossed) =>
        /\ status[request[c].on] = "draft"
        /\ \A d \in Requests : (Active(d) /\ request[d].on = request[c].on) => d = c

\* Written before it is a draft: never.
Untouched == \A p \in Proposals : status[p] = "none" => written[p] = 0

\* The repayments that moved the balance.
Movers == {p \in Proposals : Kind[p] = "repayment" /\ status[p] = "applied" /\ over[p][2] = "other"}

\* Who moves the balance ends the repayments until the user puts it back.
Repaid ==
    /\ \A p \in Proposals : (Kind[p] = "repayment" /\ status[p] = "applied") => over[p][1] = "shown"
    /\ IsFiniteSet(Movers)
    /\ Cardinality(Movers) <= IF live = "shown" THEN edits ELSE edits + 1

\* An amendment being made has its successor.
Succeeded ==
    \A c \in Requests : request[c].pc = "built" =>
        \E new \in Proposals \ {request[c].on} : source[new] = request[c].on /\ status[new] # "none"

\* Outside the window a proposal has one successor at most, and none while it is open but
\* for the one that is about to take its place.
Chained ==
    /\ \A n \in Proposals : source[n] # n => status[source[n]] # "none"
    /\ \A p \in Proposals \ crossed :
          /\ \A m, n \in Proposals \ {p} : (source[m] = p /\ source[n] = p) => m = n
          /\ (status[p] = "draft" /\ \A c \in Requests : request[c].on = p => request[c].pc # "built")
                => \A n \in Proposals : source[n] = p => n = p

\* The draft an amendment created is its own until it has its document.
Fresh ==
    /\ \A p \in Proposals : status[p] = "none" => source[p] = p
    /\ \A c \in Requests : request[c].pc = "created" =>
          /\ source[request[c].made] = request[c].made /\ status[request[c].made] # "none"
          /\ \A d \in Requests :
                (request[d].pc = "created" /\ request[d].made = request[c].made) => d = c

\* What was amended is discarded and unwritten, and what no request discarded by itself
\* has a successor.
Replaced ==
    /\ \A c \in Requests : request[c].pc = "amended" =>
          status[request[c].on] = "discarded" /\ written[request[c].on] = 0
    /\ \A p \in Proposals :
          (/\ status[p] = "discarded"
           /\ \A c \in Requests : request[c].on = p => request[c].op # "discard")
              => \E new \in Proposals \ {p} : source[new] = p /\ status[new] # "none"

ProposalInv ==
    /\ ProposalTypeOK /\ Places /\ Alone /\ Untouched /\ Repaid /\ Succeeded
    /\ Chained /\ Fresh /\ GateWritesOnce /\ CreationWritesOnce /\ Replaced

-----------------------------------------------------------------------------

LEMMA ProposalInitInv ==
    ASSUME ProposalAssumption
    PROVE  ProposalInit => ProposalInv
<1> SUFFICES ASSUME ProposalInit PROVE ProposalInv
  OBVIOUS
<1>1. /\ \A c \in Requests : request[c].pc = "idle" /\ request[c].op = "none"
      /\ \A p \in Proposals : status[p] \in {"none", "draft"} /\ written[p] = 0
  BY DEF ProposalInit
<1>2. /\ status \in [Proposals -> {"none", "draft", "applied", "discarded"}]
      /\ docs \in [Proposals -> Rows]
      /\ source \in [Proposals -> Proposals]
      /\ written \in [Proposals -> Nat] /\ over \in [Proposals -> Balances \X Balances]
  BY DEF ProposalInit, ProposalAssumption, Rows, RowsOn, Balances
<1>3. request \in [Requests -> Request]
  BY DEF ProposalInit, Request, Answered, Rows, RowsOn
<1>4. DOMAIN ops \subseteq Ids /\ \A id \in DOMAIN ops : ops[id] \in Contents
  BY DEF ProposalInit, Ids, Contents
<1>5. ProposalTypeOK
  BY <1>2, <1>3, <1>4 DEF ProposalInit, ProposalTypeOK, ProposalAssumption, Balances
<1>6. Places /\ Alone /\ Succeeded /\ Chained /\ Fresh
  <2>1. \A p \in Proposals : source[p] = p
    BY DEF ProposalInit
  <2>2. QED
    BY <1>1, <2>1 DEF Places, Place, Alone, Succeeded, Chained, Fresh, Active
<1>6a. Repaid
  <2>1. Movers = {} /\ edits = 0
    BY <1>1 DEF ProposalInit, Movers
  <2>2. QED
    BY <1>1, <2>1, FS_EmptySet DEF Repaid
<1>7. Untouched /\ GateWritesOnce /\ CreationWritesOnce /\ Replaced
  BY <1>1 DEF Untouched, GateWritesOnce, CreationWritesOnce, Replaced,
              Readers, Active
<1>8. QED
  BY <1>5, <1>6, <1>6a, <1>7 DEF ProposalInv

\* A request moves on, and the others stay where they are.
LEMMA ToFacts ==
    ASSUME ProposalTypeOK, NEW c \in Requests, NEW pc \in {"persisted", "created", "built"} \cup Answered, To(c, pc)
    PROVE  /\ request' \in [Requests -> Request]
           /\ request'[c].pc = pc /\ request'[c].on = request[c].on /\ request'[c].op = request[c].op
           /\ \A d \in Requests : d # c => request'[d] = request[d]
BY DEF ProposalTypeOK, To, Request

\* No successor appears, no draft is opened again, and who retires its source outside the
\* window does it by the source's end.
LEMMA ChainedKept ==
    ASSUME ProposalInv, UNCHANGED source, crossed \subseteq crossed',
           \A p \in Proposals : status[p] # "none" => status'[p] # "none",
           \A p \in Proposals : status'[p] = "draft" => status[p] \in {"none", "draft"},
           \A p \in Proposals \ crossed', d \in Requests :
              (request[d].on = p /\ request[d].pc = "built" /\ status'[p] = "draft")
                 => request'[d].on = p /\ request'[d].pc = "built"
    PROVE  Chained'
<1>1. \A n \in Proposals : source[n] \in Proposals
  BY DEF ProposalInv, ProposalTypeOK
<1>2. ASSUME NEW p \in Proposals \ crossed', status'[p] = "draft",
             \A c \in Requests : request'[c].on = p => request'[c].pc # "built",
             NEW n \in Proposals, source[n] = p
      PROVE  n = p
  <2>1. \A c \in Requests : request[c].on = p => request[c].pc # "built"
    BY <1>2
  <2>2. status[p] = "none" => n = p
    BY <1>2 DEF ProposalInv, Chained
  <2>3. QED
    BY <1>2, <2>1, <2>2 DEF ProposalInv, Chained
<1>3. QED
  BY <1>1, <1>2 DEF ProposalInv, Chained

LEMMA FreshKept ==
    ASSUME ProposalInv, UNCHANGED source,
           \A p \in Proposals : status[p] # "none" => status'[p] # "none",
           \A c \in Requests : request'[c].pc = "created" => request'[c] = request[c]
    PROVE  Fresh'
<1>1. \A c \in Requests : request[c].pc = "created" => request[c].made \in Proposals
  BY DEF ProposalInv, Places, Place
<1>2. QED
  BY <1>1 DEF ProposalInv, Fresh

\* A request leaves, and changes nothing but what it crossed.
LEMMA LeaveInv ==
    ASSUME ProposalInv, NEW c \in Requests, Active(c),
           NEW pc \in {"refused", "dead", "appended"}, To(c, pc),
           UNCHANGED <<status, source, live, written, over>>,
           docs' \in [Proposals -> Rows], moved' \subseteq Requests, UNCHANGED <<ops, edits>>,
           faults' \in 0..MaxFaults,
           crossed' \subseteq Proposals, crossed \subseteq crossed',
           request[c].pc \in {"persisted", "built"} => request[c].on \in crossed'
    PROVE  ProposalInv'
<1>1. /\ request' \in [Requests -> Request]
      /\ request'[c].pc = pc /\ request'[c].on = request[c].on /\ request'[c].op = request[c].op
      /\ \A d \in Requests : d # c => request'[d] = request[d]
  BY ToFacts DEF ProposalInv, Answered
<1>2. ProposalTypeOK'
  BY <1>1 DEF ProposalInv, ProposalTypeOK
<1>3. Places'
  BY <1>1 DEF ProposalInv, Places, Place, Active, Answered
<1>4. Alone'
  BY <1>1 DEF ProposalInv, Alone, Active, Answered
<1>5. Untouched' /\ Repaid' /\ GateWritesOnce'
  BY DEF ProposalInv, Untouched, Repaid, Movers, GateWritesOnce
<1>6. Succeeded' /\ Chained' /\ Fresh'
  BY <1>1, ChainedKept, FreshKept DEF ProposalInv, Succeeded
<1>7. CreationWritesOnce'
  <2>1. ASSUME NEW p \in Proposals \ crossed', Kind[p] = "creation"
        PROVE  (\E d \in Readers(p) : request[d].pc = "persisted")
                  <=> (\E d \in Readers(p)' : request'[d].pc = "persisted")
    BY <1>1, <2>1 DEF Readers, Active, Answered
  <2>2. QED
    BY <2>1 DEF ProposalInv, CreationWritesOnce
<1>8. Replaced'
  <2>1. \A d \in Requests : request'[d].pc = "amended" => request[d].pc = "amended" /\ request'[d] = request[d]
    BY <1>1
  <2>2. \A d \in Requests : request'[d].on = request[d].on /\ request'[d].op = request[d].op
    BY <1>1
  <2>3. QED
    BY <1>1, <2>1, <2>2 DEF ProposalInv, Replaced
<1>9. QED
  BY <1>2, <1>3, <1>4, <1>5, <1>6, <1>7, <1>8 DEF ProposalInv

\* Steps of the ledger, the debt and the plans.
LEMMA LedgerInv ==
    ASSUME ProposalInv, UNCHANGED <<status, source, docs, written, over, crossed>>,
           request' \in [Requests -> Request],
           \A c \in Requests :
              \/ request'[c] = request[c]
              \/ /\ request[c].pc = "read" /\ request'[c].pc = "planned"
                 /\ request[c].op = "confirm" /\ Kind[request[c].on] = "statement"
                 /\ request'[c].on = request[c].on /\ request'[c].op = request[c].op
                 /\ request'[c].plan \in Plan,
           DOMAIN ops' \subseteq Ids, \A id \in DOMAIN ops' : ops'[id] \in Contents,
           live' \in Balances, moved' \subseteq Requests, edits' \in 0..MaxEdits,
           edits' = edits + 1 \/ (edits' = edits /\ live' = live), faults' \in 0..MaxFaults
    PROVE  ProposalInv'
<1>1. ProposalTypeOK'
  BY DEF ProposalInv, ProposalTypeOK
<1>2. \A c \in Requests : /\ request'[c].on = request[c].on /\ request'[c].op = request[c].op
                          /\ Active(c)' <=> Active(c)
                          /\ request'[c].pc # request[c].pc =>
                             request[c].pc = "read" /\ request'[c].pc = "planned"
  BY DEF Active, Answered
<1>3. Places'
  BY <1>2 DEF ProposalInv, Places, Place
<1>4. Alone'
  BY <1>2 DEF ProposalInv, Alone
<1>5. Untouched' /\ GateWritesOnce'
  BY DEF ProposalInv, Untouched, GateWritesOnce
<1>6. Repaid'
  <2>1. Movers' = Movers
    BY DEF Movers
  <2>2. edits \in Nat /\ Cardinality(Movers) \in Nat
    BY FS_CardinalityType DEF ProposalInv, ProposalTypeOK, Repaid
  <2>3. live \in Balances
    BY DEF ProposalInv, ProposalTypeOK
  <2>4. Cardinality(Movers) <= IF live' = "shown" THEN edits' ELSE edits' + 1
    BY <2>2, <2>3 DEF ProposalInv, Repaid, Balances
  <2>5. QED
    BY <2>1, <2>4 DEF ProposalInv, Repaid
<1>7. Succeeded' /\ Chained' /\ Fresh'
  BY <1>2, ChainedKept, FreshKept DEF ProposalInv, Succeeded
<1>8. CreationWritesOnce'
  <2>1. \A p \in Proposals : (\E d \in Readers(p) : request[d].pc = "persisted")
                  <=> (\E d \in Readers(p)' : request'[d].pc = "persisted")
    BY <1>2 DEF Readers
  <2>2. QED
    BY <2>1 DEF ProposalInv, CreationWritesOnce
<1>9. Replaced'
  BY <1>2 DEF ProposalInv, Replaced
<1>10. QED
  BY <1>1, <1>3, <1>4, <1>5, <1>6, <1>7, <1>8, <1>9 DEF ProposalInv

\* A request begins; if it meets another on its proposal, the proposal is crossed.
LEMMA BeginInv ==
    ASSUME ProposalInv, NEW c \in Requests, NEW op \in {"confirm", "discard", "append", "amend"},
           NEW p \in Proposals, BeginRequest(c, op, p)
    PROVE  ProposalInv'
<1>1. /\ request[c].pc = "idle" /\ status[p] # "none"
      /\ op = "append" => Kind[p] = "statement"
      /\ op = "amend" => Kind[p] = "correction"
      /\ UNCHANGED <<status, docs, source, ops, live, written, over, moved, edits, faults>>
  BY Zenon DEF BeginRequest
<1>2. /\ request' \in [Requests -> Request]
      /\ request'[c].pc = (IF status[p] = "draft" THEN "read" ELSE "refused")
      /\ request'[c].on = p /\ request'[c].op = op
      /\ \A d \in Requests : d # c => request'[d] = request[d]
  <2>1. docs[p] \in Rows
    BY DEF ProposalInv, ProposalTypeOK
  <2>2. PICK pc \in {"read", "refused"} :
           /\ pc = IF status[p] = "draft" THEN "read" ELSE "refused"
           /\ request' = [request EXCEPT ![c].pc = pc, ![c].op = op, ![c].on = p,
                                   ![c].rows = docs[p]]
    BY DEF BeginRequest
  <2>3. /\ request[c] \in Request
        /\ request'[c] = [request[c] EXCEPT !.pc = pc, !.op = op, !.on = p, !.rows = docs[p]]
        /\ request' = [request EXCEPT ![c] = request'[c]]
    BY <2>2 DEF ProposalInv, ProposalTypeOK
  <2>4. pc \in {"read", "refused"} /\ op \in {"none", "confirm", "discard", "append", "amend"}
    OBVIOUS
  <2>5. request'[c] \in Request
    BY <2>1, <2>3, <2>4 DEF Request, Answered
  <2>6. request'[c].pc = pc /\ request'[c].on = p /\ request'[c].op = op
    BY <2>3 DEF Request
  <2>7. QED
    BY <2>2, <2>3, <2>5, <2>6 DEF ProposalInv, ProposalTypeOK
<1>3. /\ crossed \subseteq crossed' /\ crossed' \subseteq Proposals
      /\ p \notin crossed' => \A d \in Requests : ~(request[d].on = p /\ Active(d))
  BY DEF ProposalInv, ProposalTypeOK, BeginRequest
<1>4. ProposalTypeOK'
  BY <1>1, <1>2, <1>3 DEF ProposalInv, ProposalTypeOK
<1>5. Places'
  BY <1>1, <1>2 DEF ProposalInv, Places, Place
<1>6. \A d \in Requests : d # c => (Active(d)' <=> Active(d))
  BY <1>2 DEF Active
<1>7. Active(c)' => status[p] = "draft"
  BY <1>2 DEF Active, Answered
<1>8. Alone'
  BY <1>1, <1>2, <1>3, <1>6, <1>7 DEF ProposalInv, Alone
<1>9. Untouched' /\ GateWritesOnce' /\ Repaid'
  BY <1>1 DEF ProposalInv, Untouched, GateWritesOnce, Repaid, Movers
<1>10. Succeeded' /\ Chained' /\ Fresh'
  BY <1>1, <1>2, <1>3, ChainedKept, FreshKept DEF ProposalInv, Succeeded
<1>11. CreationWritesOnce'
  <2>1. ASSUME NEW q \in Proposals
        PROVE  (\E d \in Readers(q) : request[d].pc = "persisted")
                  <=> (\E d \in Readers(q)' : request'[d].pc = "persisted")
    BY <1>1, <1>2, <1>6 DEF Readers
  <2>2. QED
    BY <1>1, <1>3, <2>1 DEF ProposalInv, CreationWritesOnce
<1>12. Replaced'
  <2>1. request[c].op = "none"
    BY <1>1 DEF ProposalInv, Places, Place
  <2>2. \A q \in Proposals :
           (\A d \in Requests : request'[d].on = q => request'[d].op # "discard")
              => \A d \in Requests : request[d].on = q => request[d].op # "discard"
    BY <1>2, <2>1
  <2>3. QED
    BY <1>1, <1>2, <2>2 DEF ProposalInv, Replaced
<1>13. QED
  BY <1>4, <1>5, <1>8, <1>9, <1>10, <1>11, <1>12 DEF ProposalInv

-----------------------------------------------------------------------------
(* The steps that resolve a draft.                                         *)

\* Resolving a draft leaves every other proposal as it was, and nobody else at work on it
\* outside the window.
LEMMA ResolvedFacts ==
    ASSUME ProposalInv, NEW c \in Requests, Active(c), NEW p \in Proposals, p = request[c].on,
           status[p] = "draft", NEW s \in {"applied", "discarded"},
           NEW pc \in {"applied", "discarded", "amended"}, To(c, pc),
           status' = [status EXCEPT ![p] = s], UNCHANGED <<source, crossed>>,
           pc = "amended" => request[c].op = "amend"
    PROVE  /\ request' \in [Requests -> Request]
           /\ request'[c].pc = pc /\ request'[c].on = p /\ request'[c].op = request[c].op
           /\ \A d \in Requests : d # c => request'[d] = request[d]
           /\ status' \in [Proposals -> {"none", "draft", "applied", "discarded"}]
           /\ status'[p] = s /\ \A q \in Proposals : q # p => status'[q] = status[q]
           /\ Places' /\ Alone' /\ Succeeded' /\ Chained' /\ Fresh'
<1>1. /\ request' \in [Requests -> Request]
      /\ request'[c].pc = pc /\ request'[c].on = p /\ request'[c].op = request[c].op
      /\ \A d \in Requests : d # c => request'[d] = request[d]
  BY ToFacts DEF ProposalInv, Answered
<1>2. /\ status' \in [Proposals -> {"none", "draft", "applied", "discarded"}]
      /\ status'[p] = s /\ \A q \in Proposals : q # p => status'[q] = status[q]
  BY DEF ProposalInv, ProposalTypeOK
<1>3. Places'
  BY <1>1, <1>2 DEF ProposalInv, Places, Place, Active
<1>4. ~Active(c)' /\ \A d \in Requests : d # c => (Active(d)' <=> Active(d))
  BY <1>1 DEF Active, Answered
<1>5. Alone'
  <2>1. ASSUME NEW d \in Requests, Active(d)', request'[d].on \notin crossed
        PROVE  /\ d # c /\ Active(d) /\ request'[d] = request[d] /\ request[d].on # p
               /\ request[d].on \in Proposals
    BY <1>1, <1>4, <2>1 DEF ProposalInv, Alone, Places, Place, Active
  <2>2. QED
    BY <1>1, <1>2, <1>4, <2>1 DEF ProposalInv, Alone
<1>6. Succeeded' /\ Chained' /\ Fresh'
  <2>1. \A q \in Proposals : /\ status[q] # "none" => status'[q] # "none"
                             /\ status'[q] = "draft" => status[q] = "draft" /\ q # p
    BY <1>2
  <2>2. QED
    BY <1>1, <1>2, <2>1, ChainedKept, FreshKept DEF ProposalInv, Succeeded
<1>7. QED
  BY <1>1, <1>2, <1>3, <1>5, <1>6

\* A confirm of the gate.
LEMMA AppliedInv ==
    ASSUME ProposalInv, NEW c \in Requests, request[c].pc \in {"read", "planned"},
           request[c].op = "confirm", Kind[request[c].on] # "creation",
           status[request[c].on] = "draft", Apply(request[c].on), To(c, "applied"),
           UNCHANGED <<docs, source, crossed, edits, faults>>,
           DOMAIN ops' \subseteq Ids, \A id \in DOMAIN ops' : ops'[id] \in Contents,
           moved' \subseteq Requests,
           IF Kind[request[c].on] = "repayment"
           THEN /\ live = "shown" /\ live' \in Balances
                /\ over' = [over EXCEPT ![request[c].on] = <<live, live'>>]
           ELSE UNCHANGED <<live, over>>
    PROVE  ProposalInv'
<1>0. PICK p \in Proposals : p = request[c].on
  BY DEF ProposalInv, Places, Place
<1>1. Active(c)
  BY DEF Active, Answered
<1>2. /\ request' \in [Requests -> Request]
      /\ request'[c].pc = "applied" /\ request'[c].on = p /\ request'[c].op = "confirm"
      /\ \A d \in Requests : d # c => request'[d] = request[d]
      /\ status' \in [Proposals -> {"none", "draft", "applied", "discarded"}]
      /\ status'[p] = "applied" /\ \A q \in Proposals : q # p => status'[q] = status[q]
      /\ Places' /\ Alone' /\ Succeeded' /\ Chained' /\ Fresh'
  BY <1>0, <1>1, ResolvedFacts DEF Apply
<1>3. /\ written' \in [Proposals -> Nat] /\ written'[p] = written[p] + 1
      /\ \A q \in Proposals : q # p => written'[q] = written[q]
  BY <1>0 DEF ProposalInv, ProposalTypeOK, Apply
<1>4. over' \in [Proposals -> Balances \X Balances] /\ live' \in Balances
  <2>1. live \in Balances /\ over \in [Proposals -> Balances \X Balances]
    BY DEF ProposalInv, ProposalTypeOK
  <2>2. QED
    BY <2>1
<1>5. ProposalTypeOK'
  BY <1>2, <1>3, <1>4 DEF ProposalInv, ProposalTypeOK
<1>6. Untouched'
  BY <1>2, <1>3 DEF ProposalInv, Untouched
<1>7. GateWritesOnce'
  <2>1. written[p] = 0
    BY <1>0 DEF ProposalInv, GateWritesOnce
  <2>2. QED
    BY <1>2, <1>3, <2>1 DEF ProposalInv, GateWritesOnce
<1>8. Repaid'
  <2>1. /\ IsFiniteSet(Movers) /\ Cardinality(Movers) \in Nat /\ edits \in Nat /\ p \notin Movers
        /\ edits' = edits
    BY <1>0, FS_CardinalityType DEF ProposalInv, ProposalTypeOK, Repaid, Movers
  <2>2. CASE Kind[p] = "repayment"
    <3>1. /\ over'[p] = <<"shown", live'>> /\ live = "shown"
          /\ \A q \in Proposals : q # p => over'[q] = over[q]
      BY <1>0, <2>2 DEF ProposalInv, ProposalTypeOK
    <3>2. Movers' = IF live' = "other" THEN Movers \cup {p} ELSE Movers
      <4>1. over'[p][2] = live'
        BY <3>1
      <4>2. \A q \in Proposals : q # p => (q \in Movers' <=> q \in Movers)
        BY <1>2, <3>1 DEF Movers
      <4>3. p \in Movers' <=> live' = "other"
        BY <1>2, <2>2, <4>1 DEF Movers
      <4>4. Movers \subseteq Proposals /\ Movers' \subseteq Proposals
        BY DEF Movers
      <4>5. QED
        BY <2>1, <4>2, <4>3, <4>4
    <3>3. /\ IsFiniteSet(Movers \cup {p})
          /\ Cardinality(Movers \cup {p}) = Cardinality(Movers) + 1
      BY <2>1, FS_AddElement
    <3>4. Cardinality(Movers) <= edits
      BY <3>1 DEF ProposalInv, Repaid
    <3>5. \A q \in Proposals : (Kind[q] = "repayment" /\ status'[q] = "applied") => over'[q][1] = "shown"
      BY <1>2, <3>1 DEF ProposalInv, Repaid
    <3>6. live' \in {"shown", "other"}
      BY <1>4 DEF Balances
    <3>7. CASE live' = "other"
      BY <2>1, <3>2, <3>3, <3>4, <3>5, <3>7 DEF Repaid
    <3>8. CASE live' = "shown"
      BY <2>1, <3>2, <3>4, <3>5, <3>8 DEF Repaid
    <3>9. QED
      BY <3>6, <3>7, <3>8
  <2>3. CASE Kind[p] # "repayment"
    <3>1. Movers' = Movers /\ UNCHANGED <<live, over>>
      BY <1>0, <1>2, <2>3 DEF Movers
    <3>2. QED
      BY <1>2, <2>1, <2>3, <3>1 DEF ProposalInv, Repaid
  <2>4. QED
    BY <2>2, <2>3
<1>9. CreationWritesOnce'
  <2>1. ASSUME NEW q \in Proposals, Kind[q] = "creation"
        PROVE  /\ q # p
               /\ (\E d \in Readers(q) : request[d].pc = "persisted")
                     <=> (\E d \in Readers(q)' : request'[d].pc = "persisted")
    BY <1>0, <1>2, <2>1 DEF Readers, Active
  <2>2. QED
    BY <1>2, <1>3, <2>1 DEF ProposalInv, CreationWritesOnce
<1>10. Replaced'
  <2>1. ASSUME NEW d \in Requests, request'[d].pc = "amended"
        PROVE  status'[request'[d].on] = "discarded" /\ written'[request'[d].on] = 0
    <3>1. d # c /\ request'[d] = request[d]
      BY <1>2, <2>1
    <3>2. /\ request[d].on \in Proposals
          /\ status[request[d].on] = "discarded" /\ written[request[d].on] = 0
      BY <2>1, <3>1 DEF ProposalInv, Replaced, Places, Place
    <3>3. QED
      BY <1>0, <1>2, <1>3, <3>1, <3>2
  <2>2. ASSUME NEW q \in Proposals, status'[q] = "discarded",
               \A d \in Requests : request'[d].on = q => request'[d].op # "discard"
        PROVE  \E new \in Proposals \ {q} : source'[new] = q /\ status'[new] # "none"
    <3>1. status[q] = "discarded" /\ \A d \in Requests : request[d].on = q => request[d].op # "discard"
      BY <1>0, <1>2, <2>2
    <3>2. QED
      BY <1>2, <3>1 DEF ProposalInv, Replaced
  <2>3. QED
    BY <2>1, <2>2 DEF Replaced
<1>11. QED
  BY <1>2, <1>5, <1>6, <1>7, <1>8, <1>9, <1>10 DEF ProposalInv

\* A creation persists as the only request on its draft, or crossed.
LEMMA PersistInv ==
    ASSUME ProposalInv, NEW c \in Requests, Persist(c)
    PROVE  ProposalInv'
<1>0. PICK p \in Proposals : p = request[c].on /\ request[c].pc = "read" /\ request[c].op = "confirm"
  BY DEF ProposalInv, Places, Place, Persist
<1>1. /\ Kind[p] = "creation" /\ To(c, "persisted")
      /\ UNCHANGED <<status, docs, source, ops, live, over, moved, crossed, edits, faults>>
  BY <1>0 DEF Persist
<1>2. /\ request' \in [Requests -> Request]
      /\ request'[c].pc = "persisted" /\ request'[c].on = p /\ request'[c].op = "confirm"
      /\ \A d \in Requests : d # c => request'[d] = request[d]
  BY <1>0, <1>1, ToFacts DEF ProposalInv
<1>3. /\ written' \in [Proposals -> Nat] /\ written'[p] = written[p] + 1
      /\ \A q \in Proposals : q # p => written'[q] = written[q]
  BY <1>0 DEF ProposalInv, ProposalTypeOK, Persist
<1>4. ProposalTypeOK'
  BY <1>1, <1>2, <1>3 DEF ProposalInv, ProposalTypeOK
<1>5. Places'
  BY <1>0, <1>1, <1>2 DEF ProposalInv, Places, Place
<1>6. Active(c) /\ \A d \in Requests : Active(d)' <=> Active(d)
  BY <1>0, <1>2 DEF Active, Answered
<1>7. Alone'
  BY <1>0, <1>1, <1>2, <1>6 DEF ProposalInv, Alone
<1>8. Untouched' /\ GateWritesOnce'
  <2>1. status[p] # "none"
    BY <1>0 DEF ProposalInv, Places, Place
  <2>2. QED
    BY <1>1, <1>3, <2>1 DEF ProposalInv, Untouched, GateWritesOnce
<1>9. Repaid' /\ Succeeded' /\ Chained' /\ Fresh'
  BY <1>0, <1>1, <1>2, ChainedKept, FreshKept DEF ProposalInv, Repaid, Movers, Succeeded
<1>10. CreationWritesOnce'
  <2>1. ASSUME NEW q \in Proposals \ crossed, Kind[q] = "creation"
        PROVE  written'[q] = IF status[q] = "applied" \/
                                 \E d \in Readers(q)' : request'[d].pc = "persisted"
                             THEN 1 ELSE 0
    <3>1. CASE q = p
      <4>1. status[p] = "draft" /\ \A d \in Readers(p) : d = c
        BY <1>0, <1>6, <2>1, <3>1 DEF ProposalInv, Alone, Readers
      <4>2. written[p] = 0
        BY <1>0, <2>1, <3>1, <4>1 DEF ProposalInv, CreationWritesOnce
      <4>3. c \in Readers(p)'
        BY <1>2, <1>6 DEF Readers
      <4>4. QED
        BY <1>2, <1>3, <3>1, <4>2, <4>3
    <3>2. CASE q # p
      <4>1. (\E d \in Readers(q) : request[d].pc = "persisted")
               <=> (\E d \in Readers(q)' : request'[d].pc = "persisted")
        BY <1>0, <1>2, <1>6, <3>2 DEF Readers
      <4>2. QED
        BY <1>3, <2>1, <3>2, <4>1 DEF ProposalInv, CreationWritesOnce
    <3>3. QED
      BY <3>1, <3>2
  <2>2. QED
    BY <1>1, <2>1 DEF CreationWritesOnce
<1>11. Replaced'
  <2>1. \A d \in Requests : request'[d].pc = "amended" =>
           /\ request[d].pc = "amended" /\ request'[d] = request[d]
           /\ Kind[request[d].on] = "correction"
    BY <1>2 DEF ProposalInv, Places, Place
  <2>2. \A d \in Requests : request'[d].pc = "amended" => request[d].on \in Proposals /\ request[d].on # p
    BY <1>1, <2>1 DEF ProposalInv, Places, Place
  <2>3. \A d \in Requests : request'[d].on = request[d].on /\ request'[d].op = request[d].op
    BY <1>0, <1>2
  <2>4. QED
    BY <1>1, <1>3, <2>1, <2>2, <2>3 DEF ProposalInv, Replaced
<1>12. QED
  BY <1>4, <1>5, <1>7, <1>8, <1>9, <1>10, <1>11 DEF ProposalInv

\* What was written is marked, unless somebody else resolved the draft: then it is crossed.
LEMMA MarkInv ==
    ASSUME ProposalInv, NEW c \in Requests, Mark(c)
    PROVE  ProposalInv'
<1>0. PICK p \in Proposals :
         /\ p = request[c].on /\ request[c].pc = "persisted"
         /\ request[c].op = "confirm" /\ Kind[p] = "creation"
  BY DEF ProposalInv, Places, Place, Mark
<1>1. Active(c) /\ UNCHANGED <<docs, source, ops, live, written, over, moved, crossed, edits,
                               faults>>
  BY <1>0 DEF Active, Answered, Mark
<1>2. CASE status[p] # "draft"
  <2>1. p \in crossed
    BY <1>0, <1>1, <1>2 DEF ProposalInv, Alone
  <2>2. To(c, "refused") /\ UNCHANGED status
    BY <1>0, <1>2 DEF Mark
  <2>3. QED
    BY <1>0, <1>1, <2>1, <2>2, LeaveInv DEF ProposalInv, ProposalTypeOK
<1>3. CASE status[p] = "draft"
  <2>1. status' = [status EXCEPT ![p] = "applied"] /\ To(c, "applied")
    BY <1>0, <1>3 DEF Mark
  <2>2. /\ request' \in [Requests -> Request]
        /\ request'[c].pc = "applied" /\ request'[c].on = p /\ request'[c].op = "confirm"
        /\ \A d \in Requests : d # c => request'[d] = request[d]
        /\ status' \in [Proposals -> {"none", "draft", "applied", "discarded"}]
        /\ status'[p] = "applied" /\ \A q \in Proposals : q # p => status'[q] = status[q]
        /\ Places' /\ Alone' /\ Succeeded' /\ Chained' /\ Fresh'
    BY <1>0, <1>1, <1>3, <2>1, ResolvedFacts
  <2>3. ProposalTypeOK'
    BY <1>1, <2>2 DEF ProposalInv, ProposalTypeOK
  <2>4. Untouched' /\ GateWritesOnce' /\ Repaid'
    BY <1>0, <1>1, <2>2 DEF ProposalInv, Untouched, GateWritesOnce, Repaid, Movers
  <2>5. CreationWritesOnce'
    <3>1. ASSUME p \notin crossed
          PROVE  written[p] = 1
      <4>1. c \in Readers(p)
        BY <1>0, <1>1 DEF Readers
      <4>2. QED
        BY <1>0, <3>1, <4>1 DEF ProposalInv, CreationWritesOnce
    <3>2. ASSUME NEW q \in Proposals, q # p
          PROVE  (\E d \in Readers(q) : request[d].pc = "persisted")
                    <=> (\E d \in Readers(q)' : request'[d].pc = "persisted")
      BY <1>0, <2>2, <3>2 DEF Readers, Active
    <3>3. QED
      BY <1>1, <2>2, <3>1, <3>2 DEF ProposalInv, CreationWritesOnce
  <2>6. Replaced'
    <3>1. \A d \in Requests : request'[d].pc = "amended" =>
             request[d].pc = "amended" /\ request'[d] = request[d] /\ request[d].on # p
      BY <1>0, <2>2 DEF ProposalInv, Places, Place
    <3>2. \A q \in Proposals : status'[q] = "discarded" => status[q] = "discarded"
      BY <2>2
    <3>3. \A d \in Requests : request'[d].on = request[d].on /\ request'[d].op = request[d].op
      BY <1>0, <2>2
    <3>4. \A d \in Requests : request'[d].pc = "amended" => request[d].on \in Proposals
      BY <3>1 DEF ProposalInv, Places, Place
    <3>5. QED
      BY <1>1, <2>2, <3>1, <3>2, <3>3, <3>4 DEF ProposalInv, Replaced
  <2>7. QED
    BY <2>2, <2>3, <2>4, <2>5, <2>6 DEF ProposalInv
<1>4. QED
  BY <1>2, <1>3

\* A discard, and the end of an amendment: what is discarded was never written, and an
\* amended proposal has its successor.
LEMMA DiscardedInv ==
    ASSUME ProposalInv, NEW c \in Requests, Discard(c) \/ RetireSource(c)
    PROVE  ProposalInv'
<1>0. PICK p \in Proposals, pc \in {"discarded", "amended"} :
         /\ p = request[c].on /\ Resolved(c, p, pc) /\ request[c].pc \in {"read", "built"}
         /\ pc = "amended" => request[c].pc = "built" /\ request[c].op = "amend"
         /\ pc = "discarded" => request[c].pc = "read" /\ request[c].op = "discard"
  BY DEF ProposalInv, Places, Place, Discard, RetireSource
<1>1. Active(c) /\ UNCHANGED <<docs, source, ops, live, written, over, moved, crossed, edits,
                               faults>>
  BY <1>0 DEF Active, Answered, Discard, RetireSource
<1>2. CASE status[p] # "draft"
  <2>1. To(c, "refused") /\ UNCHANGED status
    BY <1>0, <1>2 DEF Resolved
  <2>2. p \in crossed
    BY <1>0, <1>1, <1>2 DEF ProposalInv, Alone
  <2>3. QED
    BY <1>0, <1>1, <2>1, <2>2, LeaveInv DEF ProposalInv, ProposalTypeOK
<1>3. CASE status[p] = "draft"
  <2>1. status' = [status EXCEPT ![p] = "discarded"] /\ To(c, pc)
    BY <1>0, <1>3 DEF Resolved
  <2>2. /\ request' \in [Requests -> Request]
        /\ request'[c].pc = pc /\ request'[c].on = p /\ request'[c].op = request[c].op
        /\ \A d \in Requests : d # c => request'[d] = request[d]
        /\ status' \in [Proposals -> {"none", "draft", "applied", "discarded"}]
        /\ status'[p] = "discarded" /\ \A q \in Proposals : q # p => status'[q] = status[q]
        /\ Places' /\ Alone' /\ Succeeded' /\ Chained' /\ Fresh'
    BY <1>0, <1>1, <1>3, <2>1, ResolvedFacts
  <2>3. ProposalTypeOK'
    BY <1>1, <2>2 DEF ProposalInv, ProposalTypeOK
  <2>4. Untouched' /\ GateWritesOnce' /\ Repaid'
    BY <1>1, <1>3, <2>2 DEF ProposalInv, Untouched, GateWritesOnce, Repaid, Movers
  <2>5. CreationWritesOnce'
    <3>1. \A q \in Proposals :
             (\E d \in Readers(q) : request[d].pc = "persisted")
                <=> (\E d \in Readers(q)' : request'[d].pc = "persisted")
      BY <1>0, <2>2 DEF Readers, Active, Answered
    <3>2. QED
      BY <1>1, <1>3, <2>2, <3>1 DEF ProposalInv, CreationWritesOnce
  <2>6. Replaced'
    <3>1. pc = "amended" => /\ Kind[p] = "correction" /\ written[p] = 0
                            /\ \E new \in Proposals \ {p} : source[new] = p /\ status[new] # "none"
      BY <1>0, <1>3 DEF ProposalInv, Places, Place, GateWritesOnce, Succeeded
    <3>2. ASSUME NEW d \in Requests, request'[d].pc = "amended"
          PROVE  status'[request'[d].on] = "discarded" /\ written'[request'[d].on] = 0
      <4>1. CASE d = c
        BY <1>1, <2>2, <3>1, <3>2, <4>1
      <4>2. CASE d # c
        BY <1>1, <2>2, <3>2, <4>2 DEF ProposalInv, Replaced, Places, Place
      <4>3. QED
        BY <4>1, <4>2
    <3>3. ASSUME NEW q \in Proposals, status'[q] = "discarded",
                 \A d \in Requests : request'[d].on = q => request'[d].op # "discard"
          PROVE  \E new \in Proposals \ {q} : source'[new] = q /\ status'[new] # "none"
      <4>1. CASE q = p
        BY <1>0, <1>1, <2>2, <3>1, <3>3, <4>1
      <4>2. CASE q # p
        <5>1. status[q] = "discarded"
              /\ \A d \in Requests : request[d].on = q => request[d].op # "discard"
          BY <1>0, <2>2, <3>3, <4>2
        <5>2. QED
          BY <1>1, <2>2, <5>1 DEF ProposalInv, Replaced
      <4>3. QED
        BY <4>1, <4>2
    <3>4. QED
      BY <3>2, <3>3 DEF Replaced
  <2>7. QED
    BY <2>2, <2>3, <2>4, <2>5, <2>6 DEF ProposalInv
<1>4. QED
  BY <1>2, <1>3

\* A draft appears that nobody works on.
LEMMA CreateInv ==
    ASSUME ProposalInv, NEW c \in Requests, NEW new \in Proposals, CreateAmendment(c, new)
    PROVE  ProposalInv'
<1>0. PICK p \in Proposals : p = request[c].on /\ request[c].pc = "read" /\ request[c].op = "amend"
  BY DEF ProposalInv, Places, Place, CreateAmendment
<1>1. /\ status[new] = "none" /\ p # new /\ Kind[new] = "correction"
      /\ status' = [status EXCEPT ![new] = "draft"]
      /\ request' = [request EXCEPT ![c].pc = "created", ![c].made = new]
      /\ UNCHANGED <<docs, source, ops, live, written, over, moved, crossed, edits, faults>>
  BY <1>0 DEF ProposalInv, Places, Place, CreateAmendment
<1>2. /\ request' \in [Requests -> Request]
      /\ request'[c].pc = "created" /\ request'[c].on = p /\ request'[c].op = "amend"
      /\ request'[c].made = new
      /\ \A d \in Requests : d # c => request'[d] = request[d]
  <2>1. request[c] \in Request /\ request'[c] = [request[c] EXCEPT !.pc = "created", !.made = new]
        /\ request' = [request EXCEPT ![c] = request'[c]]
    BY <1>1 DEF ProposalInv, ProposalTypeOK
  <2>2. request'[c] \in Request
    BY <2>1, ZenonT(60) DEF Request, Answered
  <2>3. /\ request'[c].pc = "created" /\ request'[c].on = p /\ request'[c].op = "amend"
        /\ request'[c].made = new
    BY <1>0, <2>1 DEF Request
  <2>4. QED
    BY <2>1, <2>2, <2>3 DEF ProposalInv, ProposalTypeOK
<1>3. /\ status' \in [Proposals -> {"none", "draft", "applied", "discarded"}]
      /\ status'[new] = "draft" /\ \A q \in Proposals : q # new => status'[q] = status[q]
  BY <1>1 DEF ProposalInv, ProposalTypeOK
<1>4. ProposalTypeOK'
  BY <1>1, <1>2, <1>3 DEF ProposalInv, ProposalTypeOK
<1>5. Places'
  BY <1>0, <1>1, <1>2, <1>3 DEF ProposalInv, Places, Place
<1>6. \A d \in Requests : /\ Active(d)' <=> Active(d)
                          /\ request'[d].on = request[d].on /\ request'[d].op = request[d].op
                          /\ request[d].pc # "idle" => request[d].on # new
  BY <1>0, <1>1, <1>2 DEF ProposalInv, Places, Place, Active, Answered
<1>7. Alone'
  <2>1. \A d \in Requests : Active(d) => request[d].on \in Proposals /\ request[d].on # new
    BY <1>6 DEF ProposalInv, Places, Place, Active
  <2>2. \A d \in Requests : Active(d) => status'[request[d].on] = status[request[d].on]
    BY <1>3, <2>1
  <2>3. crossed' = crossed
    BY <1>1
  <2>4. QED
    BY <1>6, <2>2, <2>3 DEF ProposalInv, Alone
<1>8. Untouched' /\ GateWritesOnce' /\ Repaid'
  BY <1>1, <1>3 DEF ProposalInv, Untouched, GateWritesOnce, Repaid, Movers
<1>9. Succeeded' /\ Chained' /\ Fresh'
  <2>1. \A d \in Requests : request[d].pc = "built" <=> request'[d].pc = "built"
    BY <1>0, <1>2
  <2>2. Succeeded'
    <3>1. \A n \in Proposals : status[n] # "none" => status'[n] # "none"
      BY <1>3
    <3>2. ASSUME NEW d \in Requests, request'[d].pc = "built"
          PROVE  \E n \in Proposals \ {request'[d].on} :
                    source'[n] = request'[d].on /\ status'[n] # "none"
      <4>1. PICK n \in Proposals \ {request[d].on} : source[n] = request[d].on /\ status[n] # "none"
        BY <2>1, <3>2 DEF ProposalInv, Succeeded
      <4>2. QED
        BY <1>1, <1>6, <3>1, <4>1
    <3>3. QED
      BY <3>2 DEF Succeeded
  <2>3. Chained'
    BY <1>1, <1>3, <1>6, <2>1, ChainedKept
  <2>4. Fresh'
    <3>1. \A d \in Requests : (d # c /\ request'[d].pc = "created") =>
             /\ request'[d] = request[d] /\ request[d].made \in Proposals
             /\ request[d].made # new /\ status[request[d].made] # "none"
             /\ source[request[d].made] = request[d].made
      BY <1>1, <1>2 DEF ProposalInv, Fresh, Places, Place
    <3>2. source[new] = new
      BY <1>1 DEF ProposalInv, Fresh
    <3>3. \A d \in Requests : request'[d].pc = "created" =>
             /\ source[request'[d].made] = request'[d].made /\ status'[request'[d].made] # "none"
             /\ \A e \in Requests :
                   (request'[e].pc = "created" /\ request'[e].made = request'[d].made) => e = d
      <4>1. \A d, e \in Requests :
               (/\ d # c /\ e # c /\ request'[d].pc = "created" /\ request'[e].pc = "created"
                /\ request'[e].made = request'[d].made) => e = d
        BY <3>1 DEF ProposalInv, Fresh
      <4>2. QED
        BY <1>2, <1>3, <3>1, <3>2, <4>1
    <3>4. \A q \in Proposals : status'[q] = "none" => source[q] = q
      BY <1>3 DEF ProposalInv, Fresh
    <3>5. QED
      BY <1>1, <3>3, <3>4 DEF Fresh
  <2>5. QED
    BY <2>2, <2>3, <2>4
<1>10. CreationWritesOnce'
  <2>1. \A q \in Proposals :
           (\E d \in Readers(q) : request[d].pc = "persisted")
              <=> (\E d \in Readers(q)' : request'[d].pc = "persisted")
    BY <1>0, <1>2, <1>6 DEF Readers
  <2>2. QED
    BY <1>1, <1>3, <2>1 DEF ProposalInv, CreationWritesOnce
<1>11. Replaced'
  <2>1. \A d \in Requests : request'[d].pc = "amended" =>
           request'[d] = request[d] /\ request[d].on \in Proposals /\ request[d].on # new
    BY <1>2, <1>6 DEF ProposalInv, Places, Place
  <2>2. ASSUME NEW q \in Proposals, status'[q] = "discarded",
               \A d \in Requests : request'[d].on = q => request'[d].op # "discard"
        PROVE  \E n \in Proposals \ {q} : source'[n] = q /\ status'[n] # "none"
    <3>1. status[q] = "discarded" /\ \A d \in Requests : request[d].on = q => request[d].op # "discard"
      BY <1>3, <1>6, <2>2
    <3>2. PICK n \in Proposals \ {q} : source[n] = q /\ status[n] # "none"
      BY <3>1 DEF ProposalInv, Replaced
    <3>3. QED
      BY <1>1, <1>3, <3>2
  <2>3. ASSUME NEW d \in Requests, request'[d].pc = "amended"
        PROVE  status'[request'[d].on] = "discarded" /\ written'[request'[d].on] = 0
    <3>1. request'[d] = request[d] /\ request[d].on \in Proposals /\ request[d].on # new
      BY <2>1, <2>3
    <3>2. status[request[d].on] = "discarded" /\ written[request[d].on] = 0
      BY <2>3, <3>1 DEF ProposalInv, Replaced
    <3>3. QED
      BY <1>1, <1>3, <3>1, <3>2
  <2>4. QED
    BY <2>2, <2>3 DEF Replaced
<1>12. QED
  BY <1>4, <1>5, <1>7, <1>8, <1>9, <1>10, <1>11 DEF ProposalInv

\* The draft becomes the successor of what its request amends, the only one outside the
\* window: the request is alone on it and had made none.
LEMMA AmendInv ==
    ASSUME ProposalInv, NEW c \in Requests, AppendAmendment(c)
    PROVE  ProposalInv'
<1>0. PICK p \in Proposals, new \in Proposals :
         /\ p = request[c].on /\ new = request[c].made /\ p # new
         /\ request[c].pc = "created" /\ request[c].op = "amend"
  BY DEF ProposalInv, Places, Place, AppendAmendment
<1>1. /\ status[new] = "draft" /\ status[p] # "none"
      /\ source' = [source EXCEPT ![new] = p] /\ To(c, "built")
      /\ UNCHANGED <<status, docs, ops, live, written, over, moved, crossed, edits, faults>>
  BY <1>0 DEF ProposalInv, Places, Place, AppendAmendment
<1>1a. source[new] = new
  BY <1>0 DEF ProposalInv, Fresh
<1>2. /\ request' \in [Requests -> Request]
      /\ request'[c].pc = "built" /\ request'[c].on = p /\ request'[c].op = "amend"
      /\ \A d \in Requests : d # c => request'[d] = request[d]
  BY <1>0, <1>1, ToFacts DEF ProposalInv
<1>3. /\ source' \in [Proposals -> Proposals] /\ source'[new] = p
      /\ \A q \in Proposals : q # new => source'[q] = source[q]
  BY <1>1 DEF ProposalInv, ProposalTypeOK
<1>4. ProposalTypeOK'
  BY <1>1, <1>2, <1>3 DEF ProposalInv, ProposalTypeOK
<1>5. Places'
  BY <1>0, <1>1, <1>2 DEF ProposalInv, Places, Place
<1>6. \A d \in Requests : /\ Active(d)' <=> Active(d)
                          /\ request'[d].on = request[d].on /\ request'[d].op = request[d].op
  BY <1>0, <1>2 DEF Active, Answered
<1>7. Alone'
  BY <1>1, <1>6 DEF ProposalInv, Alone
<1>8. Untouched' /\ GateWritesOnce' /\ Repaid'
  BY <1>1 DEF ProposalInv, Untouched, GateWritesOnce, Repaid, Movers
<1>9. Chained'
  <2>1. \A n \in Proposals : source'[n] # n => status'[source'[n]] # "none"
    BY <1>1, <1>3 DEF ProposalInv, Chained
  <2>2. ASSUME p \notin crossed
        PROVE  \A n \in Proposals : source[n] = p => n = p
    <3>1. Active(c)
      BY <1>0 DEF Active, Answered
    <3>2. status[p] = "draft" /\ \A d \in Requests : (Active(d) /\ request[d].on = p) => d = c
      BY <1>0, <2>2, <3>1 DEF ProposalInv, Alone
    <3>3. \A d \in Requests : request[d].on = p => request[d].pc # "built"
      BY <1>0, <3>2 DEF Active, Answered
    <3>4. QED
      BY <2>2, <3>2, <3>3 DEF ProposalInv, Chained
  <2>3. ASSUME NEW q \in Proposals \ crossed
        PROVE  \A m, n \in Proposals \ {q} : (source'[m] = q /\ source'[n] = q) => m = n
    <3>1. CASE q = p
      BY <1>3, <2>2, <2>3, <3>1
    <3>2. CASE q # p
      BY <1>3, <2>3, <3>2 DEF ProposalInv, Chained
    <3>3. QED
      BY <3>1, <3>2
  <2>4. ASSUME NEW q \in Proposals \ crossed, status[q] = "draft",
               \A d \in Requests : request'[d].on = q => request'[d].pc # "built",
               NEW n \in Proposals, source'[n] = q
        PROVE  n = q
    <3>1. q # p
      BY <1>2, <2>4
    <3>2. source[n] = q
      BY <1>3, <2>4, <3>1
    <3>3. \A d \in Requests : request[d].on = q => request[d].pc # "built"
      BY <1>0, <1>2, <2>4, <3>1
    <3>4. QED
      BY <2>4, <3>2, <3>3 DEF ProposalInv, Chained
  <2>5. QED
    BY <1>1, <2>1, <2>3, <2>4 DEF Chained
<1>10. Succeeded'
  <2>1. ASSUME NEW d \in Requests, request'[d].pc = "built"
        PROVE  \E n \in Proposals \ {request'[d].on} :
                  source'[n] = request'[d].on /\ status'[n] # "none"
    <3>1. CASE request'[d].on = p
      BY <1>0, <1>1, <1>3, <3>1
    <3>2. CASE request'[d].on # p
      <4>1. d # c /\ request'[d] = request[d]
        BY <1>2, <3>2
      <4>2. PICK n \in Proposals \ {request[d].on} : source[n] = request[d].on /\ status[n] # "none"
        BY <2>1, <4>1 DEF ProposalInv, Succeeded
      <4>3. n # new
        BY <1>0, <1>1a, <4>2
      <4>4. QED
        BY <1>1, <1>3, <4>1, <4>2, <4>3
    <3>3. QED
      BY <3>1, <3>2
  <2>2. QED
    BY <2>1 DEF Succeeded
<1>11. CreationWritesOnce'
  <2>1. \A q \in Proposals :
           (\E d \in Readers(q) : request[d].pc = "persisted")
              <=> (\E d \in Readers(q)' : request'[d].pc = "persisted")
    BY <1>0, <1>2, <1>6 DEF Readers
  <2>2. QED
    BY <1>1, <2>1 DEF ProposalInv, CreationWritesOnce
<1>12. Replaced'
  <2>1. \A d \in Requests : request'[d].pc = "amended" => request[d].pc = "amended" /\ request'[d] = request[d]
    BY <1>2
  <2>2. ASSUME NEW q \in Proposals, status[q] = "discarded",
               \A d \in Requests : request'[d].on = q => request'[d].op # "discard"
        PROVE  \E n \in Proposals \ {q} : source'[n] = q /\ status[n] # "none"
    <3>1. PICK n \in Proposals \ {q} : source[n] = q /\ status[n] # "none"
      BY <1>6, <2>2 DEF ProposalInv, Replaced
    <3>2. n # new
      BY <1>1a, <3>1
    <3>3. QED
      BY <1>3, <3>1, <3>2
  <2>3. QED
    BY <1>1, <2>1, <2>2 DEF ProposalInv, Replaced
<1>13. Fresh'
  <2>1. \A d \in Requests : request'[d].pc = "created" =>
           /\ d # c /\ request'[d] = request[d] /\ request[d].pc = "created"
           /\ request[d].made \in Proposals /\ request[d].made # new
    BY <1>0, <1>2 DEF ProposalInv, Fresh, Places, Place
  <2>2. QED
    BY <1>1, <1>3, <2>1 DEF ProposalInv, Fresh
<1>14. QED
  BY <1>4, <1>5, <1>7, <1>8, <1>9, <1>10, <1>11, <1>12, <1>13 DEF ProposalInv

-----------------------------------------------------------------------------
(* The ledger.                                                             *)

\* A plan names dates and operations that exist.
LEMMA MergePlanTyped ==
    ASSUME ProposalTypeOK, NEW rows
    PROVE  MergePlan(rows, ops) \in Plan
<1>1. \A d \in Dates : On(ops, d) \subseteq Ids
  BY DEF ProposalTypeOK, On
<1>2. Openings(ops) \subseteq Ids
  BY DEF ProposalTypeOK, Openings
<1>3. QED
  BY <1>1, <1>2 DEF MergePlan, Plan

LEMMA PlanImportInv ==
    ASSUME ProposalInv, NEW c \in Requests, PlanImport(c)
    PROVE  ProposalInv'
<1>1. /\ request[c].pc = "read" /\ request[c].op = "confirm" /\ Kind[request[c].on] = "statement"
      /\ request' = [request EXCEPT ![c].pc = "planned",
                              ![c].plan = MergePlan(request[c].rows, ops)]
      /\ UNCHANGED <<status, docs, source, ops, live, written, over, moved, crossed, edits,
                     faults>>
  BY DEF PlanImport
<1>2. PICK plan \in Plan : plan = MergePlan(request[c].rows, ops)
  BY MergePlanTyped DEF ProposalInv
<1>3. /\ request' \in [Requests -> Request]
      /\ request'[c].pc = "planned" /\ request'[c].on = request[c].on /\ request'[c].op = request[c].op
      /\ request'[c].plan = plan
      /\ \A d \in Requests : d # c => request'[d] = request[d]
  BY <1>1, <1>2, ZenonT(60) DEF ProposalInv, ProposalTypeOK, Request
<1>4. QED
  BY <1>1, <1>3, LedgerInv DEF ProposalInv, ProposalTypeOK

LEMMA MergedTyped ==
    ASSUME ProposalInv, NEW c \in Requests, request[c].pc = "planned"
    PROVE  LET ledger == Merged(c, request[c].plan) IN
           DOMAIN ledger \subseteq Ids /\ \A id \in DOMAIN ledger : ledger[id] \in Contents
<1>1. /\ request[c].plan.create \subseteq Dates /\ request[c].on \in Contents
      /\ DOMAIN ops \subseteq Ids /\ \A id \in DOMAIN ops : ops[id] \in Contents
  BY DEF ProposalInv, ProposalTypeOK, Places, Place, Plan, Contents
<1>2. {c} \X request[c].plan.create \subseteq Ids
  BY <1>1 DEF Ids
<1>3. QED
  BY <1>1, <1>2 DEF Merged

LEMMA ApplyInv ==
    ASSUME ProposalInv, NEW c \in Requests,
           ApplyImport(c) \/ ApplyRepayment(c) \/ ApplyCorrection(c)
    PROVE  ProposalInv'
<1>0. PICK p \in Proposals :
         /\ p = request[c].on /\ request[c].pc \in {"read", "planned"}
         /\ request[c].op = "confirm" /\ Kind[p] # "creation"
  BY DEF ProposalInv, Places, Place, ApplyImport, ApplyRepayment, ApplyCorrection
<1>1. Active(c)
  BY <1>0 DEF Active, Answered
<1>2. UNCHANGED <<docs, source, crossed, edits, faults>>
  BY DEF ApplyImport, ApplyRepayment, ApplyCorrection
<1>3. CASE To(c, "refused") /\ UNCHANGED <<status, ops, live, written, over, moved>>
  BY <1>0, <1>1, <1>2, <1>3, LeaveInv DEF ProposalInv, ProposalTypeOK
<1>4. CASE ApplyImport(c) /\ status[p] = "draft"
  <2>1. /\ request[c].pc = "planned" /\ Apply(p) /\ To(c, "applied")
        /\ ops' = Merged(c, request[c].plan) /\ moved' = moved \cup (Planners \ {c})
        /\ UNCHANGED <<live, over>>
    BY <1>0, <1>4 DEF ApplyImport
  <2>2. /\ DOMAIN ops' \subseteq Ids /\ \A id \in DOMAIN ops' : ops'[id] \in Contents
        /\ moved' \subseteq Requests
    BY <2>1, MergedTyped DEF ProposalInv, ProposalTypeOK, Planners
  <2>3. Kind[p] = "statement"
    BY <1>0, <2>1 DEF ProposalInv, Places, Place
  <2>4. QED
    BY <1>0, <1>2, <1>4, <2>1, <2>2, <2>3, AppliedInv
<1>5. CASE ApplyRepayment(c) /\ status[p] = "draft" /\ live = "shown"
  <2>1. /\ Kind[p] = "repayment" /\ Apply(p) /\ To(c, "applied") /\ live' \in Balances
        /\ over' = [over EXCEPT ![p] = <<live, live'>>] /\ UNCHANGED <<ops, moved>>
    BY <1>0, <1>5 DEF ApplyRepayment, Repay
  <2>2. QED
    BY <1>0, <1>2, <1>5, <2>1, AppliedInv DEF ProposalInv, ProposalTypeOK
<1>6. CASE ApplyCorrection(c) /\ status[p] = "draft"
  <2>1. /\ Kind[p] = "correction" /\ Apply(p) /\ To(c, "applied")
        /\ UNCHANGED <<ops, moved, live, over>>
    BY <1>0, <1>6 DEF ApplyCorrection
  <2>2. QED
    BY <1>0, <1>2, <1>6, <2>1, AppliedInv DEF ProposalInv, ProposalTypeOK
<1>7. QED
  BY <1>0, <1>3, <1>4, <1>5, <1>6 DEF ApplyImport, ApplyRepayment, ApplyCorrection

LEMMA AppendInv ==
    ASSUME ProposalInv, NEW c \in Requests, NEW d \in Dates, AppendDocument(c, d)
    PROVE  ProposalInv'
<1>0. PICK p \in Proposals : p = request[c].on /\ request[c].pc = "read" /\ request[c].op = "append"
  BY DEF ProposalInv, Places, Place, AppendDocument
<1>1. Active(c) /\ UNCHANGED <<status, source, ops, live, written, over, crossed, edits, faults>>
  BY <1>0 DEF Active, Answered, AppendDocument
<1>2. /\ \/ To(c, "refused") \/ To(c, "appended")
      /\ \/ docs' = docs
         \/ docs' = [docs EXCEPT ![p][d] = IF @ < 2 THEN @ + 1 ELSE @]
      /\ moved' = moved \/ moved' = moved \cup Readers(p)
  BY <1>0 DEF AppendDocument
<1>3. docs' \in [Proposals -> Rows]
  <2>1. docs \in [Proposals -> Rows] /\ docs[p] \in [Dates -> 0..2]
    BY DEF ProposalInv, ProposalTypeOK, Rows
  <2>2. [docs[p] EXCEPT ![d] = IF @ < 2 THEN @ + 1 ELSE @] \in Rows
    BY <2>1 DEF Rows
  <2>3. QED
    BY <1>2, <2>1, <2>2
<1>4. moved' \subseteq Requests
  BY <1>2 DEF ProposalInv, ProposalTypeOK, Readers
<1>5. QED
  BY <1>0, <1>1, <1>2, <1>3, <1>4, LeaveInv DEF ProposalInv, ProposalTypeOK

LEMMA FailInv ==
    ASSUME ProposalAssumption, ProposalInv, NEW c \in Requests, Fail(c)
    PROVE  ProposalInv'
<1>1. /\ Active(c) /\ To(c, "dead") /\ faults' \in 0..MaxFaults
      /\ UNCHANGED <<status, docs, source, ops, live, written, over, moved, edits>>
      /\ crossed' = IF request[c].pc \in {"persisted", "built"} THEN crossed \cup {request[c].on} ELSE crossed
  BY DEF ProposalInv, ProposalTypeOK, ProposalAssumption, Fail, Fault
<1>2. request[c].on \in Proposals
  BY <1>1 DEF ProposalInv, Places, Place, Active
<1>3. QED
  BY <1>1, <1>2, LeaveInv DEF ProposalInv, ProposalTypeOK

LEMMA HandInv ==
    ASSUME ProposalAssumption, ProposalInv,
           \/ \E d \in Dates : HandRecord(d)
           \/ \E id \in DOMAIN ops : HandDelete(id)
           \/ HandPay
    PROVE  ProposalInv'
<1>1. /\ UNCHANGED <<status, docs, source, request, written, over, crossed, faults>>
      /\ edits' \in 0..MaxEdits /\ edits' = edits + 1
  <2>1. /\ UNCHANGED <<status, docs, source, request, written, over, crossed, faults>>
        /\ Edit
    BY DEF HandRecord, HandDelete, HandPay
  <2>2. QED
    BY <2>1 DEF ProposalInv, ProposalTypeOK, ProposalAssumption, Edit
<1>2. moved' \subseteq Requests
  BY DEF ProposalInv, ProposalTypeOK, HandRecord, HandDelete, HandPay, Planners
<1>3. live' \in Balances
  <2>1. live' = live \/ live' \in Balances
    BY DEF HandRecord, HandDelete, HandPay
  <2>2. QED
    BY <2>1 DEF ProposalInv, ProposalTypeOK
<1>4. DOMAIN ops' \subseteq Ids /\ \A id \in DOMAIN ops' : ops'[id] \in Contents
  <2>1. ASSUME NEW d \in Dates, HandRecord(d)
        PROVE  DOMAIN ops' \subseteq Ids /\ \A id \in DOMAIN ops' : ops'[id] \in Contents
    BY <2>1 DEF ProposalInv, ProposalTypeOK, HandRecord, Ids, Contents
  <2>2. ASSUME NEW id \in DOMAIN ops, HandDelete(id)
        PROVE  DOMAIN ops' \subseteq Ids /\ \A i \in DOMAIN ops' : ops'[i] \in Contents
    BY <2>2 DEF ProposalInv, ProposalTypeOK, HandDelete, Restrict
  <2>3. CASE HandPay
    BY <2>3 DEF ProposalInv, ProposalTypeOK, HandPay
  <2>4. QED
    BY <2>1, <2>2, <2>3
<1>5. \A c \in Requests : request'[c] = request[c]
  BY <1>1
<1>6. request' \in [Requests -> Request] /\ faults' \in 0..MaxFaults
  BY <1>1 DEF ProposalInv, ProposalTypeOK
<1>7. QED
  BY <1>1, <1>2, <1>3, <1>4, <1>5, <1>6, LedgerInv, Zenon

-----------------------------------------------------------------------------

LEMMA ProposalStepInv ==
    ASSUME ProposalAssumption
    PROVE  ProposalInv /\ [ProposalNext]_proposalVars => ProposalInv'
<1> SUFFICES ASSUME ProposalInv, [ProposalNext]_proposalVars PROVE ProposalInv'
  OBVIOUS
<1>1. CASE ProposalNext
  BY <1>1, BeginInv, PlanImportInv, ApplyInv, PersistInv, MarkInv, DiscardedInv, CreateInv,
     AmendInv, AppendInv, FailInv, HandInv DEF ProposalNext
<1>2. CASE UNCHANGED proposalVars
  BY <1>2 DEF proposalVars, ProposalInv, ProposalTypeOK, Places, Place, Alone, Untouched, Repaid, Movers, Succeeded,
              Chained, Fresh, Active, GateWritesOnce, CreationWritesOnce, Replaced, Readers
<1>3. QED
  BY <1>1, <1>2

LEMMA ProposalInvariant ==
    ASSUME ProposalAssumption
    PROVE  ProposalSpec => []ProposalInv
BY ProposalInitInv, ProposalStepInv, PTL DEF ProposalSpec

(* Theorems.                                                               *)

\* The proposals, their requests and the ledger keep their types.
THEOREM ProposalTypeCorrect ==
    ASSUME ProposalAssumption
    PROVE  ProposalSpec => []ProposalTypeOK
BY ProposalInvariant, PTL DEF ProposalInv

\* A proposal of the gate is written once when it is applied and never otherwise
\* (createApplyAssistantProposal).
THEOREM GateHolds ==
    ASSUME ProposalAssumption
    PROVE  ProposalSpec => []GateWritesOnce
BY ProposalInvariant, PTL DEF ProposalInv

\* A creation is written once, but for two requests at a time or one that died between its
\* write and its mark (confirmHoldingCreationProposalAction).
THEOREM CreationHolds ==
    ASSUME ProposalAssumption
    PROVE  ProposalSpec => []CreationWritesOnce
BY ProposalInvariant, PTL DEF ProposalInv

\* An amendment that answers leaves what it amended discarded and unwritten, one that
\* fails leaves it standing or its successor in its place, and outside the window a
\* proposal and its amendments are one open card (buildReconstructionAmendment).
THEOREM AmendmentHolds ==
    ASSUME ProposalAssumption
    PROVE  ProposalSpec => []AmendmentLeavesOne
<1>1. ProposalInv => AmendmentLeavesOne
  <2> SUFFICES ASSUME ProposalInv PROVE AmendmentLeavesOne
    OBVIOUS
  <2>1. ASSUME NEW p \in Proposals \ crossed,
               \A c \in Requests : request[c].on = p => request[c].pc # "built"
        PROVE  Cardinality(Open(p)) <= 1
    <3>1. \A m, n \in Open(p) : m = n
      BY <2>1 DEF ProposalInv, Chained, Open
    <3>2. CASE Open(p) = {}
      BY <3>2, FS_EmptySet
    <3>3. ASSUME NEW n \in Open(p)
          PROVE  Cardinality(Open(p)) <= 1
      <4>1. Open(p) = {n}
        BY <3>1
      <4>2. Cardinality({n}) = 1
        BY FS_Singleton
      <4>3. QED
        BY <4>1, <4>2
    <3>4. QED
      BY <3>2, <3>3
  <2>2. QED
    BY <2>1 DEF ProposalInv, Replaced, AmendmentLeavesOne
<1>2. QED
  BY <1>1, ProposalInvariant, PTL

\* A repayment is written while the balance is the one its card shows, and of those drafted
\* over one balance a single one moves it, unless the user put it back
\* (assertLiveBalanceUnchanged).
THEOREM RepaymentHolds ==
    ASSUME ProposalAssumption
    PROVE  ProposalSpec => []RepaidAsShown
<1>1. ProposalInv => RepaidAsShown
  <2> SUFFICES ASSUME ProposalInv PROVE RepaidAsShown
    OBVIOUS
  <2> DEFINE repaid == {p \in Proposals : Kind[p] = "repayment" /\ status[p] = "applied"}
  <2>1. Movers = {p \in repaid : over[p][2] = "other"}
    BY DEF Movers
  <2>2. Cardinality(Movers) <= 1 + edits
    <3>1. Cardinality(Movers) \in Nat /\ edits \in Nat
      BY FS_CardinalityType DEF ProposalInv, ProposalTypeOK, Repaid
    <3>2. QED
      BY <3>1 DEF ProposalInv, Repaid
  <2>3. QED
    BY <2>1, <2>2 DEF ProposalInv, Repaid, RepaidAsShown
<1>2. QED
  BY <1>1, ProposalInvariant, PTL

-----------------------------------------------------------------------------
(* The import merges by date.                                              *)

\* What a confirm read is what is there, unless it moved.
PlansCurrent ==
    \A c \in Requests \ moved : (Active(c) /\ request[c].op = "confirm") =>
        /\ request[c].rows = docs[request[c].on]
        /\ request[c].pc = "planned" => request[c].plan = MergePlan(request[c].rows, ops)

\* A step that moves nothing under a confirm keeps what it read.
LEMMA PlansKept ==
    ASSUME PlansCurrent, moved \subseteq moved',
           \A c \in Requests \ moved' : (Active(c)' /\ request'[c].op = "confirm") =>
               /\ Active(c) /\ request[c].op = "confirm"
               /\ request'[c].on = request[c].on /\ request'[c].rows = request[c].rows
               /\ docs'[request[c].on] = docs[request[c].on]
               /\ request'[c].pc = "planned" =>
                     /\ request[c].pc = "planned" /\ request'[c].plan = request[c].plan
                     /\ ops' = ops
    PROVE  PlansCurrent'
BY DEF PlansCurrent

LEMMA PlansStep ==
    ASSUME ProposalInv, PlansCurrent, [ProposalNext]_proposalVars
    PROVE  PlansCurrent'
<1>1. ASSUME NEW c \in Requests, NEW op \in {"confirm", "discard", "append", "amend"},
             NEW p \in Proposals, BeginRequest(c, op, p)
      PROVE  PlansCurrent'
  <2>1. /\ request'[c].rows = docs[p] /\ request'[c].on = p /\ request'[c].pc # "planned"
        /\ \A d \in Requests : d # c => request'[d] = request[d]
        /\ UNCHANGED <<docs, ops, moved>>
    BY <1>1 DEF ProposalInv, ProposalTypeOK, BeginRequest, Request
  <2>2. QED
    BY <2>1 DEF PlansCurrent, Active
<1>2. ASSUME NEW c \in Requests, PlanImport(c)
      PROVE  PlansCurrent'
  <2>1. /\ Active(c) /\ request[c].op = "confirm"
        /\ request'[c].rows = request[c].rows /\ request'[c].on = request[c].on
        /\ request'[c].plan = MergePlan(request[c].rows, ops)
        /\ \A d \in Requests : d # c => request'[d] = request[d]
        /\ UNCHANGED <<docs, ops, moved>>
    BY <1>2 DEF ProposalInv, ProposalTypeOK, PlanImport, Request, Active, Answered
  <2>2. QED
    BY <2>1 DEF PlansCurrent, Active
<1>3. ASSUME NEW c \in Requests, ApplyImport(c)
      PROVE  PlansCurrent'
  <2>1. /\ \A d \in Requests : d # c => request'[d] = request[d]
        /\ request'[c].pc \in {"applied", "refused"}
        /\ docs' = docs
        /\ (ops' = ops /\ moved' = moved) \/ moved' = moved \cup (Planners \ {c})
    BY <1>3 DEF ProposalInv, ProposalTypeOK, ApplyImport, To, Request
  <2>2. QED
    BY <2>1, PlansKept DEF Active, Answered, Planners
<1>4. ASSUME NEW c \in Requests, NEW pc \in Answered \cup {"persisted", "built"}, To(c, pc),
             Active(c), UNCHANGED <<docs, ops, moved>>
      PROVE  PlansCurrent'
  <2>1. /\ \A d \in Requests : d # c => request'[d] = request[d]
        /\ request'[c].on = request[c].on /\ request'[c].op = request[c].op
        /\ request'[c].rows = request[c].rows /\ request'[c].pc # "planned"
    BY <1>4 DEF ProposalInv, ProposalTypeOK, To, Request, Answered
  <2>2. QED
    BY <1>4, <2>1, PlansKept DEF Active
<1>5. ASSUME NEW c \in Requests, ApplyRepayment(c) \/ ApplyCorrection(c) \/ Persist(c)
      PROVE  PlansCurrent'
  <2>1. /\ Active(c) /\ UNCHANGED <<docs, ops, moved>>
        /\ To(c, "applied") \/ To(c, "refused") \/ To(c, "persisted")
    BY <1>5 DEF ApplyRepayment, ApplyCorrection, Persist, Active, Answered
  <2>2. QED
    BY <1>4, <2>1 DEF Answered
<1>6. ASSUME NEW c \in Requests, Mark(c) \/ Discard(c) \/ RetireSource(c) \/ Fail(c)
      PROVE  PlansCurrent'
  <2>1. /\ Active(c) /\ UNCHANGED <<docs, ops, moved>>
        /\ \E pc \in {"applied", "refused", "discarded", "amended", "dead"} : To(c, pc)
    BY <1>6 DEF Mark, Discard, RetireSource, Resolved, Fail, Active, Answered
  <2>2. QED
    BY <1>4, <2>1 DEF Answered
<1>7. ASSUME NEW c \in Requests, AppendAmendment(c)
      PROVE  PlansCurrent'
  <2>1. Active(c) /\ UNCHANGED <<docs, ops, moved>> /\ To(c, "built")
    BY <1>7 DEF AppendAmendment, Active, Answered
  <2>2. QED
    BY <1>4, <2>1
<1>7a. ASSUME NEW c \in Requests, NEW new \in Proposals, CreateAmendment(c, new)
       PROVE  PlansCurrent'
  <2>1. /\ \A d \in Requests : d # c => request'[d] = request[d]
        /\ request'[c].op = "amend" /\ UNCHANGED <<docs, ops, moved>>
    BY <1>7a DEF ProposalInv, ProposalTypeOK, CreateAmendment, Request
  <2>2. QED
    BY <2>1, PlansKept DEF Active
<1>8. ASSUME NEW c \in Requests, NEW d \in Dates, AppendDocument(c, d)
      PROVE  PlansCurrent'
  <2>1. /\ request[c].pc = "read" /\ request[c].op = "append" /\ ops' = ops
        /\ request'[c].op = "append" /\ \A e \in Requests : e # c => request'[e] = request[e]
    BY <1>8 DEF ProposalInv, ProposalTypeOK, AppendDocument, To, Request
  <2>2. \/ docs' = docs /\ moved' = moved
        \/ /\ moved' = moved \cup Readers(request[c].on)
           /\ docs' = [docs EXCEPT ![request[c].on][d] = IF @ < 2 THEN @ + 1 ELSE @]
    BY <1>8 DEF AppendDocument
  <2>3. \A p \in Proposals : p # request[c].on => docs'[p] = docs[p]
    BY <2>2 DEF ProposalInv, ProposalTypeOK
  <2>4. \A e \in Requests : Active(e) => request[e].on \in Proposals
    BY DEF ProposalInv, Places, Place, Active
  <2>5. ASSUME NEW e \in Requests \ moved', Active(e)', request'[e].op = "confirm"
        PROVE  e # c /\ Active(e) /\ docs'[request[e].on] = docs[request[e].on]
    BY <2>1, <2>2, <2>3, <2>4, <2>5 DEF Active, Readers
  <2>6. moved \subseteq moved'
    BY <2>2
  <2>7. QED
    BY <2>1, <2>5, <2>6, PlansKept
<1>9. CASE \/ \E d \in Dates : HandRecord(d)
           \/ \E id \in DOMAIN ops : HandDelete(id)
           \/ HandPay
  <2>1. /\ UNCHANGED <<docs, request>>
        /\ (ops' = ops /\ moved' = moved) \/ moved' = moved \cup Planners
    BY <1>9 DEF HandRecord, HandDelete, HandPay
  <2>2. QED
    BY <2>1, PlansKept DEF Active, Planners
<1>10. CASE UNCHANGED proposalVars
  BY <1>10 DEF proposalVars, PlansCurrent, Active
<1>11. QED
  BY <1>1, <1>2, <1>3, <1>5, <1>6, <1>7, <1>7a, <1>8, <1>9, <1>10 DEF ProposalNext

LEMMA PlansInit == ProposalInit => PlansCurrent
BY DEF ProposalInit, PlansCurrent, Active

LEMMA OnFinite ==
    ASSUME ProposalAssumption, ProposalTypeOK, NEW d
    PROVE  IsFiniteSet(On(ops, d))
<1>1. IsFiniteSet(Requests \cup {Hand, Opening})
  <2>1. IsFiniteSet((Requests \cup {Hand}) \cup {Opening})
    BY FS_AddElement DEF ProposalAssumption
  <2>2. (Requests \cup {Hand}) \cup {Opening} = Requests \cup {Hand, Opening}
    OBVIOUS
  <2>3. QED
    BY <2>1, <2>2
<1>2. IsFiniteSet(Ids)
  BY <1>1, FS_Product DEF Ids, ProposalAssumption
<1>3. On(ops, d) \subseteq Ids
  BY DEF ProposalTypeOK, On
<1>4. QED
  BY <1>2, <1>3, FS_Subset

\* The plan of what is there, written: each date by itself.
LEMMA MergeOfDate ==
    ASSUME ProposalAssumption, ProposalInv, NEW c \in Requests, request[c].on \in Proposals, NEW rows,
           ops' = Merged(c, MergePlan(rows, ops)), NEW d \in Dates
    PROVE  IF rows[d] = 1 /\ Cardinality(On(ops, d)) <= 1
           THEN \E id \in Ids : On(ops', d) = {id} /\ ops'[id] = request[c].on
           ELSE /\ On(ops', d) = On(ops, d)
                /\ \A id \in On(ops, d) : ops'[id] = ops[id]
<1> DEFINE clear == {e \in Dates : rows[e] = 1 /\ Cardinality(On(ops, e)) <= 1}
           create == {e \in clear : On(ops, e) = {}}
           overwrite == UNION {On(ops, e) : e \in clear}
           kept == DOMAIN ops \ Openings(ops)
           made == {c} \X create
<1>1. /\ DOMAIN ops' = kept \cup made
      /\ \A id \in kept \cup made :
            ops'[id] = IF id \in made \cup overwrite THEN request[c].on ELSE ops[id]
  BY DEF Merged, MergePlan
<1>2. request[c].on # Opening
  BY DEF ProposalAssumption
<1>3. \A e, id : id \in On(ops, e) <=> id \in kept /\ id[2] = e
  BY DEF On, Openings
<1>4. \A id \in overwrite : id[2] \in clear
  BY <1>3
<1>5. \A id : id \in On(ops', d) <=>
                 \/ id \in kept /\ id[2] = d
                 \/ d \in create /\ id = <<c, d>>
  <2>1. ASSUME NEW id \in kept \cup made
        PROVE  ops'[id] # Opening
    BY <1>1, <1>2 DEF Openings
  <2>2. \A id : id \in On(ops', d) <=> id \in kept \cup made /\ id[2] = d
    BY <1>1, <2>1 DEF On
  <2>3. \A id : (id \in made /\ id[2] = d) <=> (d \in create /\ id = <<c, d>>)
    OBVIOUS
  <2>4. QED
    BY <2>2, <2>3
<1>6. CASE d \in create
  <2>1. On(ops', d) = {<<c, d>>}
    BY <1>3, <1>5, <1>6
  <2>2. ops'[<<c, d>>] = request[c].on /\ <<c, d>> \in Ids
    BY <1>1, <1>6 DEF Ids
  <2>3. QED
    BY <1>6, <2>1, <2>2
<1>7. CASE d \in clear \ create
  <2>1. PICK id : On(ops, d) = {id}
    <3>1. IsFiniteSet(On(ops, d)) /\ Cardinality(On(ops, d)) <= 1 /\ On(ops, d) # {}
      BY <1>7, OnFinite DEF ProposalInv
    <3>2. Cardinality(On(ops, d)) \in Nat /\ Cardinality(On(ops, d)) # 0
      BY <3>1, FS_CardinalityType, FS_EmptySet
    <3>3. Cardinality(On(ops, d)) = 1
      BY <3>1, <3>2
    <3>4. QED
      BY <3>1, <3>3, FS_Singleton
  <2>2. On(ops', d) = {id}
    BY <1>3, <1>5, <1>7, <2>1
  <2>3. id \in kept /\ id \in overwrite
    BY <1>3, <1>7, <2>1
  <2>4. ops'[id] = request[c].on /\ id \in Ids
    BY <1>1, <2>3 DEF ProposalInv, ProposalTypeOK
  <2>5. QED
    BY <1>7, <2>2, <2>4
<1>8. CASE d \notin clear
  <2>1. On(ops', d) = On(ops, d)
    BY <1>3, <1>5, <1>8
  <2>2. ASSUME NEW id \in On(ops, d)
        PROVE  ops'[id] = ops[id]
    <3>1. id \in kept /\ id[2] = d
      BY <1>3, <2>2
    <3>2. id \notin made \cup overwrite
      BY <1>4, <1>8, <3>1
    <3>3. QED
      BY <1>1, <3>1, <3>2
  <2>3. QED
    BY <1>8, <2>1, <2>2
<1>9. QED
  BY <1>6, <1>7, <1>8

LEMMA ImportedStep ==
    ASSUME ProposalAssumption, ProposalInv, PlansCurrent, [ProposalNext]_proposalVars, NEW c \in Requests \ moved
    PROVE  ImportedByDate(c)
<1> SUFFICES ASSUME request[c].pc = "planned", request'[c].pc = "applied"
             PROVE  \A d \in Dates :
                LET clear == docs[request[c].on][d] = 1 /\ Cardinality(On(ops, d)) <= 1 IN
                IF clear THEN \E id \in Ids : On(ops', d) = {id} /\ ops'[id] = request[c].on
                ELSE /\ On(ops', d) = On(ops, d)
                     /\ \A id \in On(ops, d) : ops'[id] = ops[id]
  BY DEF ImportedByDate
<1>1. ApplyImport(c) /\ status[request[c].on] = "draft"
  <2>1. request \in [Requests -> Request]
    BY DEF ProposalInv, ProposalTypeOK
  <2>2. ASSUME NEW e \in Requests, NEW pc, To(e, pc)
        PROVE  e = c /\ pc = "applied"
    BY <2>1, <2>2 DEF To, Request
  <2>3. ASSUME NEW e \in Requests, NEW op \in {"confirm", "discard", "append", "amend"},
               NEW p \in Proposals, BeginRequest(e, op, p)
        PROVE  FALSE
    <3>1. e # c
      BY <2>3 DEF BeginRequest
    <3>2. request'[c] = request[c]
      BY <2>1, <2>3, <3>1 DEF BeginRequest
    <3>3. QED
      BY <3>2
  <2>4. ASSUME NEW e \in Requests, PlanImport(e)
        PROVE  FALSE
    <3>1. e # c
      BY <2>4 DEF PlanImport
    <3>2. request'[c] = request[c]
      BY <2>1, <2>4, <3>1 DEF PlanImport
    <3>3. QED
      BY <3>2
  <2>5. ASSUME NEW e \in Requests, request[e].pc # "planned", NEW pc, To(e, pc)
        PROVE  FALSE
    BY <2>2, <2>5
  <2>6. ASSUME NEW e \in Requests,
               \/ ApplyRepayment(e) \/ ApplyCorrection(e) \/ Persist(e) \/ Mark(e)
               \/ Discard(e) \/ RetireSource(e) \/ AppendAmendment(e)
               \/ \E d \in Dates : AppendDocument(e, d)
        PROVE  FALSE
    <3>1. request[e].pc # "planned" /\ \E pc : To(e, pc)
      BY <2>6 DEF ApplyRepayment, ApplyCorrection, Persist, Mark, Discard, RetireSource,
                  Resolved, AppendDocument, AppendAmendment
    <3>2. QED
      BY <2>5, <3>1, SMTT(30)
  <2>7. ASSUME NEW e \in Requests, Fail(e)
        PROVE  FALSE
    BY <2>2, <2>7 DEF Fail
  <2>8. ASSUME NEW e \in Requests, ApplyImport(e)
        PROVE  e = c /\ status[request[c].on] = "draft"
    <3>1. e = c
      BY <2>2, <2>8 DEF ApplyImport
    <3>2. CASE status[request[e].on] = "draft"
      BY <3>1, <3>2
    <3>3. CASE status[request[e].on] # "draft"
      <4>1. To(e, "refused")
        BY <2>8, <3>3 DEF ApplyImport
      <4>2. QED
        BY <2>2, <4>1
    <3>4. QED
      BY <3>2, <3>3
  <2>8a. ASSUME NEW e \in Requests, NEW new \in Proposals, CreateAmendment(e, new)
         PROVE  FALSE
    <3>1. e # c /\ request' = [request EXCEPT ![e].pc = "created", ![e].made = new]
      BY <2>8a DEF CreateAmendment
    <3>2. request'[c] = request[c]
      BY <2>1, <3>1
    <3>3. QED
      BY <3>2
  <2>9. CASE UNCHANGED request
    BY <2>9
  <2>10. QED
    BY <2>3, <2>4, <2>6, <2>7, <2>8, <2>8a, <2>9 DEF ProposalNext, proposalVars, HandRecord, HandDelete, HandPay
<1>2. Active(c) /\ request[c].op = "confirm" /\ request[c].on \in Proposals
  BY DEF ProposalInv, Places, Place, Active, Answered
<1>3. ops' = Merged(c, MergePlan(docs[request[c].on], ops))
  BY <1>1, <1>2 DEF ApplyImport, PlansCurrent
<1>4. QED
  BY <1>2, <1>3, MergeOfDate

\* A confirmed import writes each date by itself, as the file has it.
THEOREM ImportHolds == ASSUME ProposalAssumption PROVE ProposalSpec => ImportMergesByDate
<1>1. ProposalInit => PlansCurrent
  BY PlansInit
<1>2. ProposalInv /\ PlansCurrent /\ [ProposalNext]_proposalVars => PlansCurrent'
  BY PlansStep
<1>3. ProposalInv /\ PlansCurrent /\ [ProposalNext]_proposalVars =>
        [\A c \in Requests \ moved : ImportedByDate(c)]_proposalVars
  BY ImportedStep
<1>4. QED
  BY <1>1, <1>2, <1>3, ProposalInvariant, PTL DEF ProposalSpec, ImportMergesByDate

-----------------------------------------------------------------------------
(* The refinement of Resolution.                                           *)

\* What the gate sees of the proposals, before and after a step.
Seen == <<Restrict(status, Gated), Restrict(docs, Gated), Restrict(source, Gated),
          Restrict(written, Gated)>>

LEMMA Typed ==
    ASSUME ProposalInv
    PROVE  /\ status \in [Proposals -> {"none", "draft", "applied", "discarded"}]
           /\ docs \in [Proposals -> Rows]
           /\ source \in [Proposals -> Proposals]
           /\ written \in [Proposals -> Nat]
           /\ Gated \subseteq Proposals
BY DEF ProposalInv, ProposalTypeOK, Gated, Restrict

LEMMA WorksOn ==
    ASSUME ProposalInv, NEW c \in Requests, request[c].pc # "idle"
    PROVE  request[c].on \in Proposals /\ Place(c)
BY DEF ProposalInv, Places, Place

\* The write and its mark in one step, on a proposal the gate read as open.
LEMMA ApplyRefines ==
    ASSUME ProposalInv, NEW p \in Gated, status[p] = "draft", Apply(p), UNCHANGED <<docs, source>>
    PROVE  Gate!Apply(p)
<1>1. p \in Proposals
  BY DEF Gated
<1>2. /\ Restrict(status', Gated) = [Restrict(status, Gated) EXCEPT ![p] = "applied"]
      /\ Restrict(status, Gated)[p] = "draft"
  BY <1>1, Typed DEF Apply, Restrict
<1>3. Restrict(written', Gated) = [Restrict(written, Gated) EXCEPT ![p] = @ + 1]
  <2>1. written' = [written EXCEPT ![p] = written[p] + 1]
    BY DEF Apply
  <2>2. Restrict(written', Gated) = [Restrict(written, Gated) EXCEPT ![p] = written[p] + 1]
    BY <1>1, <2>1, Typed DEF Restrict
  <2>3. Restrict(written, Gated)[p] = written[p]
    BY DEF Restrict
  <2>4. QED
    BY <2>2, <2>3
<1>4. QED
  BY <1>2, <1>3 DEF Gate!Apply, Restrict

\* The confirms of the gate.
LEMMA ConfirmRefines ==
    ASSUME ProposalInv, NEW c \in Requests, ApplyImport(c) \/ ApplyRepayment(c) \/ ApplyCorrection(c)
    PROVE  Gate!Next \/ UNCHANGED Seen
<1> DEFINE p == request[c].on
<1>1. request[c].pc \in {"planned", "read"} /\ Kind[p] # "creation" /\ p \in Proposals
  <2>1. request[c].pc \in {"planned", "read"}
    BY DEF ApplyImport, ApplyRepayment, ApplyCorrection
  <2>2. p \in Proposals /\ Place(c)
    BY <2>1, WorksOn
  <2>3. QED
    BY <2>1, <2>2 DEF ApplyImport, ApplyRepayment, ApplyCorrection, Place
<1>2. p \in Gated
  BY <1>1 DEF Gated
<1>3. /\ UNCHANGED <<docs, source>>
      /\ (status[p] = "draft" /\ Apply(p)) \/ UNCHANGED <<status, written>>
  BY DEF ApplyImport, ApplyRepayment, ApplyCorrection, Repay
<1>4. CASE status[p] = "draft" /\ Apply(p)
  BY <1>2, <1>3, <1>4, ApplyRefines DEF Gate!Next
<1>5. CASE UNCHANGED <<status, written>>
  BY <1>3, <1>5 DEF Seen
<1>6. QED
  BY <1>3, <1>4, <1>5

\* A draft discarded, by its card or for its amendment.
LEMMA DiscardRefines ==
    ASSUME ProposalInv, NEW c \in Requests, Discard(c) \/ RetireSource(c)
    PROVE  Gate!Next \/ UNCHANGED Seen
<1> DEFINE p == request[c].on
<1>1. p \in Proposals
  BY WorksOn DEF Discard, RetireSource
<1>2. /\ UNCHANGED <<docs, source, written>>
      /\ \/ status[p] = "draft" /\ status' = [status EXCEPT ![p] = "discarded"]
         \/ status' = status
  BY DEF Discard, RetireSource, Resolved
<1>3. CASE status' = status
  BY <1>2, <1>3 DEF Seen
<1>4. CASE status[p] = "draft" /\ status' = [status EXCEPT ![p] = "discarded"]
  <2>1. CASE p \in Gated
    <3>1. /\ Restrict(status', Gated) = [Restrict(status, Gated) EXCEPT ![p] = "discarded"]
          /\ Restrict(status, Gated)[p] = "draft"
      BY <1>1, <1>4, <2>1, Typed DEF Restrict
    <3>2. Gate!Discard(p)
      BY <1>2, <3>1 DEF Gate!Discard, Restrict
    <3>3. QED
      BY <2>1, <3>2 DEF Gate!Next
  <2>2. CASE p \notin Gated
    <3>1. Restrict(status', Gated) = Restrict(status, Gated)
      BY <1>1, <1>4, <2>2, Typed DEF Restrict
    <3>2. QED
      BY <1>2, <3>1 DEF Seen, Restrict
  <2>3. QED
    BY <2>1, <2>2
<1>5. QED
  BY <1>2, <1>3, <1>4

\* A creation's own steps write and mark a proposal the gate does not see.
LEMMA CreationUnseen ==
    ASSUME ProposalInv, NEW c \in Requests, Persist(c) \/ Mark(c)
    PROVE  UNCHANGED Seen
<1> DEFINE p == request[c].on
<1>1. p \in Proposals /\ p \notin Gated
  <2>1. request[c].pc # "idle"
    BY DEF Persist, Mark
  <2>2. p \in Proposals /\ Place(c)
    BY <2>1, WorksOn
  <2>3. Kind[p] = "creation"
    BY <2>2 DEF Persist, Mark, Place
  <2>4. QED
    BY <2>2, <2>3 DEF Gated
<1>2. /\ UNCHANGED <<docs, source>>
      /\ status' = status \/ status' = [status EXCEPT ![p] = "applied"]
      /\ written' = written \/ written' = [written EXCEPT ![p] = written[p] + 1]
  BY DEF Persist, Mark
<1>3. Restrict(status', Gated) = Restrict(status, Gated)
  BY <1>1, <1>2, Typed DEF Restrict
<1>4. Restrict(written', Gated) = Restrict(written, Gated)
  BY <1>1, <1>2, Typed DEF Restrict
<1>5. QED
  BY <1>2, <1>3, <1>4 DEF Seen, Restrict

\* A document is added to an import that is open.
LEMMA AppendRefines ==
    ASSUME ProposalAssumption, ProposalInv, NEW c \in Requests, NEW d \in Dates, AppendDocument(c, d)
    PROVE  Gate!Next \/ UNCHANGED Seen
<1> DEFINE p == request[c].on
<1>1. p \in Proposals /\ p \in Gated
  <2>1. p \in Proposals /\ Place(c)
    BY WorksOn DEF AppendDocument
  <2>2. Kind[p] = "statement"
    BY <2>1 DEF AppendDocument, Place
  <2>3. QED
    BY <2>1, <2>2 DEF Gated
<1>2. UNCHANGED <<status, source, written>>
  BY DEF AppendDocument
<1>3. CASE status[p] # "draft"
  <2>1. docs' = docs
    BY <1>3 DEF AppendDocument
  <2>2. QED
    BY <1>2, <2>1 DEF Seen
<1>4. CASE status[p] = "draft"
  <2> DEFINE rows == [docs[p] EXCEPT ![d] = IF @ < 2 THEN @ + 1 ELSE @]
  <2>1. docs' = [docs EXCEPT ![p] = rows]
    BY <1>4 DEF AppendDocument
  <2>2. rows \in Rows
    BY <1>1, Typed DEF Rows
  <2> HIDE DEF rows
  <2>3. /\ Restrict(docs', Gated) = [Restrict(docs, Gated) EXCEPT ![p] = rows]
        /\ Restrict(status, Gated)[p] = "draft"
    BY <1>1, <1>4, <2>1, Typed DEF Restrict
  <2>4. Gate!Append(p, rows)
    BY <1>2, <2>3 DEF Gate!Append, Restrict
  <2>5. QED
    BY <1>1, <2>2, <2>4 DEF Gate!Next
<1>5. QED
  BY <1>3, <1>4

\* An amendment is drafted, and then takes its place in the chain.
LEMMA AmendRefines ==
    ASSUME ProposalInv, NEW c \in Requests,
           AppendAmendment(c) \/ \E new \in Proposals : CreateAmendment(c, new)
    PROVE  Gate!Next
<1>1. ASSUME NEW new \in Proposals, CreateAmendment(c, new)
      PROVE  Gate!Next
  <2>1. /\ UNCHANGED <<docs, source, written>> /\ status[new] = "none" /\ new \in Gated
        /\ status' = [status EXCEPT ![new] = "draft"]
    BY <1>1 DEF CreateAmendment, Gated
  <2>2. /\ Restrict(status', Gated) = [Restrict(status, Gated) EXCEPT ![new] = "draft"]
        /\ Restrict(status, Gated)[new] = "none"
    BY <2>1, Typed DEF Restrict
  <2>3. Gate!Draft(new)
    BY <2>1, <2>2 DEF Gate!Draft, Restrict
  <2>4. QED
    BY <2>1, <2>3 DEF Gate!Next
<1>2. CASE AppendAmendment(c)
  <2>1. PICK p \in Gated, new \in Gated :
           /\ p = request[c].on /\ new = request[c].made /\ status[p] # "none"
    <3>1. request[c].pc = "created" /\ request[c].on \in Proposals /\ Place(c)
      BY <1>2, WorksOn DEF AppendAmendment
    <3>2. QED
      BY <3>1 DEF Place, Gated
  <2>2. /\ UNCHANGED <<status, docs, written>> /\ status[new] = "draft"
        /\ source' = [source EXCEPT ![new] = p]
    BY <1>2, <2>1 DEF AppendAmendment
  <2>3. /\ Restrict(source', Gated) = [Restrict(source, Gated) EXCEPT ![new] = p]
        /\ Restrict(status, Gated)[new] = "draft" /\ Restrict(status, Gated)[p] # "none"
    BY <2>1, <2>2, Typed DEF Restrict
  <2>4. Gate!Amend(p, new)
    BY <2>2, <2>3 DEF Gate!Amend, Restrict
  <2>5. QED
    BY <2>4 DEF Gate!Next
<1>3. QED
  BY <1>1, <1>2

\* Whatever the assistant and the user do is a step of Resolution, or is not seen.
LEMMA StepRefines ==
    ASSUME ProposalAssumption, ProposalInv, [ProposalNext]_proposalVars
    PROVE  [Gate!Next]_(Gate!resolutionVars)
<1>1. Gate!Next \/ UNCHANGED Seen
  <2>1. CASE ProposalNext
    <3>1. CASE \/ \E c \in Requests :
                    \/ \E op \in {"confirm", "discard", "append", "amend"}, p \in Proposals :
                          BeginRequest(c, op, p)
                    \/ PlanImport(c) \/ Fail(c)
               \/ \E d \in Dates : HandRecord(d)
               \/ \E id \in DOMAIN ops : HandDelete(id)
               \/ HandPay
      <4>1. CASE \E c \in Requests :
                    \E op \in {"confirm", "discard", "append", "amend"}, p \in Proposals :
                        BeginRequest(c, op, p)
        BY <4>1 DEF BeginRequest, Seen
      <4>2. CASE \E c \in Requests : PlanImport(c) \/ Fail(c)
        BY <4>2 DEF PlanImport, Fail, Seen
      <4>3. CASE \/ \E d \in Dates : HandRecord(d)
                 \/ \E id \in DOMAIN ops : HandDelete(id)
                 \/ HandPay
        BY <4>3 DEF HandRecord, HandDelete, HandPay, Seen
      <4>4. QED
        BY <3>1, <4>1, <4>2, <4>3
    <3>2. QED
      BY <2>1, <3>1, ConfirmRefines, DiscardRefines, CreationUnseen, AppendRefines, AmendRefines
         DEF ProposalNext
  <2>2. CASE UNCHANGED proposalVars
    BY <2>2 DEF proposalVars, Seen
  <2>3. QED
    BY <2>1, <2>2
<1>2. QED
  BY <1>1 DEF Seen, Gate!resolutionVars

\* The proposals of the gate implement Resolution, for any proposals, requests and dates
\* and any number of edits and failures (createApplyAssistantProposal, resolveProposal,
\* appendDocument, buildReconstructionAmendment).
THEOREM ResolutionRefined ==
    ASSUME ProposalAssumption
    PROVE  ProposalSpec => ImplementsResolution
<1>1. ProposalInit => Gate!Init
  <2> SUFFICES ASSUME ProposalInit
               PROVE  Gate!Init
    OBVIOUS
  <2>1. ProposalInv
    BY ProposalInitInv
  <2>2. Restrict(status, Gated) = [p \in Gated |-> IF p \in Drafted THEN "draft" ELSE "none"]
    BY DEF ProposalInit, Restrict, Gated
  <2>3. Restrict(docs, Gated) \in [Gated -> Rows]
    BY <2>1, Typed DEF Restrict, Gated
  <2>4. Restrict(source, Gated) = [p \in Gated |-> p] /\ Restrict(written, Gated) = [p \in Gated |-> 0]
    BY DEF ProposalInit, Restrict, Gated
  <2>5. QED
    BY <2>2, <2>3, <2>4 DEF Gate!Init
<1>2. QED
  BY <1>1, StepRefines, ProposalInvariant, PTL DEF ProposalSpec, ImplementsResolution, Gate!Spec

SettledInv ==
    /\ Restrict(status, Gated) \in [Gated -> {"none", "draft", "applied", "discarded"}]
    /\ Restrict(written, Gated) \in [Gated -> Nat]
    /\ Gate!WrittenOnce

\* Only an open proposal is settled, and only its application writes.
LEMMA SettledStep ==
    ASSUME SettledInv, [Gate!Next]_(Gate!resolutionVars)
    PROVE  /\ SettledInv'
           /\ \A p \in Gated :
                 Restrict(status, Gated)[p] \in {"applied", "discarded"} =>
                     Restrict(status, Gated)'[p] = Restrict(status, Gated)[p]
<1>1. ASSUME NEW p \in Gated, Gate!Apply(p) \/ Gate!Discard(p)
      PROVE  SettledInv' /\ \A q \in Gated :
                 Restrict(status, Gated)[q] \in {"applied", "discarded"} =>
                     Restrict(status, Gated)'[q] = Restrict(status, Gated)[q]
  BY <1>1 DEF Gate!Apply, Gate!Discard, SettledInv, Gate!WrittenOnce
<1>2. ASSUME NEW p \in Gated, NEW rows \in Rows, Gate!Append(p, rows)
      PROVE  SettledInv' /\ Restrict(status, Gated)' = Restrict(status, Gated)
  BY <1>2 DEF Gate!Append, SettledInv, Gate!WrittenOnce
<1>2a. ASSUME NEW new \in Gated, Gate!Draft(new)
      PROVE  SettledInv' /\ \A q \in Gated :
                 Restrict(status, Gated)[q] \in {"applied", "discarded"} =>
                     Restrict(status, Gated)'[q] = Restrict(status, Gated)[q]
  BY <1>2a DEF Gate!Draft, SettledInv, Gate!WrittenOnce
<1>3. ASSUME NEW p \in Gated, NEW new \in Gated, Gate!Amend(p, new)
      PROVE  SettledInv' /\ \A q \in Gated :
                 Restrict(status, Gated)[q] \in {"applied", "discarded"} =>
                     Restrict(status, Gated)'[q] = Restrict(status, Gated)[q]
  BY <1>3 DEF Gate!Amend, SettledInv, Gate!WrittenOnce
<1>4. CASE UNCHANGED Gate!resolutionVars
  BY <1>4 DEF Gate!resolutionVars, SettledInv, Gate!WrittenOnce
<1>5. QED
  BY <1>1, <1>2, <1>2a, <1>3, <1>4 DEF Gate!Next

\* The promises of Resolution alone: a proposal is settled for good, written once if it was
\* applied and never otherwise.
THEOREM ResolvedOnce == Gate!Spec => []Gate!WrittenOnce /\ Gate!SettledForGood
<1>1. Gate!Init => SettledInv
  BY DEF Gate!Init, SettledInv, Gate!WrittenOnce
<1>2. SettledInv /\ [Gate!Next]_(Gate!resolutionVars) =>
          /\ SettledInv'
          /\ [\A p \in Gated : Restrict(status, Gated)[p] \in {"applied", "discarded"} =>
                  Restrict(status, Gated)'[p] = Restrict(status, Gated)[p]]_(Restrict(status, Gated))
  BY SettledStep
<1>3. SettledInv => Gate!WrittenOnce
  BY DEF SettledInv
<1>4. QED
  BY <1>1, <1>2, <1>3, PTL DEF Gate!Spec, Gate!SettledForGood

=============================================================================
