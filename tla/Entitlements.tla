---------------------------- MODULE Entitlements ----------------------------
(***************************************************************************)
(* The entitlement row of one workspace and everything that writes it: the *)
(* trial of a fresh provision, the admin's grants, revocations and         *)
(* re-syncs, and the events of the merchant of record, which are recorded  *)
(* once by their id, transformed by applyBillingEvent over the row as read *)
(* and written back whole (packages/db/src/billing.ts, entitlements.ts,    *)
(* control-plane/entitlement-directory.ts, apps/web/app/billing).          *)
(*                                                                         *)
(* No transaction spans the statements, so two writers may interleave      *)
(* between the read and the write.  Of the merchant's references only      *)
(* their presence counts.  Instants are the numbers 0..Horizon.            *)
(***************************************************************************)
EXTENDS Integers, FiniteSets

CONSTANTS
    Events,         \* records: type, at (occurredAt), paid (paidUntil or Null)
    Deliveries,     \* webhook calls in flight, redeliveries among them
    Admin,          \* the maintainer's re-sync
    Horizon,        \* bound: the last instant
    TrialLength,    \* TRIAL_DURATION_DAYS
    Grace,          \* PAYMENT_GRACE_DAYS
    MaxEvents,      \* bound: different events in a behaviour
    MaxGrants,      \* bound: grants and revocations by the maintainer
    Null, NoEvent

Times == 0..Horizon
MaybeTime == Times \cup {Null}
EventTypes == {"activated", "canceled", "payment_failed", "lifetime"}

\* What the instances satisfy and the proofs assume.
EntitlementsAssumption ==
    /\ Horizon \in Nat /\ TrialLength \in Nat /\ Grace \in Nat /\ MaxEvents \in Nat
    /\ MaxGrants \in Nat
    /\ Null \notin Nat
    /\ Admin \notin Deliveries
    /\ Events \subseteq [type : EventTypes, at : Times, paid : MaybeTime]
    /\ \A e \in Events : e.type = "activated" => e.paid # Null
    /\ NoEvent \notin Events

VARIABLES
    now,
    row,        \* the workspace_entitlements row
    seen,       \* billing_webhook_events
    consumed,   \* user_trials of the owner
    starting,   \* the instant of a trial marked and not written yet
    writer,     \* where each webhook call and the re-sync are
    applied,    \* times each event's transition was written (history)
    owed,       \* how far the access granted reaches, by every write since the last
                \* one meant to shorten it (history)
    raced,      \* some write was computed over a row that had changed (history)
    grants      \* grants and revocations so far, for the bound

billingVars == <<now, row, seen, consumed, starting, writer, applied, owed, raced, grants>>

-----------------------------------------------------------------------------
(* Rows and plans.                                                         *)

Writers == Deliveries \cup {Admin}
Plans == {"free", "trial", "premium"}
Forever == Horizon + 1
NoTime == -1

EntitlementRow == [exists : BOOLEAN, plan : Plans, until : MaybeTime, trialEnds : MaybeTime,
                   billed : BOOLEAN]
NoRow == [exists |-> FALSE, plan |-> "free", until |-> Null, trialEnds |-> Null,
          billed |-> FALSE]

Writer == [pc : {"idle", "read", "apply"},
           event : Events \cup {NoEvent}, cur : EntitlementRow]
Waiting == [pc |-> "idle", event |-> NoEvent, cur |-> NoRow]

Later(a, b) == IF a # Null /\ a > b THEN a ELSE b
Cap(t) == IF t > Horizon THEN Horizon ELSE t

\* isIndefinitePremium.
Indefinite(r) == r.plan = "premium" /\ r.until = Null

\* deriveEffectivePlan, on a missing row too.
EffectivePlan(r, t) ==
    IF Indefinite(r) \/ (r.until # Null /\ r.until > t) THEN "premium"
    ELSE IF r.trialEnds # Null /\ r.trialEnds > t THEN "trial"
    ELSE "free"

\* How far premium access reaches.
Reach(r) == IF Indefinite(r) THEN Forever ELSE IF r.until = Null THEN NoTime ELSE r.until

BillingInit ==
    /\ now = 0
    /\ row = NoRow
    /\ seen = {}
    /\ starting = Null
    /\ consumed \in BOOLEAN     \* an identity may come back after its trial
    /\ writer = [w \in Writers |-> Waiting]
    /\ applied = [e \in Events |-> 0]
    /\ owed = NoTime
    /\ raced = FALSE
    /\ grants = 0

Tick ==
    /\ now < Horizon
    /\ now' = now + 1
    /\ UNCHANGED <<row, seen, consumed, starting, writer, applied, owed, raced, grants>>

-----------------------------------------------------------------------------
(* The trial and the maintainer.                                           *)

\* startTrialIfUnused: the marker of the identity arbitrates...
ConsumeTrial ==
    /\ ~consumed
    /\ consumed' = TRUE
    /\ starting' = now
    /\ UNCHANGED <<now, row, seen, writer, applied, owed, raced, grants>>

\* ...and then the upsert asserts plan 'trial' over whatever the row says by now.
StartTrial ==
    /\ starting # Null
    /\ starting' = Null
    /\ row' = [row EXCEPT !.exists = TRUE, !.plan = "trial",
                          !.trialEnds = Cap(starting + TrialLength)]
    /\ raced' = (raced \/ row.exists)
    /\ UNCHANGED <<now, seen, consumed, writer, applied, owed, grants>>

\* The login dies in between: the trial is used up.
LoseTrial ==
    /\ starting # Null
    /\ starting' = Null
    /\ UNCHANGED <<now, row, seen, consumed, writer, applied, owed, raced, grants>>

\* grantWorkspacePremium: dated (in the future) or indefinite.
GrantPremium(until) ==
    /\ grants < MaxGrants
    /\ until # Null => until > now
    /\ row' = [row EXCEPT !.exists = TRUE, !.plan = "premium", !.until = until]
    /\ owed' = IF until = Null THEN Forever ELSE until
    /\ grants' = grants + 1
    /\ UNCHANGED <<now, seen, consumed, starting, writer, applied, raced>>

\* revokeWorkspacePremium.
RevokePremium ==
    /\ grants < MaxGrants
    /\ row.exists
    /\ row' = [row EXCEPT !.plan = "free", !.until = Null]
    /\ owed' = NoTime
    /\ grants' = grants + 1
    /\ UNCHANGED <<now, seen, consumed, starting, writer, applied, raced>>

-----------------------------------------------------------------------------
(* applyBillingEvent.                                                      *)

\* Faulty variant: the paid window follows the event, forwards or backwards.
BilledUntil_LastWins(cur, e) ==
    IF e.type = "lifetime" \/ Indefinite(cur) THEN Null
    ELSE CASE e.type = "activated" -> e.paid
           [] e.type = "payment_failed" -> Cap(e.at + Grace)
           [] e.type = "canceled" -> IF e.paid # Null THEN e.paid
                                     ELSE IF cur.until # Null THEN cur.until ELSE e.at

\* The window a transition writes: an indefinite grant stays, the paid window only
\* advances, a cancellation states its end.
BilledUntil(cur, e) ==
    IF e.type = "lifetime" \/ Indefinite(cur) THEN Null
    ELSE CASE e.type = "activated" -> Later(cur.until, e.paid)
           [] e.type = "payment_failed" -> Later(cur.until, Cap(e.at + Grace))
           [] e.type = "canceled" -> IF e.paid # Null THEN e.paid
                                     ELSE IF cur.until # Null THEN cur.until ELSE e.at

\* What the event promises its customer: a cancellation may cut a dated window short.
Promised(e) ==
    CASE e.type = "lifetime" -> Forever
      [] e.type = "activated" -> e.paid
      [] e.type = "payment_failed" -> Cap(e.at + Grace)
      [] e.type = "canceled" -> IF e.paid = Null THEN NoTime ELSE e.paid

Owed(e) ==
    IF owed = Forever \/ (e.type = "canceled" /\ e.paid = Null) THEN owed
    ELSE IF e.type = "canceled" THEN Promised(e)
    ELSE IF Promised(e) > owed THEN Promised(e) ELSE owed

\* updateWorkspaceBilling: blind, over whatever the row has become.
Bill(w, e) ==
    /\ row' = [row EXCEPT !.exists = TRUE, !.plan = "premium", !.billed = TRUE,
                          !.until = BilledUntil(writer[w].cur, e)]
    /\ owed' = Owed(e)
    /\ raced' = (raced \/ row # writer[w].cur)
    /\ writer' = [writer EXCEPT ![w] = Waiting]
    /\ UNCHANGED <<now, seen, consumed, starting, grants>>

-----------------------------------------------------------------------------
(* processBillingEvent.                                                    *)

\* Faulty variant: a redelivery is looked up like the first.
RecordEvent_NoArbiter(d, e) ==
    /\ writer[d].pc = "idle"
    /\ e.at <= now
    /\ Cardinality(seen \cup {e}) <= MaxEvents
    /\ seen' = seen \cup {e}
    /\ writer' = [writer EXCEPT ![d].pc = "read", ![d].event = e]
    /\ UNCHANGED <<now, row, consumed, starting, applied, owed, raced, grants>>

\* The provider delivers an event: recordBillingWebhookEvent comes first.
RecordEvent(d, e) ==
    /\ writer[d].pc = "idle"
    /\ e.at <= now
    /\ Cardinality(seen \cup {e}) <= MaxEvents
    /\ seen' = seen \cup {e}
    /\ writer' = IF e \in seen THEN writer
                 ELSE [writer EXCEPT ![d].pc = "read", ![d].event = e]
    /\ UNCHANGED <<now, row, consumed, starting, applied, owed, raced, grants>>

\* getWorkspaceWithOwner, then the row: an unknown workspace is confirmed without
\* applying.
ReadRow(d) ==
    /\ d \in Deliveries
    /\ writer[d].pc = "read"
    /\ writer' = [writer EXCEPT ![d].pc = "apply", ![d].cur = row]
    /\ UNCHANGED <<now, row, seen, consumed, starting, applied, owed, raced, grants>>

UnknownWorkspace(d) ==
    /\ writer[d].pc = "read"
    /\ writer' = [writer EXCEPT ![d] = Waiting]
    /\ UNCHANGED <<now, row, seen, consumed, starting, applied, owed, raced, grants>>

ApplyEvent(d) ==
    LET e == writer[d].event IN
    /\ d \in Deliveries
    /\ writer[d].pc = "apply"
    /\ Bill(d, e)
    /\ applied' = [applied EXCEPT ![e] = @ + 1]

\* The call dies: the event stays recorded and its redelivery is answered as a duplicate.
KillDelivery(d) ==
    /\ d \in Deliveries
    /\ writer[d].pc # "idle"
    /\ writer' = [writer EXCEPT ![d] = Waiting]
    /\ UNCHANGED <<now, row, seen, consumed, starting, applied, owed, raced, grants>>

-----------------------------------------------------------------------------
(* resyncWorkspaceBillingAction.                                           *)

\* Only a row the merchant has billed; then the merchant is asked.
BeginResync ==
    /\ writer[Admin].pc = "idle"
    /\ row.billed
    /\ writer' = [writer EXCEPT ![Admin].pc = "apply", ![Admin].cur = row]
    /\ UNCHANGED <<now, row, seen, consumed, starting, applied, owed, raced, grants>>

\* billingStateFromSubscription: the merchant's answer as the event it stands for; an
\* active subscription with no period keeps the window stored.
Synthetic(status, paid) ==
    LET cur == writer[Admin].cur IN
    CASE status = "active" ->
            [type |-> "activated", at |-> now,
             paid |-> IF paid # Null THEN paid ELSE IF cur.until # Null THEN cur.until ELSE now]
      [] status = "canceled" -> [type |-> "canceled", at |-> now, paid |-> paid]
      [] status = "past_due" -> [type |-> "payment_failed", at |-> now, paid |-> Null]

EndResync(status, paid) ==
    /\ writer[Admin].pc = "apply"
    /\ Bill(Admin, Synthetic(status, paid))
    /\ UNCHANGED applied

-----------------------------------------------------------------------------

BillingNext ==
    \/ Tick
    \/ ConsumeTrial \/ StartTrial \/ LoseTrial
    \/ \E until \in MaybeTime : GrantPremium(until)
    \/ RevokePremium
    \/ \E d \in Deliveries :
          \/ \E e \in Events : RecordEvent(d, e)
          \/ ReadRow(d) \/ UnknownWorkspace(d) \/ ApplyEvent(d) \/ KillDelivery(d)
    \/ BeginResync
    \/ \E status \in {"active", "canceled", "past_due"}, paid \in MaybeTime :
          EndResync(status, paid)

BillingSpec == BillingInit /\ [][BillingNext]_billingVars

-----------------------------------------------------------------------------
(* Properties.                                                             *)

\* Type correctness; a row without existence is empty.
BillingTypeOK ==
    /\ now \in Times
    /\ row \in EntitlementRow
    /\ ~row.exists => row = NoRow
    /\ seen \subseteq Events
    /\ consumed \in BOOLEAN /\ starting \in MaybeTime
    /\ starting # Null => consumed
    /\ writer \in [Writers -> Writer]
    /\ applied \in [Events -> Nat]
    /\ owed \in Times \cup {NoTime, Forever}
    /\ raced \in BOOLEAN
    /\ grants \in 0..MaxGrants

\* However often and however concurrently the provider delivers an event, its transition
\* is written at most once, and only by the delivery that recorded it.
AppliedOnce ==
    \A e \in Events :
        /\ applied[e] <= 1
        /\ applied[e] = 1 => e \in seen
        /\ \A d \in Deliveries :
              (writer[d].pc \in {"read", "apply"} /\ writer[d].event = e) =>
                  /\ applied[e] = 0
                  /\ \A o \in Deliveries \ {d} :
                        ~(writer[o].pc \in {"read", "apply"} /\ writer[o].event = e)

\* As long as no write was computed over a row that had changed meanwhile, access reaches
\* as far as anything granted or paid since the last cancellation or revocation, whatever
\* the order events arrive in; an indefinite grant outlives every subscription event.
PaidAccessKept == ~raced => Reach(row) >= owed

\* What billing.ts says of stale, out-of-order and concurrent deliveries: the access
\* stored never goes back (applyBillingEvent's ordering guard).
AccessNeverRegresses == Reach(row) >= owed

=============================================================================
