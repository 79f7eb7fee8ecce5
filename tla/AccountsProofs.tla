--------------------------- MODULE AccountsProofs ---------------------------
(***************************************************************************)
(* Proofs about the control plane, the three components that keep an       *)
(* account: the entitlements, for every set of events and of deliveries,   *)
(* every horizon, trial, grace and number of grants; the trial e-mails,    *)
(* for every set of passes and every number of failures; provisioning, for *)
(* every set of sign-ins, of identities, of shares and of days, every cap  *)
(* and every number of outages.  None reads the state of another, and each *)
(* has its own invariant.                                                  *)
(*                                                                         *)
(* Entitlements: AppliedOnce is not inductive alone; that an event not     *)
(* recorded yet is in nobody's hands is what RecordedFirst adds.           *)
(*                                                                         *)
(* TrialEmails: ClaimHeldByOne is inductive on the types.                  *)
(* MailedAtMostOnce needs what Mailed says: an unclaimed mark, or a        *)
(* delivery that has not sent or saw its send refused, means nobody was    *)
(* mailed, unless the answer lied; and a welcome is only in hand while its *)
(* key is remembered.                                                      *)
(*                                                                         *)
(* Provisioning: the cap needs the count of a day to cover every sign-in   *)
(* that holds a place in it (PlacesCounted).  The rest needs what the      *)
(* program counter of a sign-in says of the grant its identity has and of  *)
(* what it made (SignInAgrees), and the like for an identity's trial, for  *)
(* a share and for a workspace.                                            *)
(*                                                                         *)
(* Last, that MCControlPlane, which puts them beside the queue, behaves    *)
(* as each of them; only there are its assumptions used.                   *)
(***************************************************************************)
EXTENDS MCControlPlane, JobQueueProofs, FiniteSetTheorems, TLAPS

(***************************************************************************)
(* Entitlements                                                            *)
(***************************************************************************)

\* A delivery works only on an event that is recorded.
RecordedFirst ==
    \A d \in Deliveries : writer[d].pc # "idle" => writer[d].event \in Events \cap seen

BillingInv == BillingTypeOK /\ AppliedOnce /\ RecordedFirst

-----------------------------------------------------------------------------
(* The rows a transition writes.                                           *)

LEMMA CapInTimes ==
    ASSUME EntitlementsAssumption,
           NEW t \in Nat
    PROVE  Cap(t) \in Times
BY DEF EntitlementsAssumption, Cap, Times

LEMMA LaterInTimes ==
    ASSUME EntitlementsAssumption,
           NEW a \in MaybeTime, NEW b \in Times
    PROVE  /\ Later(a, b) \in Times
           /\ Later(a, b) >= b
           /\ a # Null => Later(a, b) >= a
BY DEF EntitlementsAssumption, Later, Times, MaybeTime

\* The events of the merchant and the synthetic ones of a re-sync.
AnyEvent ==
    {e \in [type : EventTypes, at : Times, paid : MaybeTime] :
        e.type = "activated" => e.paid # Null}

LEMMA SyntheticIsEvent ==
    ASSUME EntitlementsAssumption,
           BillingTypeOK, NEW status \in {"active", "canceled", "past_due"}, NEW paid \in MaybeTime
    PROVE  Synthetic(status, paid) \in AnyEvent /\ Synthetic(status, paid).type # "lifetime"
<1>1. writer[Admin].cur.until \in MaybeTime
  BY DEF BillingTypeOK, Writers, Writer, EntitlementRow
<1>2. now \in Times /\ Null \in MaybeTime /\ now # Null
  BY DEF EntitlementsAssumption, BillingTypeOK, Times, MaybeTime
<1>3. CASE status = "active"
  BY <1>1, <1>2, <1>3 DEF Synthetic, AnyEvent, EventTypes, MaybeTime
<1>4. CASE status = "canceled"
  BY <1>2, <1>4 DEF Synthetic, AnyEvent, EventTypes
<1>5. CASE status = "past_due"
  BY <1>2, <1>5 DEF Synthetic, AnyEvent, EventTypes
<1>6. QED
  BY <1>3, <1>4, <1>5

LEMMA BilledUntilTyped ==
    ASSUME EntitlementsAssumption,
           NEW cur \in EntitlementRow, NEW e \in AnyEvent
    PROVE  BilledUntil(cur, e) \in MaybeTime
<1>1. /\ cur.until \in MaybeTime /\ Null \in MaybeTime /\ Times \subseteq MaybeTime
      /\ e.at \in Times /\ e.paid \in MaybeTime /\ e.type \in EventTypes
      /\ e.type = "activated" => e.paid \in Times
  BY DEF EntitlementRow, AnyEvent, MaybeTime
<1>2. Cap(e.at + Grace) \in Times
  BY <1>1, CapInTimes DEF EntitlementsAssumption, Times
<1>3. CASE e.type = "lifetime" \/ Indefinite(cur)
  BY <1>1, <1>3 DEF BilledUntil
<1>4. CASE e.type = "activated" /\ ~Indefinite(cur)
  BY <1>1, <1>4, LaterInTimes DEF BilledUntil
<1>5. CASE e.type = "payment_failed" /\ ~Indefinite(cur)
  BY <1>1, <1>2, <1>5, LaterInTimes DEF BilledUntil
<1>6. CASE e.type = "canceled" /\ ~Indefinite(cur)
  BY <1>1, <1>6 DEF BilledUntil
<1>7. QED
  BY <1>1, <1>3, <1>4, <1>5, <1>6 DEF EventTypes

\* Owed stays an instant, or nothing, or for ever.
LEMMA OwedTyped ==
    ASSUME EntitlementsAssumption,
           owed \in Times \cup {NoTime, Forever}, NEW e \in AnyEvent
    PROVE  Owed(e) \in Times \cup {NoTime, Forever}
<1>1. /\ e.at \in Times /\ e.paid \in MaybeTime /\ e.type \in EventTypes
      /\ e.type = "activated" => e.paid \in Times
  BY DEF AnyEvent, MaybeTime
<1>2. Cap(e.at + Grace) \in Times
  BY <1>1, CapInTimes DEF EntitlementsAssumption, Times
<1>3. Promised(e) \in Times \cup {NoTime, Forever}
  BY <1>1, <1>2 DEF Promised, MaybeTime, EventTypes
<1>4. QED
  BY <1>3 DEF Owed

-----------------------------------------------------------------------------
(* The invariant, action by action.                                        *)

LEMMA BillingInitInv ==
    ASSUME EntitlementsAssumption
    PROVE  BillingInit => BillingInv
<1> SUFFICES ASSUME BillingInit PROVE BillingInv
  OBVIOUS
<1>1. NoRow \in EntitlementRow /\ Waiting \in Writer
  BY DEF EntitlementRow, NoRow, Plans, Writer, Waiting, MaybeTime
<1>2. writer \in [Writers -> Writer] /\ \A d \in Deliveries : writer[d].pc = "idle"
  BY <1>1 DEF BillingInit, Writers, Waiting
<1>3. consumed \in BOOLEAN /\ raced \in BOOLEAN
  BY Zenon DEF BillingInit
<1>4. now \in Times /\ applied \in [Events -> Nat] /\ grants \in 0..MaxGrants
  BY DEF EntitlementsAssumption, BillingInit, Times
<1>5. BillingTypeOK
  BY <1>1, <1>2, <1>3, <1>4 DEF BillingInit, BillingTypeOK, MaybeTime
<1>6. QED
  BY <1>2, <1>5 DEF BillingInit, BillingInv, AppliedOnce, RecordedFirst

\* The trial, the maintainer and the clock touch neither events nor deliveries.
LEMMA RowStepInv ==
    ASSUME EntitlementsAssumption,
           BillingInv,
           \/ Tick \/ ConsumeTrial \/ StartTrial \/ LoseTrial \/ RevokePremium
           \/ \E until \in MaybeTime : GrantPremium(until)
    PROVE  BillingInv'
<1>1. UNCHANGED <<seen, writer, applied>>
  BY DEF Tick, ConsumeTrial, StartTrial, LoseTrial, RevokePremium, GrantPremium
<1>2. AppliedOnce' /\ RecordedFirst'
  BY <1>1 DEF BillingInv, AppliedOnce, RecordedFirst
<1>3. BillingTypeOK'
  <2>1. CASE Tick
    BY <2>1 DEF EntitlementsAssumption, BillingInv, BillingTypeOK, Tick, Times
  <2>2. CASE ConsumeTrial
    BY <2>2 DEF BillingInv, BillingTypeOK, ConsumeTrial, MaybeTime
  <2>3. CASE StartTrial
    <3>1. Cap(starting + TrialLength) \in Times
      BY <2>3, CapInTimes
         DEF EntitlementsAssumption, BillingInv, BillingTypeOK, StartTrial, MaybeTime, Times
    <3>2. row' \in EntitlementRow /\ row'.exists
      BY <2>3, <3>1 DEF BillingInv, BillingTypeOK, StartTrial, EntitlementRow, Plans, MaybeTime
    <3>3. QED
      BY <2>3, <3>2 DEF BillingInv, BillingTypeOK, StartTrial, MaybeTime
  <2>4. CASE LoseTrial
    BY <2>4 DEF BillingInv, BillingTypeOK, LoseTrial, MaybeTime
  <2>5. CASE RevokePremium
    <3>1. row' \in EntitlementRow /\ row'.exists
      BY <2>5 DEF BillingInv, BillingTypeOK, RevokePremium, EntitlementRow, Plans, MaybeTime
    <3>2. QED
      BY <2>5, <3>1 DEF EntitlementsAssumption, BillingInv, BillingTypeOK, RevokePremium
  <2>6. ASSUME NEW until \in MaybeTime, GrantPremium(until)
        PROVE  BillingTypeOK'
    <3>1. row' \in EntitlementRow /\ row'.exists
      BY <2>6 DEF BillingInv, BillingTypeOK, GrantPremium, EntitlementRow, Plans
    <3>2. owed' \in Times \cup {NoTime, Forever}
      BY <2>6 DEF GrantPremium, MaybeTime
    <3>3. grants' \in 0..MaxGrants
      <4>1. grants < MaxGrants /\ grants' = grants + 1
        BY <2>6, Zenon DEF GrantPremium
      <4>2. QED
        BY <4>1 DEF EntitlementsAssumption, BillingInv, BillingTypeOK
    <3>4. UNCHANGED <<now, seen, consumed, starting, writer, applied, raced>>
      BY <2>6 DEF GrantPremium
    <3>5. QED
      BY <3>1, <3>2, <3>3, <3>4 DEF BillingInv, BillingTypeOK
  <2>7. QED
    BY <2>1, <2>2, <2>3, <2>4, <2>5, <2>6
<1>4. QED
  BY <1>2, <1>3 DEF BillingInv

\* A recorded event has one delivery: its redeliveries leave at once.
LEMMA RecordEventInv ==
    ASSUME EntitlementsAssumption,
           BillingInv, NEW d \in Deliveries, NEW e \in Events, RecordEvent(d, e)
    PROVE  BillingInv'
<1>1. writer' \in [Writers -> Writer]
  BY ZenonT(60) DEF BillingInv, BillingTypeOK, RecordEvent, Writers, Writer
<1>2. BillingTypeOK'
  BY <1>1 DEF BillingInv, BillingTypeOK, RecordEvent
<1>3. /\ \A o \in Deliveries : o # d => writer'[o] = writer[o]
      /\ writer'[d].pc # "idle" => e \notin seen /\ writer'[d].event = e
  BY DEF BillingInv, BillingTypeOK, RecordEvent, Writers, Writer
<1>4. seen' = seen \cup {e} /\ applied' = applied
  BY Zenon DEF RecordEvent
<1>5. RecordedFirst'
  BY <1>3, <1>4 DEF BillingInv, RecordedFirst
<1>6. AppliedOnce'
  BY <1>3, <1>4 DEF BillingInv, BillingTypeOK, AppliedOnce, RecordedFirst
<1>7. QED
  BY <1>2, <1>5, <1>6 DEF BillingInv

\* Reading, leaving and dying hand an event to nobody else.
LEMMA DeliveryStepInv ==
    ASSUME EntitlementsAssumption,
           BillingInv, NEW d \in Deliveries, ReadRow(d) \/ UnknownWorkspace(d) \/ KillDelivery(d)
    PROVE  BillingInv'
<1>1. writer' \in [Writers -> Writer]
  <2>1. Waiting \in Writer
    BY DEF Writer, Waiting, EntitlementRow, NoRow, Plans, MaybeTime
  <2>2. CASE ReadRow(d)
    BY <2>2 DEF BillingInv, BillingTypeOK, ReadRow, Writers, Writer
  <2>3. CASE UnknownWorkspace(d) \/ KillDelivery(d)
    BY <2>1, <2>3 DEF BillingInv, BillingTypeOK, UnknownWorkspace, KillDelivery, Writers
  <2>4. QED
    BY <2>2, <2>3
<1>2. BillingTypeOK'
  BY <1>1 DEF BillingInv, BillingTypeOK, ReadRow, UnknownWorkspace, KillDelivery
<1>3. /\ \A o \in Deliveries : o # d => writer'[o] = writer[o]
      /\ writer'[d].pc # "idle" => writer[d].pc # "idle" /\ writer'[d].event = writer[d].event
  BY DEF BillingInv, BillingTypeOK, ReadRow, UnknownWorkspace, KillDelivery, Writers, Writer, Waiting
<1>4. UNCHANGED <<seen, applied>>
  BY DEF ReadRow, UnknownWorkspace, KillDelivery
<1>5. RecordedFirst'
  BY <1>3, <1>4 DEF BillingInv, RecordedFirst
<1>6. AppliedOnce'
  <2>1. \A o \in Deliveries : writer'[o].pc \in {"read", "apply"} =>
            writer[o].pc \in {"read", "apply"} /\ writer'[o].event = writer[o].event
    BY <1>3 DEF BillingInv, BillingTypeOK, Writers, Writer
  <2>2. QED
    BY <2>1, <1>4 DEF BillingInv, AppliedOnce
<1>7. QED
  BY <1>2, <1>5, <1>6 DEF BillingInv

\* A write of billing keeps the types of the row and of what is owed.
LEMMA BillTyped ==
    ASSUME EntitlementsAssumption,
           BillingInv, NEW w \in Writers, NEW e \in AnyEvent, Bill(w, e)
    PROVE  /\ row' \in EntitlementRow /\ row'.exists
           /\ owed' \in Times \cup {NoTime, Forever}
           /\ writer' = [writer EXCEPT ![w] = Waiting]
           /\ writer' \in [Writers -> Writer]
<1>1. writer[w].cur \in EntitlementRow
  BY DEF BillingInv, BillingTypeOK, Writer
<1>2. BilledUntil(writer[w].cur, e) \in MaybeTime
  BY <1>1, BilledUntilTyped
<1>3. row' \in EntitlementRow /\ row'.exists
  BY <1>2 DEF BillingInv, BillingTypeOK, Bill, EntitlementRow, Plans
<1>4. owed' \in Times \cup {NoTime, Forever}
  BY OwedTyped DEF BillingInv, BillingTypeOK, Bill
<1>5. Waiting \in Writer
  BY DEF EntitlementsAssumption, Writer, Waiting, EntitlementRow, NoRow, Plans, MaybeTime
<1>6. QED
  BY <1>3, <1>4, <1>5 DEF BillingInv, BillingTypeOK, Bill

LEMMA ApplyEventInv ==
    ASSUME EntitlementsAssumption,
           BillingInv, NEW d \in Deliveries, ApplyEvent(d)
    PROVE  BillingInv'
<1> DEFINE e == writer[d].event
<1>1. e \in Events \cap seen /\ e \in AnyEvent /\ d \in Writers /\ Bill(d, e)
  BY DEF EntitlementsAssumption, BillingInv, RecordedFirst, ApplyEvent, AnyEvent, Writers
<1>2. /\ row' \in EntitlementRow /\ row'.exists /\ owed' \in Times \cup {NoTime, Forever}
      /\ writer' = [writer EXCEPT ![d] = Waiting] /\ writer' \in [Writers -> Writer]
  BY <1>1, BillTyped
<1>3. /\ applied[e] = 0
      /\ \A o \in Deliveries \ {d} : ~(writer[o].pc \in {"read", "apply"} /\ writer[o].event = e)
  BY <1>1 DEF BillingInv, AppliedOnce, ApplyEvent
<1>4. /\ applied' = [applied EXCEPT ![e] = 1]
      /\ UNCHANGED <<now, seen, consumed, starting, grants>>
  BY <1>3 DEF BillingInv, BillingTypeOK, ApplyEvent, Bill
<1>5. raced' \in BOOLEAN
  BY <1>1 DEF BillingInv, BillingTypeOK, Bill
<1>6. BillingTypeOK'
  BY <1>1, <1>2, <1>4, <1>5 DEF BillingInv, BillingTypeOK
<1>7. /\ \A o \in Deliveries : o # d => writer'[o] = writer[o]
      /\ writer'[d].pc = "idle"
  BY <1>2 DEF BillingInv, BillingTypeOK, Writers, Waiting
<1>8. RecordedFirst'
  BY <1>4, <1>7 DEF BillingInv, RecordedFirst
<1>9. AppliedOnce'
  BY <1>1, <1>3, <1>4, <1>7 DEF BillingInv, BillingTypeOK, AppliedOnce
<1>10. QED
  BY <1>6, <1>8, <1>9 DEF BillingInv

\* The re-sync has no event to apply twice.
LEMMA ResyncInv ==
    ASSUME EntitlementsAssumption,
           BillingInv,
           \/ BeginResync
           \/ \E status \in {"active", "canceled", "past_due"}, paid \in MaybeTime :
                 EndResync(status, paid)
    PROVE  BillingInv'
<1>1. CASE BeginResync
  <2>1. writer' \in [Writers -> Writer] /\ \A o \in Deliveries : writer'[o] = writer[o]
    BY <1>1, ZenonT(60) DEF EntitlementsAssumption, BillingInv, BillingTypeOK, BeginResync, Writers, Writer
  <2>2. UNCHANGED <<now, row, seen, consumed, starting, applied, owed, raced, grants>>
    BY <1>1 DEF BeginResync
  <2>3. BillingTypeOK'
    BY <2>1, <2>2 DEF BillingInv, BillingTypeOK
  <2>4. AppliedOnce' /\ RecordedFirst'
    BY <2>1, <2>2 DEF BillingInv, AppliedOnce, RecordedFirst
  <2>5. QED
    BY <2>3, <2>4 DEF BillingInv
<1>2. ASSUME NEW status \in {"active", "canceled", "past_due"}, NEW paid \in MaybeTime,
             EndResync(status, paid)
      PROVE  BillingInv'
  <2> DEFINE e == Synthetic(status, paid)
  <2>1. e \in AnyEvent /\ Admin \in Writers /\ Bill(Admin, e)
    BY <1>2, SyntheticIsEvent DEF BillingInv, EndResync, Writers
  <2>2. /\ row' \in EntitlementRow /\ row'.exists /\ owed' \in Times \cup {NoTime, Forever}
        /\ writer' = [writer EXCEPT ![Admin] = Waiting] /\ writer' \in [Writers -> Writer]
    BY <2>1, BillTyped
  <2>3. /\ UNCHANGED <<now, seen, consumed, starting, grants, applied>>
        /\ raced' \in BOOLEAN
    BY <1>2, <2>1 DEF BillingInv, BillingTypeOK, EndResync, Bill
  <2>4. BillingTypeOK'
    BY <2>2, <2>3 DEF BillingInv, BillingTypeOK
  <2>5. \A o \in Deliveries : writer'[o] = writer[o]
    BY <2>2 DEF EntitlementsAssumption, BillingInv, BillingTypeOK, Writers
  <2>6. QED
    BY <2>3, <2>4, <2>5 DEF BillingInv, AppliedOnce, RecordedFirst
<1>3. QED
  BY <1>1, <1>2

LEMMA BillingStepInv ==
    ASSUME EntitlementsAssumption
    PROVE  BillingInv /\ [BillingNext]_billingVars => BillingInv'
<1> SUFFICES ASSUME BillingInv, [BillingNext]_billingVars PROVE BillingInv'
  OBVIOUS
<1>1. CASE BillingNext
  BY <1>1, RowStepInv, RecordEventInv, DeliveryStepInv, ApplyEventInv, ResyncInv DEF BillingNext
<1>2. CASE UNCHANGED billingVars
  BY <1>2 DEF BillingInv, BillingTypeOK, AppliedOnce, RecordedFirst, billingVars
<1>3. QED
  BY <1>1, <1>2

LEMMA BillingInvariant ==
    ASSUME EntitlementsAssumption
    PROVE  BillingSpec => []BillingInv
<1>1. QED
  BY BillingInitInv, BillingStepInv, PTL DEF BillingSpec

-----------------------------------------------------------------------------
(* What was granted or paid for.                                           *)

\* Reach and Owed are integers, with NoTime below every instant and Forever above.
LEMMA ReachTyped ==
    ASSUME EntitlementsAssumption,
           NEW r \in EntitlementRow
    PROVE  Reach(r) \in Times \cup {NoTime, Forever}
BY DEF Reach, EntitlementRow, MaybeTime

LEMMA TimesBetween ==
    ASSUME EntitlementsAssumption
    PROVE  /\ Times \cup {NoTime, Forever} \subseteq Int
           /\ \A t \in Times \cup {NoTime, Forever} : NoTime <= t /\ t <= Forever
           /\ \A t \in Times : NoTime < t /\ t < Forever
           /\ NoTime < Forever
BY DEF EntitlementsAssumption, Times, NoTime, Forever

\* A transition over the row it read keeps what was owed and adds what it promises.
LEMMA BillKeepsPaid ==
    ASSUME EntitlementsAssumption,
           BillingInv, NEW e \in AnyEvent, Reach(row) >= owed,
           row' = [row EXCEPT !.exists = TRUE, !.plan = "premium", !.billed = TRUE,
                              !.until = BilledUntil(row, e)]
    PROVE  Reach(row') >= Owed(e)
<1> DEFINE until == BilledUntil(row, e)
<1>1. row \in EntitlementRow /\ owed \in Times \cup {NoTime, Forever}
  BY DEF BillingInv, BillingTypeOK
<1>2. until \in MaybeTime
  BY <1>1, BilledUntilTyped
<1>3. Reach(row') = IF until = Null THEN Forever ELSE until
  BY <1>1, <1>2 DEF Reach, Indefinite, EntitlementRow
<1>4. Owed(e) \in Times \cup {NoTime, Forever}
  BY <1>1, OwedTyped
<1>5. CASE until = Null
  BY <1>3, <1>4, <1>5, TimesBetween
<1>6. CASE until # Null
  <2>1. ~Indefinite(row) /\ e.type # "lifetime"
    BY <1>6 DEF BilledUntil
  <2>2. /\ e.at \in Times /\ e.paid \in MaybeTime /\ e.type \in EventTypes
        /\ e.type = "activated" => e.paid \in Times
        /\ Cap(e.at + Grace) \in Times
    BY CapInTimes DEF EntitlementsAssumption, AnyEvent, MaybeTime, Times
  <2>3. row.until \in MaybeTime
    BY <1>1 DEF EntitlementRow
  <2>4. owed # Forever /\ (row.until # Null => row.until >= owed)
        /\ (row.until = Null => owed = NoTime)
    <3>1. Reach(row) = IF row.until = Null THEN NoTime ELSE row.until
      BY <2>1 DEF Reach
    <3>2. CASE row.until = Null
      BY <1>1, <3>1, <3>2, TimesBetween
    <3>3. CASE row.until # Null
      <4>1. row.until \in Times
        BY <2>3, <3>3 DEF MaybeTime
      <4>2. QED
        BY <1>1, <3>1, <3>3, <4>1, TimesBetween
    <3>4. QED
      BY <3>2, <3>3
  <2>5. \A t \in Times :
           /\ Later(row.until, t) \in Times
           /\ Later(row.until, t) >= t
           /\ Later(row.until, t) >= owed
    <3>1. TAKE t \in Times
    <3>2. CASE row.until = Null
      BY <1>1, <2>3, <2>4, <3>2, LaterInTimes, TimesBetween
    <3>3. CASE row.until # Null
      <4>1. /\ Later(row.until, t) \in Times
            /\ Later(row.until, t) >= t
            /\ Later(row.until, t) >= row.until
        BY <2>3, <3>3, LaterInTimes
      <4>2. row.until \in Times
        BY <2>3, <3>3 DEF MaybeTime
      <4>3. QED
        BY <1>1, <2>4, <3>3, <4>1, <4>2, TimesBetween
    <3>4. QED
      BY <3>2, <3>3
  <2>6. CASE e.type = "activated"
    <3>1. until = Later(row.until, e.paid) /\ Owed(e) \in {e.paid, owed}
      BY <2>1, <2>6 DEF BilledUntil, Owed, Promised
    <3>2. QED
      BY <1>3, <1>6, <2>2, <2>5, <2>6, <3>1
  <2>7. CASE e.type = "payment_failed"
    <3>1. until = Later(row.until, Cap(e.at + Grace)) /\ Owed(e) \in {Cap(e.at + Grace), owed}
      BY <2>1, <2>7 DEF BilledUntil, Owed, Promised
    <3>2. QED
      BY <1>3, <1>6, <2>2, <2>5, <3>1
  <2>8. CASE e.type = "canceled" /\ e.paid # Null
    <3>1. until = e.paid /\ Owed(e) = e.paid /\ e.paid \in Times
      BY <2>1, <2>2, <2>4, <2>8 DEF BilledUntil, Owed, Promised, MaybeTime
    <3>2. QED
      BY <1>3, <1>6, <3>1, TimesBetween
  <2>9. CASE e.type = "canceled" /\ e.paid = Null
    <3>1. until = (IF row.until # Null THEN row.until ELSE e.at) /\ Owed(e) = owed
      BY <2>1, <2>9 DEF BilledUntil, Owed
    <3>2. QED
      BY <1>3, <1>6, <2>2, <2>4, <3>1, TimesBetween
  <2>10. QED
    BY <2>1, <2>2, <2>6, <2>7, <2>8, <2>9 DEF EventTypes
<1>7. QED
  BY <1>5, <1>6

\* A write over the row it read, that is, one after which nothing raced.
LEMMA BillPaid ==
    ASSUME EntitlementsAssumption,
           BillingInv, PaidAccessKept, NEW w \in Writers, NEW e \in AnyEvent, Bill(w, e)
    PROVE  PaidAccessKept'
<1> SUFFICES ASSUME ~raced' PROVE Reach(row') >= owed'
  BY DEF PaidAccessKept
<1>1. ~raced /\ row = writer[w].cur
  BY Zenon DEF Bill
<1>2. /\ row' = [row EXCEPT !.exists = TRUE, !.plan = "premium", !.billed = TRUE,
                            !.until = BilledUntil(row, e)]
      /\ owed' = Owed(e)
  BY <1>1 DEF Bill
<1>3. QED
  BY <1>1, <1>2, BillKeepsPaid DEF PaidAccessKept

LEMMA PaidStep ==
    ASSUME EntitlementsAssumption,
           BillingInv, PaidAccessKept, [BillingNext]_billingVars
    PROVE  PaidAccessKept'
<1>1. ASSUME UNCHANGED <<row, owed, raced>>
      PROVE  PaidAccessKept'
  BY <1>1 DEF PaidAccessKept
<1>2. CASE Tick \/ ConsumeTrial \/ LoseTrial
  BY <1>1, <1>2 DEF Tick, ConsumeTrial, LoseTrial
<1>3. CASE StartTrial
  <2> SUFFICES ASSUME ~raced' PROVE Reach(row') >= owed'
    BY DEF PaidAccessKept
  <2>1. ~raced /\ ~row.exists
    BY <1>3, Zenon DEF StartTrial
  <2>2. row = NoRow
    BY <2>1 DEF BillingInv, BillingTypeOK
  <2>3. row' = [NoRow EXCEPT !.exists = TRUE, !.plan = "trial",
                             !.trialEnds = Cap(starting + TrialLength)]
        /\ owed' = owed
    BY <1>3, <2>2 DEF StartTrial
  <2>4. Reach(NoRow) = NoTime /\ Reach(row') = NoTime
    BY <2>3 DEF Reach, Indefinite, NoRow
  <2>5. QED
    BY <2>1, <2>2, <2>3, <2>4 DEF PaidAccessKept
<1>4. CASE RevokePremium
  <2>1. row' = [row EXCEPT !.plan = "free", !.until = Null] /\ owed' = NoTime
    BY <1>4 DEF RevokePremium
  <2>2. Reach(row') = NoTime
    BY <2>1 DEF BillingInv, BillingTypeOK, Reach, Indefinite, EntitlementRow
  <2>3. QED
    BY <2>1, <2>2, TimesBetween DEF PaidAccessKept
<1>5. ASSUME NEW until \in MaybeTime, GrantPremium(until)
      PROVE  PaidAccessKept'
  <2>1. /\ row' = [row EXCEPT !.exists = TRUE, !.plan = "premium", !.until = until]
        /\ owed' = IF until = Null THEN Forever ELSE until
    BY <1>5, Zenon DEF GrantPremium
  <2>2. Reach(row') = owed'
    BY <2>1 DEF BillingInv, BillingTypeOK, Reach, Indefinite, EntitlementRow
  <2>3. owed' \in Int
    BY <2>1, TimesBetween DEF MaybeTime
  <2>4. QED
    BY <2>2, <2>3 DEF PaidAccessKept
<1>6. ASSUME NEW d \in Deliveries, NEW e \in Events, RecordEvent(d, e)
      PROVE  PaidAccessKept'
  BY <1>1, <1>6, Zenon DEF RecordEvent
<1>7. ASSUME NEW d \in Deliveries, ReadRow(d) \/ UnknownWorkspace(d) \/ KillDelivery(d)
      PROVE  PaidAccessKept'
  BY <1>1, <1>7 DEF ReadRow, UnknownWorkspace, KillDelivery
<1>8. ASSUME NEW d \in Deliveries, ApplyEvent(d)
      PROVE  PaidAccessKept'
  <2>1. writer[d].event \in AnyEvent /\ d \in Writers /\ Bill(d, writer[d].event)
    BY <1>8 DEF EntitlementsAssumption, BillingInv, RecordedFirst, ApplyEvent, AnyEvent, Writers
  <2>2. QED
    BY <2>1, BillPaid
<1>9. CASE BeginResync
  BY <1>1, <1>9 DEF BeginResync
<1>10. ASSUME NEW status \in {"active", "canceled", "past_due"}, NEW paid \in MaybeTime,
              EndResync(status, paid)
       PROVE  PaidAccessKept'
  BY <1>10, SyntheticIsEvent, BillPaid DEF BillingInv, EndResync, Writers
<1>11. CASE UNCHANGED billingVars
  BY <1>1, <1>11 DEF billingVars
<1>12. QED
  BY <1>2, <1>3, <1>4, <1>5, <1>6, <1>7, <1>8, <1>9, <1>10, <1>11 DEF BillingNext

LEMMA PaidInit ==
    ASSUME EntitlementsAssumption
    PROVE  BillingInit => PaidAccessKept
BY TimesBetween DEF BillingInit, PaidAccessKept, Reach, Indefinite, NoRow, NoTime

-----------------------------------------------------------------------------
(* Theorems.                                                               *)

\* The entitlement row, the recorded events and every writer keep their types.
THEOREM BillingTypeCorrect ==
    ASSUME EntitlementsAssumption
    PROVE  BillingSpec => []BillingTypeOK
BY BillingInvariant, PTL DEF BillingInv

\* An event of the merchant is applied at most once, whatever the number of deliveries
\* and wherever they die (processBillingEvent, recordBillingWebhookEvent).
THEOREM AppliedOnceHolds ==
    ASSUME EntitlementsAssumption
    PROVE  BillingSpec => []AppliedOnce
BY BillingInvariant, PTL DEF BillingInv

\* Unless a write was computed over a row that had changed meanwhile, access reaches as far
\* as everything granted or paid since the last cancellation or revocation, in whatever
\* order the events arrive (applyBillingEvent).
THEOREM PaidAccessHolds ==
    ASSUME EntitlementsAssumption
    PROVE  BillingSpec => []PaidAccessKept
<1>1. BillingInv /\ PaidAccessKept /\ [BillingNext]_billingVars => PaidAccessKept'
  BY PaidStep
<1>2. QED
  BY <1>1, PaidInit, BillingInvariant, PTL DEF BillingSpec

-----------------------------------------------------------------------------
(***************************************************************************)
(* Trial e-mails                                                           *)
(***************************************************************************)

Mailed ==
    \A k \in Kinds :
        /\ accepted[k] = Never <=> inbox[k] = 0
        /\ accepted[k] # Never => accepted[k] <= clock
        /\ k \notin misreported =>
              /\ inbox[k] <= 1
              /\ mark[k] = "none" => inbox[k] = 0
              /\ \A s \in Senders :
                    (sender[s].kind = k /\ sender[s].pc \in {"send", "release"})
                        => inbox[k] = 0

WelcomeInTime ==
    /\ inbox["welcome"] <= 1
    /\ \A s \in Senders :
          (sender[s].pc # "idle" /\ sender[s].kind = "welcome") => clock < ReminderOpens

MailInv == MailTypeOK /\ ClaimHeldByOne /\ Mailed /\ WelcomeInTime

-----------------------------------------------------------------------------

LEMMA KindsDistinct ==
    ASSUME TrialEmailsAssumption
    PROVE  "welcome" \in Kinds /\ Resting \in Sender
BY DEF Kinds, Resting, Sender

\* The welcome is scheduled, nothing is claimed and nobody was mailed.
LEMMA MailInitInv ==
    ASSUME TrialEmailsAssumption
    PROVE  MailInit => MailInv
<1> SUFFICES ASSUME MailInit PROVE MailInv
  OBVIOUS
<1>1. /\ sender \in [Senders -> Sender]
      /\ \A s \in Senders : sender[s].pc \in {"idle", "claim"}
  BY DEF MailInit, Sender, Resting, Kinds
<1>2. premium \in BOOLEAN /\ optedOut \in BOOLEAN
  BY Zenon DEF MailInit
<1>3. MailTypeOK
  BY <1>1, <1>2 DEF TrialEmailsAssumption, MailInit, MailTypeOK, Ticks, LastTick, ExpiryCutoff
<1>4. ClaimHeldByOne
  BY <1>1 DEF MailInit, ClaimHeldByOne, Holders
<1>5. Mailed
  BY <1>1 DEF MailInit, Mailed
<1>6. WelcomeInTime
  BY KindsDistinct DEF MailInit, WelcomeInTime, ReminderOpens
<1>7. QED
  BY <1>3, <1>4, <1>5, <1>6 DEF MailInv

\* Time passes only between deliveries, so nothing is in hand when it does.
LEMMA TickInv ==
    ASSUME TrialEmailsAssumption,
           MailInv, HalfDay
    PROVE  MailInv'
<1>1. /\ clock \in Nat /\ clock' = clock + 1 /\ clock' \in Ticks
      /\ \A s \in Senders : sender[s].pc = "idle"
      /\ UNCHANGED <<premium, optedOut, mark, accepted, inbox, sender, stranded, misreported,
                     mishaps>>
  BY DEF MailInv, MailTypeOK, HalfDay, Ticks, LastTick, ExpiryCutoff
<1>2. MailTypeOK'
  BY <1>1 DEF MailInv, MailTypeOK
<1>3. ClaimHeldByOne'
  BY <1>1 DEF MailInv, ClaimHeldByOne, Holders
<1>4. Mailed'
  <2>1. ASSUME NEW k \in Kinds, accepted[k] # Never
        PROVE  accepted[k] <= clock'
    <3>1. accepted[k] \in Nat /\ accepted[k] <= clock
      BY <2>1 DEF MailInv, MailTypeOK, Mailed, Ticks
    <3>2. QED
      BY <1>1, <3>1
  <2>2. QED
    BY <1>1, <2>1 DEF MailInv, Mailed
<1>5. WelcomeInTime'
  BY <1>1 DEF MailInv, WelcomeInTime
<1>6. QED
  BY <1>2, <1>3, <1>4, <1>5 DEF MailInv

\* What the person does leaves the mails alone.
LEMMA PersonInv ==
    ASSUME TrialEmailsAssumption,
           MailInv, GoPremium \/ OptOut
    PROVE  MailInv'
<1>1. UNCHANGED <<clock, mark, accepted, inbox, sender, stranded, misreported, mishaps>>
  BY DEF GoPremium, OptOut
<1>2. premium' \in BOOLEAN /\ optedOut' \in BOOLEAN
  BY Zenon DEF MailInv, MailTypeOK, GoPremium, OptOut
<1>3. MailTypeOK'
  BY <1>1, <1>2 DEF MailInv, MailTypeOK
<1>4. QED
  BY <1>1, <1>3 DEF MailInv, ClaimHeldByOne, Holders, Mailed, WelcomeInTime

\* The welcome is due only before the reminder's window opens.
LEMMA DueInTime ==
    ASSUME TrialEmailsAssumption,
           MailTypeOK, NEW claimed, NEW k \in Due(clock, premium, optedOut, claimed)
    PROVE  k \in Kinds /\ (k = "welcome" => clock < ReminderOpens)
<1>1. clock \in Nat /\ premium \in BOOLEAN
  BY DEF MailTypeOK, Ticks
<1>2. \/ k \in {"trial_reminder"} \cup {"trial_expired"}
      \/ k = "welcome" /\ clock < ReminderOpens
  BY <1>1 DEF Due
<1>3. QED
  BY <1>2 DEF Kinds

LEMMA BeginPassInv ==
    ASSUME TrialEmailsAssumption,
           MailInv, NEW s \in Senders, BeginPass(s)
    PROVE  MailInv'
<1>1. PICK k \in Due(clock, premium, optedOut, {c \in Kinds : mark[c] # "none"}) :
         sender' = [sender EXCEPT ![s] = [pc |-> "claim", kind |-> k]]
  BY Zenon DEF BeginPass
<1>2. k \in Kinds /\ (k = "welcome" => clock < ReminderOpens)
  BY DueInTime DEF MailInv
<1>3. UNCHANGED <<clock, premium, optedOut, mark, accepted, inbox, stranded, misreported,
                 mishaps>>
  BY Zenon DEF BeginPass
<1>4. sender[s].pc = "idle"
  BY Zenon DEF BeginPass
<1>5. /\ sender' \in [Senders -> Sender]
      /\ \A o \in Senders : o # s => sender'[o] = sender[o]
      /\ sender'[s].pc = "claim" /\ sender'[s].kind = k
  BY <1>1, <1>2 DEF MailInv, MailTypeOK, Sender
<1>6. MailTypeOK'
  BY <1>3, <1>5 DEF MailInv, MailTypeOK
<1>7. \A n \in Kinds : Holders(n)' = Holders(n)
  BY <1>4, <1>5 DEF Holders
<1>8. ClaimHeldByOne'
  BY <1>3, <1>7 DEF MailInv, ClaimHeldByOne
<1>9. Mailed'
  BY <1>3, <1>5 DEF MailInv, Mailed
<1>10. WelcomeInTime'
  BY <1>2, <1>3, <1>5 DEF MailInv, WelcomeInTime
<1>11. QED
  BY <1>6, <1>8, <1>9, <1>10 DEF MailInv

-----------------------------------------------------------------------------
(* A delivery.  It leaves, or moves on, and the others stay where they     *)
(* are.                                                                    *)

\* A delivery that is over holds nothing and mails nobody.
LEMMA LeaveFacts ==
    ASSUME TrialEmailsAssumption,
           MailTypeOK, NEW s \in Senders, Leave(s)
    PROVE  /\ sender' \in [Senders -> Sender]
           /\ sender'[s].pc = "idle"
           /\ \A o \in Senders : o # s => sender'[o] = sender[o]
           /\ \A k \in Kinds : Holders(k)' = Holders(k) \ {s}
<1>1. /\ sender' \in [Senders -> Sender]
      /\ sender'[s].pc = "idle"
      /\ \A o \in Senders : o # s => sender'[o] = sender[o]
  BY KindsDistinct DEF MailTypeOK, Leave, Resting
<1>2. QED
  BY <1>1 DEF Holders

LEMMA GotoFacts ==
    ASSUME TrialEmailsAssumption,
           MailTypeOK, NEW s \in Senders, NEW pc \in {"send", "confirm", "release"}, Goto(s, pc)
    PROVE  /\ sender' \in [Senders -> Sender]
           /\ sender'[s].pc = pc /\ sender'[s].kind = sender[s].kind
           /\ \A o \in Senders : o # s => sender'[o] = sender[o]
           /\ \A k \in Kinds : Holders(k)' = IF k = sender[s].kind THEN Holders(k) \cup {s}
                                             ELSE Holders(k)
<1>1. /\ sender' \in [Senders -> Sender]
      /\ sender'[s].pc = pc /\ sender'[s].kind = sender[s].kind
      /\ \A o \in Senders : o # s => sender'[o] = sender[o]
  BY DEF MailTypeOK, Goto, Sender
<1>2. sender[s].kind # sender'[s].kind => FALSE
  BY <1>1
<1>3. ASSUME NEW k \in Kinds
      PROVE  Holders(k)' = IF k = sender[s].kind THEN Holders(k) \cup {s} ELSE Holders(k)
  BY <1>1 DEF Holders
<1>4. QED
  BY <1>1, <1>3

\* Whoever dies, or fails to settle, leaves the mark as it is, stranded if it held it.
LEMMA AbandonInv ==
    ASSUME TrialEmailsAssumption,
           MailInv, NEW s \in Senders, Leave(s),
           UNCHANGED <<clock, premium, optedOut, mark, accepted, inbox, misreported>>,
           mishaps' \in 0..MaxMishaps,
           stranded' \subseteq Kinds, stranded \subseteq stranded',
           sender[s].pc \in {"send", "confirm", "release"} => sender[s].kind \in stranded'
    PROVE  MailInv'
<1>1. /\ sender' \in [Senders -> Sender]
      /\ sender'[s].pc = "idle"
      /\ \A o \in Senders : o # s => sender'[o] = sender[o]
      /\ \A k \in Kinds : Holders(k)' = Holders(k) \ {s}
  BY LeaveFacts DEF MailInv
<1>2. MailTypeOK'
  BY <1>1 DEF MailInv, MailTypeOK
<1>3. ClaimHeldByOne'
  <2>1. \A k \in Kinds : k \notin stranded' => s \notin Holders(k)
    BY DEF Holders
  <2>2. QED
    BY <1>1, <2>1 DEF MailInv, ClaimHeldByOne
<1>4. Mailed'
  BY <1>1 DEF MailInv, Mailed
<1>5. WelcomeInTime'
  BY <1>1 DEF MailInv, WelcomeInTime
<1>6. QED
  BY <1>2, <1>3, <1>4, <1>5 DEF MailInv

LEMMA FaultTyped ==
    ASSUME TrialEmailsAssumption,
           MailTypeOK, Fault
    PROVE  mishaps' \in 0..MaxMishaps
BY DEF TrialEmailsAssumption, MailTypeOK, Fault

\* A claim is won only on a mark nobody holds.
LEMMA ClaimInv ==
    ASSUME TrialEmailsAssumption,
           MailInv, NEW s \in Senders, Claim(s)
    PROVE  MailInv'
<1> DEFINE k == sender[s].kind
<1>1. k \in Kinds /\ sender[s].pc = "claim"
  BY DEF MailInv, MailTypeOK, Sender, Claim
<1>2. UNCHANGED <<clock, premium, optedOut, accepted, inbox, stranded, misreported>>
  BY Zenon DEF Claim
<1>3. CASE /\ mark[k] = "none" /\ mark' = [mark EXCEPT ![k] = "claimed"]
           /\ Goto(s, "send") /\ UNCHANGED mishaps
  <2>1. /\ sender' \in [Senders -> Sender]
        /\ sender'[s].pc = "send" /\ sender'[s].kind = k
        /\ \A o \in Senders : o # s => sender'[o] = sender[o]
        /\ \A n \in Kinds : Holders(n)' = IF n = k THEN Holders(n) \cup {s} ELSE Holders(n)
    BY <1>3, GotoFacts DEF MailInv
  <2>2. MailTypeOK'
    BY <1>2, <1>3, <2>1 DEF MailInv, MailTypeOK
  <2>3. Holders(k) = {}
    BY <1>1, <1>3 DEF MailInv, ClaimHeldByOne
  <2>4. ClaimHeldByOne'
    BY <1>1, <1>2, <1>3, <2>1, <2>3 DEF MailInv, MailTypeOK, ClaimHeldByOne
  <2>5. Mailed'
    BY <1>1, <1>2, <1>3, <2>1 DEF MailInv, MailTypeOK, Mailed
  <2>6. WelcomeInTime'
    BY <1>1, <1>2, <2>1 DEF MailInv, WelcomeInTime
  <2>7. QED
    BY <2>2, <2>4, <2>5, <2>6 DEF MailInv
<1>4. CASE Leave(s) /\ UNCHANGED mark /\ (UNCHANGED mishaps \/ Fault)
  <2>1. mishaps' \in 0..MaxMishaps
    BY <1>4, FaultTyped DEF MailInv, MailTypeOK
  <2>2. stranded' \subseteq Kinds /\ stranded \subseteq stranded'
    BY <1>2 DEF MailInv, MailTypeOK
  <2>3. QED
    BY <1>1, <1>2, <1>4, <2>1, <2>2, AbandonInv
<1>5. QED
  BY <1>3, <1>4, Zenon DEF Claim

\* The only send in hand is the holder's, so a new copy is the first one, or the provider
\* was misreported, and never the second welcome: its key is still remembered.
LEMMA AcceptFacts ==
    ASSUME TrialEmailsAssumption,
           MailInv, NEW s \in Senders, sender[s].pc = "send", Accept(sender[s].kind)
    PROVE  LET k == sender[s].kind IN
           /\ accepted' \in [Kinds -> Ticks \cup {Never}] /\ inbox' \in [Kinds -> Nat]
           /\ \A n \in Kinds : n # k => accepted'[n] = accepted[n] /\ inbox'[n] = inbox[n]
           /\ accepted'[k] # Never /\ accepted'[k] <= clock /\ inbox'[k] # 0
           /\ k \notin misreported => inbox'[k] <= 1
           /\ inbox'["welcome"] <= 1
<1> DEFINE k == sender[s].kind
<1>1. k \in Kinds /\ clock \in Ticks /\ clock \in Nat /\ clock # Never /\ "welcome" \in Kinds
  BY KindsDistinct DEF TrialEmailsAssumption, MailInv, MailTypeOK, Sender, Ticks
<1>2. k \notin misreported => inbox[k] = 0
  BY <1>1 DEF MailInv, Mailed
<1>3. accepted[k] = Never <=> inbox[k] = 0
  BY <1>1 DEF MailInv, Mailed
<1>4. /\ accepted \in [Kinds -> Ticks \cup {Never}] /\ inbox \in [Kinds -> Nat]
      /\ inbox["welcome"] <= 1
  BY DEF MailInv, MailTypeOK, WelcomeInTime
<1>5. CASE Remembered(k)
  <2>1. UNCHANGED <<accepted, inbox>> /\ accepted[k] # Never
    BY <1>5 DEF Accept, Remembered
  <2>2. accepted[k] <= clock
    BY <1>1, <2>1 DEF MailInv, Mailed
  <2>3. QED
    BY <1>1, <1>2, <1>3, <1>4, <2>1, <2>2
<1>6. CASE ~Remembered(k)
  <2>1. accepted' = [accepted EXCEPT ![k] = clock] /\ inbox' = [inbox EXCEPT ![k] = @ + 1]
    BY <1>6 DEF Accept
  <2>2. k = "welcome" => inbox[k] = 0
    <3> SUFFICES ASSUME k = "welcome", accepted[k] # Never PROVE FALSE
      BY <1>3
    <3>1. clock < ReminderOpens
      BY DEF MailInv, WelcomeInTime
    <3>2. accepted[k] \in Nat /\ accepted[k] <= clock
      BY <1>1, <1>4 DEF MailInv, Mailed, Ticks
    <3>3. QED
      BY <1>1, <1>6, <3>1, <3>2 DEF Remembered, ReminderOpens, KeyWindow
  <2>3. QED
    BY <1>1, <1>2, <1>4, <2>1, <2>2
<1>7. QED
  BY <1>5, <1>6

LEMMA SendInv ==
    ASSUME TrialEmailsAssumption,
           MailInv, NEW s \in Senders, Send(s)
    PROVE  MailInv'
<1> DEFINE k == sender[s].kind
<1>1. k \in Kinds /\ sender[s].pc = "send"
  BY DEF MailInv, MailTypeOK, Sender, Send
<1>2. UNCHANGED <<clock, premium, optedOut, mark, stranded>>
  BY Zenon DEF Send
<1>3. mishaps' \in 0..MaxMishaps
  BY FaultTyped DEF MailInv, MailTypeOK, Send
<1>4. PICK pc \in {"confirm", "release"} :
         /\ Goto(s, pc)
         /\ \/ Accept(k) /\ misreported' = misreported /\ pc = "confirm"
            \/ UNCHANGED <<accepted, inbox, misreported>>
            \/ Accept(k) /\ misreported' = misreported \cup {k}
  BY Zenon DEF Send
<1>5. /\ sender' \in [Senders -> Sender]
      /\ sender'[s].pc = pc /\ sender'[s].kind = k
      /\ \A o \in Senders : o # s => sender'[o] = sender[o]
      /\ \A n \in Kinds : Holders(n)' = IF n = k THEN Holders(n) \cup {s} ELSE Holders(n)
  BY <1>4, GotoFacts DEF MailInv
<1>6. s \in Holders(k) /\ \A o \in Holders(k) : o = s
  BY <1>1 DEF MailInv, ClaimHeldByOne, Holders
<1>7. ClaimHeldByOne'
  <2>1. \A n \in Kinds : Holders(n)' = Holders(n)
    BY <1>5, <1>6
  <2>2. QED
    BY <1>2, <2>1 DEF MailInv, ClaimHeldByOne
<1>8. \A o \in Senders : (sender'[o].kind = k /\ sender'[o].pc \in {"send", "release"})
                         => o = s /\ pc = "release"
  BY <1>1, <1>5, <1>6 DEF Holders
<1>9. CASE UNCHANGED <<accepted, inbox, misreported>>
  <2>1. MailTypeOK'
    BY <1>2, <1>3, <1>5, <1>9 DEF MailInv, MailTypeOK
  <2>2. Mailed'
    BY <1>1, <1>2, <1>5, <1>9 DEF MailInv, Mailed
  <2>3. WelcomeInTime'
    BY <1>1, <1>2, <1>5, <1>9 DEF MailInv, WelcomeInTime
  <2>4. QED
    BY <1>7, <2>1, <2>2, <2>3 DEF MailInv
<1>10. CASE /\ Accept(k)
            /\ \/ misreported' = misreported /\ pc = "confirm"
               \/ misreported' = misreported \cup {k}
  <2>1. /\ accepted' \in [Kinds -> Ticks \cup {Never}] /\ inbox' \in [Kinds -> Nat]
        /\ \A n \in Kinds : n # k => accepted'[n] = accepted[n] /\ inbox'[n] = inbox[n]
        /\ accepted'[k] # Never /\ accepted'[k] <= clock /\ inbox'[k] # 0
        /\ k \notin misreported => inbox'[k] <= 1
        /\ inbox'["welcome"] <= 1
    BY <1>1, <1>10, AcceptFacts
  <2>2. misreported' \subseteq Kinds /\ misreported \subseteq misreported'
    BY <1>1, <1>10 DEF MailInv, MailTypeOK
  <2>3. MailTypeOK'
    BY <1>2, <1>3, <1>5, <2>1, <2>2 DEF MailInv, MailTypeOK
  <2>4. WelcomeInTime'
    BY <1>1, <1>2, <1>5, <2>1 DEF MailInv, WelcomeInTime
  <2>5. mark[k] # "none"
    BY <1>1, <1>6 DEF MailInv, ClaimHeldByOne
  <2>6. Mailed'
    <3>1. ASSUME NEW n \in Kinds, n # k
          PROVE  /\ accepted'[n] = Never <=> inbox'[n] = 0
                 /\ accepted'[n] # Never => accepted'[n] <= clock'
                 /\ n \notin misreported' =>
                       /\ inbox'[n] <= 1
                       /\ mark'[n] = "none" => inbox'[n] = 0
                       /\ \A o \in Senders :
                             (sender'[o].kind = n /\ sender'[o].pc \in {"send", "release"})
                                 => inbox'[n] = 0
      BY <1>2, <1>5, <2>1, <2>2, <3>1 DEF MailInv, Mailed
    <3>2. k \notin misreported' => pc = "confirm" /\ inbox'[k] <= 1
      BY <1>10, <2>1
    <3>3. QED
      BY <1>1, <1>2, <1>8, <2>1, <2>5, <3>1, <3>2 DEF Mailed
  <2>7. QED
    BY <1>7, <2>3, <2>4, <2>6 DEF MailInv
<1>11. QED
  BY <1>4, <1>9, <1>10

\* Settling: the one holder confirms the mark or gives it back.
LEMMA SettleInv ==
    ASSUME TrialEmailsAssumption,
           MailInv, NEW s \in Senders, NEW to \in {"none", "sent"}, Leave(s),
           to = "sent" => sender[s].pc = "confirm",
           to = "none" => sender[s].pc = "release",
           mark' = [mark EXCEPT ![sender[s].kind] = to],
           UNCHANGED <<clock, premium, optedOut, accepted, inbox, misreported, stranded,
                       mishaps>>
    PROVE  MailInv'
<1>0. PICK k \in Kinds : k = sender[s].kind
  BY DEF MailInv, MailTypeOK, Sender
<1>1. /\ sender' \in [Senders -> Sender]
      /\ sender'[s].pc = "idle"
      /\ \A o \in Senders : o # s => sender'[o] = sender[o]
      /\ \A n \in Kinds : Holders(n)' = Holders(n) \ {s}
  BY LeaveFacts DEF MailInv
<1>2. s \in Holders(k)
  BY <1>0 DEF Holders
<1>3. Holders(k)' = {} /\ \A n \in Kinds : n # k => Holders(n)' = Holders(n)
  <2>1. \A o \in Holders(k) : o = s
    BY <1>2 DEF MailInv, ClaimHeldByOne
  <2>2. \A n \in Kinds : n # k => s \notin Holders(n)
    BY <1>0 DEF Holders
  <2>3. Holders(k) \ {s} = {} /\ \A n \in Kinds : n # k => Holders(n) \ {s} = Holders(n)
    BY <2>1, <2>2
  <2>4. QED
    BY <1>1, <1>2, <2>3
<1>4. /\ mark' \in [Kinds -> {"none", "claimed", "sent"}] /\ mark'[k] = to
      /\ \A n \in Kinds : n # k => mark'[n] = mark[n]
  BY <1>0 DEF MailInv, MailTypeOK
<1>5. MailTypeOK'
  BY <1>1, <1>4 DEF MailInv, MailTypeOK
<1>6. ClaimHeldByOne'
  <2>1. ASSUME NEW n \in Kinds, n # k
        PROVE  /\ \A r, o \in Holders(n)' : r = o
               /\ Holders(n)' # {} => mark'[n] = "claimed"
               /\ (mark'[n] = "claimed" /\ n \notin stranded') => Holders(n)' # {}
    BY <1>3, <1>4, <2>1 DEF MailInv, ClaimHeldByOne
  <2>2. /\ \A r, o \in Holders(k)' : r = o
        /\ Holders(k)' # {} => mark'[k] = "claimed"
        /\ (mark'[k] = "claimed" /\ k \notin stranded') => Holders(k)' # {}
    BY <1>3, <1>4
  <2>3. QED
    BY <2>1, <2>2, Zenon DEF ClaimHeldByOne
<1>7. Mailed'
  <2>1. k \notin misreported /\ to = "none" => inbox[k] = 0
    BY <1>0 DEF MailInv, Mailed
  <2>2. QED
    BY <1>1, <1>4, <2>1 DEF MailInv, Mailed
<1>8. WelcomeInTime'
  BY <1>1 DEF MailInv, WelcomeInTime
<1>9. QED
  BY <1>5, <1>6, <1>7, <1>8 DEF MailInv

LEMMA HolderMark ==
    ASSUME TrialEmailsAssumption,
           MailInv, NEW s \in Senders, sender[s].pc \in {"send", "confirm", "release"}
    PROVE  sender[s].kind \in Kinds /\ mark[sender[s].kind] = "claimed"
<1>1. sender[s].kind \in Kinds /\ s \in Holders(sender[s].kind)
  BY DEF MailInv, MailTypeOK, Sender, Holders
<1>2. QED
  BY <1>1 DEF MailInv, ClaimHeldByOne

LEMMA ConfirmInv ==
    ASSUME TrialEmailsAssumption,
           MailInv, NEW s \in Senders, Confirm(s) \/ Release(s)
    PROVE  MailInv'
<1> DEFINE k == sender[s].kind
<1>1. /\ sender[s].pc \in {"confirm", "release"} /\ Leave(s)
      /\ UNCHANGED <<clock, premium, optedOut, accepted, inbox, misreported>>
  BY Zenon DEF Confirm, Release
<1>2. k \in Kinds /\ mark[k] = "claimed"
  BY <1>1, HolderMark
<1>3. CASE UNCHANGED mark /\ Fault /\ stranded' = stranded \cup {k}
  <2>1. mishaps' \in 0..MaxMishaps /\ stranded' \subseteq Kinds /\ stranded \subseteq stranded'
    BY <1>2, <1>3, FaultTyped DEF MailInv, MailTypeOK
  <2>2. QED
    BY <1>1, <1>3, <2>1, AbandonInv
<1>4. CASE /\ Confirm(s) /\ UNCHANGED <<stranded, mishaps>>
           /\ mark' = [mark EXCEPT ![k] = IF @ = "none" THEN @ ELSE "sent"]
  <2>1. mark' = [mark EXCEPT ![k] = "sent"] /\ sender[s].pc = "confirm"
    BY <1>2, <1>4 DEF Confirm
  <2>2. QED
    BY <1>1, <1>4, <2>1, SettleInv
<1>5. CASE /\ Release(s) /\ UNCHANGED <<stranded, mishaps>>
           /\ mark' = [mark EXCEPT ![k] = IF @ = "claimed" THEN "none" ELSE @]
  <2>1. mark' = [mark EXCEPT ![k] = "none"] /\ sender[s].pc = "release"
    BY <1>2, <1>5 DEF Release
  <2>2. QED
    BY <1>1, <1>5, <2>1, SettleInv
<1>6. QED
  BY <1>3, <1>4, <1>5, Zenon DEF Confirm, Release

LEMMA KillInv ==
    ASSUME TrialEmailsAssumption,
           MailInv, NEW s \in Senders, KillSender(s)
    PROVE  MailInv'
<1>1. mishaps' \in 0..MaxMishaps
  BY FaultTyped DEF MailInv, KillSender
<1>2. stranded' = IF sender[s].pc = "claim" THEN stranded ELSE stranded \cup {sender[s].kind}
  BY Zenon DEF KillSender
<1>3. /\ stranded' \subseteq Kinds /\ stranded \subseteq stranded'
      /\ sender[s].pc \in {"send", "confirm", "release"} => sender[s].kind \in stranded'
  BY <1>2 DEF MailInv, MailTypeOK, Sender
<1>4. Leave(s) /\ UNCHANGED <<clock, premium, optedOut, mark, accepted, inbox, misreported>>
  BY Zenon DEF KillSender
<1>5. QED
  BY <1>1, <1>3, <1>4, AbandonInv

-----------------------------------------------------------------------------

LEMMA MailStepInv ==
    ASSUME TrialEmailsAssumption
    PROVE  MailInv /\ [MailNext]_mailVars => MailInv'
<1> SUFFICES ASSUME MailInv, [MailNext]_mailVars PROVE MailInv'
  OBVIOUS
<1>1. CASE MailNext
  BY <1>1, TickInv, PersonInv, BeginPassInv, ClaimInv, SendInv, ConfirmInv, KillInv DEF MailNext
<1>2. CASE UNCHANGED mailVars
  BY <1>2 DEF MailInv, MailTypeOK, ClaimHeldByOne, Holders, Mailed, WelcomeInTime, mailVars
<1>3. QED
  BY <1>1, <1>2

LEMMA MailInvariant ==
    ASSUME TrialEmailsAssumption
    PROVE  MailSpec => []MailInv
BY MailInitInv, MailStepInv, PTL DEF MailSpec

(* Theorems.                                                               *)

\* The marks, the deliveries and the mailbox keep their types.
THEOREM MailTypeCorrect ==
    ASSUME TrialEmailsAssumption
    PROVE  MailSpec => []MailTypeOK
BY MailInvariant, PTL DEF MailInv

\* A claimed mark has one holder, or one that died (claimTrialEmail, releaseTrialEmail).
THEOREM ClaimHolds ==
    ASSUME TrialEmailsAssumption
    PROVE  MailSpec => []ClaimHeldByOne
BY MailInvariant, PTL DEF MailInv

\* Nobody is mailed twice, but through a failed answer and a forgotten key, and never the
\* welcome (deliverTrialEmail).
THEOREM MailedOnceHolds ==
    ASSUME TrialEmailsAssumption
    PROVE  MailSpec => []MailedAtMostOnce
<1>1. MailInv => MailedAtMostOnce
  <2> SUFFICES ASSUME MailInv, NEW k \in Kinds, inbox[k] > 1
               PROVE  k \in misreported /\ k # "welcome"
    BY DEF MailedAtMostOnce
  <2>1. inbox[k] \in Nat
    BY DEF MailInv, MailTypeOK
  <2>2. k \notin misreported => inbox[k] <= 1
    BY DEF MailInv, Mailed
  <2>3. k = "welcome" => inbox[k] <= 1
    BY DEF MailInv, WelcomeInTime
  <2>4. QED
    BY <2>1, <2>2, <2>3
<1>2. QED
  BY <1>1, MailInvariant, PTL

-----------------------------------------------------------------------------
(***************************************************************************)
(* Provisioning                                                            *)
(***************************************************************************)

\* A place in the cap of day d is held by finitely many sign-ins, all of them counted.
LetIn(d) == {r \in SignIns : HoldsPlace(r, d)}
PlacesCounted ==
    \A d \in Days : IsFiniteSet(LetIn(d)) /\ Cardinality(LetIn(d)) <= counted[d]

\* What a sign-in, its identity's grant and what it made say of each other.  The owner of
\* a workspace has answered with it, is about to, or was killed, unless its grant was
\* written and not read back.
SignInAgrees(r) ==
    LET s == signIn[r]
        u == UserOf[r] IN
    /\ s.pc \notin {"release", "ready", "killed"} => s.got = None
    /\ s.lost => s.pc \in {"dropRow", "dropDatabase", "release"} \cup Ended
    /\ s.pc = "release" /\ s.got # None => s.got = owner[u]
    /\ s.pc = "ready" => s.got = owner[u] /\ owner[u] # None
    /\ s.pc \in {"migrate", "grant"} => r \in databases
    /\ s.pc = "grant" => r \in workspaces
    /\ s.pc = "trial" \/ r \in trials => owner[u] = r
    /\ owner[u] = r =>
          \/ s.pc \in {"trial", "ready", "killed"}
          \/ /\ s.pc \in {"dropRow", "dropDatabase", "release", "failed"}
             /\ ~ s.lost /\ s.got = None /\ u \in unread
    /\ owner[u] = r /\ u \notin unread => r \in workspaces /\ r \in databases
    /\ r \in databases \ excused =>
          \/ s.pc \in {"migrate", "grant", "trial", "dropRow", "dropDatabase"}
          \/ owner[u] = r

\* A grant is of a workspace its user's sign-in made, and only its trial is announced.
UserAgrees(u) ==
    /\ owner[u] # None => UserOf[owner[u]] = u
    /\ announced[u] <= 1
    /\ announced[u] = 1 => \E w \in trials : UserOf[w] = u

\* A share under way is of the workspace its owner owns, with somebody else; it meets
\* the viewer only when the workspace has its token.
ShareAgrees(h) ==
    LET w == share[h].ws IN
    share[h].pc \in {"mint", "seal", "user", "record"} =>
        /\ w \in SignIns /\ w = owner[OwnerOf[h]] /\ OwnerOf[h] # ViewerOf[h]
        /\ share[h].pc \in {"user", "record"} => token[w] # {}

\* One token at most is sealed, and viewers come after it.
WorkspaceAgrees(w) ==
    /\ token[w] = {} \/ \E h \in Shares : token[w] = {h}
    /\ IsFiniteSet(viewers[w]) /\ Cardinality(viewers[w]) <= MaxViewers
    /\ viewers[w] # {} =>
          w = owner[UserOf[w]] /\ UserOf[w] \notin viewers[w] /\ token[w] # {}

SignUpInv ==
    /\ SignUpTypeOK
    /\ PlacesCounted
    /\ \A r \in SignIns : SignInAgrees(r)
    /\ \A u \in Users : UserAgrees(u)
    /\ \A h \in Shares : ShareAgrees(h)
    /\ \A w \in SignIns : WorkspaceAgrees(w)

SignInStep(r) ==
    \/ BeginSignIn(r) \/ ClaimPlace(r) \/ FindOrCreateUser(r) \/ Recheck(r)
    \/ CreateDatabase(r) \/ MintAndMigrate(r) \/ RecordGrant(r) \/ WelcomeTrial(r)
    \/ CallFails(r) \/ DropRow(r) \/ DropDatabase(r) \/ ReleasePlace(r) \/ Kill(r)

ShareStep(h) ==
    \/ BeginShare(h) \/ MintToken(h) \/ SealToken(h) \/ CreateViewer(h)
    \/ RecordViewer(h) \/ Revoke(h)

-----------------------------------------------------------------------------
(* What a step does to the request that takes it.                          *)

LEMMA Goes ==
    ASSUME SignUpTypeOK, NEW r \in SignIns, NEW pc \in Working \cup Ended, GoTo(r, pc)
    PROVE  /\ signIn' \in [SignIns -> SignIn]
           /\ \A q \in SignIns \ {r} : signIn'[q] = signIn[q]
           /\ signIn'[r].pc = pc /\ signIn'[r].got = signIn[r].got
           /\ signIn'[r].day = signIn[r].day /\ signIn'[r].lost = signIn[r].lost
BY DEF SignUpTypeOK, GoTo, SignIn

LEMMA Answers ==
    ASSUME SignUpTypeOK, NEW r \in SignIns, NEW w \in SignIns \cup {None}, Answer(r, w)
    PROVE  /\ signIn' \in [SignIns -> SignIn]
           /\ \A q \in SignIns \ {r} : signIn'[q] = signIn[q]
           /\ signIn'[r].pc = "ready" /\ signIn'[r].got = w
           /\ signIn'[r].day = signIn[r].day /\ signIn'[r].lost = signIn[r].lost
BY DEF SignUpTypeOK, Answer, SignIn, Ended

LEMMA OwnedIs ==
    ASSUME SignUpTypeOK, NEW u \in Users
    PROVE  /\ Owned(u) \in SignIns \cup {None}
           /\ Owned(u) # None => Owned(u) = owner[u] /\ owner[u] \in workspaces
BY DEF SignUpTypeOK, Owned

\* The four steps that write more than the place a sign-in goes to.
LEMMA Writes ==
    ASSUME SignUpTypeOK, NEW r \in SignIns,
           BeginSignIn(r) \/ Recheck(r) \/ RecordGrant(r) \/ DropDatabase(r)
    PROVE  /\ signIn' \in [SignIns -> SignIn]
           /\ \A q \in SignIns \ {r} : signIn'[q] = signIn[q]
           /\ BeginSignIn(r) =>
                \/ /\ signIn'[r].pc = "ready" /\ signIn'[r].got = owner[UserOf[r]]
                   /\ owner[UserOf[r]] # None
                \/ signIn'[r].pc = "claim" /\ signIn'[r].got = signIn[r].got
           /\ ~ BeginSignIn(r) => signIn'[r].day = signIn[r].day
           /\ ~ RecordGrant(r) => signIn'[r].lost = signIn[r].lost
           /\ Recheck(r) =>
                \/ signIn'[r].pc = "database" /\ signIn'[r].got = signIn[r].got
                \/ signIn'[r].pc = "release" /\ signIn'[r].got = owner[UserOf[r]]
           /\ RecordGrant(r) =>
                /\ signIn'[r].got = signIn[r].got
                /\ owner[UserOf[r]] = None =>
                      signIn'[r].pc = "trial" /\ signIn'[r].lost = signIn[r].lost
                /\ owner[UserOf[r]] # None => signIn'[r].pc = "dropRow"
           /\ DropDatabase(r) =>
                /\ signIn'[r].pc = "release"
                /\ signIn'[r].got # None => signIn[r].lost /\ signIn'[r].got = owner[UserOf[r]]
<1>1. /\ signIn \in [SignIns -> SignIn] /\ signIn[r] \in SignIn /\ UserOf[r] \in Users
      /\ Owned(UserOf[r]) \in SignIns \cup {None} /\ today \in Days
      /\ Owned(UserOf[r]) # None => Owned(UserOf[r]) = owner[UserOf[r]]
  BY ProvisioningAssumption, OwnedIs DEF SignUpTypeOK
<1> DEFINE w == Owned(UserOf[r])
<1>2. w \in SignIns \cup {None} /\ (w # None => w = owner[UserOf[r]])
  BY <1>1
<1>3. CASE BeginSignIn(r)
  <2>1. CASE Answer(r, w) /\ w # None
    BY <1>1, <1>2, <2>1, <1>3, Answers DEF BeginSignIn, Recheck, RecordGrant, DropDatabase
  <2>2. CASE signIn' = [signIn EXCEPT ![r].pc = "claim", ![r].day = today]
    <3>1. /\ signIn' \in [SignIns -> SignIn]
          /\ \A q \in SignIns \ {r} : signIn'[q] = signIn[q]
          /\ signIn'[r].pc = "claim" /\ signIn'[r].got = signIn[r].got
          /\ signIn'[r].lost = signIn[r].lost
      BY <1>1, <2>2 DEF SignIn, Working
    <3>2. QED
      BY <1>3, <3>1 DEF BeginSignIn, Recheck, RecordGrant, DropDatabase
  <2>3. QED
    BY <1>3, <2>1, <2>2 DEF BeginSignIn
<1>4. CASE Recheck(r)
  <2>1. CASE w = None /\ signIn' = [signIn EXCEPT ![r].pc = "database"]
    <3>1. /\ signIn' \in [SignIns -> SignIn]
          /\ \A q \in SignIns \ {r} : signIn'[q] = signIn[q]
          /\ signIn'[r].pc = "database" /\ signIn'[r].got = signIn[r].got
          /\ signIn'[r].day = signIn[r].day /\ signIn'[r].lost = signIn[r].lost
      BY <1>1, <2>1 DEF SignIn, Working
    <3>2. QED
      BY <1>4, <3>1 DEF BeginSignIn, Recheck, RecordGrant, DropDatabase
  <2>2. CASE w # None /\ signIn' = [signIn EXCEPT ![r].pc = "release", ![r].got = w]
    <3> HIDE DEF w
    <3>1. /\ signIn' \in [SignIns -> SignIn]
          /\ \A q \in SignIns \ {r} : signIn'[q] = signIn[q]
          /\ signIn'[r].pc = "release" /\ signIn'[r].got = w
          /\ signIn'[r].day = signIn[r].day /\ signIn'[r].lost = signIn[r].lost
      BY <1>1, <1>2, <2>2 DEF SignIn, Working
    <3>2. QED
      BY <1>2, <1>4, <2>2, <3>1 DEF BeginSignIn, Recheck, RecordGrant, DropDatabase
  <2>3. QED
    BY <1>4, <2>1, <2>2 DEF Recheck
<1>5. CASE RecordGrant(r)
  <2>1. CASE owner[UserOf[r]] = None
    <3>1. GoTo(r, "trial")
      BY <1>5, <2>1 DEF RecordGrant
    <3>2. QED
      BY <1>5, <2>1, <3>1, Goes DEF BeginSignIn, Recheck, RecordGrant, DropDatabase, Working
  <2>2. CASE owner[UserOf[r]] # None
    <3>1. signIn' = [signIn EXCEPT ![r].pc = "dropRow", ![r].lost = TRUE]
      BY <1>5, <2>2 DEF RecordGrant
    <3>2. /\ signIn' \in [SignIns -> SignIn]
          /\ \A q \in SignIns \ {r} : signIn'[q] = signIn[q]
          /\ signIn'[r].pc = "dropRow" /\ signIn'[r].got = signIn[r].got
          /\ signIn'[r].day = signIn[r].day
      BY <1>1, <3>1 DEF SignIn, Working
    <3>3. QED
      BY <1>5, <2>2, <3>2 DEF BeginSignIn, Recheck, RecordGrant, DropDatabase
  <2>3. QED
    BY <2>1, <2>2
<1>6. CASE DropDatabase(r)
  <2> DEFINE got == IF signIn[r].lost THEN w ELSE None
  <2>1. signIn' = [signIn EXCEPT ![r].pc = "release", ![r].got = got]
    BY <1>6, Zenon DEF DropDatabase
  <2>2. /\ got \in SignIns \cup {None}
        /\ got # None => signIn[r].lost /\ got = owner[UserOf[r]]
    BY <1>2
  <2> HIDE DEF got
  <2>3. /\ signIn' \in [SignIns -> SignIn]
        /\ \A q \in SignIns \ {r} : signIn'[q] = signIn[q]
        /\ signIn'[r].pc = "release" /\ signIn'[r].got = got
        /\ signIn'[r].day = signIn[r].day /\ signIn'[r].lost = signIn[r].lost
    BY <1>1, <2>1, <2>2 DEF SignIn, Working
  <2>4. QED
    BY <1>6, <2>2, <2>3 DEF BeginSignIn, Recheck, RecordGrant, DropDatabase
<1>7. QED
  BY <1>3, <1>4, <1>5, <1>6

\* Every other step of a sign-in only takes it to its next place.
LEMMA GoesOn ==
    ASSUME SignUpTypeOK, NEW r \in SignIns, SignInStep(r),
           ~ (BeginSignIn(r) \/ Recheck(r) \/ RecordGrant(r) \/ DropDatabase(r)),
           ~ WelcomeTrial(r)
    PROVE  \E pc \in Working \cup Ended : GoTo(r, pc)
<1> DEFINE Somewhere == \E pc \in Working \cup Ended : GoTo(r, pc)
<1>1. ASSUME ClaimPlace(r) PROVE Somewhere
  BY <1>1 DEF ClaimPlace, Working, Ended
<1>2. ASSUME FindOrCreateUser(r) \/ CreateDatabase(r) \/ MintAndMigrate(r) \/ DropRow(r)
      PROVE  Somewhere
  BY <1>2 DEF FindOrCreateUser, CreateDatabase, MintAndMigrate, DropRow, Working, Ended
<1>3. ASSUME CallFails(r) PROVE Somewhere
  BY <1>3 DEF CallFails, Working, Ended
<1>4. ASSUME ReleasePlace(r) PROVE Somewhere
  BY <1>4 DEF ReleasePlace, Working, Ended
<1>5. ASSUME Kill(r) PROVE Somewhere
  BY <1>5 DEF Kill, Working, Ended
<1>6. QED
  BY <1>1, <1>2, <1>3, <1>4, <1>5 DEF SignInStep

\* A step moves its own sign-in, and keeps the day of a claim once made.
LEMMA Moves ==
    ASSUME SignUpTypeOK, NEW r \in SignIns, SignInStep(r)
    PROVE  /\ signIn' \in [SignIns -> SignIn]
           /\ \A q \in SignIns \ {r} : signIn'[q] = signIn[q]
           /\ ~ BeginSignIn(r) => signIn'[r].day = signIn[r].day
<1>1. CASE BeginSignIn(r) \/ Recheck(r) \/ RecordGrant(r) \/ DropDatabase(r)
  BY <1>1, Writes
<1>2. CASE WelcomeTrial(r)
  BY <1>2, Answers DEF WelcomeTrial
<1>3. CASE ~ (BeginSignIn(r) \/ Recheck(r) \/ RecordGrant(r) \/ DropDatabase(r)) /\ ~ WelcomeTrial(r)
  BY <1>3, GoesOn, Goes
<1>4. QED
  BY <1>1, <1>2, <1>3

\* A step grants, lists and bills nothing in another sign-in's name, and grants only to
\* an identity that has no grant.
LEMMA OwnNameOnly ==
    ASSUME NEW r \in SignIns, SignInStep(r)
    PROVE  /\ UNCHANGED <<today, share, viewers, token>>
           /\ owner' = owner \/ (owner[UserOf[r]] = None /\ signIn[r].pc = "grant"
                                  /\ owner' = [owner EXCEPT ![UserOf[r]] = r])
           /\ unread \subseteq unread' /\ excused \subseteq excused'
           /\ trials \subseteq trials' /\ trials' \subseteq trials \cup {r}
           /\ \A q \in SignIns \ {r} :
                /\ (q \in workspaces') = (q \in workspaces)
                /\ (q \in databases') = (q \in databases)
<1> USE DEF BeginSignIn, ClaimPlace, FindOrCreateUser, Recheck, CreateDatabase, MintAndMigrate,
        RecordGrant, WelcomeTrial, CallFails, DropRow, DropDatabase, ReleasePlace, Kill,
        SignInStep
<1>1. UNCHANGED <<today, share, viewers, token>>
  OBVIOUS
<1>2. owner' = owner \/ (owner[UserOf[r]] = None /\ signIn[r].pc = "grant"
                         /\ owner' = [owner EXCEPT ![UserOf[r]] = r])
  OBVIOUS
<1>3. unread \subseteq unread' /\ excused \subseteq excused'
  OBVIOUS
<1>4. trials \subseteq trials' /\ trials' \subseteq trials \cup {r}
  OBVIOUS
<1>5. workspaces' \in {workspaces, workspaces \cup {r}, workspaces \ {r}}
  OBVIOUS
<1>6. databases' \in {databases, databases \cup {r}, databases \ {r}}
  OBVIOUS
<1>7. QED
  BY <1>1, <1>2, <1>3, <1>4, <1>5, <1>6

-----------------------------------------------------------------------------
(* The types.                                                              *)

LEMMA CountedTyped ==
    ASSUME SignUpTypeOK, NEW r \in SignIns, SignInStep(r)
    PROVE  counted' \in [Days -> 0..CapLimit]
<1>1. /\ counted \in [Days -> 0..CapLimit] /\ signIn[r].day \in Days /\ CapLimit \in Nat
  BY ProvisioningAssumption DEF SignUpTypeOK, SignIn
<1>2. CASE counted' = counted
  BY <1>1, <1>2
<1>3. CASE ClaimPlace(r) /\ counted' # counted
  <2>1. /\ counted[signIn[r].day] < CapLimit
        /\ counted' = [counted EXCEPT ![signIn[r].day] = counted[signIn[r].day] + 1]
    BY <1>3 DEF ClaimPlace
  <2> DEFINE d == signIn[r].day  n == counted[signIn[r].day]
  <2>2. n \in 0..CapLimit /\ n < CapLimit /\ d \in Days
    BY <1>1, <2>1
  <2>3. counted' = [counted EXCEPT ![d] = n + 1]
    BY <2>1
  <2> HIDE DEF d, n
  <2>4. n + 1 \in 0..CapLimit
    BY <1>1, <2>2
  <2>5. QED
    BY <1>1, <2>2, <2>3, <2>4
<1>4. CASE ReleasePlace(r) /\ counted' # counted
  <2> DEFINE d == signIn[r].day  n == counted[signIn[r].day]
  <2>1. counted' = [counted EXCEPT ![d] = IF n > 0 THEN n - 1 ELSE n]
    BY <1>4 DEF ReleasePlace
  <2>2. n \in 0..CapLimit /\ d \in Days
    BY <1>1
  <2> HIDE DEF d, n
  <2>3. (IF n > 0 THEN n - 1 ELSE n) \in 0..CapLimit
    BY <1>1, <2>2
  <2>4. QED
    BY <1>1, <2>1, <2>2, <2>3
<1>5. QED
  BY <1>2, <1>3, <1>4 DEF SignInStep, BeginSignIn, FindOrCreateUser, Recheck, CreateDatabase,
     MintAndMigrate, RecordGrant, WelcomeTrial, CallFails, DropRow, DropDatabase, Kill

LEMMA OutagesTyped ==
    SignUpTypeOK /\ (Outage \/ UNCHANGED outages) => outages' \in 0..MaxOutages
BY ProvisioningAssumption DEF SignUpTypeOK, Outage

LEMMA SignInTyped ==
    ASSUME SignUpTypeOK, NEW r \in SignIns, SignInStep(r)
    PROVE  SignUpTypeOK'
<1>1. UserOf[r] \in Users
  BY ProvisioningAssumption
<1>2. /\ signIn' \in [SignIns -> SignIn] /\ counted' \in [Days -> 0..CapLimit]
      /\ UNCHANGED <<today, share, viewers, token>>
  BY Moves, CountedTyped, OwnNameOnly
<1>3. owner' \in [Users -> SignIns \cup {None}]
  BY <1>1, OwnNameOnly DEF SignUpTypeOK
<1>4. trials' \subseteq SignIns
  BY OwnNameOnly DEF SignUpTypeOK
<1> USE DEF BeginSignIn, ClaimPlace, FindOrCreateUser, Recheck, CreateDatabase, MintAndMigrate,
        RecordGrant, WelcomeTrial, CallFails, DropRow, DropDatabase, ReleasePlace, Kill,
        SignInStep
<1>5. /\ workspaces' \in {workspaces, workspaces \cup {r}, workspaces \ {r}}
      /\ databases' \in {databases, databases \cup {r}, databases \ {r}}
  OBVIOUS
<1>6. /\ excused' \in {excused, excused \cup {r}}
      /\ unread' \in {unread, unread \cup {UserOf[r]}}
      /\ users' \in {users, users \cup {UserOf[r]}}
  OBVIOUS
<1>7. announced' = announced
      \/ announced' = [announced EXCEPT ![UserOf[r]] = announced[UserOf[r]] + 1]
  OBVIOUS
<1>8. Outage \/ UNCHANGED outages
  OBVIOUS
<1>9. announced' \in [Users -> Nat]
  BY <1>1, <1>7 DEF SignUpTypeOK
<1>10. outages' \in 0..MaxOutages
  BY <1>8, OutagesTyped
<1>11. QED
  BY <1>1, <1>2, <1>3, <1>4, <1>5, <1>6, <1>9, <1>10 DEF SignUpTypeOK

-----------------------------------------------------------------------------
(* What a sign-in, its grant and its database say of each other.           *)

\* A step of another sign-in disturbs nothing: a grant once recorded stays.
LEMMA OthersAgree ==
    ASSUME SignUpTypeOK, NEW r \in SignIns, SignInStep(r),
           NEW q \in SignIns \ {r}, SignInAgrees(q)
    PROVE  SignInAgrees(q)'
<1>1. /\ signIn'[q] = signIn[q] /\ unread \subseteq unread' /\ excused \subseteq excused'
      /\ trials' \subseteq trials \cup {r}
      /\ (q \in workspaces') = (q \in workspaces) /\ (q \in databases') = (q \in databases)
  BY Moves, OwnNameOnly
<1>2. UserOf[r] \in Users /\ UserOf[q] \in Users /\ owner \in [Users -> SignIns \cup {None}]
  BY ProvisioningAssumption DEF SignUpTypeOK
<1>3. \/ owner'[UserOf[q]] = owner[UserOf[q]]
      \/ owner[UserOf[q]] = None /\ owner'[UserOf[q]] = r
  BY <1>2, OwnNameOnly
<1>4. q # None /\ q # r
  BY ProvisioningAssumption
<1>5. QED
  BY <1>1, <1>3, <1>4 DEF SignInAgrees

\* Its own step neither.
LEMMA OwnAgrees ==
    ASSUME SignUpTypeOK, NEW r \in SignIns, SignInStep(r), SignInAgrees(r)
    PROVE  SignInAgrees(r)'
<1> DEFINE u == UserOf[r]  s == signIn[r]  t == signIn'[r]
<1>1. /\ unread \subseteq unread' /\ excused \subseteq excused' /\ r # None
      /\ u \in Users /\ owner \in [Users -> SignIns \cup {None}]
  BY OwnNameOnly, ProvisioningAssumption DEF SignUpTypeOK
<1> USE DEF Ended
<1>2. ASSUME NEW pc \in Working \cup Ended, GoTo(r, pc)
      PROVE  t.pc = pc /\ t.got = s.got /\ t.lost = s.lost
  BY <1>2, Goes
<1>3. CASE BeginSignIn(r)
  <2>1. UNCHANGED <<owner, databases, workspaces, excused, unread, trials>> /\ s.pc = "idle"
    BY <1>3 DEF BeginSignIn
  <2>2. \/ t.pc = "ready" /\ t.got = owner[u] /\ owner[u] # None
        \/ t.pc = "claim" /\ t.got = s.got
    BY <1>3, Writes
  <2>4. t.lost = s.lost
    BY <1>3, <2>1, Writes DEF RecordGrant
  <2>3. QED
    BY <2>1, <2>2, <2>4 DEF SignInAgrees
<1>4. CASE ClaimPlace(r)
  <2>1. UNCHANGED <<owner, databases, workspaces, excused, unread, trials>> /\ s.pc = "claim"
    BY <1>4 DEF ClaimPlace
  <2>2. t.pc \in {"user", "closed"} /\ t.got = s.got /\ t.lost = s.lost
    BY <1>2, <1>4 DEF ClaimPlace, Working, Ended
  <2>3. QED
    BY <2>1, <2>2 DEF SignInAgrees
<1>5. CASE FindOrCreateUser(r)
  <2>1. UNCHANGED <<owner, databases, workspaces, excused, unread, trials>> /\ s.pc = "user"
    BY <1>5 DEF FindOrCreateUser
  <2>2. t.pc = "recheck" /\ t.got = s.got /\ t.lost = s.lost
    BY <1>2, <1>5 DEF FindOrCreateUser, Working
  <2>3. QED
    BY <2>1, <2>2 DEF SignInAgrees
<1>6. CASE Recheck(r)
  <2>1. UNCHANGED <<owner, databases, workspaces, excused, unread, trials>> /\ s.pc = "recheck"
    BY <1>6 DEF Recheck
  <2>2. \/ t.pc = "database" /\ t.got = s.got
        \/ t.pc = "release" /\ t.got = owner[u]
    BY <1>6, Writes
  <2>4. t.lost = s.lost
    BY <1>6, <2>1, Writes DEF RecordGrant
  <2>3. QED
    BY <2>1, <2>2, <2>4 DEF SignInAgrees
<1>7. CASE CreateDatabase(r)
  <2>1. /\ UNCHANGED <<owner, workspaces, excused, unread, trials>> /\ s.pc = "database"
        /\ databases' = databases \cup {r}
    BY <1>7 DEF CreateDatabase
  <2>2. t.pc = "migrate" /\ t.got = s.got /\ t.lost = s.lost
    BY <1>2, <1>7 DEF CreateDatabase, Working
  <2>3. QED
    BY <2>1, <2>2 DEF SignInAgrees
<1>8. CASE MintAndMigrate(r)
  <2>1. /\ UNCHANGED <<owner, databases, excused, unread, trials>> /\ s.pc = "migrate"
        /\ workspaces' = workspaces \cup {r}
    BY <1>8 DEF MintAndMigrate
  <2>2. t.pc = "grant" /\ t.got = s.got /\ t.lost = s.lost
    BY <1>2, <1>8 DEF MintAndMigrate, Working
  <2>3. QED
    BY <2>1, <2>2 DEF SignInAgrees
<1>9. CASE RecordGrant(r)
  <2>1. /\ UNCHANGED <<databases, workspaces, excused, unread, trials>> /\ s.pc = "grant"
        /\ t.got = s.got
    BY <1>9, Writes DEF RecordGrant
  <2>2. CASE owner[u] = None
    <3>1. owner'[u] = r /\ t.pc = "trial" /\ t.lost = s.lost
      BY <1>1, <1>9, <2>2, Writes DEF RecordGrant
    <3>2. QED
      BY <2>1, <3>1 DEF SignInAgrees
  <2>3. CASE owner[u] # None
    <3>1. owner' = owner /\ t.pc = "dropRow"
      BY <1>9, <2>3, Writes DEF RecordGrant
    <3>2. QED
      BY <2>1, <3>1 DEF SignInAgrees
  <2>4. QED
    BY <2>2, <2>3
<1>10. CASE WelcomeTrial(r)
  <2>1. /\ UNCHANGED <<owner, databases, workspaces, excused, unread>> /\ s.pc = "trial"
        /\ trials' \subseteq trials \cup {r}
    BY <1>10, OwnNameOnly DEF WelcomeTrial
  <2>2. t.pc = "ready" /\ t.got = r /\ t.lost = s.lost
    BY <1>10, Answers DEF WelcomeTrial
  <2>3. QED
    BY <1>1, <2>1, <2>2 DEF SignInAgrees
<1>11. CASE CallFails(r)
  <2>1. trials' = trials
    BY <1>11 DEF CallFails
  <2>2. CASE s.pc = "claim" \/ s.pc \in {"user", "recheck"}
    <3>1. /\ UNCHANGED <<owner, databases, workspaces, excused, unread>>
          /\ GoTo(r, "failed") \/ GoTo(r, "release")
      BY <1>11, <2>2 DEF CallFails
    <3>2. t.pc \in {"failed", "release"} /\ t.got = s.got /\ t.lost = s.lost
      BY <1>2, <3>1 DEF Working, Ended
    <3>3. QED
      BY <2>1, <2>2, <3>1, <3>2 DEF SignInAgrees
  <2>3. CASE s.pc = "database"
    <3>1. /\ UNCHANGED <<owner, workspaces, unread>> /\ GoTo(r, "release")
          /\ \/ databases' = databases \cup {r} /\ excused' = excused \cup {r}
             \/ UNCHANGED <<databases, excused>>
      BY <1>11, <2>3 DEF CallFails
    <3>2. t.pc = "release" /\ t.got = s.got /\ t.lost = s.lost
      BY <1>2, <3>1 DEF Working
    <3>3. QED
      BY <2>1, <2>3, <3>1, <3>2 DEF SignInAgrees
  <2>4. CASE s.pc = "migrate"
    <3>1. /\ UNCHANGED <<owner, databases, excused, unread>> /\ GoTo(r, "dropDatabase")
          /\ workspaces \subseteq workspaces'
      BY <1>11, <2>4 DEF CallFails
    <3>2. t.pc = "dropDatabase" /\ t.got = s.got /\ t.lost = s.lost
      BY <1>2, <3>1 DEF Working
    <3>3. QED
      BY <2>1, <2>4, <3>1, <3>2 DEF SignInAgrees
  <2>5. CASE s.pc = "grant"
    <3>1. /\ UNCHANGED <<workspaces, databases, excused>> /\ GoTo(r, "dropRow")
          /\ \/ /\ owner[u] = None /\ owner' = [owner EXCEPT ![u] = r]
                /\ unread' = unread \cup {u}
             \/ UNCHANGED <<owner, unread>>
      BY <1>11, <2>5 DEF CallFails
    <3>2. t.pc = "dropRow" /\ t.got = s.got /\ t.lost = s.lost
      BY <1>2, <3>1 DEF Working
    <3>3. CASE UNCHANGED <<owner, unread>>
      BY <2>1, <2>5, <3>1, <3>2, <3>3 DEF SignInAgrees
    <3>4. CASE owner' = [owner EXCEPT ![u] = r] /\ unread' = unread \cup {u}
      <4>1. owner'[u] = r /\ u \in unread'
        BY <1>1, <3>4
      <4>2. QED
        BY <2>1, <2>5, <3>1, <3>2, <4>1 DEF SignInAgrees
    <3>5. QED
      BY <3>1, <3>3, <3>4
  <2>6. QED
    BY <1>11, <2>2, <2>3, <2>4, <2>5 DEF CallFails
<1>12. CASE DropRow(r)
  <2>1. /\ UNCHANGED <<owner, databases, excused, unread, trials>> /\ s.pc = "dropRow"
        /\ workspaces' \in {workspaces, workspaces \ {r}}
    BY <1>12 DEF DropRow
  <2>2. t.pc = "dropDatabase" /\ t.got = s.got /\ t.lost = s.lost
    BY <1>2, <1>12 DEF DropRow, Working
  <2>3. QED
    BY <2>1, <2>2 DEF SignInAgrees
<1>13. CASE DropDatabase(r)
  <2>1. /\ UNCHANGED <<owner, workspaces, unread, trials>> /\ s.pc = "dropDatabase"
        /\ r \notin databases' \/ (databases' = databases /\ r \in excused')
    BY <1>13 DEF DropDatabase
  <2>2. /\ t.pc = "release" /\ t.lost = s.lost
        /\ t.got # None => s.lost /\ t.got = owner[u]
    BY <1>13, <2>1, Writes DEF RecordGrant
  <2>3. QED
    BY <2>1, <2>2 DEF SignInAgrees
<1>14. CASE ReleasePlace(r)
  <2>1. /\ UNCHANGED <<owner, databases, workspaces, excused, unread, trials>>
        /\ s.pc = "release"
    BY <1>14 DEF ReleasePlace
  <2>2. /\ t.got = s.got /\ t.lost = s.lost
        /\ t.pc = IF s.got = None THEN "failed" ELSE "ready"
    BY <1>2, <1>14 DEF ReleasePlace, Ended
  <2>3. QED
    BY <2>1, <2>2 DEF SignInAgrees
<1>15. CASE Kill(r)
  <2>1. /\ UNCHANGED <<owner, databases, workspaces, unread, trials>>
        /\ r \in databases => r \in excused'
    BY <1>15 DEF Kill
  <2>2. t.pc = "killed" /\ s.pc \in Working
    BY <1>2, <1>15 DEF Kill, Ended
  <2>3. QED
    BY <2>1, <2>2 DEF SignInAgrees
<1>16. QED
  BY <1>3, <1>4, <1>5, <1>6, <1>7, <1>8, <1>9, <1>10, <1>11, <1>12, <1>13, <1>14, <1>15
     DEF SignInStep

-----------------------------------------------------------------------------
(* The cap.                                                                *)

\* A step takes or gives back its own place only.
LEMMA OthersHold ==
    ASSUME SignUpTypeOK, NEW r \in SignIns, SignInStep(r), NEW d \in Days
    PROVE  \A q \in SignIns \ {r} : HoldsPlace(q, d)' = HoldsPlace(q, d)
BY Moves DEF HoldsPlace

\* Of the steps of a sign-in, only a claim takes a place.
LEMMA OnlyClaimsTake ==
    ASSUME SignUpTypeOK, NEW r \in SignIns, SignInStep(r), SignInAgrees(r), NEW d \in Days,
           HoldsPlace(r, d)', ~ HoldsPlace(r, d)
    PROVE  ClaimPlace(r) /\ d = signIn[r].day /\ counted[d] < CapLimit
<1>1. ~ BeginSignIn(r)
  <2>1. SUFFICES ASSUME BeginSignIn(r) PROVE FALSE
    OBVIOUS
  <2>2. signIn[r].pc = "idle"
    BY <2>1 DEF BeginSignIn
  <2>3. \/ signIn'[r].pc = "ready" /\ signIn'[r].got = owner[UserOf[r]]
        \/ signIn'[r].pc = "claim"
    BY <2>1, Writes
  <2>4. owner[UserOf[r]] = r
    BY <2>3 DEF HoldsPlace, Working
  <2>5. QED
    BY <2>2, <2>4 DEF SignInAgrees
<1>2. signIn'[r].day = signIn[r].day /\ signIn[r].day = d
  BY <1>1, Moves DEF HoldsPlace
<1>3. signIn[r].pc \notin Working \ {"claim"}
  BY <1>2 DEF HoldsPlace
<1>4. ClaimPlace(r) \/ (CallFails(r) /\ signIn[r].pc = "claim") \/ Kill(r)
  BY <1>1, <1>3 DEF SignInStep, FindOrCreateUser, Recheck, CreateDatabase, MintAndMigrate,
     RecordGrant, WelcomeTrial, DropRow, DropDatabase, ReleasePlace, CallFails, Working
<1>5. ASSUME NEW pc \in Ended \ {"ready"}, GoTo(r, pc)
      PROVE  FALSE
  <2>1. signIn'[r].pc = pc
    BY <1>5, Goes
  <2>2. QED
    BY <1>5, <2>1 DEF HoldsPlace, Working, Ended
<1>6. CASE CallFails(r) /\ signIn[r].pc = "claim"
  <2>1. GoTo(r, "failed")
    BY <1>6 DEF CallFails
  <2>2. QED
    BY <1>5, <2>1 DEF Ended
<1>7. CASE Kill(r)
  BY <1>5, <1>7 DEF Kill, Ended
<1>8. CASE ClaimPlace(r)
  <2>1. ~ (counted[d] < CapLimit) => GoTo(r, "closed")
    BY <1>2, <1>8 DEF ClaimPlace
  <2>2. QED
    BY <1>2, <1>5, <1>8, <2>1 DEF Ended
<1>9. QED
  BY <1>4, <1>6, <1>7, <1>8

\* A place is given back by a sign-in that holds it, on its day, and that no longer does.
LEMMA GivesBackItsOwn ==
    ASSUME SignUpTypeOK, NEW r \in SignIns, ReleasePlace(r), SignInAgrees(r)
    PROVE  /\ HoldsPlace(r, signIn[r].day)
           /\ \A d \in Days : ~ HoldsPlace(r, d)'
<1>1. signIn[r].pc = "release" /\ r # None
  BY ProvisioningAssumption DEF ReleasePlace
<1>2. /\ signIn'[r].pc = IF signIn[r].got = None THEN "failed" ELSE "ready"
      /\ signIn'[r].got = signIn[r].got
  BY Goes DEF ReleasePlace, Ended
<1>3. signIn[r].got # r
  BY <1>1 DEF SignInAgrees
<1>4. HoldsPlace(r, signIn[r].day)
  BY <1>1 DEF HoldsPlace, Working
<1>5. \A d \in Days : ~ HoldsPlace(r, d)'
  BY <1>1, <1>2, <1>3 DEF HoldsPlace, Working
<1>6. QED
  BY <1>4, <1>5

\* A count changes by a claim below the limit, or by a place given back.
LEMMA CountIs ==
    ASSUME SignUpTypeOK, NEW r \in SignIns, SignInStep(r), NEW d \in Days
    PROVE  \/ counted'[d] = counted[d]
           \/ /\ ClaimPlace(r) /\ d = signIn[r].day /\ counted'[d] = counted[d] + 1
           \/ /\ ReleasePlace(r) /\ d = signIn[r].day
              /\ counted'[d] = IF counted[d] > 0 THEN counted[d] - 1 ELSE counted[d]
<1>1. counted \in [Days -> 0..CapLimit] /\ signIn[r].day \in Days
  BY DEF SignUpTypeOK, SignIn
<1>2. CASE counted' = counted
  BY <1>2
<1>3. CASE ClaimPlace(r)
  <2> DEFINE e == signIn[r].day
  <2>1. counted' = counted \/ counted' = [counted EXCEPT ![e] = counted[e] + 1]
    BY <1>3 DEF ClaimPlace
  <2>2. e \in Days
    BY <1>1
  <2> HIDE DEF e
  <2>3. \/ counted'[d] = counted[d]
        \/ d = e /\ counted'[d] = counted[d] + 1
    BY <1>1, <2>1, <2>2
  <2>4. QED
    BY <1>3, <2>3 DEF e
<1>4. CASE ReleasePlace(r)
  <2> DEFINE e == signIn[r].day
  <2>1. \/ counted' = counted
        \/ counted' = [counted EXCEPT ![e] = IF counted[e] > 0 THEN counted[e] - 1
                                                             ELSE counted[e]]
    BY <1>4 DEF ReleasePlace
  <2>2. e \in Days
    BY <1>1
  <2> HIDE DEF e
  <2>3. \/ counted'[d] = counted[d]
        \/ /\ d = e
           /\ counted'[d] = IF counted[d] > 0 THEN counted[d] - 1 ELSE counted[d]
    BY <1>1, <2>1, <2>2
  <2>4. QED
    BY <1>4, <2>3 DEF e
<1>5. QED
  BY <1>2, <1>3, <1>4 DEF SignInStep, BeginSignIn, FindOrCreateUser, Recheck, CreateDatabase,
     MintAndMigrate, RecordGrant, WelcomeTrial, CallFails, DropRow, DropDatabase, Kill

\* A claim in progress does not hold its place yet, and counts the one it takes.
LEMMA ClaimCounts ==
    ASSUME SignUpTypeOK, NEW r \in SignIns, ClaimPlace(r), NEW d \in Days,
           d = signIn[r].day, counted[d] < CapLimit
    PROVE  ~ HoldsPlace(r, d) /\ counted'[d] = counted[d] + 1
<1>1. counted \in [Days -> 0..CapLimit]
  BY DEF SignUpTypeOK
<1>2. counted' = [counted EXCEPT ![d] = counted[d] + 1]
  BY DEF ClaimPlace
<1>3. ~ HoldsPlace(r, d)
  BY DEF HoldsPlace, Working, ClaimPlace
<1>4. QED
  BY <1>1, <1>2, <1>3

LEMMA PlacesStep ==
    ASSUME SignUpTypeOK, PlacesCounted, NEW r \in SignIns, SignInStep(r), SignInAgrees(r)
    PROVE  PlacesCounted'
<1> SUFFICES ASSUME NEW d \in Days
             PROVE  IsFiniteSet(LetIn(d)') /\ Cardinality(LetIn(d)') <= counted'[d]
  BY DEF PlacesCounted
<1>1. /\ IsFiniteSet(LetIn(d)) /\ Cardinality(LetIn(d)) <= counted[d]
      /\ Cardinality(LetIn(d)) \in Nat /\ counted[d] \in Nat
  BY FS_CardinalityType DEF PlacesCounted, SignUpTypeOK
<1>2. \A q \in SignIns \ {r} : (q \in LetIn(d)') = (q \in LetIn(d))
  BY OthersHold DEF LetIn
<1>3. CASE HoldsPlace(r, d)' /\ ~ HoldsPlace(r, d)
  <2>1. counted'[d] = counted[d] + 1
    BY <1>3, OnlyClaimsTake, ClaimCounts
  <2>2. LetIn(d)' = LetIn(d) \cup {r} /\ r \notin LetIn(d)
    BY <1>2, <1>3 DEF LetIn
  <2>3. /\ IsFiniteSet(LetIn(d) \cup {r})
        /\ Cardinality(LetIn(d) \cup {r}) = Cardinality(LetIn(d)) + 1
    BY <1>1, <2>2, FS_AddElement
  <2>4. QED
    BY <1>1, <2>1, <2>2, <2>3
<1>4. CASE ReleasePlace(r) /\ d = signIn[r].day
  <2>1. LetIn(d)' = LetIn(d) \ {r} /\ r \in LetIn(d)
    BY <1>2, <1>4, GivesBackItsOwn DEF LetIn
  <2>2. /\ IsFiniteSet(LetIn(d)') /\ Cardinality(LetIn(d)') = Cardinality(LetIn(d)) - 1
    BY <1>1, <2>1, FS_RemoveElement
  <2>3. counted'[d] = counted[d] \/ counted'[d] = counted[d] - 1
    BY <1>1, CountIs, <1>4 DEF ClaimPlace, ReleasePlace
  <2>4. QED
    BY <1>1, <2>2, <2>3
<1>5. CASE ~ (HoldsPlace(r, d)' /\ ~ HoldsPlace(r, d)) /\ ~ (ReleasePlace(r) /\ d = signIn[r].day)
  <2>1. LetIn(d)' \subseteq LetIn(d)
    BY <1>2, <1>5 DEF LetIn
  <2>2. IsFiniteSet(LetIn(d)') /\ Cardinality(LetIn(d)') <= Cardinality(LetIn(d))
        /\ Cardinality(LetIn(d)') \in Nat
    BY <1>1, <2>1, FS_Subset, FS_CardinalityType
  <2>3. counted'[d] >= counted[d]
    BY <1>1, <1>5, CountIs
  <2>4. counted'[d] \in Nat
    BY CountedTyped
  <2>5. QED
    BY <1>1, <2>2, <2>3, <2>4
<1>6. QED
  BY <1>3, <1>4, <1>5

-----------------------------------------------------------------------------
(* What a sign-in leaves of users, shares and shared workspaces.           *)

LEMMA GrantsStay ==
    ASSUME SignUpTypeOK, NEW r \in SignIns, SignInStep(r), NEW u \in Users
    PROVE  owner'[u] = owner[u] \/ (owner[u] = None /\ u = UserOf[r] /\ owner'[u] = r)
<1>1. UserOf[r] \in Users /\ owner \in [Users -> SignIns \cup {None}]
  BY ProvisioningAssumption DEF SignUpTypeOK
<1>2. QED
  BY <1>1, OwnNameOnly

\* One announcement per identity: it goes with the identity's first trial.
LEMMA UserAgreesStep ==
    ASSUME SignUpTypeOK, NEW r \in SignIns, SignInStep(r), NEW u \in Users, UserAgrees(u)
    PROVE  UserAgrees(u)'
<1>1. owner'[u] # None => UserOf[owner'[u]] = u
  BY GrantsStay DEF UserAgrees
<1>2. trials \subseteq trials'
  BY OwnNameOnly
<1>3. announced \in [Users -> Nat] /\ UserOf[r] \in Users
  BY ProvisioningAssumption DEF SignUpTypeOK
<1>4. CASE announced'[u] = announced[u]
  BY <1>1, <1>2, <1>4 DEF UserAgrees
<1>5. CASE announced'[u] # announced[u]
  <2>1. /\ WelcomeTrial(r) /\ u = UserOf[r]
        /\ \A w \in trials : UserOf[w] # u
        /\ trials' = trials \cup {r} /\ announced'[u] = announced[u] + 1
    BY <1>3, <1>5 DEF SignInStep, BeginSignIn, ClaimPlace, FindOrCreateUser, Recheck,
       CreateDatabase, MintAndMigrate, RecordGrant, WelcomeTrial, CallFails, DropRow,
       DropDatabase, ReleasePlace, Kill
  <2>2. announced[u] = 0
    BY <1>3, <2>1 DEF UserAgrees
  <2>3. QED
    BY <1>1, <2>1, <2>2 DEF UserAgrees
<1>6. QED
  BY <1>4, <1>5

LEMMA ShareUndisturbed ==
    ASSUME SignUpTypeOK, NEW r \in SignIns, SignInStep(r), NEW h \in Shares, ShareAgrees(h)
    PROVE  ShareAgrees(h)'
<1>1. OwnerOf[h] \in Users /\ UNCHANGED <<share, token>> /\ None \notin SignIns
  BY ProvisioningAssumption, OwnNameOnly
<1>2. QED
  BY <1>1, GrantsStay DEF ShareAgrees

LEMMA WorkspaceUndisturbed ==
    ASSUME SignUpTypeOK, NEW r \in SignIns, SignInStep(r), NEW w \in SignIns,
           WorkspaceAgrees(w)
    PROVE  WorkspaceAgrees(w)'
<1>1. UserOf[w] \in Users /\ UNCHANGED <<viewers, token>> /\ None \notin SignIns
  BY ProvisioningAssumption, OwnNameOnly
<1>2. QED
  BY <1>1, GrantsStay DEF WorkspaceAgrees

-----------------------------------------------------------------------------
(* Sharing.                                                                *)

\* A share writes users, tokens and viewers, and nothing of a sign-in.
LEMMA SharesApart ==
    ASSUME NEW h \in Shares, ShareStep(h)
    PROVE  UNCHANGED <<today, workspaces, databases, owner, counted, trials, announced, signIn,
                       excused, unread>>
BY DEF ShareStep, BeginShare, MintToken, SealToken, CreateViewer, RecordViewer, Revoke

LEMMA ShareGoes ==
    ASSUME SignUpTypeOK, NEW h \in Shares,
           NEW pc \in {"seal", "user", "record", "shared", "refused", "failed"},
           ShareAt(h, pc)
    PROVE  /\ share' \in [Shares -> Share]
           /\ \A g \in Shares \ {h} : share'[g] = share[g]
           /\ share'[h].pc = pc /\ share'[h].ws = share[h].ws
BY DEF SignUpTypeOK, ShareAt, Share

\* The answer to a share's first look.
FirstLook(h) ==
    LET w == Owned(OwnerOf[h])
    IN  IF OwnerOf[h] = ViewerOf[h] \/ OwnerOf[h] \notin users \/ w = None THEN "refused"
        ELSE IF ViewerOf[h] \in viewers[w] THEN "shared"
        ELSE IF Cardinality(viewers[w]) >= MaxViewers THEN "refused"
        ELSE IF token[w] = {} THEN "mint" ELSE "user"

LEMMA ShareBegins ==
    ASSUME SignUpTypeOK, NEW h \in Shares, BeginShare(h)
    PROVE  /\ share' \in [Shares -> Share]
           /\ \A g \in Shares \ {h} : share'[g] = share[g]
           /\ share'[h].pc = FirstLook(h) /\ share'[h].ws = Owned(OwnerOf[h])
<1> DEFINE look == FirstLook(h)  w == Owned(OwnerOf[h])
<1>1. share \in [Shares -> Share] /\ w \in SignIns \cup {None}
  BY ProvisioningAssumption, OwnedIs DEF SignUpTypeOK
<1>2. look \in {"mint", "user", "shared", "refused"}
  BY DEF FirstLook
<1>3. share' = [share EXCEPT ![h].ws = w, ![h].pc = look]
  BY Zenon DEF BeginShare, FirstLook
<1> HIDE DEF look, w
<1>4. /\ share' \in [Shares -> Share]
      /\ \A g \in Shares \ {h} : share'[g] = share[g]
      /\ share'[h].pc = look /\ share'[h].ws = w
  BY <1>1, <1>2, <1>3 DEF Share
<1>5. QED
  BY <1>4 DEF look, w

LEMMA ShareTyped ==
    ASSUME SignUpTypeOK, NEW h \in Shares, ShareStep(h)
    PROVE  /\ SignUpTypeOK'
           /\ \A g \in Shares \ {h} : share'[g] = share[g]
<1>1. /\ share' \in [Shares -> Share]
      /\ \A g \in Shares \ {h} : share'[g] = share[g]
  <2>1. CASE BeginShare(h)
    BY <2>1, ShareBegins
  <2>2. CASE MintToken(h)
    BY <2>2, ShareGoes DEF MintToken
  <2>3. CASE SealToken(h)
    BY <2>3, ShareGoes DEF SealToken
  <2>4. CASE CreateViewer(h)
    BY <2>4, ShareGoes DEF CreateViewer
  <2>5. CASE RecordViewer(h)
    BY <2>5, ShareGoes DEF RecordViewer
  <2>6. CASE Revoke(h)
    BY <2>6 DEF Revoke, SignUpTypeOK
  <2>7. QED
    BY <2>1, <2>2, <2>3, <2>4, <2>5, <2>6 DEF ShareStep
<1>2. Outage \/ UNCHANGED outages
  BY DEF ShareStep, BeginShare, MintToken, SealToken, CreateViewer, RecordViewer, Revoke
<1>3. ViewerOf[h] \in Users
  BY ProvisioningAssumption
<1>4. users' \subseteq Users
  BY <1>3 DEF ShareStep, BeginShare, MintToken, SealToken, CreateViewer, RecordViewer, Revoke,
     SignUpTypeOK
<1>5. token' \in [SignIns -> SUBSET Shares]
  <2>1. CASE UNCHANGED token
    BY <2>1 DEF SignUpTypeOK
  <2>2. CASE SealToken(h)
    BY <2>2 DEF SealToken, SignUpTypeOK
  <2>3. QED
    BY <2>1, <2>2 DEF ShareStep, BeginShare, MintToken, CreateViewer, RecordViewer, Revoke
<1>6. viewers' \in [SignIns -> SUBSET Users]
  <2>1. CASE UNCHANGED viewers
    BY <2>1 DEF SignUpTypeOK
  <2>2. CASE RecordViewer(h)
    BY <1>3, <2>2 DEF RecordViewer, SignUpTypeOK
  <2>3. CASE Revoke(h)
    BY <2>3 DEF Revoke, SignUpTypeOK
  <2>4. QED
    BY <2>1, <2>2, <2>3 DEF ShareStep, BeginShare, MintToken, SealToken, CreateViewer
<1>7. outages' \in 0..MaxOutages
  BY <1>2, OutagesTyped
<1>8. QED
  BY <1>1, <1>4, <1>5, <1>6, <1>7, SharesApart DEF SignUpTypeOK

\* A token once sealed stays, and only an empty place is sealed.
LEMMA TokenIs ==
    ASSUME SignUpTypeOK, NEW h \in Shares, ShareStep(h), NEW w \in SignIns
    PROVE  \/ token'[w] = token[w]
           \/ SealToken(h) /\ w = share[h].ws /\ token[w] = {} /\ token'[w] = {h}
<1>1. CASE UNCHANGED token
  BY <1>1
<1>2. CASE SealToken(h)
  BY <1>2 DEF SealToken, SignUpTypeOK
<1>3. QED
  BY <1>1, <1>2 DEF ShareStep, BeginShare, MintToken, CreateViewer, RecordViewer, Revoke

LEMMA ShareAgreesStep ==
    ASSUME SignUpTypeOK, NEW h \in Shares, ShareStep(h), NEW g \in Shares, ShareAgrees(g)
    PROVE  ShareAgrees(g)'
<1>1. UNCHANGED owner
  BY SharesApart
<1>2. \A w \in SignIns : token[w] # {} => token'[w] # {}
  BY TokenIs
<1>3. CASE g # h
  <2>1. share'[g] = share[g]
    BY <1>3, ShareTyped
  <2>2. QED
    BY <1>1, <1>2, <2>1 DEF ShareAgrees
<1>4. CASE g = h
  <2>1. CASE BeginShare(h)
    <3>1. /\ share'[h].pc = FirstLook(h) /\ share'[h].ws = Owned(OwnerOf[h])
          /\ token' = token
      BY <2>1, ShareBegins DEF BeginShare
    <3>2. FirstLook(h) \in {"mint", "seal", "user", "record"} =>
             /\ OwnerOf[h] # ViewerOf[h] /\ Owned(OwnerOf[h]) # None
             /\ FirstLook(h) \in {"user", "record"} => token[Owned(OwnerOf[h])] # {}
      BY DEF FirstLook
    <3>3. /\ OwnerOf[h] \in Users
          /\ Owned(OwnerOf[h]) \in SignIns \cup {None}
          /\ Owned(OwnerOf[h]) # None => Owned(OwnerOf[h]) = owner[OwnerOf[h]]
      BY ProvisioningAssumption, OwnedIs
    <3>4. QED
      BY <1>1, <1>4, <3>1, <3>2, <3>3 DEF ShareAgrees
  <2>2. CASE MintToken(h)
    <3>1. /\ share[h].pc = "mint" /\ share'[h].pc \in {"seal", "failed"}
          /\ share'[h].ws = share[h].ws
      BY <2>2, ShareGoes DEF MintToken
    <3>2. QED
      BY <1>1, <1>4, <3>1 DEF ShareAgrees
  <2>3. CASE SealToken(h)
    <3>1. /\ share[h].pc = "seal" /\ share'[h].pc \in {"user", "failed"}
          /\ share'[h].ws = share[h].ws
      BY <2>3, ShareGoes DEF SealToken
    <3>2. share'[h].pc = "user" => token'[share[h].ws] # {}
      <4>1. share'[h].pc = "user" => share[h].ws \in workspaces
        BY <2>3, ShareGoes DEF SealToken
      <4>2. QED
        BY <2>3, <4>1 DEF SealToken, SignUpTypeOK
    <3>3. QED
      BY <1>1, <1>4, <3>1, <3>2 DEF ShareAgrees
  <2>4. CASE CreateViewer(h)
    <3>1. /\ share[h].pc = "user" /\ share'[h].pc = "record"
          /\ share'[h].ws = share[h].ws /\ token' = token
      BY <2>4, ShareGoes DEF CreateViewer
    <3>2. QED
      BY <1>1, <1>4, <3>1 DEF ShareAgrees
  <2>5. CASE RecordViewer(h)
    <3>1. share'[h].pc \in {"shared", "refused"}
      BY <2>5, ShareGoes DEF RecordViewer
    <3>2. QED
      BY <1>4, <3>1 DEF ShareAgrees
  <2>6. CASE Revoke(h)
    BY <1>1, <1>4, <2>6 DEF Revoke, ShareAgrees
  <2>7. QED
    BY <2>1, <2>2, <2>3, <2>4, <2>5, <2>6 DEF ShareStep
<1>5. QED
  BY <1>3, <1>4

\* A viewer is recorded in a workspace of another's that has its token, if there is room.
LEMMA WorkspaceAgreesStep ==
    ASSUME SignUpTypeOK, NEW h \in Shares, ShareStep(h), ShareAgrees(h),
           \A u \in Users : UserAgrees(u), NEW w \in SignIns, WorkspaceAgrees(w)
    PROVE  WorkspaceAgrees(w)'
<1>1. UNCHANGED owner
  BY SharesApart
<1>2. /\ token[w] # {} => token'[w] # {}
      /\ token'[w] = {} \/ \E g \in Shares : token'[w] = {g}
  BY TokenIs DEF WorkspaceAgrees
<1>3. CASE viewers'[w] = viewers[w]
  BY <1>1, <1>2, <1>3 DEF WorkspaceAgrees
<1>4. CASE RecordViewer(h) /\ viewers'[w] # viewers[w]
  <2>1. /\ share[h].pc = "record" /\ share[h].ws = w /\ Cardinality(viewers[w]) < MaxViewers
        /\ viewers'[w] = viewers[w] \cup {ViewerOf[h]} /\ ViewerOf[h] \notin viewers[w]
    BY <1>4 DEF RecordViewer, SignUpTypeOK
  <2>2. w = owner[OwnerOf[h]] /\ OwnerOf[h] # ViewerOf[h] /\ token[w] # {}
    BY <2>1 DEF ShareAgrees
  <2>3. UserOf[w] = OwnerOf[h]
    BY <2>2, ProvisioningAssumption DEF UserAgrees
  <2>4. IsFiniteSet(viewers'[w]) /\ Cardinality(viewers'[w]) <= MaxViewers
    <3>1. /\ IsFiniteSet(viewers[w]) /\ Cardinality(viewers[w]) \in Nat /\ MaxViewers \in Nat
      BY ProvisioningAssumption, FS_CardinalityType DEF WorkspaceAgrees
    <3>2. /\ IsFiniteSet(viewers[w] \cup {ViewerOf[h]})
          /\ Cardinality(viewers[w] \cup {ViewerOf[h]}) = Cardinality(viewers[w]) + 1
      BY <2>1, <3>1, FS_AddElement
    <3>3. QED
      BY <2>1, <3>1, <3>2
  <2>5. QED
    BY <1>1, <1>2, <2>1, <2>2, <2>3, <2>4 DEF WorkspaceAgrees
<1>5. CASE Revoke(h) /\ viewers'[w] # viewers[w]
  <2>1. viewers'[w] = viewers[w] \ {ViewerOf[h]}
    BY <1>5 DEF Revoke, SignUpTypeOK
  <2>2. IsFiniteSet(viewers'[w]) /\ Cardinality(viewers'[w]) <= MaxViewers
    <3>1. /\ IsFiniteSet(viewers[w]) /\ Cardinality(viewers[w]) \in Nat /\ MaxViewers \in Nat
      BY ProvisioningAssumption, FS_CardinalityType DEF WorkspaceAgrees
    <3>2. /\ IsFiniteSet(viewers'[w]) /\ Cardinality(viewers'[w]) <= Cardinality(viewers[w])
          /\ Cardinality(viewers'[w]) \in Nat
      BY <2>1, <3>1, FS_Subset, FS_CardinalityType
    <3>3. QED
      BY <3>1, <3>2 DEF WorkspaceAgrees
  <2>3. QED
    BY <1>1, <1>2, <2>1, <2>2 DEF WorkspaceAgrees
<1>6. QED
  BY <1>3, <1>4, <1>5 DEF ShareStep, BeginShare, MintToken, SealToken, CreateViewer

-----------------------------------------------------------------------------
(* The theorems.                                                           *)

\* Nobody has signed in.
LEMMA SignUpInitInv == SignUpInit => SignUpInv
<1> SUFFICES ASSUME SignUpInit PROVE SignUpInv
  OBVIOUS
<1>1. /\ CapLimit \in Nat /\ MaxOutages \in Nat /\ MaxViewers \in Nat /\ 0 \in Days
      /\ UserOf \in [SignIns -> Users] /\ None \notin SignIns
  BY ProvisioningAssumption DEF Days
<1>2. /\ \A r \in SignIns : signIn[r] = [pc |-> "idle", day |-> 0, got |-> None, lost |-> FALSE]
      /\ \A h \in Shares : share[h] = [pc |-> "idle", ws |-> None]
  BY DEF SignUpInit
<1>3. signIn \in [SignIns -> SignIn] /\ share \in [Shares -> Share]
  BY <1>1 DEF SignUpInit, SignIn, Share
<1>4. SignUpTypeOK
  <2>1. counted \in [Days -> 0..CapLimit] /\ announced \in [Users -> Nat]
    BY <1>1 DEF SignUpInit
  <2>2. /\ owner \in [Users -> SignIns \cup {None}]
        /\ viewers \in [SignIns -> SUBSET Users] /\ token \in [SignIns -> SUBSET Shares]
    BY DEF SignUpInit
  <2>4. /\ today = 0 /\ outages = 0
        /\ users = {} /\ workspaces = {} /\ databases = {} /\ trials = {} /\ excused = {}
        /\ unread = {}
    BY DEF SignUpInit
  <2>3. QED
    BY <1>1, <1>3, <2>1, <2>2, <2>4 DEF SignUpTypeOK
<1>5. \A d \in Days : LetIn(d) = {} /\ counted[d] = 0
  BY <1>2 DEF LetIn, HoldsPlace, Working, SignUpInit
<1>6. PlacesCounted
  BY <1>5, FS_EmptySet DEF PlacesCounted
<1>7. \A r \in SignIns : SignInAgrees(r)
  BY <1>1, <1>2 DEF SignInAgrees, SignUpInit
<1>8. \A u \in Users : UserAgrees(u)
  BY DEF UserAgrees, SignUpInit
<1>9. \A h \in Shares : ShareAgrees(h)
  BY <1>2 DEF ShareAgrees
<1>10. \A w \in SignIns : WorkspaceAgrees(w)
  BY <1>1, FS_EmptySet DEF WorkspaceAgrees, SignUpInit
<1>11. QED
  BY <1>4, <1>6, <1>7, <1>8, <1>9, <1>10 DEF SignUpInv

\* A step of whoever signs in or shares, or of the calendar, keeps it all.
LEMMA SignUpStepInv ==
    ASSUME SignUpInv, [SignUpNext]_signUpVars
    PROVE  SignUpInv'
<1> USE DEF SignUpInv
<1>1. ASSUME NEW r \in SignIns, SignInStep(r)
      PROVE  SignUpInv'
  <2>1. SignUpTypeOK' /\ PlacesCounted'
    BY <1>1, SignInTyped, PlacesStep
  <2>2. \A q \in SignIns : SignInAgrees(q)'
    BY <1>1, OwnAgrees, OthersAgree
  <2>3. QED
    BY <1>1, <2>1, <2>2, UserAgreesStep, ShareUndisturbed, WorkspaceUndisturbed
<1>2. ASSUME NEW h \in Shares, ShareStep(h)
      PROVE  SignUpInv'
  <2>1. UNCHANGED <<today, workspaces, databases, owner, counted, trials, announced, signIn,
                    excused, unread>>
    BY <1>2, SharesApart
  <2>2. /\ \A r \in SignIns : SignInAgrees(r)'
        /\ \A u \in Users : UserAgrees(u)'
    BY <2>1 DEF SignInAgrees, UserAgrees
  <2>3. PlacesCounted'
    BY <2>1 DEF PlacesCounted, LetIn, HoldsPlace
  <2>4. QED
    BY <1>2, <2>2, <2>3, ShareTyped, ShareAgreesStep, WorkspaceAgreesStep
<1>3. CASE Midnight \/ UNCHANGED signUpVars
  <2>3. today' \in Days
    BY <1>3, ProvisioningAssumption DEF signUpVars, Midnight, SignUpTypeOK, Days
  <2>6. UNCHANGED <<users, workspaces, owner, viewers, token, databases, counted, trials,
                    announced, signIn, share, excused, unread, outages>>
    BY <1>3 DEF signUpVars, Midnight
  <2>1. /\ \A r \in SignIns : SignInAgrees(r)'
        /\ \A u \in Users : UserAgrees(u)'
        /\ \A h \in Shares : ShareAgrees(h)'
        /\ \A w \in SignIns : WorkspaceAgrees(w)'
    BY <2>6 DEF SignInAgrees, UserAgrees, ShareAgrees, WorkspaceAgrees
  <2>2. PlacesCounted'
    BY <2>6 DEF PlacesCounted, LetIn, HoldsPlace
  <2>4. SignUpTypeOK'
    BY <2>3, <2>6 DEF SignUpTypeOK
  <2>5. QED
    BY <2>1, <2>2, <2>4
<1>4. QED
  BY <1>1, <1>2, <1>3 DEF SignUpNext, SignInStep, ShareStep

\* What sign-ins, shares, grants and the cap say of each other holds throughout.
THEOREM SignUpInvariant == SignUpSpec => []SignUpInv
BY SignUpInitInv, SignUpStepInv, PTL DEF SignUpSpec

\* The directory, the cap and every request keep their types.
THEOREM SignUpTypeCorrect == SignUpSpec => []SignUpTypeOK
BY SignUpInvariant, PTL DEF SignUpInv

\* A day's cap counts every workspace it let in and never passes the limit, whatever is
\* given back, lost or killed (claimDailyProvisioning, releaseDailyProvisioning).
THEOREM CapHolds == SignUpSpec => []CapNeverLooser
<1>1. SignUpInv => CapNeverLooser
  BY DEF SignUpInv, CapNeverLooser, PlacesCounted, LetIn, SignUpTypeOK
<1>2. QED
  BY <1>1, SignUpInvariant, PTL

\* Whoever is let in holds the one workspace its identity owns, and no trial is started
\* for another or welcomed twice (recordGrant, createOwnedWorkspace).
THEOREM ConvergenceHolds == SignUpSpec => []LoginsConverge
<1>1. SignUpInv => LoginsConverge
  <2> SUFFICES ASSUME SignUpInv PROVE LoginsConverge
    OBVIOUS
  <2>1. /\ UserOf \in [SignIns -> Users] /\ owner \in [Users -> SignIns \cup {None}]
        /\ trials \subseteq SignIns
    BY ProvisioningAssumption DEF SignUpInv, SignUpTypeOK
  <2>2. ASSUME NEW r \in SignIns, signIn[r].pc = "ready", UserOf[r] \notin unread
        PROVE  /\ signIn[r].got = owner[UserOf[r]]
               /\ owner[UserOf[r]] \in workspaces /\ owner[UserOf[r]] \in databases
    <3>1. signIn[r].got = owner[UserOf[r]] /\ owner[UserOf[r]] # None
      BY <2>2 DEF SignUpInv, SignInAgrees
    <3>2. PICK w \in SignIns : w = owner[UserOf[r]]
      BY <2>1, <3>1
    <3>3. UserOf[w] = UserOf[r]
      BY <2>1, <3>1, <3>2 DEF SignUpInv, UserAgrees
    <3>4. w \in workspaces /\ w \in databases
      BY <2>2, <3>2, <3>3 DEF SignUpInv, SignInAgrees
    <3>5. QED
      BY <3>1, <3>2, <3>4
  <2>3. \A w \in trials : w = owner[UserOf[w]]
    BY <2>1 DEF SignUpInv, SignInAgrees
  <2>4. \A u \in Users : announced[u] <= 1
    BY DEF SignUpInv, UserAgrees
  <2>5. QED
    BY <2>2, <2>3, <2>4 DEF LoginsConverge
<1>2. QED
  BY <1>1, SignUpInvariant, PTL

\* No database outlives its sign-in unowned, but for what a failed call or a kill left
\* (createOwnedWorkspace's cleanups).
THEOREM NoOrphanHolds == SignUpSpec => []NoOrphanDatabase
<1>1. SignUpInv => NoOrphanDatabase
  BY DEF SignUpInv, NoOrphanDatabase, SignInAgrees, SignUpTypeOK, Ended
<1>2. QED
  BY <1>1, SignUpInvariant, PTL

\* A viewer has a sealed token in a workspace of another's, and no more viewers are let
\* in than the limit (shareWorkspaceReadOnly, recordViewerGrant).
THEOREM SharingHolds == SignUpSpec => []SharedReadOnly
<1>1. SignUpInv => SharedReadOnly
  BY FS_Singleton DEF SignUpInv, SharedReadOnly, WorkspaceAgrees
<1>2. QED
  BY <1>1, SignUpInvariant, PTL

-----------------------------------------------------------------------------
(* The control plane whole.                                                *)

\* Whatever part it starts in, the control plane behaves as the queue, as provisioning,
\* as billing and as the trial e-mails specify, so that every theorem about one of them is
\* about the whole.
THEOREM ControlParts == ControlSpec => Spec /\ SignUpSpec /\ BillingSpec /\ MailSpec
<1>1. ControlInit => Init /\ SignUpInit /\ BillingInit /\ MailInit
  BY DEF ControlInit
<1>2. [ControlNext]_controlVars =>
          [Next]_vars /\ [SignUpNext]_signUpVars /\ [BillingNext]_billingVars /\ [MailNext]_mailVars
  BY DEF ControlNext, SignUpStep, SharingStep, BillingStep, controlVars, accountVars
<1>3. QED
  BY <1>1, <1>2, PTL DEF ControlSpec, Spec, SignUpSpec, BillingSpec, MailSpec

\* The state of the part's component keeps its type.
THEOREM ControlTypeCorrect == ControlSpec => []TypeOK
<1>1. EntitlementsAssumption /\ TrialEmailsAssumption
  BY MCControlAssumption
<1>2. QueueTypeOK /\ SignUpTypeOK /\ BillingTypeOK /\ MailTypeOK => TypeOK
  BY DEF TypeOK
<1>3. (BillingSpec => []BillingTypeOK) /\ (MailSpec => []MailTypeOK)
  BY <1>1, BillingTypeCorrect, MailTypeCorrect
<1>4. QED
  BY <1>2, <1>3, ControlParts, TypeCorrect, SignUpTypeCorrect, PTL

=============================================================================
