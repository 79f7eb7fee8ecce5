--------------------------- MODULE OwningSyncProofs ---------------------------
(***************************************************************************)
(* One pass holds a connection at a time, and MyInvestor is asked on a day *)
(* at most the cap of logins reserved for it and one of the day before,    *)
(* for any passes, devices and bounds.                                     *)
(***************************************************************************)
EXTENDS OwningSync, TLAPS

\* The day a pass claimed is today or one before, and no day after it was reserved yet.
\* The reservation of a pass that is asking is counted and not spent.
Working(p) == pass[p].pc \in {"reserving", "limited", "asking", "applying", "recording"}
Reserved ==
    /\ state.loginDay <= Today
    /\ state.logins <= Cap
    /\ \A d \in Days : asked[d] <= Cap
    /\ \A d \in Days : d > state.loginDay => asked[d] = 0
    /\ state.loginDay \in Days => asked[state.loginDay] <= state.logins
    /\ \A p \in Passes : Working(p) =>
          /\ pass[p].day \in Days
          /\ state.loginDay <= pass[p].day /\ pass[p].day <= Today
    /\ \A p \in Passes : pass[p].pc \in {"asking", "applying", "recording"} =>
          pass[p].day = state.loginDay
    /\ \A p \in Passes : pass[p].pc = "asking" => asked[state.loginDay] < state.logins

\* While a pass that claimed on an earlier day has yet to ask, no late login of today was
\* asked; of the days to come none was.
Overdue(p) == pass[p].pc \in {"reserving", "asking"} /\ pass[p].day < Today
Overnight ==
    /\ \A d \in Days : late[d] <= 1
    /\ \A d \in Days : d > Today => late[d] = 0
    /\ \A p \in Passes : Overdue(p) => late[Today] = 0

\* A pass begins or is killed.
Outside(p) == PurgeSyncAttempts(p) \/ ReadSource(p) \/ Crash(p)

Inv == TypeOK /\ OnePassPerConnection /\ Reserved /\ Overnight

USE OwningAssumption

LEMMA FirstIsADevice == FirstDevice \in Devices
BY DEF FirstDevice

LEMMA InstantsDay ==
    ASSUME NEW n \in 0..MaxNow
    PROVE  n \div 2 + 1 \in Days
BY DEF Days

LEMMA TodayIsADay == now \in 0..MaxNow => Today \in Days
BY DEF Today, Days

LEMMA RestingTyped == Resting \in PassState /\ Releasing \in PassState
BY FirstIsADevice DEF Resting, Releasing, PassState, Failures

LEMMA ConnTyped ==
    ASSUME NEW kept \in BOOLEAN, NEW d \in Devices
    PROVE  [password |-> kept, device |-> d] \in Conn
BY DEF Conn

LEMMA RecordedTyped ==
    ASSUME NEW kind \in Failures \cup {"none", "ok", "purged"}
    PROVE  Recorded(kind) \in Attempt /\ Recorded(kind).kind = kind
BY DEF Recorded, Attempt

-----------------------------------------------------------------------------
(* Types.                                                                  *)

LEMMA InitTyped == Init => TypeOK
BY FirstIsADevice, RestingTyped, RecordedTyped DEF Init, TypeOK, Conn, State, FlowState, AtRest, Days,
   NoDay, Failures

\* The passes, step by step.
LEMMA PassTyped ==
    ASSUME TypeOK, NEW p \in Passes, Outside(p) \/ PassStep(p)
    PROVE  pass' \in [Passes -> PassState]
<1> DEFINE OneStep(r) == pass' = [pass EXCEPT ![p] = r]
<1>1. ASSUME NEW r \in PassState, OneStep(r)
      PROVE  pass' \in [Passes -> PassState]
  BY <1>1 DEF TypeOK
<1>2. pass[p] \in PassState /\ pass \in [Passes -> PassState]
  BY DEF TypeOK
<1>3. CASE ReadSource(p)
  BY <1>1, <1>3, RestingTyped DEF ReadSource, TypeOK, Conn, PassState
<1>3a. CASE PurgeSyncAttempts(p)
  BY <1>1, <1>3a, RestingTyped DEF PurgeSyncAttempts, PassState
<1>4. CASE GateRefuses(p) \/ ReleaseSyncLease(p) \/ Crash(p)
  BY <1>1, <1>4, RestingTyped DEF GateRefuses, ReleaseSyncLease, Crash
<1>5. CASE GatePasses(p) \/ DayIsSpent(p) \/ ReserveSyncLogin(p)
  BY <1>2, <1>5 DEF GatePasses, DayIsSpent, ReserveSyncLogin, PassState
<1>6. CASE ClaimSyncLease(p)
  BY <1>2, <1>6, TodayIsADay DEF ClaimSyncLease, TypeOK, PassState
<1>7. CASE ClaimBusy(p)
  BY <1>1, <1>7, RestingTyped DEF ClaimBusy, PassState
<1>8. CASE WaitForPass(p)
  BY <1>1, <1>2, <1>8, RestingTyped DEF WaitForPass, PassState
<1>9. CASE RecordLimit(p) \/ RecordOutcome(p) \/ RecordRejection(p)
  BY <1>1, <1>9, RestingTyped DEF RecordLimit, RecordOutcome, RecordRejection
<1>10. CASE \E kind \in Failures \cup {"ok"} : Ask(p, kind) \/ ReadAndApply(p, kind)
  BY <1>2, <1>10 DEF Ask, ReadAndApply, PassState, Failures
<1>11. CASE WriteThrows(p)
  BY <1>1, <1>2, <1>11, RestingTyped DEF WriteThrows, PassState, Failures
<1>12. QED
  BY <1>3, <1>3a, <1>4, <1>5, <1>6, <1>7, <1>8, <1>9, <1>10, <1>11 DEF PassStep, Outside

\* The row.
LEMMA StateTyped ==
    ASSUME TypeOK, NEW p \in Passes, PassStep(p)
    PROVE  state' \in State
<1> USE DEF TypeOK, State
<1>1. CASE GateRefuses(p) \/ GatePasses(p) \/ ClaimBusy(p) \/ WaitForPass(p)
           \/ DayIsSpent(p) \/ WriteThrows(p)
           \/ \E kind \in Failures \cup {"ok"} : Ask(p, kind) \/ ReadAndApply(p, kind)
  BY <1>1 DEF GateRefuses, GatePasses, ClaimBusy, WaitForPass, DayIsSpent, WriteThrows, Ask,
              ReadAndApply
<1>2. CASE ClaimSyncLease(p) \/ ReleaseSyncLease(p) \/ RecordLimit(p)
  BY <1>2 DEF ClaimSyncLease, ReleaseSyncLease, RecordLimit
<1>3. CASE ReserveSyncLogin(p)
  <2>1. pass[p].day \in Days \cup {NoDay}
    BY DEF PassState
  <2>2. state.logins \in Nat /\ state.rejections \in Nat
    OBVIOUS
  <2> DEFINE logins == IF SameDay(p) THEN state.logins + 1 ELSE 1
             rejections == IF SameDay(p) THEN state.rejections ELSE 0
  <2>3. logins \in Nat /\ rejections \in Nat
    BY <2>2
  <2>4. state' = [state EXCEPT !.loginDay = pass[p].day, !.logins = logins,
                               !.rejections = rejections]
    BY <1>3 DEF ReserveSyncLogin
  <2> HIDE DEF logins, rejections
  <2>5. QED
    BY <2>1, <2>3, <2>4
<1>4. CASE RecordOutcome(p)
  <2>1. PICK kind : kind \in Failures \cup {"ok", "none"} /\ pass[p].kind = kind
    BY DEF PassState
  <2>2. kind \in {"rejected", "noReason", "sms", "failed", "none", "ok", "limit", "locked"}
    BY <2>1 DEF Failures
  <2>3. now + PauseLength \in Nat
    BY DEF PauseLength
  <2>4. Patched(kind) \in State
    BY <2>1, <2>3 DEF Patched
  <2>5. QED
    BY <1>4, <2>1, <2>4 DEF RecordOutcome
<1>5. CASE RecordRejection(p)
  <2>1. pass[p].day \in Days \cup {NoDay}
    BY DEF PassState
  <2>2. pass[p].day \in Nat /\ NextDayStart(pass[p].day) \in Nat
    BY <2>1 DEF Days, NoDay, NextDayStart
  <2>3. state.rejections \in Nat /\ state.pausedUntil \in Nat
    OBVIOUS
  <2> DEFINE count == IF SameDay(p) THEN state.rejections + 1 ELSE 1
             locked == count >= LockAfter
             outcome == IF locked THEN "locked" ELSE "rejected"
             until == IF locked THEN NextDayStart(pass[p].day) ELSE state.pausedUntil
  <2>4. count \in Nat /\ outcome \in {"locked", "rejected"} /\ until \in Nat
    BY <2>2, <2>3
  <2>5. state' = [state EXCEPT !.loginDay = pass[p].day, !.rejections = count,
                               !.outcome = outcome, !.pausedUntil = until]
    BY <1>5 DEF RecordRejection
  <2> HIDE DEF count, outcome, until
  <2>6. QED
    BY <2>1, <2>4, <2>5 DEF Failures
<1>6. QED
  BY <1>1, <1>2, <1>3, <1>4, <1>5 DEF PassStep

LEMMA StepTyped == TypeOK /\ [Next]_vars => TypeOK'
<1> SUFFICES ASSUME TypeOK, [Next]_vars PROVE TypeOK'
  OBVIOUS
<1>1. ASSUME NEW p \in Passes, PassStep(p)
      PROVE  TypeOK'
  <2>1. flow' = flow /\ trusted' = trusted /\ now' = now
    BY <1>1 DEF PassStep, GateRefuses, GatePasses, ClaimSyncLease, ClaimBusy, WaitForPass,
                ReserveSyncLogin, DayIsSpent, RecordLimit, Ask, ReadAndApply, RecordOutcome,
                RecordRejection, WriteThrows, ReleaseSyncLease
  <2>2. conn' \in Conn /\ lastRow' \in Attempt
    <3>1. pass[p].kind \in Failures \cup {"ok", "none"} /\ pass[p].device \in Devices
      BY DEF TypeOK, PassState
    <3>2. \/ conn' = conn /\ lastRow' = lastRow
          \/ conn' = conn /\ lastRow' = Recorded(pass[p].kind)
          \/ /\ conn' = conn \/ conn' = [password |-> FALSE, device |-> pass[p].device]
             /\ lastRow' = Recorded("rejected")
      BY <1>1 DEF PassStep, GateRefuses, GatePasses, ClaimSyncLease, ClaimBusy, WaitForPass,
                  ReserveSyncLogin, DayIsSpent, RecordLimit, Ask, ReadAndApply,
                  RecordOutcome, RecordRejection, WriteThrows, ReleaseSyncLease
    <3>3. conn' = conn \/ conn' = [password |-> FALSE, device |-> pass[p].device]
      BY <3>2
    <3>4. conn' \in Conn
      BY <3>1, <3>3, ConnTyped, Zenon DEF TypeOK
    <3>5. lastRow' \in Attempt
      BY <3>1, <3>2, RecordedTyped DEF TypeOK, Failures
    <3>6. QED
      BY <3>4, <3>5
  <2>3. asked' \in [Days -> Nat] /\ late' \in [Days -> Nat]
    <3>1. /\ asked' = asked \/ asked' = [asked EXCEPT ![Today] = @ + 1]
          /\ late' = late \/ late' = [late EXCEPT ![Today] = @ + 1]
      BY <1>1 DEF PassStep, GateRefuses, GatePasses, ClaimSyncLease, ClaimBusy, WaitForPass,
                  ReserveSyncLogin, DayIsSpent, RecordLimit, Ask, ReadAndApply,
                  RecordOutcome, RecordRejection, WriteThrows, ReleaseSyncLease
    <3>2. QED
      BY <3>1 DEF TypeOK
  <2>4. QED
    BY <1>1, <2>1, <2>2, <2>3, PassTyped, StateTyped DEF TypeOK
<1>2. ASSUME NEW p \in Passes, Outside(p)
      PROVE  TypeOK'
  <2>1. UNCHANGED <<conn, state, flow, trusted, asked, late, now>>
        /\ (lastRow' = lastRow \/ lastRow' = Recorded("purged"))
    BY <1>2 DEF Outside, PurgeSyncAttempts, ReadSource, Crash
  <2>2. QED
    BY <1>2, <2>1, PassTyped, RecordedTyped DEF TypeOK
<1>3. CASE FlowStep
  <2>1. UNCHANGED <<lastRow, pass, asked, late, now>>
    BY <1>3 DEF FlowStep, StartReenter, ReenterLogin, SubmitCode, CodeAccepted, RecordReentry,
                FlowEnds, StartKeeping, UpdateCredentials
  <2>2. AtRest \in FlowState
    BY FirstIsADevice DEF AtRest, FlowState
  <2>3. flow' \in FlowState
    <3>1. ASSUME NEW d \in Devices, StartReenter(d)
          PROVE  flow' \in FlowState
      BY <2>2, <3>1 DEF TypeOK, FlowState, Conn, StartReenter
    <3>2. CASE ReenterLogin \/ CodeAccepted
      <4>1. Failed \in BOOLEAN
        BY DEF Failed
      <4>2. QED
        BY <3>2, <4>1 DEF TypeOK, FlowState, ReenterLogin, CodeAccepted
    <3>3. CASE SubmitCode
      BY <3>3 DEF TypeOK, FlowState, Conn, SubmitCode
    <3>4. ASSUME NEW pc \in {"saving", "forgetting"}, StartKeeping(pc)
          PROVE  flow' \in FlowState
      BY <2>2, <3>4 DEF TypeOK, FlowState, Conn, StartKeeping
    <3>5. QED
      BY <1>3, <2>2, <3>1, <3>2, <3>3, <3>4 DEF FlowStep, RecordReentry, FlowEnds,
         UpdateCredentials
  <2>4. conn' \in Conn /\ trusted' \subseteq Devices
    <3>1. \/ conn' = conn
          \/ \E save \in BOOLEAN :
                conn' = [password |-> save \/ flow.kept, device |-> flow.device]
          \/ conn' = [password |-> flow.pc = "saving", device |-> flow.device]
      BY <1>3 DEF FlowStep, StartReenter, ReenterLogin, SubmitCode, CodeAccepted,
                  RecordReentry, FlowEnds, StartKeeping, UpdateCredentials
    <3>2. trusted' = trusted \/ trusted' = trusted \cup {flow.device}
      BY <1>3 DEF FlowStep, StartReenter, ReenterLogin, SubmitCode, CodeAccepted,
                  RecordReentry, FlowEnds, StartKeeping, UpdateCredentials
    <3>3. flow.device \in Devices
      BY DEF TypeOK, FlowState
    <3>4. conn' \in Conn
      <4>1. \A save : (save \/ flow.kept) \in BOOLEAN
        OBVIOUS
      <4>2. (flow.pc = "saving") \in BOOLEAN
        OBVIOUS
      <4>3. conn \in Conn
        BY DEF TypeOK
      <4>4. QED
        BY <3>1, <3>3, <4>1, <4>2, <4>3, ConnTyped, Zenon
    <3>5. trusted' \subseteq Devices
      BY <3>2, <3>3 DEF TypeOK
    <3>6. QED
      BY <3>4, <3>5
  <2>5. state' \in State
    BY <1>3 DEF TypeOK, State, FlowStep, StartReenter, ReenterLogin, SubmitCode,
                CodeAccepted, RecordReentry, FlowEnds, StartKeeping, UpdateCredentials
  <2>6. QED
    BY <2>1, <2>3, <2>4, <2>5 DEF TypeOK
<1>4. CASE LeaseExpires
  BY <1>4 DEF TypeOK, LeaseExpires, State
<1>5. CASE Tick \/ QuietMonths
  <2>1. now' \in 0..MaxNow
    BY <1>5 DEF TypeOK, Tick, QuietMonths, NextDayStart, Today
  <2>2. lastRow' \in Attempt
    <3>1. (lastRow.kind # "none") \in BOOLEAN
      OBVIOUS
    <3>2. QED
      BY <1>5, <3>1, Zenon DEF TypeOK, Tick, QuietMonths, Attempt
  <2>3. QED
    BY <1>5, <2>1, <2>2 DEF TypeOK, Tick, QuietMonths
<1>6. ASSUME NEW d \in Devices, Distrust(d)
      PROVE  TypeOK'
  BY <1>6 DEF TypeOK, Distrust
<1>7. CASE UNCHANGED vars
  BY <1>7 DEF vars, TypeOK
<1>8. QED
  BY <1>1, <1>2, <1>3, <1>4, <1>5, <1>6, <1>7 DEF Next, Outside, Passes

\* Type correctness, for any passes, devices and bounds.
THEOREM TypeCorrect == Spec => []TypeOK
BY InitTyped, StepTyped, PTL DEF Spec

-----------------------------------------------------------------------------
(* One pass.                                                               *)

\* A pass moves by its own steps only.
LEMMA OthersStay ==
    ASSUME NEW p \in Passes, Outside(p) \/ PassStep(p),
           TypeOK, NEW q \in Passes, q # p
    PROVE  pass'[q] = pass[q]
BY DEF TypeOK, Outside, PurgeSyncAttempts, ReadSource, Crash, PassStep, GateRefuses, GatePasses, ClaimSyncLease,
   ClaimBusy, WaitForPass, ReserveSyncLogin, DayIsSpent, RecordLimit, Ask, ReadAndApply,
   RecordOutcome, RecordRejection, WriteThrows, ReleaseSyncLease

\* A pass that is refused, waits or begins is not working.
LEMMA GateMoves ==
    ASSUME TypeOK, NEW p \in Passes,
           \/ Outside(p) \/ GateRefuses(p) \/ GatePasses(p) \/ ClaimBusy(p)
           \/ WaitForPass(p)
    PROVE  pass'[p].pc \in {"idle", "purged", "gating", "claiming", "waiting"} /\ state' = state
<1>1. pass[p] \in PassState /\ pass \in [Passes -> PassState]
  BY DEF TypeOK
<1>2. Resting.pc = "idle" /\ "pc" \in DOMAIN Resting /\ "rounds" \in DOMAIN Resting
  BY DEF Resting
<1>3. CASE ReadSource(p)
  BY <1>1, <1>3 DEF ReadSource, Resting
<1>3a. CASE PurgeSyncAttempts(p)
  BY <1>1, <1>3a DEF PurgeSyncAttempts, Resting
<1>4. CASE GateRefuses(p) \/ Crash(p)
  BY <1>1, <1>2, <1>4 DEF GateRefuses, Crash
<1>5. CASE GatePasses(p)
  BY <1>1, <1>5 DEF GatePasses, PassState
<1>6. CASE ClaimBusy(p)
  <2>1. pass'[p] = Resting \/ pass'[p] = [Resting EXCEPT !.pc = "waiting", !.rounds = MaxRounds]
    BY <1>1, <1>6 DEF ClaimBusy
  <2>2. QED
    BY <1>2, <1>6, <2>1 DEF ClaimBusy
<1>7. CASE WaitForPass(p)
  <2>1. pass'[p] = Resting \/ pass'[p] = [pass[p] EXCEPT !.rounds = @ - 1]
    BY <1>1, <1>7 DEF WaitForPass
  <2>2. pass[p].pc = "waiting" /\ "pc" \in DOMAIN pass[p]
    BY <1>1, <1>7 DEF WaitForPass, PassState
  <2>3. QED
    BY <1>2, <1>7, <2>1, <2>2 DEF WaitForPass
<1>8. QED
  BY <1>3, <1>3a, <1>4, <1>5, <1>6, <1>7 DEF Outside

\* Between its claim and its release a pass leaves the lease alone.
LEMMA LeaseStays ==
    ASSUME TypeOK, NEW p \in Passes, PassStep(p),
           ~ClaimSyncLease(p), ~ReleaseSyncLease(p)
    PROVE  state'.lease = state.lease /\ (Holding(p)' => Holding(p))
<1>1. pass[p] \in PassState /\ "lease" \in DOMAIN state
  BY DEF TypeOK, State
<1>2. state'.lease = state.lease
  <2>1. CASE RecordOutcome(p)
    BY <1>1, <2>1 DEF RecordOutcome, Patched
  <2>2. CASE RecordRejection(p)
    BY <1>1, <2>2 DEF RecordRejection
  <2>3. CASE ReserveSyncLogin(p) \/ RecordLimit(p)
    BY <1>1, <2>3 DEF ReserveSyncLogin, RecordLimit
  <2>4. QED
    BY <2>1, <2>2, <2>3 DEF PassStep, GateRefuses, GatePasses, ClaimBusy, WaitForPass,
       DayIsSpent, Ask, ReadAndApply, WriteThrows
<1>3. Holding(p)' => Holding(p)
  <2>1. CASE GateRefuses(p) \/ GatePasses(p) \/ ClaimBusy(p) \/ WaitForPass(p)
    BY <2>1, GateMoves DEF Holding
  <2>2. QED
    BY <2>1 DEF Holding, PassStep, ReserveSyncLogin, DayIsSpent, RecordLimit, Ask,
                ReadAndApply, RecordOutcome, RecordRejection, WriteThrows
<1>4. QED
  BY <1>2, <1>3

LEMMA OnePassStep == TypeOK /\ OnePassPerConnection /\ [Next]_vars => OnePassPerConnection'
<1> SUFFICES ASSUME TypeOK, OnePassPerConnection, [Next]_vars
             PROVE  OnePassPerConnection'
  OBVIOUS
<1>1. ASSUME NEW p \in Passes, PassStep(p)
      PROVE  OnePassPerConnection'
  <2>1. \A q \in Passes \ {p} : Holding(q)' = Holding(q)
    BY <1>1, OthersStay DEF Holding
  <2>2. CASE ClaimSyncLease(p)
    <3>1. state'.lease = "held" /\ state.lease # "held"
      BY <2>2 DEF ClaimSyncLease, TypeOK, State
    <3>2. \A q \in Passes : ~Holding(q)
      BY <3>1 DEF OnePassPerConnection
    <3>3. QED
      BY <2>1, <3>1, <3>2 DEF OnePassPerConnection
  <2>3. CASE ReleaseSyncLease(p)
    <3>1. Holding(p)
      BY <2>3 DEF ReleaseSyncLease, Holding
    <3>2. ~Holding(p)'
      BY <2>3 DEF ReleaseSyncLease, Holding, TypeOK, Resting
    <3>3. QED
      BY <2>1, <3>1, <3>2 DEF OnePassPerConnection
  <2>4. CASE ~ClaimSyncLease(p) /\ ~ReleaseSyncLease(p)
    <3>1. state'.lease = state.lease /\ (Holding(p)' => Holding(p))
      BY <1>1, <2>4, LeaseStays
    <3>2. QED
      BY <2>1, <3>1 DEF OnePassPerConnection
  <2>5. QED
    BY <2>2, <2>3, <2>4
<1>2. ASSUME NEW p \in Passes, Outside(p)
      PROVE  OnePassPerConnection'
  <2>1. \A q \in Passes \ {p} : Holding(q)' = Holding(q)
    BY <1>2, OthersStay DEF Holding
  <2>2. ~Holding(p)' /\ state' = state
    BY <1>2, GateMoves DEF Holding
  <2>3. QED
    BY <2>1, <2>2 DEF OnePassPerConnection
<1>3. CASE FlowStep
  <2>1. pass' = pass /\ state'.lease = state.lease
    BY <1>3 DEF TypeOK, State, FlowStep, StartReenter, ReenterLogin, SubmitCode, CodeAccepted,
                RecordReentry, FlowEnds, StartKeeping, UpdateCredentials
  <2>2. QED
    BY <2>1 DEF OnePassPerConnection, Holding
<1>4. CASE LeaseExpires
  BY <1>4 DEF LeaseExpires, OnePassPerConnection, Holding
<1>5. CASE Tick \/ QuietMonths \/ (\E d \in Devices : Distrust(d)) \/ UNCHANGED vars
  BY <1>5 DEF Tick, QuietMonths, Distrust, vars, OnePassPerConnection, Holding
<1>6. QED
  BY <1>1, <1>2, <1>3, <1>4, <1>5 DEF Next, Outside, Passes

LEMMA OnePassInit == Init => OnePassPerConnection
BY DEF Init, OnePassPerConnection, Holding, Resting

\* Two passes never work on one connection at a time.
THEOREM OnePassHolds == Spec => []OnePassPerConnection
BY InitTyped, StepTyped, OnePassInit, OnePassStep, PTL DEF Spec

-----------------------------------------------------------------------------
(* The cap.                                                                *)

LEMMA ReservedInit == Init => Reserved
BY DEF Init, Reserved, Working, Today, Days, NoDay, Resting

\* The day of a pass that claims is today, and no reservation is after it.
LEMMA ReservedStep == Inv /\ [Next]_vars => Reserved'
<1> SUFFICES ASSUME Inv, [Next]_vars
             PROVE  Reserved'
  OBVIOUS
<1>0. /\ pass \in [Passes -> PassState] /\ state \in State /\ asked \in [Days -> Nat]
      /\ Days \subseteq Nat \ {0} /\ Today \in Days /\ now \in Nat
      /\ state.loginDay \in Nat /\ state.logins \in Nat
  BY TodayIsADay DEF Inv, TypeOK, State, Days, NoDay
<1>1. ASSUME NEW p \in Passes, PassStep(p)
      PROVE  Reserved'
  <2>1. \A q \in Passes \ {p} : pass'[q] = pass[q]
    BY <1>1, OthersStay DEF Inv
  <2>2. Today' = Today
    BY <1>1 DEF Today, PassStep, GateRefuses, GatePasses, ClaimSyncLease, ClaimBusy,
                WaitForPass, ReserveSyncLogin, DayIsSpent, RecordLimit, Ask, ReadAndApply,
                RecordOutcome, RecordRejection, WriteThrows, ReleaseSyncLease
  <2>3. ASSUME Working(p)
        PROVE  \A q \in Passes \ {p} : ~Working(q)
    BY <2>3 DEF Inv, OnePassPerConnection, Holding, Working
  <2>4. CASE ClaimSyncLease(p)
    <3>1. /\ pass'[p].pc = "reserving" /\ pass'[p].day = Today
          /\ state'.loginDay = state.loginDay /\ state'.logins = state.logins
          /\ asked' = asked
      BY <1>0, <2>4 DEF ClaimSyncLease, PassState, State
    <3>2. QED
      BY <1>0, <2>1, <2>2, <3>1 DEF Inv, Reserved, Working
  <2>5. CASE ReserveSyncLogin(p)
    <3>1. Working(p) /\ pass[p].day \in Days /\ state.loginDay <= pass[p].day
      BY <2>5 DEF ReserveSyncLogin, Working, Inv, Reserved
    <3>2. /\ pass'[p].pc = "asking" /\ pass'[p].day = pass[p].day /\ asked' = asked
          /\ state'.loginDay = pass[p].day
          /\ state'.logins = IF pass[p].day = state.loginDay THEN state.logins + 1 ELSE 1
          /\ pass[p].day = state.loginDay => state.logins < Cap
      BY <1>0, <2>5 DEF ReserveSyncLogin, PassState, State, SameDay
    <3>3. asked[pass[p].day] < state'.logins /\ state'.logins <= Cap
      <4>1. pass[p].day \in Nat /\ Cap \in Nat \ {0}
        BY <1>0, <3>1
      <4>2. CASE pass[p].day = state.loginDay
        <5>1. asked[pass[p].day] <= state.logins /\ asked[pass[p].day] \in Nat
          BY <1>0, <3>1, <4>2 DEF Inv, Reserved
        <5>2. QED
          BY <1>0, <3>2, <4>1, <4>2, <5>1
      <4>3. CASE pass[p].day # state.loginDay
        <5>1. pass[p].day > state.loginDay
          BY <1>0, <3>1, <4>1, <4>3
        <5>2. asked[pass[p].day] = 0
          BY <3>1, <5>1 DEF Inv, Reserved
        <5>3. QED
          BY <3>2, <4>1, <4>3, <5>2
      <4>4. QED
        BY <4>2, <4>3
    <3>4. \A d \in Days : d > pass[p].day => asked[d] = 0
      <4>1. ASSUME NEW d \in Days, d > pass[p].day
            PROVE  d > state.loginDay
        <5>1. d \in Nat /\ pass[p].day \in Nat
          BY <1>0, <3>1
        <5>2. QED
          BY <1>0, <3>1, <4>1, <5>1
      <4>2. QED
        BY <4>1 DEF Inv, Reserved
    <3>5. Working(p)' /\ \A q \in Passes \ {p} : ~Working(q)'
      BY <2>1, <2>3, <3>1, <3>2 DEF Working
    <3>6. pass[p].day <= Today /\ pass[p].day \in Nat
      BY <1>0, <3>1 DEF Inv, Reserved
    <3>7. \A d \in Days : asked'[d] <= Cap
      BY <3>2 DEF Inv, Reserved
    <3>8. asked'[state'.loginDay] <= state'.logins
      <4>1. asked[pass[p].day] \in Nat /\ state'.logins \in Nat
        <5>1. asked[pass[p].day] \in Nat
          BY <1>0, <3>1
        <5>2. state.logins + 1 \in Nat
          BY <1>0
        <5>3. state'.logins \in Nat
          BY <3>2, <5>2
        <5>4. QED
          BY <5>1, <5>3
      <4>2. asked'[state'.loginDay] < state'.logins
        BY <3>2, <3>3
      <4>3. asked'[state'.loginDay] \in Nat
        BY <3>2, <4>1
      <4>4. QED
        BY <4>1, <4>2, <4>3
    <3>9. \A q \in Passes : pass'[q].pc \in {"asking", "applying", "recording"} => q = p
      BY <3>5 DEF Working
    <3>10. QED
      BY <2>2, <3>1, <3>2, <3>3, <3>4, <3>5, <3>6, <3>7, <3>8, <3>9 DEF Reserved, Working
  <2>6. ASSUME NEW kind, Ask(p, kind)
        PROVE  Reserved'
    <3>1. /\ Working(p) /\ pass[p].pc = "asking" /\ pass[p].day \in Days
          /\ pass[p].day = state.loginDay /\ asked[state.loginDay] < state.logins
      BY <2>6 DEF Ask, Working, Inv, Reserved
    <3>2. /\ pass'[p].pc \in {"applying", "recording"} /\ pass'[p].day = pass[p].day
          /\ asked' = asked \/ asked' = [asked EXCEPT ![state.loginDay] = @ + 1]
          /\ state' = state
      BY <1>0, <2>6, <3>1 DEF Ask, PassState
    <3>3. asked'[state.loginDay] <= asked[state.loginDay] + 1
      BY <1>0, <3>1, <3>2
    <3>4. \A d \in Days : d # state.loginDay => asked'[d] = asked[d]
      BY <1>0, <3>1, <3>2
    <3>5. QED
      BY <1>0, <2>1, <2>2, <2>3, <3>1, <3>2, <3>3, <3>4
      DEF Inv, Reserved, Working
  <2>7. CASE \/ RecordOutcome(p) \/ RecordRejection(p) \/ RecordLimit(p)
             \/ ReleaseSyncLease(p)
    <3>1. ~Working(p)' /\ asked' = asked
      BY <1>0, <2>7 DEF RecordOutcome, RecordRejection, RecordLimit, ReleaseSyncLease,
         Working, Releasing, Resting
    <3>2. state'.loginDay = state.loginDay /\ state'.logins = state.logins
      <4>1. CASE RecordOutcome(p)
        BY <1>0, <4>1 DEF RecordOutcome, Patched, State
      <4>2. CASE RecordRejection(p)
        <5>1. pass[p].day = state.loginDay
          BY <4>2 DEF RecordRejection, Inv, Reserved
        <5>2. QED
          BY <1>0, <4>2, <5>1 DEF RecordRejection, State
      <4>3. QED
        BY <1>0, <2>7, <4>1, <4>2 DEF RecordLimit, ReleaseSyncLease, State
    <3>3. QED
      BY <1>0, <2>1, <2>2, <3>1, <3>2 DEF Inv, Reserved, Working
  <2>8. CASE \/ GateRefuses(p) \/ GatePasses(p) \/ ClaimBusy(p) \/ WaitForPass(p)
    <3>1. asked' = asked
      BY <2>8 DEF GateRefuses, GatePasses, ClaimBusy, WaitForPass
    <3>2. ~Working(p)' /\ state' = state
      BY <2>8, GateMoves DEF Working, Inv
    <3>3. QED
      BY <1>0, <2>1, <2>2, <3>1, <3>2 DEF Inv, Reserved, Working
  <2>9. CASE DayIsSpent(p) \/ WriteThrows(p) \/ \E kind : ReadAndApply(p, kind)
    <3>1. asked' = asked /\ state' = state
      BY <2>9 DEF DayIsSpent, WriteThrows, ReadAndApply
    <3>2. \/ ~Working(p)'
          \/ /\ Working(p) /\ pass'[p].day = pass[p].day
             /\ pass[p].pc = "reserving" /\ pass'[p].pc = "limited"
          \/ /\ Working(p) /\ pass'[p].day = pass[p].day
             /\ pass[p].pc = "applying" /\ pass'[p].pc = "recording"
          \/ /\ Working(p) /\ pass'[p].day = pass[p].day
             /\ pass[p].pc = pass'[p].pc
      <4>1. pass[p] \in PassState
        BY <1>0
      <4>2. CASE DayIsSpent(p)
        BY <1>0, <4>1, <4>2 DEF DayIsSpent, Working, PassState
      <4>3. ASSUME NEW kind, ReadAndApply(p, kind)
            PROVE  /\ Working(p) /\ pass'[p].day = pass[p].day
                   /\ pass[p].pc = "applying" /\ pass'[p].pc = "recording"
        BY <1>0, <4>1, <4>3 DEF ReadAndApply, Working, PassState
      <4>4. CASE WriteThrows(p)
        <5>1. \/ pass'[p] = Releasing
              \/ pass'[p] = [pass[p] EXCEPT !.kind = "failed"]
          BY <1>0, <4>4 DEF WriteThrows
        <5>2. pass[p].pc \in {"reserving", "limited", "asking", "recording"}
          BY <4>4 DEF WriteThrows
        <5>3. Releasing.pc = "releasing"
          BY DEF Releasing, Resting
        <5>4. QED
          BY <4>1, <5>1, <5>2, <5>3 DEF Working, PassState
      <4>5. QED
        BY <2>9, <4>2, <4>3, <4>4
    <3>3. QED
      BY <1>0, <2>1, <2>2, <3>1, <3>2 DEF Inv, Reserved, Working
  <2>10. QED
    BY <1>1, <2>4, <2>5, <2>6, <2>7, <2>8, <2>9 DEF PassStep
<1>2. ASSUME NEW p \in Passes, Outside(p)
      PROVE  Reserved'
  <2>1. \A q \in Passes \ {p} : pass'[q] = pass[q]
    BY <1>2, OthersStay DEF Inv
  <2>2. ~Working(p)' /\ UNCHANGED <<state, asked, now>>
    BY <1>2, GateMoves DEF Outside, PurgeSyncAttempts, ReadSource, Crash, Working, Inv
  <2>3. QED
    BY <1>0, <2>1, <2>2 DEF Inv, Reserved, Working, Today
<1>3. CASE FlowStep \/ LeaseExpires \/ (\E d \in Devices : Distrust(d)) \/ UNCHANGED vars
  <2>1. /\ state'.loginDay = state.loginDay /\ state'.logins = state.logins
        /\ UNCHANGED <<pass, asked, now>>
    BY <1>0, <1>3 DEF State, FlowStep, StartReenter, ReenterLogin, SubmitCode, CodeAccepted,
       RecordReentry, FlowEnds, StartKeeping, UpdateCredentials, LeaseExpires, Distrust, vars
  <2>2. QED
    BY <1>0, <2>1 DEF Inv, Reserved, Working, Today
<1>4. CASE Tick \/ QuietMonths
  <2>1. Today <= Today' /\ Today' \in Nat
    BY <1>0, <1>4 DEF Tick, QuietMonths, NextDayStart, Today
  <2>2. UNCHANGED <<pass, state, asked>>
    BY <1>4 DEF Tick, QuietMonths
  <2>3. state.loginDay <= Today'
    BY <1>0, <2>1 DEF Inv, Reserved
  <2>4. ASSUME NEW p \in Passes, Working(p)
        PROVE  pass[p].day <= Today'
    <3>1. pass[p].day \in Nat /\ Today \in Nat /\ pass[p].day <= Today
      BY <1>0, <2>4 DEF Inv, Reserved
    <3>2. QED
      BY <2>1, <3>1
  <2>5. QED
    BY <2>2, <2>3, <2>4 DEF Inv, Reserved, Working
<1>5. QED
  BY <1>1, <1>2, <1>3, <1>4 DEF Next, Outside, Passes

LEMMA OvernightInit == Init => Overnight
BY DEF Init, Overnight, Overdue, Resting

LEMMA OvernightStep == Inv /\ [Next]_vars => Overnight'
<1> SUFFICES ASSUME Inv, [Next]_vars
             PROVE  Overnight'
  OBVIOUS
<1>0. /\ pass \in [Passes -> PassState] /\ late \in [Days -> Nat]
      /\ Days \subseteq Nat \ {0} /\ Today \in Days /\ now \in Nat
  BY TodayIsADay DEF Inv, TypeOK, Days
\* A step that asks nothing leaves no pass overdue that was not.
<1>1. ASSUME late' = late, now' = now, \A q \in Passes : Overdue(q)' => Overdue(q)
      PROVE  Overnight'
  BY <1>1 DEF Inv, Overnight, Today
<1>2. ASSUME NEW p \in Passes, Outside(p) \/ PassStep(p), ~\E kind : Ask(p, kind)
      PROVE  Overnight'
  <2>1. \A q \in Passes \ {p} : pass'[q] = pass[q]
    BY <1>2, OthersStay DEF Inv
  <2>2. late' = late /\ now' = now
    BY <1>2 DEF Outside, PurgeSyncAttempts, ReadSource, Crash, PassStep, GateRefuses,
       GatePasses, ClaimSyncLease, ClaimBusy, WaitForPass, ReserveSyncLogin, DayIsSpent,
       RecordLimit, ReadAndApply, RecordOutcome, RecordRejection, WriteThrows,
       ReleaseSyncLease
  <2>3. Overdue(p)' => Overdue(p)
    <3>1. CASE \/ Outside(p) \/ GateRefuses(p) \/ GatePasses(p) \/ ClaimBusy(p)
               \/ WaitForPass(p)
      BY <3>1, GateMoves DEF Inv, Overdue
    <3>2. CASE ClaimSyncLease(p)
      <4>1. pass'[p].day = Today /\ Today' = Today /\ Today \in Nat
        BY <1>0, <3>2 DEF ClaimSyncLease, PassState, Today
      <4>2. QED
        BY <4>1 DEF Overdue
    <3>3. CASE ReserveSyncLogin(p)
      BY <1>0, <3>3 DEF ReserveSyncLogin, Overdue, PassState, Today
    <3>4. CASE \/ RecordLimit(p) \/ RecordOutcome(p) \/ RecordRejection(p)
               \/ ReleaseSyncLease(p)
      <4>1. pass'[p] = Releasing \/ pass'[p] = Resting
        BY <1>0, <3>4 DEF RecordLimit, RecordOutcome, RecordRejection, ReleaseSyncLease
      <4>2. QED
        BY <4>1 DEF Overdue, Releasing, Resting
    <3>4a. CASE DayIsSpent(p) \/ \E kind : ReadAndApply(p, kind)
      <4>1. pass[p] \in PassState
        BY <1>0
      <4>2. CASE DayIsSpent(p)
        BY <1>0, <4>1, <4>2 DEF DayIsSpent, PassState, Overdue
      <4>3. ASSUME NEW kind, ReadAndApply(p, kind)
            PROVE  Overdue(p)' => Overdue(p)
        BY <1>0, <4>1, <4>3 DEF ReadAndApply, PassState, Overdue
      <4>4. QED
        BY <3>4a, <4>2, <4>3
    <3>5. CASE WriteThrows(p)
      <4>1. \/ pass'[p] = Releasing
            \/ pass'[p] = [pass[p] EXCEPT !.kind = "failed"]
        BY <1>0, <3>5 DEF WriteThrows
      <4>2. Releasing.pc = "releasing"
        BY DEF Releasing, Resting
      <4>3. pass[p] \in PassState
        BY <1>0
      <4>4. CASE pass'[p] = Releasing
        BY <4>2, <4>4 DEF Overdue
      <4>5. CASE pass'[p] = [pass[p] EXCEPT !.kind = "failed"]
        <5>1. pass'[p].pc = pass[p].pc /\ pass'[p].day = pass[p].day
          BY <4>3, <4>5 DEF PassState
        <5>2. QED
          BY <2>2, <5>1 DEF Overdue, Today
      <4>6. QED
        BY <4>1, <4>4, <4>5
    <3>6. QED
      BY <1>2, <3>1, <3>2, <3>3, <3>4, <3>4a, <3>5 DEF PassStep
  <2>4. \A q \in Passes : Overdue(q)' => Overdue(q)
    BY <2>1, <2>2, <2>3 DEF Overdue, Today
  <2>5. QED
    BY <1>1, <2>2, <2>4
<1>3. ASSUME NEW p \in Passes, NEW kind, Ask(p, kind)
      PROVE  Overnight'
  <2>1. /\ pass[p].pc = "asking" /\ pass[p].day \in Nat /\ pass[p].day <= Today
        /\ Today' = Today
    BY <1>0, <1>3 DEF Ask, Inv, Reserved, Working, Today
  <2>2. \A q \in Passes : ~Overdue(q)'
    <3>1. pass'[p].pc \in {"applying", "recording"}
      BY <1>0, <1>3 DEF Ask, PassState
    <3>2. \A q \in Passes \ {p} : pass'[q] = pass[q] /\ ~Holding(q)
      BY <1>0, <1>3, <2>1 DEF Ask, Inv, OnePassPerConnection, Holding
    <3>3. QED
      BY <3>1, <3>2 DEF Overdue, Holding
  <2>3. CASE pass[p].day = Today
    BY <1>3, <2>1, <2>2, <2>3 DEF Ask, Inv, Overnight
  <2>4. CASE pass[p].day < Today
    <3>1. late[Today] = 0 /\ late' = [late EXCEPT ![Today] = @ + 1]
      BY <1>3, <2>1, <2>4 DEF Ask, Inv, Overnight, Overdue
    <3>2. late'[Today] = 1 /\ \A d \in Days : d # Today => late'[d] = late[d]
      BY <1>0, <3>1
    <3>3. QED
      BY <1>0, <2>1, <2>2, <3>2 DEF Inv, Overnight
  <2>5. QED
    BY <1>0, <2>1, <2>3, <2>4
<1>4. CASE FlowStep \/ LeaseExpires \/ (\E d \in Devices : Distrust(d)) \/ UNCHANGED vars
  <2>1. UNCHANGED <<pass, late, now>>
    BY <1>4 DEF FlowStep, StartReenter, ReenterLogin, SubmitCode, CodeAccepted,
       RecordReentry, FlowEnds, StartKeeping, UpdateCredentials, LeaseExpires, Distrust, vars
  <2>2. QED
    BY <1>1, <2>1 DEF Overdue, Today
<1>5. CASE Tick \/ QuietMonths
  <2>1. Today <= Today' /\ Today' \in Days /\ UNCHANGED <<pass, late>>
    <3>1. now' \in 0..MaxNow
      BY <1>5, StepTyped DEF Inv, TypeOK
    <3>2. Today' \in Days
      BY <3>1, InstantsDay DEF Today
    <3>3. QED
      BY <1>0, <1>5, <3>2 DEF Tick, QuietMonths, NextDayStart, Today
  <2>2. CASE Today' = Today
    BY <2>1, <2>2 DEF Inv, Overnight, Overdue
  <2>3. CASE Today < Today'
    <3>1. \A d \in Days : d >= Today' => late[d] = 0
      BY <1>0, <2>1, <2>3 DEF Inv, Overnight
    <3>2. QED
      BY <1>0, <2>1, <3>1 DEF Inv, Overnight
  <2>4. QED
    BY <1>0, <2>1, <2>2, <2>3
<1>6. QED
  BY <1>2, <1>3, <1>4, <1>5 DEF Next, Outside, Passes

\* Everything above holds in every reachable state.
THEOREM InductiveInvariant == Spec => []Inv
<1>1. Init => Inv
  BY InitTyped, OnePassInit, ReservedInit, OvernightInit DEF Inv
<1>2. Inv /\ [Next]_vars => Inv'
  BY StepTyped, OnePassStep, ReservedStep, OvernightStep DEF Inv
<1>3. QED
  BY <1>1, <1>2, PTL DEF Spec

\* On a calendar day MyInvestor is asked at most Cap logins reserved for that day and one
\* reserved before it, whatever passes die, overlap or cross midnight.
THEOREM CapHolds == Spec => []LoginsWithinCap
<1>1. Inv => LoginsWithinCap
  BY DEF Inv, Reserved, Overnight, LoginsWithinCap
<1>2. QED
  BY <1>1, InductiveInvariant, PTL

\* The counts of a day only grow, and a day once counted is never reopened.
THEOREM CountsHold == Spec => CountsNeverGoBack
<1> DEFINE Counted ==
        /\ state'.loginDay >= state.loginDay
        /\ state'.loginDay = state.loginDay =>
             /\ state'.logins >= state.logins
             /\ state'.rejections >= state.rejections
<1>1. ASSUME Inv, [Next]_vars
      PROVE  [Counted]_vars
  <2>0. /\ pass \in [Passes -> PassState] /\ state \in State
        /\ state.loginDay \in Nat /\ state.logins \in Nat /\ state.rejections \in Nat
        /\ Days \subseteq Nat
    BY <1>1 DEF Inv, TypeOK, State, Days, NoDay
  <2>1. ASSUME NEW p \in Passes, ReserveSyncLogin(p)
        PROVE  Counted
    <3>1. pass[p].day \in Nat /\ state.loginDay <= pass[p].day
      BY <1>1, <2>0, <2>1 DEF ReserveSyncLogin, Working, Inv, Reserved
    <3>2. /\ state'.loginDay = pass[p].day
          /\ pass[p].day = state.loginDay =>
                state'.logins = state.logins + 1 /\ state'.rejections = state.rejections
      BY <2>0, <2>1 DEF ReserveSyncLogin, State, SameDay
    <3>3. QED
      BY <2>0, <3>1, <3>2
  <2>2. ASSUME NEW p \in Passes, RecordRejection(p)
        PROVE  Counted
    <3>1. pass[p].day = state.loginDay
      BY <1>1, <2>2 DEF RecordRejection, Inv, Reserved
    <3>2. /\ state'.loginDay = state.loginDay /\ state'.logins = state.logins
          /\ state'.rejections = state.rejections + 1
      BY <2>0, <2>2, <3>1 DEF RecordRejection, State, SameDay
    <3>3. QED
      BY <2>0, <3>2
  <2>3. CASE /\ state'.loginDay = state.loginDay /\ state'.logins = state.logins
             /\ state'.rejections = state.rejections
    BY <2>0, <2>3
  <2>4. ASSUME NEW p \in Passes, RecordOutcome(p)
        PROVE  Counted
    BY <2>0, <2>3, <2>4 DEF RecordOutcome, Patched, State
  <2>5. ASSUME NEW p \in Passes, PassStep(p)
        PROVE  Counted
    <3>1. CASE GateRefuses(p) \/ GatePasses(p) \/ ClaimBusy(p) \/ WaitForPass(p)
               \/ DayIsSpent(p) \/ WriteThrows(p)
               \/ \E kind \in Failures \cup {"ok"} : Ask(p, kind) \/ ReadAndApply(p, kind)
      <4>1. state' = state
        BY <3>1 DEF GateRefuses, GatePasses, ClaimBusy, WaitForPass, DayIsSpent, WriteThrows,
                    Ask, ReadAndApply
      <4>2. QED
        BY <2>0, <4>1
    <3>2. CASE ClaimSyncLease(p) \/ RecordLimit(p) \/ ReleaseSyncLease(p)
      BY <2>0, <2>3, <3>2 DEF State, ClaimSyncLease, RecordLimit, ReleaseSyncLease
    <3>3. QED
      BY <2>1, <2>2, <2>4, <2>5, <3>1, <3>2 DEF PassStep
  <2>6. CASE FlowStep \/ LeaseExpires
    BY <2>0, <2>3, <2>6 DEF State, FlowStep, StartReenter, ReenterLogin, SubmitCode,
       CodeAccepted, RecordReentry, FlowEnds, StartKeeping, UpdateCredentials, LeaseExpires
  <2>7. QED
    BY <1>1, <2>3, <2>5, <2>6 DEF Next, PurgeSyncAttempts, ReadSource, Crash, Tick, QuietMonths,
       Distrust, vars
<1>2. QED
  BY <1>1, InductiveInvariant, PTL DEF Spec, CountsNeverGoBack

\* The outcome the band shows is the one the newest row of the attempt log tells, until
\* the purge of a log ninety days old takes that row.
THEOREM OutcomeHolds == Spec => []OutcomeMatchesLog
<1>1. Init => OutcomeMatchesLog
  BY DEF Init, OutcomeMatchesLog, Failures
<1>2. ASSUME TypeOK, OutcomeMatchesLog, [Next]_vars
      PROVE  OutcomeMatchesLog'
  <2>0. state \in State /\ pass \in [Passes -> PassState]
    BY <1>2 DEF TypeOK
  <2>1. ASSUME NEW p \in Passes, RecordOutcome(p)
        PROVE  OutcomeMatchesLog'
    <3>1. pass[p].kind \in Failures \cup {"ok", "none"}
      BY <2>0 DEF PassState
    <3>2. state'.outcome = pass[p].kind /\ lastRow'.kind = pass[p].kind
      BY <2>0, <2>1 DEF RecordOutcome, Patched, State, Recorded
    <3>3. QED
      BY <3>1, <3>2 DEF OutcomeMatchesLog, Failures
  <2>2. ASSUME NEW p \in Passes, RecordRejection(p)
        PROVE  OutcomeMatchesLog'
    <3>1. state'.outcome \in {"locked", "rejected"} /\ lastRow'.kind = "rejected"
      BY <2>0, <2>2 DEF RecordRejection, State, Recorded
    <3>2. QED
      BY <3>1 DEF OutcomeMatchesLog, Failures
  <2>3. CASE state'.outcome \in {"none", "limit"}
    BY <2>3 DEF OutcomeMatchesLog, Failures
  <2>4. CASE /\ state'.outcome = state.outcome
             /\ lastRow'.kind = lastRow.kind \/ lastRow'.kind = "purged"
    BY <1>2, <2>4 DEF OutcomeMatchesLog
  <2>5. ASSUME NEW p \in Passes, PassStep(p)
        PROVE  OutcomeMatchesLog'
    <3>1. CASE GateRefuses(p) \/ GatePasses(p) \/ ClaimBusy(p) \/ WaitForPass(p)
               \/ DayIsSpent(p) \/ WriteThrows(p)
               \/ \E kind \in Failures \cup {"ok"} : Ask(p, kind) \/ ReadAndApply(p, kind)
      BY <2>4, <3>1 DEF GateRefuses, GatePasses, ClaimBusy, WaitForPass, DayIsSpent,
         WriteThrows, Ask, ReadAndApply
    <3>2. CASE ClaimSyncLease(p) \/ ReserveSyncLogin(p) \/ ReleaseSyncLease(p)
      BY <2>0, <2>4, <3>2 DEF State, ClaimSyncLease, ReserveSyncLogin, ReleaseSyncLease
    <3>3. CASE RecordLimit(p)
      BY <2>0, <2>3, <3>3 DEF State, RecordLimit
    <3>4. QED
      BY <2>1, <2>2, <2>5, <3>1, <3>2, <3>3 DEF PassStep
  <2>6. CASE FlowStep \/ LeaseExpires
    BY <2>0, <2>3, <2>4, <2>6 DEF State, FlowStep, StartReenter, ReenterLogin, SubmitCode,
       CodeAccepted, RecordReentry, FlowEnds, StartKeeping, UpdateCredentials, LeaseExpires
  <2>7. CASE (\E p \in Crons : PurgeSyncAttempts(p)) \/ QuietMonths
    BY <1>2, <2>4, <2>7 DEF PurgeSyncAttempts, QuietMonths, Recorded, TypeOK, Attempt
  <2>8. QED
    BY <1>2, <2>4, <2>5, <2>6, <2>7 DEF Next, ReadSource, Crash, Tick, Distrust, vars
<1>3. QED
  BY <1>1, <1>2, TypeCorrect, PTL DEF Spec

=============================================================================
