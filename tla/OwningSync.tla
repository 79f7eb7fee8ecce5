----------------------------- MODULE OwningSync -----------------------------
(***************************************************************************)
(* The sync of a connection that owns its holdings (MyInvestor): the cron  *)
(* and the button run passes over one `connected_source_sync_state` row    *)
(* (packages/db/src/connected-source-sync-state.ts, and myinvestor-sync.ts *)
(* of the settings pages), while the user enters again, saves or forgets   *)
(* the password (myinvestor-connect.ts).                                   *)
(*                                                                         *)
(* An instant is half a day: a lock ends with the day, a pause lasts two   *)
(* instants.  The log's ninety days are one step of their own.  A pass     *)
(* never outlives its lease, which MYINVESTOR_LEASE_MINUTES documents as   *)
(* longer than any pass.  What a good pass writes to the ledger, and the   *)
(* step shown to a waiting user, are left out.                             *)
(***************************************************************************)
EXTENDS Naturals

CONSTANTS
    Crons, Buttons,  \* passes, by trigger
    Devices,         \* device ids the app made
    Cap,             \* MYINVESTOR_DAILY_LOGINS
    LockAfter,       \* MYINVESTOR_REJECTIONS_TO_LOCK
    MaxRounds,       \* polls of a waiting button
    MaxNow           \* bound: the last instant

ASSUME OwningAssumption ==
    /\ Crons \cap Buttons = {}
    /\ Devices # {}
    /\ Cap \in Nat \ {0}
    /\ LockAfter \in Nat \ {0}
    /\ MaxRounds \in Nat
    /\ MaxNow \in Nat

VARIABLES
    conn,     \* the credentials kept: whether there is a password, and the device
    state,    \* the connected_source_sync_state row
    lastRow,  \* the newest row of the attempt log
    pass,     \* where each pass is
    flow,     \* where the user is in the connection form
    trusted,  \* devices MyInvestor trusts
    asked,    \* logins MyInvestor was asked on each day, of those reserved for that day
    late,     \* ... and of those a pass had reserved on an earlier one
    now

vars == <<conn, state, lastRow, pass, flow, trusted, asked, late, now>>

-----------------------------------------------------------------------------
(* Time, rows and local states.                                            *)

Passes == Crons \cup Buttons
Days == 1..(MaxNow \div 2 + 1)
NoDay == 0
Today == now \div 2 + 1
NextDayStart(day) == 2 * day
PauseLength == 2

\* What MyInvestor can answer: `failed` stands for every kind with no action.
Failures == {"rejected", "noReason", "sms", "failed"}

Conn == [password: BOOLEAN, device: Devices]

\* "none" before the first attempt, "purged" once the log lost its newest row; old says
\* created_at is more than SYNC_ATTEMPT_RETENTION_DAYS ago.
Attempt == [kind: Failures \cup {"none", "ok", "purged"}, old: BOOLEAN]
Recorded(kind) == [kind |-> kind, old |-> FALSE]
State == [lease: {"free", "held", "expired"}, loginDay: Days \cup {NoDay}, logins: Nat,
          rejections: Nat, pausedUntil: Nat, stopped: BOOLEAN,
          outcome: Failures \cup {"none", "ok", "limit", "locked"}]
PassState == [pc: {"idle", "purged", "gating", "claiming", "waiting", "reserving", "limited",
                   "asking", "applying", "recording", "releasing"},
              saved: BOOLEAN, device: Devices, day: Days \cup {NoDay},
              kind: Failures \cup {"ok", "none"}, rounds: Nat]
FlowState == [pc: {"idle", "entering", "sms", "verifying", "keeping", "saving", "forgetting"},
              device: Devices, kept: BOOLEAN, clear: BOOLEAN]

Paused == state.pausedUntil > now
Holding(p) == pass[p].pc \in {"reserving", "limited", "asking", "applying", "recording",
                              "releasing"}

FirstDevice == CHOOSE d \in Devices : TRUE
Resting == [pc |-> "idle", saved |-> FALSE, device |-> FirstDevice, day |-> NoDay,
            kind |-> "none", rounds |-> 0]
Releasing == [Resting EXCEPT !.pc = "releasing"]
AtRest == [pc |-> "idle", device |-> FirstDevice, kept |-> FALSE, clear |-> FALSE]

\* A connected source whose device the SMS verified; the password is opt-in.
Init ==
    /\ conn \in [password: BOOLEAN, device: {FirstDevice}]
    /\ state = [lease |-> "free", loginDay |-> NoDay, logins |-> 0, rejections |-> 0,
                pausedUntil |-> 0, stopped |-> FALSE, outcome |-> "none"]
    /\ lastRow = Recorded("none")
    /\ pass = [p \in Passes |-> Resting]
    /\ flow = AtRest
    /\ trusted = {FirstDevice}
    /\ asked = [d \in Days |-> 0]
    /\ late = [d \in Days |-> 0]
    /\ now = 0

-----------------------------------------------------------------------------
(* The gates and the lease.                                                *)

\* runMyInvestorRefresh purges the log of every source before its pass, which the gates
\* may then refuse.
PurgeSyncAttempts(p) ==
    /\ p \in Crons
    /\ pass[p].pc = "idle"
    /\ lastRow' = IF lastRow.old THEN Recorded("purged") ELSE lastRow
    /\ pass' = [pass EXCEPT ![p] = [Resting EXCEPT !.pc = "purged"]]
    /\ UNCHANGED <<conn, state, flow, trusted, asked, late, now>>

\* runMyInvestorSync reads the source.
ReadSource(p) ==
    /\ pass[p].pc = IF p \in Crons THEN "purged" ELSE "idle"
    /\ pass' = [pass EXCEPT ![p] = [Resting EXCEPT !.pc = "gating", !.saved = conn.password,
                                                   !.device = conn.device]]
    /\ UNCHANGED <<conn, state, lastRow, flow, trusted, asked, late, now>>

Refused(p) ==
    \/ Paused
    \/ p \in Crons /\ (~pass[p].saved \/ state.stopped)

\* It reads the state and refuses: no_password, stopped, paused, blocked; or the
\* button, with no password saved, has none typed either.
GateRefuses(p) ==
    /\ pass[p].pc = "gating"
    /\ Refused(p) \/ ~pass[p].saved
    /\ pass' = [pass EXCEPT ![p] = Resting]
    /\ UNCHANGED <<conn, state, lastRow, flow, trusted, asked, late, now>>

GatePasses(p) ==
    /\ pass[p].pc = "gating"
    /\ ~Refused(p)
    /\ pass' = [pass EXCEPT ![p].pc = "claiming"]
    /\ UNCHANGED <<conn, state, lastRow, flow, trusted, asked, late, now>>

\* claimSyncLease's UPDATE: the lease is free or expired.  The day is read next.
ClaimSyncLease(p) ==
    /\ pass[p].pc = "claiming"
    /\ state.lease \in {"free", "expired"}
    /\ state' = [state EXCEPT !.lease = "held"]
    /\ pass' = [pass EXCEPT ![p].pc = "reserving", ![p].day = Today]
    /\ UNCHANGED <<conn, lastRow, flow, trusted, asked, late, now>>

\* Faulty variant: the finally block that releases also covers a refused claim.
ClaimBusy_Releases(p) ==
    /\ pass[p].pc = "claiming"
    /\ state.lease = "held"
    /\ state' = [state EXCEPT !.lease = "free"]
    /\ pass' = [pass EXCEPT ![p] = Resting]
    /\ UNCHANGED <<conn, lastRow, flow, trusted, asked, late, now>>

\* Another pass holds it: the cron skips, the button waits.
ClaimBusy(p) ==
    /\ pass[p].pc = "claiming"
    /\ state.lease = "held"
    /\ pass' = IF p \in Crons THEN [pass EXCEPT ![p] = Resting]
                              ELSE [pass EXCEPT ![p] = [Resting EXCEPT !.pc = "waiting",
                                                                      !.rounds = MaxRounds]]
    /\ UNCHANGED <<conn, state, lastRow, flow, trusted, asked, late, now>>

\* Faulty variant: the last round is not the last.
WaitForPass_OffByOne(p) ==
    /\ pass[p].pc = "waiting"
    /\ pass' = IF state.lease = "held"
               THEN [pass EXCEPT ![p].rounds = @ - 1]
               ELSE [pass EXCEPT ![p] = Resting]
    /\ UNCHANGED <<conn, state, lastRow, flow, trusted, asked, late, now>>

\* One poll of waitForPass.
WaitForPass(p) ==
    /\ pass[p].pc = "waiting"
    /\ pass' = IF state.lease = "held" /\ pass[p].rounds > 0
               THEN [pass EXCEPT ![p].rounds = @ - 1]
               ELSE [pass EXCEPT ![p] = Resting]
    /\ UNCHANGED <<conn, state, lastRow, flow, trusted, asked, late, now>>

-----------------------------------------------------------------------------
(* The pass, with the lease held.                                          *)

SameDay(p) == state.loginDay = pass[p].day

\* Faulty variant: a login also starts the count of rejections again.
ReserveSyncLogin_ForgetsRejections(p) ==
    /\ pass[p].pc = "reserving"
    /\ SameDay(p) => state.logins < Cap
    /\ state' = [state EXCEPT !.loginDay = pass[p].day,
                              !.logins = IF SameDay(p) THEN @ + 1 ELSE 1,
                              !.rejections = 0]
    /\ pass' = [pass EXCEPT ![p].pc = "asking"]
    /\ UNCHANGED <<conn, lastRow, flow, trusted, asked, late, now>>

\* Faulty variant: the cap is one too high.
ReserveSyncLogin_OffByOne(p) ==
    /\ pass[p].pc = "reserving"
    /\ SameDay(p) => state.logins <= Cap
    /\ state' = [state EXCEPT !.loginDay = pass[p].day,
                              !.logins = IF SameDay(p) THEN @ + 1 ELSE 1,
                              !.rejections = IF SameDay(p) THEN @ ELSE 0]
    /\ pass' = [pass EXCEPT ![p].pc = "asking"]
    /\ UNCHANGED <<conn, lastRow, flow, trusted, asked, late, now>>

\* reserveSyncLogin's UPDATE.
ReserveSyncLogin(p) ==
    /\ pass[p].pc = "reserving"
    /\ SameDay(p) => state.logins < Cap
    /\ state' = [state EXCEPT !.loginDay = pass[p].day,
                              !.logins = IF SameDay(p) THEN @ + 1 ELSE 1,
                              !.rejections = IF SameDay(p) THEN @ ELSE 0]
    /\ pass' = [pass EXCEPT ![p].pc = "asking"]
    /\ UNCHANGED <<conn, lastRow, flow, trusted, asked, late, now>>

\* reserveSyncLogin returns null.
DayIsSpent(p) ==
    /\ pass[p].pc = "reserving"
    /\ SameDay(p) /\ state.logins >= Cap
    /\ pass' = [pass EXCEPT ![p].pc = "limited"]
    /\ UNCHANGED <<conn, state, lastRow, flow, trusted, asked, late, now>>

\* The limit is an outcome and no attempt.
RecordLimit(p) ==
    /\ pass[p].pc = "limited"
    /\ state' = [state EXCEPT !.outcome = "limit"]
    /\ pass' = [pass EXCEPT ![p] = Releasing]
    /\ UNCHANGED <<conn, lastRow, flow, trusted, asked, late, now>>

\* loginWithKnownDevice: a device MyInvestor does not trust never gets tokens.
Ask(p, kind) ==
    /\ pass[p].pc = "asking"
    /\ kind \in IF pass[p].device \in trusted THEN {"ok", "rejected", "noReason", "failed"}
                                              ELSE Failures
    /\ IF pass[p].day = Today
       THEN asked' = [asked EXCEPT ![Today] = @ + 1] /\ late' = late
       ELSE late' = [late EXCEPT ![Today] = @ + 1] /\ asked' = asked
    /\ pass' = [pass EXCEPT ![p].kind = kind,
                            ![p].pc = IF kind = "ok" THEN "applying" ELSE "recording"]
    /\ UNCHANGED <<conn, state, lastRow, flow, trusted, now>>

\* readAndApply, up to its last write: a good read applied, an error MyInvestor answered
\* (a read too may ask for the SMS, of a device that lost its trust since the login), or
\* one of ours.
ReadAndApply(p, kind) ==
    /\ pass[p].pc = "applying"
    /\ kind \in {"ok", "failed"} \/ (kind = "sms" /\ pass[p].device \notin trusted)
    /\ pass' = [pass EXCEPT ![p].kind = kind, ![p].pc = "recording"]
    /\ UNCHANGED <<conn, state, lastRow, flow, trusted, asked, late, now>>

\* updateSyncState's patch, by kind.
Patched(kind) ==
    CASE kind = "ok" -> [state EXCEPT !.outcome = kind, !.pausedUntil = 0, !.stopped = FALSE]
      [] kind = "noReason" -> [state EXCEPT !.outcome = kind, !.pausedUntil = now + PauseLength]
      [] kind = "sms" -> [state EXCEPT !.outcome = kind, !.stopped = TRUE]
      [] OTHER -> [state EXCEPT !.outcome = kind]

\* Faulty variant: the outcome and the attempt's row are two writes, and the
\* invocation ends between them.
RecordOutcome_NoRow(p) ==
    /\ pass[p].pc = "recording"
    /\ pass[p].kind # "rejected"
    /\ state' = Patched(pass[p].kind)
    /\ pass' = [pass EXCEPT ![p] = Releasing]
    /\ UNCHANGED <<conn, lastRow, flow, trusted, asked, late, now>>

\* finish: the outcome, its patch and the attempt's row, in one transaction.  The purge
\* after the insert takes rows older than this one.
RecordOutcome(p) ==
    /\ pass[p].pc = "recording"
    /\ pass[p].kind # "rejected"
    /\ state' = Patched(pass[p].kind)
    /\ lastRow' = Recorded(pass[p].kind)
    /\ pass' = [pass EXCEPT ![p] = Releasing]
    /\ UNCHANGED <<conn, flow, trusted, asked, late, now>>

\* recordPasswordRejection, in one transaction: the row, the saved password gone
\* (written from the credentials the pass read), the count, the outcome, the lock.
RecordRejection(p) ==
    LET rejections == IF SameDay(p) THEN state.rejections + 1 ELSE 1
        locked == rejections >= LockAfter IN
    /\ pass[p].pc = "recording"
    /\ pass[p].kind = "rejected"
    /\ lastRow' = Recorded("rejected")
    /\ conn' = IF pass[p].saved THEN [password |-> FALSE, device |-> pass[p].device] ELSE conn
    /\ state' = [state EXCEPT
           !.loginDay = pass[p].day,
           !.rejections = rejections,
           !.outcome = IF locked THEN "locked" ELSE "rejected",
           !.pausedUntil = IF locked THEN NextDayStart(pass[p].day) ELSE @]
    /\ pass' = [pass EXCEPT ![p] = Releasing]
    /\ UNCHANGED <<flow, trusted, asked, late, now>>

\* A write fails.  After a good read the catch records a failed pass instead.
WriteThrows(p) ==
    /\ pass[p].pc \in {"reserving", "limited", "asking", "recording"}
    /\ pass' = IF pass[p].kind = "ok" THEN [pass EXCEPT ![p].kind = "failed"]
                                      ELSE [pass EXCEPT ![p] = Releasing]
    /\ UNCHANGED <<conn, state, lastRow, flow, trusted, asked, late, now>>

\* The finally block; the UPDATE names the source only.
ReleaseSyncLease(p) ==
    /\ pass[p].pc = "releasing"
    /\ state' = [state EXCEPT !.lease = "free"]
    /\ pass' = [pass EXCEPT ![p] = Resting]
    /\ UNCHANGED <<conn, lastRow, flow, trusted, asked, late, now>>

-----------------------------------------------------------------------------
(* The user in the connection form.  Each function reads the credentials,  *)
(* does its work and writes them whole.                                    *)

\* startMyInvestorReenter: neither paused nor held.  Stopped, the device is new.
StartReenter(d) ==
    /\ flow.pc = "idle"
    /\ ~Paused
    /\ state.lease # "held"
    /\ IF state.stopped THEN d \notin trusted \cup {conn.device} ELSE d = conn.device
    /\ flow' = [AtRest EXCEPT !.pc = "entering", !.device = d, !.kept = conn.password]
    /\ UNCHANGED <<conn, state, lastRow, pass, trusted, asked, late, now>>

\* reenter reads the last outcome, to clear it unless it is a good one.
Failed == state.outcome \notin {"none", "ok"}

\* loginStep: tokens at once, or an SMS.
ReenterLogin ==
    /\ flow.pc = "entering"
    /\ flow' = IF flow.device \in trusted
               THEN [flow EXCEPT !.pc = "keeping", !.clear = Failed]
               ELSE [flow EXCEPT !.pc = "sms"]
    /\ UNCHANGED <<conn, state, lastRow, pass, trusted, asked, late, now>>

\* submitMyInvestorCode reads the connection again.
SubmitCode ==
    /\ flow.pc = "sms"
    /\ flow' = [flow EXCEPT !.pc = "verifying", !.kept = conn.password]
    /\ UNCHANGED <<conn, state, lastRow, pass, trusted, asked, late, now>>

\* MyInvestor accepts the code, and trusts the device.
CodeAccepted ==
    /\ flow.pc = "verifying"
    /\ trusted' = trusted \cup {flow.device}
    /\ flow' = [flow EXCEPT !.pc = "keeping", !.clear = Failed]
    /\ UNCHANGED <<conn, state, lastRow, pass, asked, late, now>>

\* reenter: recordReentry's transaction, with the password of the form when its box
\* was ticked, else with what was read of the credentials.
RecordReentry(save) ==
    /\ flow.pc = "keeping"
    /\ conn' = [password |-> save \/ flow.kept, device |-> flow.device]
    /\ state' = [state EXCEPT !.stopped = FALSE,
                              !.outcome = IF flow.clear THEN "none" ELSE @]
    /\ flow' = AtRest
    /\ UNCHANGED <<lastRow, pass, trusted, asked, late, now>>

\* A login or a code refused, a pending step expired, a request that died: the form
\* starts over.
FlowEnds ==
    /\ flow.pc # "idle"
    /\ flow' = AtRest
    /\ UNCHANGED <<conn, state, lastRow, pass, trusted, asked, late, now>>

\* saveMyInvestorPassword and forgetMyInvestorPassword: the read.
StartKeeping(pc) ==
    /\ flow.pc = "idle"
    /\ flow' = [AtRest EXCEPT !.pc = pc, !.device = conn.device]
    /\ UNCHANGED <<conn, state, lastRow, pass, trusted, asked, late, now>>

\* ... and the write.
UpdateCredentials ==
    /\ flow.pc \in {"saving", "forgetting"}
    /\ conn' = [password |-> flow.pc = "saving", device |-> flow.device]
    /\ flow' = AtRest
    /\ UNCHANGED <<state, lastRow, pass, trusted, asked, late, now>>

-----------------------------------------------------------------------------
(* Crashes, the clock and MyInvestor.                                      *)

\* The invocation is killed halfway.
Crash(p) ==
    /\ pass[p].pc # "idle"
    /\ pass' = [pass EXCEPT ![p] = Resting]
    /\ UNCHANGED <<conn, state, lastRow, flow, trusted, asked, late, now>>

\* lease_until passes; only a dead pass still has it.
LeaseExpires ==
    /\ state.lease = "held"
    /\ \A p \in Passes : ~Holding(p)
    /\ state' = [state EXCEPT !.lease = "expired"]
    /\ UNCHANGED <<conn, lastRow, pass, flow, trusted, asked, late, now>>

Tick ==
    /\ now < MaxNow
    /\ now' = now + 1
    /\ UNCHANGED <<conn, state, lastRow, pass, flow, trusted, asked, late>>

\* Ninety days with no attempt and nothing under way, to the start of a day that is not
\* the one they began on; any pause is over.
QuietMonths ==
    /\ \A p \in Passes : pass[p].pc = "idle"
    /\ flow.pc = "idle"
    /\ NextDayStart(Today) <= MaxNow
    /\ state.pausedUntil <= NextDayStart(Today)
    /\ now' = NextDayStart(Today)
    /\ lastRow' = [lastRow EXCEPT !.old = lastRow.kind # "none"]
    /\ UNCHANGED <<conn, state, pass, flow, trusted, asked, late>>

\* MyInvestor forgets a device.
Distrust(d) ==
    /\ d \in trusted
    /\ trusted' = trusted \ {d}
    /\ UNCHANGED <<conn, state, lastRow, pass, flow, asked, late, now>>

PassStep(p) ==
    \/ GateRefuses(p)
    \/ GatePasses(p)
    \/ ClaimSyncLease(p)
    \/ ClaimBusy(p)
    \/ WaitForPass(p)
    \/ ReserveSyncLogin(p)
    \/ DayIsSpent(p)
    \/ RecordLimit(p)
    \/ \E kind \in Failures \cup {"ok"} : Ask(p, kind) \/ ReadAndApply(p, kind)
    \/ RecordOutcome(p)
    \/ RecordRejection(p)
    \/ WriteThrows(p)
    \/ ReleaseSyncLease(p)

FlowStep ==
    \/ \E d \in Devices : StartReenter(d)
    \/ ReenterLogin
    \/ SubmitCode
    \/ CodeAccepted
    \/ \E save \in BOOLEAN : RecordReentry(save)
    \/ FlowEnds
    \/ \E pc \in {"saving", "forgetting"} : StartKeeping(pc)
    \/ UpdateCredentials

Next ==
    \/ \E p \in Crons : PurgeSyncAttempts(p)
    \/ \E p \in Passes : ReadSource(p)
    \/ \E p \in Passes : PassStep(p)
    \/ FlowStep
    \/ \E p \in Passes : Crash(p)
    \/ LeaseExpires
    \/ Tick
    \/ QuietMonths
    \/ \E d \in Devices : Distrust(d)

Spec == Init /\ [][Next]_vars

-----------------------------------------------------------------------------
(* Properties.                                                             *)

\* Every variable has its type: in particular a wait never polls past its rounds.
TypeOK ==
    /\ conn \in Conn
    /\ state \in State
    /\ lastRow \in Attempt
    /\ pass \in [Passes -> PassState]
    /\ flow \in FlowState
    /\ trusted \subseteq Devices
    /\ asked \in [Days -> Nat]
    /\ late \in [Days -> Nat]
    /\ now \in 0..MaxNow

\* One pass per connection: no two passes are ever between their claim and their
\* release, and while one is, the row says so; kills, expiry and waits included.
OnePassPerConnection ==
    /\ \A p, q \in Passes : Holding(p) /\ Holding(q) => p = q
    /\ \A p \in Passes : Holding(p) => state.lease = "held"

\* The daily cap for what MyInvestor really saw, passes that crossed midnight or died
\* after reserving included: on a calendar day it is asked at most Cap logins reserved for
\* that day and at most one more, of the pass that had reserved and not asked at midnight.
\* So a day may see Cap + 1, one more than the limit its reservations keep.
LoginsWithinCap == \A d \in Days : asked[d] <= Cap /\ late[d] <= 1

\* The day's counts never go back: a pass that reserved before midnight and fails
\* after it does not reopen a day, and within a day neither logins nor rejections drop.
CountsNeverGoBack ==
    [][/\ state'.loginDay >= state.loginDay
       /\ state'.loginDay = state.loginDay =>
            /\ state'.logins >= state.logins
            /\ state'.rejections >= state.rejections]_vars

\* The band and the health rule agree: a settled outcome is the one its newest row of the
\* attempt log tells, however the pass that left it ended, unless ninety days without an
\* attempt emptied the log, which leaves the outcome alone.
OutcomeMatchesLog ==
    /\ state.outcome \in Failures \cup {"ok"} => lastRow.kind \in {state.outcome, "purged"}
    /\ state.outcome = "locked" => lastRow.kind \in {"rejected", "purged"}

(* What the form's comment says and its guard does not enforce.             *)

\* "ending after this, it would write its stop over the device just verified": no
\* pass stops the connection for the SMS while the device it keeps is trusted, unless
\* the re-entry that verified it is about to lift the stop.
StopNeverOverVerified ==
    [][~state.stopped /\ state'.stopped
         => conn.device \notin trusted \/ flow.pc = "keeping"]_vars

=============================================================================
