---------------------------- MODULE DailyCapture ----------------------------
(***************************************************************************)
(* The fleet's daily capture: the cron invokes a pass twice a day, the     *)
(* invocation enqueues one job per pass, and whoever drains the queue runs *)
(* runDailyCapture (packages/db/src/run-daily-capture.ts), which looks for *)
(* passes the scheduler skipped, captures every scope of every workspace   *)
(* and finalizes the pass when none failed.                                *)
(*                                                                         *)
(* Passes are numbered as in daily-capture-gap.ts: 2d is the morning and   *)
(* 2d + 1 the close of day d.  The queue is what JobQueue shows of it: a   *)
(* job is delivered at least once, perhaps to two runners at the same time *)
(* when a lease lapses, and only the latest delivery settles it (the       *)
(* window JobQueue shows between failJob's read and its write is left to   *)
(* it).  Figures are abstracted to the pass that captured them.  The sync  *)
(* phase, the benchmarks and the source alerts contain their own failures  *)
(* and change nothing here; a workspace not set up yet has no scope to     *)
(* capture and is not one of Workspaces.                                   *)
(***************************************************************************)
EXTENDS Integers, FiniteSets

CONSTANTS
    Workspaces,
    Scopes,         \* snapshot scopes of a workspace
    Runners,        \* draining invocations
    LastPass,       \* bound: the last pass of the calendar
    ReportLimit,    \* MISSED_PASS_REPORT_LIMIT
    MaxJobs,        \* bound: passes the scheduler invokes in a behaviour
    MaxDeliveries,  \* max_attempts; also bounds redeliveries after a lapsed lease
    MaxFaults,      \* bound: throws, failed workspaces, lapses and kills in a behaviour
    NoRunner, NoWorkspace

ASSUME DailyAssumption ==
    /\ LastPass \in Nat
    /\ ReportLimit \in Nat \ {0}
    /\ MaxDeliveries \in Nat \ {0}
    /\ MaxJobs \in Nat
    /\ MaxFaults \in Nat
    /\ NoRunner \notin Runners
    /\ NoWorkspace \notin Workspaces

VARIABLES
    clock,      \* the pass the wall clock is in
    job,        \* the newest job of each pass
    finalized,  \* daily_capture_runs
    snapshot,   \* the pass whose figures each day of a scope keeps
    reported,   \* passes an alert was raised for
    detected,   \* passes whose detection answered (history)
    run,        \* where each runner is in runDailyCapture
    faults      \* faults so far, for the bound

vars == <<clock, job, finalized, snapshot, reported, detected, run, faults>>

-----------------------------------------------------------------------------
(* Passes, jobs and runs.                                                  *)

Passes == 0..LastPass
Days == 0..(LastPass \div 2)
None == -1
Day(p) == p \div 2

Job == [status: {"none", "active", "done", "dead"}, runner: Runners \cup {NoRunner},
        deliveries: 0..MaxDeliveries]
NoJobYet == [status |-> "none", runner |-> NoRunner, deliveries |-> 0]

\* todo: workspaces not begun; at, left: the one being captured, its scopes left.
Run == [pc: {"idle", "checking", "detecting", "opening", "capturing", "settling"},
        pass: Passes \cup {None}, todo: SUBSET Workspaces, failed: BOOLEAN,
        at: Workspaces \cup {NoWorkspace}, left: SUBSET Scopes,
        outcome: {"none", "ok", "skipped", "retriable", "fatal"}]
Idle == [pc |-> "idle", pass |-> None, todo |-> {}, failed |-> FALSE, at |-> NoWorkspace,
         left |-> {}, outcome |-> "none"]

Invoked == {p \in Passes : job[p].status # "none"}

Init ==
    /\ clock = 0
    /\ job = [p \in Passes |-> NoJobYet]
    /\ finalized = {}
    /\ snapshot = [w \in Workspaces |-> [s \in Scopes |-> [d \in Days |-> None]]]
    /\ reported = {}
    /\ detected = {}
    /\ run = [r \in Runners |-> Idle]
    /\ faults = 0

Fault == faults < MaxFaults /\ faults' = faults + 1

\* The end of a run, with what dailyCaptureJobOutcome (or a throw) makes of it.
Settle(r, outcome) ==
    run' = [run EXCEPT ![r] = [Idle EXCEPT !.pc = "settling", !.pass = run[r].pass,
                                           !.outcome = outcome]]

-----------------------------------------------------------------------------
(* missedDailyCapturePasses.                                               *)

\* readLatestJobDedupeKey: the newest pass below p with a job row.
LatestInvoked(p) ==
    LET before == {q \in Invoked : q < p}
    IN  IF before = {} THEN None ELSE CHOOSE q \in before : \A o \in before : o <= q

\* Faulty variant: the oldest missed passes are kept, not the freshest.
MissedPasses_Oldest(current, latest) ==
    IF latest = None THEN {}
    ELSE {p \in Passes : latest < p /\ p < current /\ p - latest <= ReportLimit}

\* The passes strictly between the two; past the limit, the freshest.
MissedPasses(current, latest) ==
    IF latest = None THEN {}
    ELSE {p \in Passes : latest < p /\ p < current /\ current - p <= ReportLimit}

-----------------------------------------------------------------------------
(* The cron, the queue and the clock.                                      *)

Tick ==
    /\ clock < LastPass
    /\ clock' = clock + 1
    /\ UNCHANGED <<job, finalized, snapshot, reported, detected, run, faults>>

\* The cron route, or a manual trigger: a job for the current pass, unless one is
\* active already.
Invoke ==
    /\ Cardinality(Invoked \cup {clock}) <= MaxJobs
    /\ job[clock].status # "active"
    /\ job' = [job EXCEPT ![clock] = [NoJobYet EXCEPT !.status = "active"]]
    /\ UNCHANGED <<clock, finalized, snapshot, reported, detected, run, faults>>

\* A ready job is leased, or one whose lease lapsed under another runner, still at
\* work or killed.
Deliver(r, p) ==
    /\ run[r].pc = "idle"
    /\ job[p].status = "active"
    /\ job[p].deliveries < MaxDeliveries
    /\ IF \E o \in Runners : run[o].pc # "idle" /\ run[o].pass = p THEN Fault
                                                                  ELSE UNCHANGED faults
    /\ job' = [job EXCEPT ![p].runner = r, ![p].deliveries = @ + 1]
    /\ run' = [run EXCEPT ![r] = [Idle EXCEPT !.pc = "checking", !.pass = p]]
    /\ UNCHANGED <<clock, finalized, snapshot, reported, detected>>

\* Faulty variant: a partial failure is acknowledged.
SettleJob_AcksFailures(r) ==
    LET p == run[r].pass IN
    /\ run[r].pc = "settling"
    /\ job' = IF job[p].runner # r THEN job
              ELSE [job EXCEPT ![p].status = IF run[r].outcome = "fatal" THEN "dead" ELSE "done",
                               ![p].runner = NoRunner]
    /\ run' = [run EXCEPT ![r] = Idle]
    /\ UNCHANGED <<clock, finalized, snapshot, reported, detected, faults>>

\* completeJob or failJob, of the latest delivery only.
SettleJob(r) ==
    LET p == run[r].pass
        status == CASE run[r].outcome \in {"ok", "skipped"} -> "done"
                    [] run[r].outcome = "retriable" /\ job[p].deliveries < MaxDeliveries
                         -> "active"
                    [] OTHER -> "dead" IN
    /\ run[r].pc = "settling"
    /\ job' = IF job[p].runner # r THEN job
              ELSE [job EXCEPT ![p].status = status, ![p].runner = NoRunner]
    /\ run' = [run EXCEPT ![r] = Idle]
    /\ UNCHANGED <<clock, finalized, snapshot, reported, detected, faults>>

\* The invocation is killed.
Crash(r) ==
    /\ Fault
    /\ run[r].pc # "idle"
    /\ run' = [run EXCEPT ![r] = Idle]
    /\ UNCHANGED <<clock, job, finalized, snapshot, reported, detected>>

-----------------------------------------------------------------------------
(* runDailyCapture.                                                        *)

\* isRunFinalized: the redelivery guard.
CheckFinalized(r) ==
    /\ run[r].pc = "checking"
    /\ IF run[r].pass \in finalized THEN Settle(r, "skipped")
                                    ELSE run' = [run EXCEPT ![r].pc = "detecting"]
    /\ UNCHANGED <<clock, job, finalized, snapshot, reported, detected, faults>>

\* detectMissedPasses, answered.
Detect(r) ==
    LET p == run[r].pass IN
    /\ run[r].pc = "detecting"
    /\ reported' = reported \cup MissedPasses(p, LatestInvoked(p))
    /\ detected' = detected \cup {p}
    /\ run' = [run EXCEPT ![r].pc = "opening"]
    /\ UNCHANGED <<clock, job, finalized, snapshot, faults>>

\* detectMissedPasses, failed, perhaps after some of the alerts: contained.
DetectFails(r) ==
    LET p == run[r].pass IN
    /\ Fault
    /\ run[r].pc = "detecting"
    /\ \E raised \in SUBSET MissedPasses(p, LatestInvoked(p)) : reported' = reported \cup raised
    /\ run' = [run EXCEPT ![r].pc = "opening"]
    /\ UNCHANGED <<clock, job, finalized, snapshot, detected>>

\* Faulty variant: a workspace that cannot be opened is only left out.
OpenStores_SkipsUnreachable(r, unreachable) ==
    /\ run[r].pc = "opening"
    /\ run' = [run EXCEPT ![r].pc = "capturing", ![r].todo = Workspaces \ unreachable]
    /\ IF unreachable = {} THEN UNCHANGED faults ELSE Fault
    /\ UNCHANGED <<clock, job, finalized, snapshot, reported, detected>>

\* The first loop, every workspace opened and a failure isolated, and fetchPrices.
OpenStores(r, unreachable) ==
    /\ run[r].pc = "opening"
    /\ run' = [run EXCEPT ![r].pc = "capturing", ![r].todo = Workspaces \ unreachable,
                          ![r].failed = unreachable # {}]
    /\ IF unreachable = {} THEN UNCHANGED faults ELSE Fault
    /\ UNCHANGED <<clock, job, finalized, snapshot, reported, detected>>

\* A control plane call or fetchPrices throws: nothing catches it, and the worker
\* takes it for a defect.
Throws(r) ==
    /\ Fault
    /\ \/ run[r].pc \in {"checking", "opening"}
       \/ run[r].pc = "capturing" /\ run[r].todo = {} /\ run[r].at = NoWorkspace
    /\ Settle(r, "fatal")
    /\ UNCHANGED <<clock, job, finalized, snapshot, reported, detected>>

\* The second loop: the next workspace.  Sync phase and price upsert come first.
BeginWorkspace(r, w) ==
    /\ run[r].pc = "capturing"
    /\ run[r].at = NoWorkspace
    /\ w \in run[r].todo
    /\ run' = [run EXCEPT ![r].todo = @ \ {w}, ![r].at = w, ![r].left = Scopes]
    /\ UNCHANGED <<clock, job, finalized, snapshot, reported, detected, faults>>

\* Faulty variant: the capture reads the clock again when the queue is drained.
SaveSnapshot_DrainClock(r, s) ==
    LET w == run[r].at IN
    /\ run[r].pc = "capturing"
    /\ w # NoWorkspace
    /\ s \in run[r].left
    /\ snapshot' = [snapshot EXCEPT ![w][s][Day(clock)] = run[r].pass]
    /\ run' = [run EXCEPT ![r].left = @ \ {s}]
    /\ UNCHANGED <<clock, job, finalized, reported, detected, faults>>

\* saveSnapshot of one scope: one row per scope and day, the latest write wins.
SaveSnapshot(r, s) ==
    LET w == run[r].at IN
    /\ run[r].pc = "capturing"
    /\ w # NoWorkspace
    /\ s \in run[r].left
    /\ snapshot' = [snapshot EXCEPT ![w][s][Day(run[r].pass)] = run[r].pass]
    /\ run' = [run EXCEPT ![r].left = @ \ {s}]
    /\ UNCHANGED <<clock, job, finalized, reported, detected, faults>>

\* The workspace is captured, expired pending logins purged.
EndWorkspace(r) ==
    /\ run[r].pc = "capturing"
    /\ run[r].at # NoWorkspace
    /\ run[r].left = {}
    /\ run' = [run EXCEPT ![r].at = NoWorkspace]
    /\ UNCHANGED <<clock, job, finalized, snapshot, reported, detected, faults>>

\* Any of its writes throws: the scopes already saved stay, the rest is left.
WorkspaceFails(r) ==
    /\ Fault
    /\ run[r].pc = "capturing"
    /\ run[r].at # NoWorkspace
    /\ run' = [run EXCEPT ![r].at = NoWorkspace, ![r].left = {}, ![r].failed = TRUE]
    /\ UNCHANGED <<clock, job, finalized, snapshot, reported, detected>>

\* markRunFinalized when nothing failed, and the outcome.
EndRun(r) ==
    /\ run[r].pc = "capturing"
    /\ run[r].todo = {}
    /\ run[r].at = NoWorkspace
    /\ finalized' = IF run[r].failed THEN finalized ELSE finalized \cup {run[r].pass}
    /\ Settle(r, IF run[r].failed THEN "retriable" ELSE "ok")
    /\ UNCHANGED <<clock, job, snapshot, reported, detected, faults>>

CaptureStep(r) ==
    \/ CheckFinalized(r)
    \/ Detect(r)
    \/ DetectFails(r)
    \/ \E unreachable \in SUBSET Workspaces : OpenStores(r, unreachable)
    \/ Throws(r)
    \/ \E w \in Workspaces : BeginWorkspace(r, w)
    \/ \E s \in Scopes : SaveSnapshot(r, s)
    \/ EndWorkspace(r)
    \/ WorkspaceFails(r)
    \/ EndRun(r)

Next ==
    \/ Tick
    \/ Invoke
    \/ \E r \in Runners, p \in Passes : Deliver(r, p)
    \/ \E r \in Runners : CaptureStep(r)
    \/ \E r \in Runners : SettleJob(r)
    \/ \E r \in Runners : Crash(r)

Spec == Init /\ [][Next]_vars

-----------------------------------------------------------------------------
(* Properties.                                                             *)

\* Every variable has its type, and a day's figures come from one of its passes.
TypeOK ==
    /\ clock \in Passes
    /\ job \in [Passes -> Job]
    /\ finalized \subseteq Passes
    /\ \A w \in Workspaces, s \in Scopes, d \in Days :
          snapshot[w][s][d] \in {None} \cup {p \in Passes : Day(p) = d}
    /\ reported \subseteq Passes
    /\ detected \subseteq Passes
    /\ run \in [Runners -> Run]
    /\ faults \in 0..MaxFaults

\* A finalized pass left no hole: every scope of every workspace has a snapshot of
\* its day, whatever failed, was retried or ran twice on the way.
FinalizedHasNoHole ==
    \A p \in finalized, w \in Workspaces, s \in Scopes : snapshot[w][s][Day(p)] # None

\* The queue and the finalization ledger, two tables no transaction spans, agree: a
\* job is done only when its pass is finalized, so no pass is acknowledged with a
\* workspace still to capture.
DoneMeansFinalized == \A p \in Passes : job[p].status = "done" => p \in finalized

\* No gap is silent and no alarm is false: whenever a pass answered its detection,
\* every pass the scheduler skipped right before it, after some other pass, is
\* reported or older than the limit; and a reported pass was never invoked.
GapsReported ==
    /\ \A c \in detected, b \in Invoked, p \in Passes :
          /\ b < p /\ p < c
          /\ \A q \in p..(c - 1) : q \notin Invoked
          => p \in reported \/ c - p > ReportLimit
    /\ reported \cap Invoked = {}

(* What the resolver's comment says of every job and nothing in the code does. *)

\* "Infra failures (opening the workspace/control plane) are caught as RETRIABLE so a
\* transient outage retries instead of dying": a pass dies only with its last attempt.
OutageRetries ==
    [][\A p \in Passes : job[p].status # "dead" /\ job'[p].status = "dead" =>
         job[p].deliveries = MaxDeliveries]_vars

=============================================================================
