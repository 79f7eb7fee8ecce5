------------------------- MODULE DailyCaptureProofs -------------------------
(***************************************************************************)
(* Proofs about DailyCapture for every fleet, number of scopes, runners,   *)
(* passes and failures.                                                    *)
(*                                                                         *)
(* None of the properties is inductive alone.  FinalizedHasNoHole needs    *)
(* what a run that has not failed owes to whom it has dealt with           *)
(* (Covered); DoneMeansFinalized that a run about to acknowledge has seen  *)
(* its pass finalized (Acknowledged); GapsReported that everything that    *)
(* was invoked, detected or reported lies in the past (Past), so that a    *)
(* new invocation cannot make an old report false.                         *)
(***************************************************************************)
EXTENDS DailyCapture, WellFoundedInduction, TLAPS

\* The snapshots as a function of workspace, scope and day.
SnapshotShape ==
    snapshot \in [Workspaces -> [Scopes -> [Days -> Passes \cup {None}]]]

\* A run works on a pass that was invoked.
OnInvoked == \A r \in Runners : run[r].pc # "idle" => run[r].pass \in Invoked

\* A run without a failure has captured, of every workspace it has begun, the scopes
\* that are not left.
Covered ==
    \A r \in Runners :
        run[r].pc = "capturing" /\ ~ run[r].failed =>
            \A w \in Workspaces \ run[r].todo, s \in Scopes :
                \/ w = run[r].at /\ s \in run[r].left
                \/ snapshot[w][s][Day(run[r].pass)] # None

\* A run that will acknowledge its job has seen its pass finalized.
Acknowledged ==
    \A r \in Runners :
        run[r].pc = "settling" /\ run[r].outcome \in {"ok", "skipped"} =>
            run[r].pass \in finalized

\* What was invoked is not after the clock, what was detected was invoked, what was
\* reported came before something invoked.
Past ==
    /\ \A p \in Invoked : p <= clock
    /\ detected \subseteq Invoked
    /\ \A p \in reported : p < clock

Inv ==
    /\ TypeOK /\ SnapshotShape /\ OnInvoked /\ Covered /\ Acknowledged /\ Past
    /\ FinalizedHasNoHole /\ DoneMeansFinalized /\ GapsReported

-----------------------------------------------------------------------------
(* Days and the greatest of a set of passes.                               *)

LEMMA DayTyped ==
    /\ \A p \in Passes : Day(p) \in Days
    /\ None \notin Passes
<1>1. LastPass \in Nat
  BY DailyAssumption
<1>2. \A p \in 0..LastPass : p \div 2 \in 0..(LastPass \div 2)
  BY <1>1
<1>3. QED
  BY <1>1, <1>2 DEF Passes, Day, Days, None

LEMMA LeastNat ==
    ASSUME NEW T \in SUBSET Nat, T # {}
    PROVE  \E x \in T : \A y \in T : x <= y
<1> DEFINE R == OpToRel(<, Nat)
<1>1. IsWellFoundedOn(R, Nat)
  BY NatLessThanWellFounded, Zenon
<1>2. \E x \in T : \A y \in T : <<y, x>> \notin R
  <2> HIDE DEF R
  <2>1. QED
    BY <1>1, WFMin
<1>3. \A x, y \in T : y < x => <<y, x>> \in R
  BY DEF OpToRel
<1>4. \A x, y \in T : x <= y \/ y < x
  OBVIOUS
<1>5. QED
  <2> HIDE DEF R
  <2>1. QED
    BY <1>2, <1>3, <1>4

LEMMA GreatestPass ==
    ASSUME NEW T \in SUBSET Passes, T # {}
    PROVE  \E x \in T : \A y \in T : y <= x
<1>1. LastPass \in Nat /\ T \subseteq 0..LastPass
  BY DailyAssumption DEF Passes
<1> DEFINE D == {n \in Nat : LastPass - n \in T}
<1>2. D \in SUBSET Nat /\ D # {}
  <2>1. PICK t \in T : TRUE
    OBVIOUS
  <2>2. LastPass - t \in Nat /\ LastPass - (LastPass - t) = t
    BY <1>1
  <2>3. QED
    BY <2>2
<1>3. PICK n \in D : \A m \in D : n <= m
  <2> HIDE DEF D
  <2>1. QED
    BY <1>2, LeastNat
<1>4. ASSUME NEW y \in T
      PROVE  y <= LastPass - n
  <2>1. /\ LastPass - y \in Nat /\ LastPass - (LastPass - y) = y
        /\ y \in Int /\ n \in Nat
    BY <1>1
  <2>2. n <= LastPass - y
    BY <1>3, <2>1
  <2>3. QED
    BY <1>1, <2>1, <2>2
<1>5. QED
  BY <1>3, <1>4

LEMMA LatestInvokedIs ==
    ASSUME NEW p \in Passes
    PROVE  \/ /\ LatestInvoked(p) = None
              /\ \A q \in Invoked : ~ (q < p)
           \/ /\ LatestInvoked(p) \in Invoked /\ LatestInvoked(p) < p
              /\ \A q \in Invoked : q < p => q <= LatestInvoked(p)
<1> DEFINE before == {q \in Invoked : q < p}
<1>1. CASE before = {}
  BY <1>1 DEF LatestInvoked
<1>2. CASE before # {}
  <2>1. before \in SUBSET Passes
    BY DEF Invoked
  <2>2. \E q \in before : \A o \in before : o <= q
    <3> HIDE DEF before
    <3>1. QED
      BY <1>2, <2>1, GreatestPass
  <2>3. LatestInvoked(p) = CHOOSE q \in before : \A o \in before : o <= q
    BY <1>2 DEF LatestInvoked
  <2>4. /\ LatestInvoked(p) \in before
        /\ \A o \in before : o <= LatestInvoked(p)
    BY <2>2, <2>3
  <2>5. QED
    BY <2>4
<1>3. QED
  BY <1>1, <1>2

-----------------------------------------------------------------------------
(* Types.                                                                  *)

LEMMA IdleTyped == /\ Idle \in Run /\ NoJobYet \in Job
                   /\ Idle.pc = "idle" /\ NoJobYet.status = "none"
<1>1. MaxDeliveries \in Nat
  BY DailyAssumption
<1>2. QED
  BY <1>1 DEF Idle, Run, NoJobYet, Job

LEMMA FaultTyped == TypeOK /\ (Fault \/ UNCHANGED faults) => faults' \in 0..MaxFaults
BY DailyAssumption DEF TypeOK, Fault

\* A run that ends keeps its pass until its job is settled.
LEMMA SettleIs ==
    ASSUME TypeOK, NEW r \in Runners, NEW o \in {"ok", "skipped", "retriable", "fatal"},
           Settle(r, o)
    PROVE  /\ run' \in [Runners -> Run]
           /\ \A q \in Runners \ {r} : run'[q] = run[q]
           /\ run'[r].pc = "settling" /\ run'[r].pass = run[r].pass /\ run'[r].outcome = o
<1>1. run \in [Runners -> Run] /\ run[r].pass \in Passes \cup {None}
  BY DEF TypeOK, Run
<1> DEFINE ended == [Idle EXCEPT !.pc = "settling", !.pass = run[r].pass, !.outcome = o]
<1>2. /\ ended \in Run /\ ended.pc = "settling" /\ ended.pass = run[r].pass
      /\ ended.outcome = o
  <2> DEFINE idle == Idle  p == run[r].pass
  <2>1. idle \in Run /\ p \in Passes \cup {None}
    BY <1>1, IdleTyped
  <2> HIDE DEF idle, p
  <2>2. LET e == [idle EXCEPT !.pc = "settling", !.pass = p, !.outcome = o]
        IN  e \in Run /\ e.pc = "settling" /\ e.pass = p /\ e.outcome = o
    BY <2>1 DEF Run
  <2>3. QED
    BY <2>2, Zenon DEF idle, p
<1>3. run' = [run EXCEPT ![r] = ended]
  BY Zenon DEF Settle
<1> HIDE DEF ended
<1>4. QED
  BY <1>1, <1>2, <1>3

\* A step of the handler leaves its run, and nobody else's, in a state of runDailyCapture.
LEMMA RunTyped ==
    ASSUME TypeOK, NEW r \in Runners, CaptureStep(r)
    PROVE  run' \in [Runners -> Run]
<1>1. run \in [Runners -> Run] /\ run[r] \in Run
  BY DEF TypeOK
<1>2. ASSUME NEW o \in {"ok", "skipped", "retriable", "fatal"}, Settle(r, o)
      PROVE  run' \in [Runners -> Run]
  BY <1>2, SettleIs
<1>3. CASE CheckFinalized(r)
  <2>1. CASE Settle(r, "skipped")
    BY <1>2, <2>1
  <2>2. CASE run' = [run EXCEPT ![r].pc = "detecting"]
    BY <1>1, <2>2 DEF Run
  <2>3. QED
    BY <1>3, <2>1, <2>2 DEF CheckFinalized
<1>4. CASE Detect(r)
  BY <1>1, <1>4 DEF Detect, Run
<1>5. CASE DetectFails(r)
  BY <1>1, <1>5 DEF DetectFails, Run
<1>6. ASSUME NEW unreachable \in SUBSET Workspaces, OpenStores(r, unreachable)
      PROVE  run' \in [Runners -> Run]
  <2>1. Workspaces \ unreachable \in SUBSET Workspaces /\ (unreachable # {}) \in BOOLEAN
    OBVIOUS
  <2>2. PICK t \in SUBSET Workspaces, f \in BOOLEAN :
           run' = [run EXCEPT ![r].pc = "capturing", ![r].todo = t, ![r].failed = f]
    BY <1>6, <2>1, Zenon DEF OpenStores
  <2>3. QED
    BY <1>1, <2>2 DEF Run
<1>7. CASE Throws(r)
  BY <1>2, <1>7 DEF Throws
<1>8. ASSUME NEW w \in Workspaces, BeginWorkspace(r, w)
      PROVE  run' \in [Runners -> Run]
  BY <1>1, <1>8 DEF BeginWorkspace, Run
<1>9. ASSUME NEW s \in Scopes, SaveSnapshot(r, s)
      PROVE  run' \in [Runners -> Run]
  BY <1>1, <1>9 DEF SaveSnapshot, Run
<1>10. CASE EndWorkspace(r)
  BY <1>1, <1>10 DEF EndWorkspace, Run
<1>11. CASE WorkspaceFails(r)
  BY <1>1, <1>11 DEF WorkspaceFails, Run
<1>12. CASE EndRun(r)
  BY <1>2, <1>12 DEF EndRun
<1>13. QED
  BY <1>3, <1>4, <1>5, <1>6, <1>7, <1>8, <1>9, <1>10, <1>11, <1>12 DEF CaptureStep

\* A saved snapshot is one of the pass, on its day, of a scope of the workspace at hand.
LEMMA SaveIs ==
    ASSUME TypeOK, SnapshotShape, OnInvoked, NEW r \in Runners, NEW s \in Scopes,
           SaveSnapshot(r, s)
    PROVE  /\ SnapshotShape'
           /\ run[r].pass \in Passes /\ Day(run[r].pass) \in Days
           /\ \A w \in Workspaces, t \in Scopes, d \in Days :
                snapshot'[w][t][d] = IF w = run[r].at /\ t = s /\ d = Day(run[r].pass)
                                     THEN run[r].pass ELSE snapshot[w][t][d]
<1>1. /\ run[r].at \in Workspaces /\ run[r].pass \in Passes
      /\ Day(run[r].pass) \in Days
  BY DayTyped DEF SaveSnapshot, Run, TypeOK, OnInvoked, Invoked
<1>2. snapshot' = [snapshot EXCEPT ![run[r].at][s][Day(run[r].pass)] = run[r].pass]
  BY DEF SaveSnapshot
<1> DEFINE w0 == run[r].at  p0 == run[r].pass  d0 == Day(run[r].pass)
<1> HIDE DEF w0, p0, d0
<1>3. /\ w0 \in Workspaces /\ p0 \in Passes /\ d0 \in Days
      /\ snapshot' = [snapshot EXCEPT ![w0][s][d0] = p0]
  BY <1>1, <1>2, Zenon DEF w0, p0, d0
<1>4. SnapshotShape'
  BY <1>3 DEF SnapshotShape
<1>5. \A w \in Workspaces, t \in Scopes, d \in Days :
         snapshot'[w][t][d] = IF w = w0 /\ t = s /\ d = d0 THEN p0 ELSE snapshot[w][t][d]
  BY <1>3 DEF SnapshotShape
<1>6. QED
  BY <1>1, <1>4, <1>5 DEF w0, p0, d0

\* A step of the handler keeps the types; only SaveSnapshot touches a snapshot.
LEMMA CaptureTyped ==
    ASSUME TypeOK, SnapshotShape, OnInvoked, NEW r \in Runners, CaptureStep(r)
    PROVE  TypeOK' /\ SnapshotShape'
<1>1. run[r].pc # "idle" => run[r].pass \in Passes
  BY DEF OnInvoked, Invoked
<1>2. run' \in [Runners -> Run]
  BY RunTyped
<1>3. faults' \in 0..MaxFaults
  BY FaultTyped DEF CaptureStep, CheckFinalized, Detect, DetectFails, OpenStores, Throws,
     BeginWorkspace, SaveSnapshot, EndWorkspace, WorkspaceFails, EndRun
<1>4. UNCHANGED <<clock, job>>
  BY DEF CaptureStep, CheckFinalized, Detect, DetectFails, OpenStores, Throws,
     BeginWorkspace, SaveSnapshot, EndWorkspace, WorkspaceFails, EndRun
<1>5. finalized' \subseteq Passes
  <2>1. finalized' = finalized \/ EndRun(r)
    BY DEF CaptureStep, CheckFinalized, Detect, DetectFails, OpenStores, Throws,
       BeginWorkspace, SaveSnapshot, EndWorkspace, WorkspaceFails
  <2>2. QED
    BY <1>1, <2>1 DEF EndRun, TypeOK
<1>6. reported' \subseteq Passes /\ detected' \subseteq Passes
  <2>1. UNCHANGED <<reported, detected>> \/ Detect(r) \/ DetectFails(r)
    BY DEF CaptureStep, CheckFinalized, OpenStores, Throws,
       BeginWorkspace, SaveSnapshot, EndWorkspace, WorkspaceFails, EndRun
  <2>2. \A c, l : MissedPasses(c, l) \subseteq Passes
    BY DEF MissedPasses
  <2>3. QED
    BY <1>1, <2>1, <2>2 DEF Detect, DetectFails, TypeOK
<1>7. /\ SnapshotShape'
      /\ \A w \in Workspaces, s \in Scopes, d \in Days :
            snapshot'[w][s][d] \in {None} \cup {p \in Passes : Day(p) = d}
  <2>1. CASE UNCHANGED snapshot
    BY <2>1 DEF SnapshotShape, TypeOK
  <2>2. ASSUME NEW s \in Scopes, SaveSnapshot(r, s)
        PROVE  <1>7!1 /\ <1>7!2
    BY <2>2, SaveIs DEF TypeOK
  <2>3. QED
    BY <2>1, <2>2 DEF CaptureStep, CheckFinalized, Detect, DetectFails, OpenStores, Throws,
       BeginWorkspace, EndWorkspace, WorkspaceFails, EndRun
<1>8. QED
  BY <1>2, <1>3, <1>4, <1>5, <1>6, <1>7 DEF TypeOK

LEMMA StepTyped ==
    ASSUME TypeOK, SnapshotShape, OnInvoked, [Next]_vars
    PROVE  TypeOK' /\ SnapshotShape'
<1>1. CASE UNCHANGED vars
  BY <1>1 DEF TypeOK, SnapshotShape, vars
<1>2. CASE Tick
  BY <1>2, DailyAssumption DEF TypeOK, SnapshotShape, Tick, Passes
<1>3. CASE Invoke
  <2>1. [NoJobYet EXCEPT !.status = "active"] \in Job
    BY IdleTyped DEF Job
  <2>2. QED
    BY <1>3, <2>1 DEF TypeOK, SnapshotShape, Invoke
<1>4. ASSUME NEW r \in Runners, NEW p \in Passes, Deliver(r, p)
      PROVE  TypeOK' /\ SnapshotShape'
  <2>1. faults' \in 0..MaxFaults
    BY <1>4, FaultTyped DEF Deliver
  <2>2. job[p] \in Job /\ job[p].deliveries + 1 \in 0..MaxDeliveries
    BY <1>4, DailyAssumption DEF TypeOK, Deliver, Job
  <2>3. job' \in [Passes -> Job]
    BY <1>4, <2>2 DEF TypeOK, Deliver, Job
  <2>4. [Idle EXCEPT !.pc = "checking", !.pass = p] \in Run
    BY IdleTyped DEF Run
  <2>5. QED
    BY <1>4, <2>1, <2>3, <2>4 DEF TypeOK, SnapshotShape, Deliver
<1>5. ASSUME NEW r \in Runners, SettleJob(r)
      PROVE  TypeOK' /\ SnapshotShape'
  <2>1. run[r].pass \in Passes
    BY <1>5 DEF OnInvoked, Invoked, SettleJob
  <2>2. job' \in [Passes -> Job]
    BY <1>5, <2>1 DEF TypeOK, SettleJob, Job
  <2>3. QED
    BY <1>5, <2>2, IdleTyped DEF TypeOK, SnapshotShape, SettleJob
<1>6. ASSUME NEW r \in Runners, Crash(r)
      PROVE  TypeOK' /\ SnapshotShape'
  BY <1>6, FaultTyped, IdleTyped DEF TypeOK, SnapshotShape, Crash
<1>7. QED
  BY <1>1, <1>2, <1>3, <1>4, <1>5, <1>6, CaptureTyped DEF Next

-----------------------------------------------------------------------------
(* What a step leaves alone, and what it may do to a run, a job, a gap.    *)

\* A step of the handler works on its own run, on the same pass, and on no job.
LEMMA CaptureKeeps ==
    ASSUME TypeOK, NEW r \in Runners, CaptureStep(r)
    PROVE  /\ UNCHANGED <<clock, job>> /\ Invoked' = Invoked
           /\ \A q \in Runners \ {r} : run'[q] = run[q]
           /\ run[r].pc # "idle" /\ run'[r].pass = run[r].pass
           /\ finalized \subseteq finalized'
<1>1. run \in [Runners -> Run] /\ run[r] \in Run
  BY DEF TypeOK
<1>2. UNCHANGED <<clock, job>> /\ finalized \subseteq finalized' /\ run[r].pc # "idle"
  BY DEF CaptureStep, CheckFinalized, Detect, DetectFails, OpenStores, Throws,
     BeginWorkspace, SaveSnapshot, EndWorkspace, WorkspaceFails, EndRun
<1>3. Invoked' = Invoked
  BY <1>2 DEF Invoked
<1> DEFINE Kept == /\ \A q \in Runners \ {r} : run'[q] = run[q]
                   /\ run'[r].pass = run[r].pass
<1>4. ASSUME NEW o \in {"ok", "skipped", "retriable", "fatal"}, Settle(r, o)
      PROVE  Kept
  BY <1>4, SettleIs
<1>5. ASSUME CheckFinalized(r)
      PROVE  Kept
  <2>1. CASE Settle(r, "skipped")
    BY <1>4, <2>1
  <2>2. CASE run' = [run EXCEPT ![r].pc = "detecting"]
    BY <1>1, <2>2 DEF Run
  <2>3. QED
    BY <1>5, <2>1, <2>2 DEF CheckFinalized
<1>6. ASSUME Detect(r)
      PROVE  Kept
  BY <1>1, <1>6 DEF Detect, Run
<1>7. ASSUME DetectFails(r)
      PROVE  Kept
  BY <1>1, <1>7 DEF DetectFails, Run
<1>8. ASSUME NEW unreachable \in SUBSET Workspaces, OpenStores(r, unreachable)
      PROVE  Kept
  <2>1. PICK t \in SUBSET Workspaces, f \in BOOLEAN :
           run' = [run EXCEPT ![r].pc = "capturing", ![r].todo = t, ![r].failed = f]
    <3>1. Workspaces \ unreachable \in SUBSET Workspaces /\ (unreachable # {}) \in BOOLEAN
      OBVIOUS
    <3>2. QED
      BY <1>8, <3>1, Zenon DEF OpenStores
  <2>2. QED
    BY <1>1, <2>1 DEF Run
<1>9. ASSUME Throws(r)
      PROVE  Kept
  BY <1>4, <1>9 DEF Throws
<1>10. ASSUME NEW w \in Workspaces, BeginWorkspace(r, w)
       PROVE  Kept
  BY <1>1, <1>10 DEF BeginWorkspace, Run
<1>11. ASSUME NEW s \in Scopes, SaveSnapshot(r, s)
       PROVE  Kept
  BY <1>1, <1>11 DEF SaveSnapshot, Run
<1>12. ASSUME EndWorkspace(r)
       PROVE  Kept
  BY <1>1, <1>12 DEF EndWorkspace, Run
<1>13. ASSUME WorkspaceFails(r)
       PROVE  Kept
  BY <1>1, <1>13 DEF WorkspaceFails, Run
<1>14. ASSUME EndRun(r)
       PROVE  Kept
  BY <1>4, <1>14 DEF EndRun
<1>15. Kept
  BY <1>5, <1>6, <1>7, <1>8, <1>9, <1>10, <1>11, <1>12, <1>13, <1>14 DEF CaptureStep
<1>16. QED
  BY <1>2, <1>3, <1>15

\* A snapshot once there is never taken away.
LEMMA SnapshotsStay ==
    ASSUME TypeOK, SnapshotShape, OnInvoked, NEW r \in Runners, CaptureStep(r),
           NEW w \in Workspaces, NEW s \in Scopes, NEW d \in Days,
           snapshot[w][s][d] # None
    PROVE  snapshot'[w][s][d] # None
<1>1. CASE UNCHANGED snapshot
  BY <1>1
<1>2. ASSUME NEW t \in Scopes, SaveSnapshot(r, t)
      PROVE  snapshot'[w][s][d] # None
  BY <1>2, SaveIs, DayTyped
<1>3. QED
  BY <1>1, <1>2 DEF CaptureStep, CheckFinalized, Detect, DetectFails, OpenStores, Throws,
     BeginWorkspace, EndWorkspace, WorkspaceFails, EndRun

\* A delivery changes no status; the queue's answer to a run concerns the run's job, and
\* is "done" only for a run that finalized its pass or found it finalized.
LEMMA JobStatus ==
    ASSUME TypeOK, OnInvoked, NEW r \in Runners
    PROVE  /\ \A p \in Passes : Deliver(r, p) =>
                \A q \in Passes : job'[q].status = job[q].status
           /\ SettleJob(r) => \A q \in Passes :
                \/ job'[q].status = job[q].status
                \/ /\ q = run[r].pass /\ job'[q].status \in {"done", "active", "dead"}
                   /\ job'[q].status = "done" => run[r].outcome \in {"ok", "skipped"}
<1>1. job \in [Passes -> Job]
  BY DEF TypeOK
<1>2. ASSUME NEW p \in Passes, Deliver(r, p), NEW q \in Passes
      PROVE  job'[q].status = job[q].status
  BY <1>1, <1>2 DEF Deliver, Job
<1>3. ASSUME SettleJob(r), NEW q \in Passes
      PROVE  \/ job'[q].status = job[q].status
             \/ /\ q = run[r].pass /\ job'[q].status \in {"done", "active", "dead"}
                /\ job'[q].status = "done" => run[r].outcome \in {"ok", "skipped"}
  <2>1. run[r].pass \in Passes
    BY <1>3 DEF OnInvoked, Invoked, SettleJob
  <2>2. PICK st \in {"done", "active", "dead"} :
           /\ job' = IF job[run[r].pass].runner # r THEN job
                     ELSE [job EXCEPT ![run[r].pass].status = st,
                                      ![run[r].pass].runner = NoRunner]
           /\ st = "done" => run[r].outcome \in {"ok", "skipped"}
    <3> DEFINE p == run[r].pass
               st == CASE run[r].outcome \in {"ok", "skipped"} -> "done"
                       [] run[r].outcome = "retriable" /\ job[p].deliveries < MaxDeliveries
                            -> "active"
                       [] OTHER -> "dead"
    <3>1. st \in {"done", "active", "dead"}
      OBVIOUS
    <3>2. st = "done" => run[r].outcome \in {"ok", "skipped"}
      OBVIOUS
    <3>3. job' = IF job[p].runner # r THEN job
                 ELSE [job EXCEPT ![p].status = st, ![p].runner = NoRunner]
      BY <1>3, Zenon DEF SettleJob
    <3> HIDE DEF st
    <3>4. QED
      BY <3>1, <3>2, <3>3
  <2>3. QED
    BY <1>1, <2>1, <2>2 DEF Job
<1>4. QED
  BY <1>2, <1>3

\* Whoever leaves the statuses apart from "none" alone leaves what was invoked.
LEMMA InvokedKept ==
    ASSUME \A q \in Passes : (job'[q].status = "none") <=> (job[q].status = "none")
    PROVE  Invoked' = Invoked
BY DEF Invoked

\* The passes a detection reports lie in the gap: before the pass, never invoked.
LEMMA MissedInGap ==
    ASSUME NEW c \in Passes, NEW p \in MissedPasses(c, LatestInvoked(c))
    PROVE  p \in Passes /\ p < c /\ p \notin Invoked
<1>1. /\ LatestInvoked(c) # None
      /\ p \in Passes /\ LatestInvoked(c) < p /\ p < c
  BY DEF MissedPasses
<1>2. /\ LatestInvoked(c) \in Invoked
      /\ \A q \in Invoked : q < c => q <= LatestInvoked(c)
  BY <1>1, LatestInvokedIs
<1>3. p \in Int /\ LatestInvoked(c) \in Int
  BY <1>1, <1>2, DailyAssumption DEF Passes, Invoked
<1>4. QED
  BY <1>1, <1>2, <1>3

\* It reports the whole gap, within the limit.
LEMMA GapIsMissed ==
    ASSUME NEW c \in Passes, NEW b \in Invoked, NEW p \in Passes, b < p, p < c,
           \A q \in p..(c - 1) : q \notin Invoked
    PROVE  p \in MissedPasses(c, LatestInvoked(c)) \/ c - p > ReportLimit
<1>1. b \in Int /\ p \in Int /\ c \in Int /\ ReportLimit \in Int
  BY DailyAssumption DEF Passes, Invoked
<1>2. /\ LatestInvoked(c) \in Invoked /\ LatestInvoked(c) < c
      /\ LatestInvoked(c) \in Passes
  BY <1>1, LatestInvokedIs DEF Invoked
<1>3. LatestInvoked(c) \in Int /\ LatestInvoked(c) # None
  BY <1>2, DailyAssumption, DayTyped DEF Passes
<1>4. LatestInvoked(c) < p
  BY <1>1, <1>2, <1>3
<1>5. QED
  BY <1>1, <1>3, <1>4 DEF MissedPasses

-----------------------------------------------------------------------------
(* Each part of the invariant is kept.                                     *)

\* Nothing was invoked, nothing runs.
LEMMA InitInv == Init => Inv
<1> SUFFICES ASSUME Init PROVE Inv
  OBVIOUS
<1>1. LastPass \in Nat /\ MaxFaults \in Nat /\ 0 \in Passes
  BY DailyAssumption DEF Passes
<1>2. /\ \A p \in Passes : job[p] = NoJobYet
      /\ \A r \in Runners : run[r] = Idle
  BY DEF Init
<1>3. Invoked = {}
  BY <1>2, IdleTyped DEF Invoked
<1>4. SnapshotShape
  BY DEF Init, SnapshotShape
<1>5. \A w \in Workspaces, s \in Scopes, d \in Days : snapshot[w][s][d] = None
  BY DEF Init
<1>6. job \in [Passes -> Job] /\ run \in [Runners -> Run]
  BY IdleTyped DEF Init
<1>7. TypeOK
  BY <1>1, <1>5, <1>6 DEF TypeOK, Init
<1>8. OnInvoked /\ Covered /\ Acknowledged /\ DoneMeansFinalized
  BY <1>2, IdleTyped DEF OnInvoked, Covered, Acknowledged, DoneMeansFinalized
<1>9. Past /\ FinalizedHasNoHole /\ GapsReported
  BY <1>3 DEF Init, Past, FinalizedHasNoHole, GapsReported
<1>10. QED
  BY <1>4, <1>7, <1>8, <1>9 DEF Inv

\* Outside the handler only Invoke invokes, and it does so at the clock.
LEMMA InvokedGrows ==
    ASSUME TypeOK, OnInvoked, [Next]_vars
    PROVE  /\ Invoked' = Invoked \/ (Invoke /\ Invoked' = Invoked \cup {clock})
           /\ Invoked \subseteq Invoked'
<1>1. job \in [Passes -> Job] /\ clock \in Passes
  BY DEF TypeOK
<1>2. ASSUME UNCHANGED job
      PROVE  Invoked' = Invoked
  BY <1>2 DEF Invoked
<1>3. ASSUME Invoke
      PROVE  Invoked' = Invoked \cup {clock}
  <2>1. \A q \in Passes : job'[q].status = IF q = clock THEN "active" ELSE job[q].status
    BY <1>1, <1>3, IdleTyped DEF Invoke, Job
  <2>2. QED
    BY <1>1, <1>3, <2>1 DEF Invoked
<1>4. ASSUME NEW r \in Runners, NEW p \in Passes, Deliver(r, p)
      PROVE  Invoked' = Invoked
  BY <1>4, JobStatus, InvokedKept
<1>5. ASSUME NEW r \in Runners, SettleJob(r)
      PROVE  Invoked' = Invoked
  <2>1. job[run[r].pass].status # "none"
    BY <1>5 DEF OnInvoked, Invoked, SettleJob
  <2>2. QED
    BY <1>5, <2>1, JobStatus, InvokedKept
<1>6. QED
  <2>1. Invoked' = Invoked \/ (Invoke /\ Invoked' = Invoked \cup {clock})
    <3>1. \/ UNCHANGED job
          \/ Invoke
          \/ \E r \in Runners, p \in Passes : Deliver(r, p)
          \/ \E r \in Runners : SettleJob(r)
      <4>1. ASSUME NEW r \in Runners, CaptureStep(r)
            PROVE  UNCHANGED job
        BY <4>1, CaptureKeeps
      <4>2. QED
        BY <4>1 DEF Next, vars, Tick, Crash
    <3>2. QED
      BY <1>2, <1>3, <1>4, <1>5, <3>1, Zenon
  <2>2. QED
    BY <2>1

\* What Deliver, SettleJob and Crash do to the runs: one starts on a pass that was
\* invoked, or goes idle.
LEMMA RunsOutside ==
    ASSUME TypeOK, NEW r \in Runners
    PROVE  /\ \A p \in Passes : Deliver(r, p) =>
                /\ \A q \in Runners \ {r} : run'[q] = run[q]
                /\ run'[r].pc = "checking" /\ run'[r].pass = p
           /\ SettleJob(r) \/ Crash(r) =>
                /\ \A q \in Runners \ {r} : run'[q] = run[q]
                /\ run'[r].pc = "idle"
<1>1. run \in [Runners -> Run]
  BY DEF TypeOK
<1>2. ASSUME NEW p \in Passes, Deliver(r, p)
      PROVE  /\ \A q \in Runners \ {r} : run'[q] = run[q]
             /\ run'[r].pc = "checking" /\ run'[r].pass = p
  <2> DEFINE idle == Idle
             begun == [idle EXCEPT !.pc = "checking", !.pass = p]
  <2>1. idle \in Run
    BY IdleTyped
  <2>2. run' = [run EXCEPT ![r] = begun]
    BY <1>2, Zenon DEF Deliver
  <2> HIDE DEF idle
  <2>3. begun.pc = "checking" /\ begun.pass = p
    BY <2>1 DEF Run
  <2> HIDE DEF begun
  <2>4. QED
    BY <1>1, <2>2, <2>3
<1>3. ASSUME SettleJob(r) \/ Crash(r)
      PROVE  /\ \A q \in Runners \ {r} : run'[q] = run[q]
             /\ run'[r].pc = "idle"
  BY <1>1, <1>3, IdleTyped DEF SettleJob, Crash
<1>4. QED
  BY <1>2, <1>3

LEMMA OnInvokedStep ==
    ASSUME Inv, [Next]_vars
    PROVE  OnInvoked'
<1>1. TypeOK /\ OnInvoked
  BY DEF Inv
<1>2. Invoked \subseteq Invoked'
  BY <1>1, InvokedGrows
<1>3. CASE UNCHANGED run
  BY <1>1, <1>2, <1>3 DEF OnInvoked
<1>4. ASSUME NEW r \in Runners, NEW p \in Passes, Deliver(r, p)
      PROVE  OnInvoked'
  <2>1. p \in Invoked
    BY <1>4 DEF Deliver, Invoked
  <2>2. QED
    BY <1>1, <1>2, <1>4, <2>1, RunsOutside DEF OnInvoked
<1>5. ASSUME NEW r \in Runners, SettleJob(r) \/ Crash(r)
      PROVE  OnInvoked'
  BY <1>1, <1>2, <1>5, RunsOutside DEF OnInvoked
<1>6. ASSUME NEW r \in Runners, CaptureStep(r)
      PROVE  OnInvoked'
  BY <1>1, <1>2, <1>6, CaptureKeeps DEF OnInvoked
<1>7. QED
  BY <1>3, <1>4, <1>5, <1>6 DEF Next, vars, Tick, Invoke

LEMMA PastStep ==
    ASSUME Inv, [Next]_vars
    PROVE  Past'
<1>1. TypeOK /\ OnInvoked /\ Past
  BY DEF Inv
<1>2. /\ Passes \subseteq Int /\ clock \in Passes /\ Invoked \subseteq Passes
      /\ reported \subseteq Passes
  BY <1>1, DailyAssumption DEF Passes, TypeOK, Invoked
<1>3. clock' = clock \/ clock' = clock + 1
  BY CaptureKeeps, <1>1 DEF Next, vars, Tick, Invoke, Deliver, SettleJob, Crash
<1>4. \A p \in Invoked' : p <= clock'
  <2>1. Invoked' \subseteq Invoked \cup {clock}
    BY <1>1, InvokedGrows
  <2>2. QED
    BY <1>1, <1>2, <1>3, <2>1 DEF Past
<1>5. UNCHANGED <<reported, detected>> \/ \E r \in Runners : Detect(r) \/ DetectFails(r)
  BY DEF Next, vars, Tick, Invoke, Deliver, SettleJob, Crash, CaptureStep, CheckFinalized,
     OpenStores, Throws, BeginWorkspace, SaveSnapshot, EndWorkspace, WorkspaceFails, EndRun
<1>6. CASE UNCHANGED <<reported, detected>>
  <2>1. detected' \subseteq Invoked'
    BY <1>1, <1>6, InvokedGrows DEF Past
  <2>2. \A p \in reported' : p < clock'
    BY <1>1, <1>2, <1>3, <1>6 DEF Past
  <2>3. QED
    BY <1>4, <2>1, <2>2 DEF Past
<1>7. ASSUME NEW r \in Runners, Detect(r) \/ DetectFails(r)
      PROVE  Past'
  <2> DEFINE c == run[r].pass
  <2>1. c \in Invoked /\ c \in Passes /\ c <= clock
    BY <1>1, <1>7 DEF OnInvoked, Detect, DetectFails, Past, Invoked
  <2>2. UNCHANGED <<clock, job>> /\ Invoked' = Invoked
    BY <1>7 DEF Detect, DetectFails, Invoked
  <2>3. detected' \subseteq detected \cup {c}
    BY <1>7 DEF Detect, DetectFails
  <2>4. reported' \subseteq reported \cup MissedPasses(c, LatestInvoked(c))
    BY <1>7 DEF Detect, DetectFails
  <2>7. \A p \in MissedPasses(c, LatestInvoked(c)) : p \in Passes /\ p < c
    BY <2>1, MissedInGap
  <2> HIDE DEF c
  <2>5. \A p \in MissedPasses(c, LatestInvoked(c)) : p < clock
    <3>1. c \in Int /\ clock \in Int /\ c <= clock
      BY <1>2, <2>1
    <3>2. \A p \in Int : p < c => p < clock
      BY <3>1
    <3>3. QED
      BY <1>2, <2>7, <3>2
  <2>6. QED
    BY <1>1, <1>4, <2>1, <2>2, <2>3, <2>4, <2>5 DEF Past
<1>8. QED
  BY <1>5, <1>6, <1>7

LEMMA GapsStep ==
    ASSUME Inv, [Next]_vars
    PROVE  GapsReported'
<1>1. TypeOK /\ OnInvoked /\ Past /\ GapsReported
  BY DEF Inv
<1>2. /\ Passes \subseteq Int /\ clock \in Passes /\ Invoked \subseteq Passes
      /\ detected \subseteq Passes /\ reported \subseteq Passes
  BY <1>1, DailyAssumption DEF Passes, TypeOK, Invoked
<1>3. UNCHANGED <<reported, detected>> \/ \E r \in Runners : Detect(r) \/ DetectFails(r)
  BY DEF Next, vars, Tick, Invoke, Deliver, SettleJob, Crash, CaptureStep, CheckFinalized,
     OpenStores, Throws, BeginWorkspace, SaveSnapshot, EndWorkspace, WorkspaceFails, EndRun
<1>4. CASE UNCHANGED <<reported, detected>> /\ Invoked' = Invoked
  BY <1>1, <1>4 DEF GapsReported
\* A new invocation lies after everything detected and everything reported.
<1>5. CASE UNCHANGED <<reported, detected>> /\ Invoked' = Invoked \cup {clock}
  <2>1. \A c \in detected : c <= clock
    BY <1>1 DEF Past
  <2>2. clock \notin reported
    BY <1>1, <1>2 DEF Past
  <2>3. ASSUME NEW c \in detected', NEW b \in Invoked', NEW p \in Passes, b < p, p < c,
               \A q \in p..(c - 1) : q \notin Invoked'
        PROVE  p \in reported' \/ c - p > ReportLimit
    <3>1. c \in detected /\ c \in Int /\ p \in Int /\ clock \in Int /\ c <= clock
      BY <1>2, <1>5, <2>1, <2>3
    <3>2. b # clock
      BY <3>1, <2>3
    <3>3. b \in Invoked
      BY <1>5, <2>3, <3>2
    <3>4. \A q \in p..(c - 1) : q \notin Invoked
      BY <1>5, <2>3
    <3>5. QED
      BY <1>1, <1>5, <2>3, <3>1, <3>3, <3>4 DEF GapsReported
  <2>4. QED
    BY <1>1, <1>5, <2>2, <2>3 DEF GapsReported
<1>6. ASSUME NEW r \in Runners, Detect(r) \/ DetectFails(r)
      PROVE  GapsReported'
  <2> DEFINE e == run[r].pass
             missed == MissedPasses(e, LatestInvoked(e))
  <2>1. e \in Invoked /\ e \in Passes
    BY <1>1, <1>6 DEF OnInvoked, Detect, DetectFails, Invoked
  <2>2. Invoked' = Invoked
    BY <1>6 DEF Detect, DetectFails, Invoked
  <2>3. /\ reported \subseteq reported' /\ reported' \subseteq reported \cup missed
        /\ \/ detected' = detected
           \/ detected' = detected \cup {e} /\ missed \subseteq reported'
    BY <1>6 DEF Detect, DetectFails
  <2>4. reported' \cap Invoked' = {}
    BY <1>1, <2>1, <2>2, <2>3, MissedInGap DEF GapsReported
  <2>5. ASSUME NEW c \in detected', NEW b \in Invoked', NEW p \in Passes, b < p, p < c,
               \A q \in p..(c - 1) : q \notin Invoked'
        PROVE  p \in reported' \/ c - p > ReportLimit
    <3>1. CASE c \in detected
      BY <1>1, <2>2, <2>3, <2>5, <3>1 DEF GapsReported
    <3>2. CASE c = e /\ missed \subseteq reported'
      BY <2>1, <2>2, <2>5, <3>2, GapIsMissed
    <3>3. QED
      BY <2>3, <2>5, <3>1, <3>2
  <2>6. QED
    BY <2>4, <2>5 DEF GapsReported
<1>7. QED
  BY <1>1, <1>3, <1>4, <1>5, <1>6, InvokedGrows

\* What a capturing run without a failure has captured.
CoveredBy(r) ==
    run[r].pc = "capturing" /\ ~ run[r].failed =>
        \A w \in Workspaces \ run[r].todo, s \in Scopes :
            \/ w = run[r].at /\ s \in run[r].left
            \/ snapshot[w][s][Day(run[r].pass)] # None

\* The run that steps: a workspace begun has all its scopes left, a scope is no longer
\* left once it is saved, a workspace ends with no scope left.
LEMMA CoversItsOwn ==
    ASSUME TypeOK, SnapshotShape, OnInvoked, Covered, NEW r \in Runners, CaptureStep(r)
    PROVE  CoveredBy(r)'
<1>1. /\ run \in [Runners -> Run] /\ run[r] \in Run /\ CoveredBy(r)
      /\ run[r].pass \in Passes /\ Day(run[r].pass) \in Days /\ run'[r].pass = run[r].pass
  BY CaptureKeeps, DayTyped DEF TypeOK, Covered, CoveredBy, OnInvoked, Invoked
<1>2. ASSUME run'[r].pc # "capturing" \/ run'[r].failed
      PROVE  CoveredBy(r)'
  BY <1>2 DEF CoveredBy
<1>3. ASSUME NEW o \in {"ok", "skipped", "retriable", "fatal"}, Settle(r, o)
      PROVE  CoveredBy(r)'
  BY <1>2, <1>3, SettleIs
<1>4. CASE CheckFinalized(r)
  <2>1. CASE Settle(r, "skipped")
    BY <1>3, <2>1
  <2>2. CASE run' = [run EXCEPT ![r].pc = "detecting"]
    BY <1>1, <1>2, <2>2 DEF Run
  <2>3. QED
    BY <1>4, <2>1, <2>2 DEF CheckFinalized
<1>5. CASE Detect(r) \/ DetectFails(r)
  BY <1>1, <1>2, <1>5 DEF Detect, DetectFails, Run
<1>6. ASSUME NEW unreachable \in SUBSET Workspaces, OpenStores(r, unreachable)
      PROVE  CoveredBy(r)'
  <2>1. PICK f \in BOOLEAN, t \in SUBSET Workspaces :
           /\ run' = [run EXCEPT ![r].pc = "capturing", ![r].todo = t, ![r].failed = f]
           /\ f \/ t = Workspaces
    <3>1. /\ Workspaces \ unreachable \in SUBSET Workspaces
          /\ (unreachable # {}) \in BOOLEAN
          /\ unreachable # {} \/ Workspaces \ unreachable = Workspaces
      OBVIOUS
    <3>2. QED
      BY <1>6, <3>1, Zenon DEF OpenStores
  <2>2. run'[r].failed \/ run'[r].todo = Workspaces
    BY <1>1, <2>1 DEF Run
  <2>3. QED
    BY <1>2, <2>2 DEF CoveredBy
<1>7. CASE Throws(r)
  BY <1>3, <1>7 DEF Throws
<1>8. ASSUME NEW v \in Workspaces, BeginWorkspace(r, v)
      PROVE  CoveredBy(r)'
  <2>1. /\ run'[r].failed = run[r].failed /\ run'[r].todo = run[r].todo \ {v}
        /\ run'[r].at = v /\ run'[r].left = Scopes
        /\ run[r].pc = "capturing" /\ run[r].at \notin Workspaces
        /\ snapshot' = snapshot
    BY <1>1, <1>8, DailyAssumption DEF BeginWorkspace, Run
  <2>2. QED
    BY <1>1, <2>1 DEF CoveredBy
<1>9. ASSUME NEW t \in Scopes, SaveSnapshot(r, t)
      PROVE  CoveredBy(r)'
  <2>1. /\ run'[r].failed = run[r].failed /\ run'[r].todo = run[r].todo
        /\ run'[r].at = run[r].at /\ run'[r].left = run[r].left \ {t}
        /\ run[r].pc = "capturing" /\ run[r].at \in Workspaces
    BY <1>1, <1>9 DEF SaveSnapshot, Run
  <2>2. snapshot'[run[r].at][t][Day(run[r].pass)] # None
    BY <1>1, <1>9, <2>1, SaveIs, DayTyped
  <2>3. \A w \in Workspaces, s \in Scopes :
           snapshot[w][s][Day(run[r].pass)] # None =>
             snapshot'[w][s][Day(run[r].pass)] # None
    BY <1>1, SnapshotsStay
  <2>4. QED
    BY <1>1, <2>1, <2>2, <2>3 DEF CoveredBy
<1>10. CASE EndWorkspace(r)
  <2>1. /\ run'[r].failed = run[r].failed /\ run'[r].todo = run[r].todo
        /\ run[r].left = {} /\ run[r].pc = "capturing" /\ snapshot' = snapshot
    BY <1>1, <1>10 DEF EndWorkspace, Run
  <2>2. QED
    BY <1>1, <2>1 DEF CoveredBy
<1>11. CASE WorkspaceFails(r)
  BY <1>1, <1>2, <1>11 DEF WorkspaceFails, Run
<1>12. CASE EndRun(r)
  BY <1>3, <1>12 DEF EndRun
<1>13. QED
  BY <1>4, <1>5, <1>6, <1>7, <1>8, <1>9, <1>10, <1>11, <1>12 DEF CaptureStep

LEMMA CoveredStep ==
    ASSUME Inv, [Next]_vars
    PROVE  Covered'
<1>1. TypeOK /\ SnapshotShape /\ OnInvoked /\ Covered
  BY DEF Inv
<1>2. SUFFICES \A q \in Runners : CoveredBy(q)'
  BY DEF Covered, CoveredBy
<1>3. \A q \in Runners : CoveredBy(q)
  BY <1>1 DEF Covered, CoveredBy
<1>4. CASE UNCHANGED <<run, snapshot>>
  BY <1>3, <1>4 DEF CoveredBy
<1>5. ASSUME NEW r \in Runners,
             SettleJob(r) \/ Crash(r) \/ \E p \in Passes : Deliver(r, p),
             NEW q \in Runners
      PROVE  CoveredBy(q)'
  <2>1. /\ q # r => run'[q] = run[q]
        /\ q = r => run'[q].pc # "capturing"
    BY <1>1, <1>5, RunsOutside
  <2>2. snapshot' = snapshot
    BY <1>5 DEF SettleJob, Crash, Deliver
  <2>3. QED
    BY <1>3, <2>1, <2>2 DEF CoveredBy
<1>6. ASSUME NEW r \in Runners, CaptureStep(r), NEW q \in Runners
      PROVE  CoveredBy(q)'
  <2>1. CASE q = r
    BY <1>1, <1>6, <2>1, CoversItsOwn
  <2>2. CASE q # r
    <3>1. run'[q] = run[q]
      BY <1>1, <1>6, <2>2, CaptureKeeps
    <3>2. run[q].pc # "idle" => Day(run[q].pass) \in Days
      BY <1>1, DayTyped DEF OnInvoked, Invoked
    <3>3. \A w \in Workspaces, s \in Scopes, d \in Days :
             snapshot[w][s][d] # None => snapshot'[w][s][d] # None
      BY <1>1, <1>6, SnapshotsStay
    <3>4. QED
      BY <1>3, <3>1, <3>2, <3>3 DEF CoveredBy
  <2>3. QED
    BY <2>1, <2>2
<1>7. QED
  BY <1>4, <1>5, <1>6 DEF Next, vars, Tick, Invoke

\* Only a run that ends without a failure, having captured everything, finalizes a pass.
LEMMA HolesStep ==
    ASSUME Inv, [Next]_vars
    PROVE  FinalizedHasNoHole' /\ finalized \subseteq finalized'
<1>1. TypeOK /\ SnapshotShape /\ OnInvoked /\ Covered /\ FinalizedHasNoHole
  BY DEF Inv
<1>2. CASE UNCHANGED <<finalized, snapshot>>
  BY <1>1, <1>2 DEF FinalizedHasNoHole
<1>3. ASSUME NEW r \in Runners, CaptureStep(r)
      PROVE  FinalizedHasNoHole' /\ finalized \subseteq finalized'
  <2>1. \A w \in Workspaces, s \in Scopes, d \in Days :
           snapshot[w][s][d] # None => snapshot'[w][s][d] # None
    BY <1>1, <1>3, SnapshotsStay
  <2>2. \A p \in finalized : Day(p) \in Days
    BY <1>1, DayTyped DEF TypeOK
  <2>3. CASE finalized' = finalized
    BY <1>1, <2>1, <2>2, <2>3 DEF FinalizedHasNoHole
  <2>4. CASE EndRun(r) /\ ~ run[r].failed
    <3>1. /\ run[r].pc = "capturing" /\ run[r].todo = {} /\ run[r].at = NoWorkspace
          /\ finalized' = finalized \cup {run[r].pass} /\ snapshot' = snapshot
      BY <2>4 DEF EndRun
    <3>2. \A w \in Workspaces, s \in Scopes : snapshot[w][s][Day(run[r].pass)] # None
      BY <1>1, <2>4, <3>1, DailyAssumption DEF Covered
    <3>3. QED
      BY <1>1, <3>1, <3>2 DEF FinalizedHasNoHole
  <2>5. finalized' = finalized \/ (EndRun(r) /\ ~ run[r].failed)
    BY <1>3 DEF CaptureStep, CheckFinalized, Detect, DetectFails, OpenStores, Throws,
       BeginWorkspace, SaveSnapshot, EndWorkspace, WorkspaceFails, EndRun
  <2>6. QED
    BY <2>3, <2>4, <2>5, <1>1, <1>3, CaptureKeeps
<1>4. QED
  BY <1>2, <1>3 DEF Next, vars, Tick, Invoke, Deliver, SettleJob, Crash

LEMMA AcknowledgedStep ==
    ASSUME Inv, [Next]_vars
    PROVE  Acknowledged'
<1>1. TypeOK /\ OnInvoked /\ Acknowledged
  BY DEF Inv
<1>2. finalized \subseteq finalized'
  BY HolesStep
<1>3. CASE UNCHANGED run
  BY <1>1, <1>2, <1>3 DEF Acknowledged
<1>4. ASSUME NEW r \in Runners,
             SettleJob(r) \/ Crash(r) \/ \E p \in Passes : Deliver(r, p)
      PROVE  Acknowledged'
  BY <1>1, <1>2, <1>4, RunsOutside DEF Acknowledged
<1>5. ASSUME NEW r \in Runners, CaptureStep(r)
      PROVE  Acknowledged'
  <2>1. \A q \in Runners \ {r} : run'[q] = run[q]
    BY <1>1, <1>5, CaptureKeeps
  <2> DEFINE Own == run'[r].pc = "settling" /\ run'[r].outcome \in {"ok", "skipped"} =>
                        run'[r].pass \in finalized'
  <2>2. ASSUME Own
        PROVE  Acknowledged'
    BY <1>1, <1>2, <2>1, <2>2 DEF Acknowledged
  <2>3. CASE CheckFinalized(r)
    <3>1. CASE run[r].pass \in finalized /\ Settle(r, "skipped")
      BY <1>1, <1>2, <2>2, <3>1, SettleIs
    <3>2. CASE run' = [run EXCEPT ![r].pc = "detecting"]
      <4>1. run'[r].pc = "detecting"
        BY <1>1, <3>2 DEF TypeOK, Run
      <4>2. QED
        BY <2>2, <4>1
    <3>3. QED
      BY <2>3, <3>1, <3>2 DEF CheckFinalized
  <2>4. CASE Throws(r)
    <3>1. Settle(r, "fatal")
      BY <2>4 DEF Throws
    <3>2. run'[r].outcome = "fatal"
      BY <1>1, <3>1, SettleIs
    <3>3. QED
      BY <2>2, <3>2
  <2>5. CASE EndRun(r)
    <3>1. CASE run[r].failed
      <4>1. run'[r].outcome = "retriable"
        BY <1>1, <2>5, <3>1, SettleIs DEF EndRun
      <4>2. QED
        BY <2>2, <4>1
    <3>2. CASE ~ run[r].failed
      <4>1. run'[r].pass = run[r].pass
        BY <1>1, <1>5, CaptureKeeps
      <4>2. run[r].pass \in finalized'
        BY <2>5, <3>2 DEF EndRun
      <4>3. QED
        BY <2>2, <4>1, <4>2
    <3>3. QED
      BY <3>1, <3>2
  <2>6. run[r] \in Run /\ run \in [Runners -> Run]
    BY <1>1 DEF TypeOK
  <2>7. CASE Detect(r) \/ DetectFails(r)
    <3>1. run'[r].pc = "opening"
      BY <2>6, <2>7 DEF Detect, DetectFails, Run
    <3>2. QED
      BY <2>2, <3>1
  <2>8. ASSUME NEW unreachable \in SUBSET Workspaces, OpenStores(r, unreachable)
        PROVE  Acknowledged'
    <3>1. \E t, f : run' = [run EXCEPT ![r].pc = "capturing", ![r].todo = t, ![r].failed = f]
      BY <2>8, Zenon DEF OpenStores
    <3>2. run'[r].pc = "capturing"
      BY <2>6, <3>1 DEF Run
    <3>3. QED
      BY <2>2, <3>2
  <2>9. ASSUME \/ \E w \in Workspaces : BeginWorkspace(r, w)
               \/ \E s \in Scopes : SaveSnapshot(r, s)
               \/ EndWorkspace(r)
               \/ WorkspaceFails(r)
        PROVE  Acknowledged'
    <3>1. run'[r].pc = "capturing"
      <4>1. ASSUME NEW w \in Workspaces, BeginWorkspace(r, w)
            PROVE  run'[r].pc = "capturing"
        BY <2>6, <4>1 DEF BeginWorkspace, Run
      <4>2. ASSUME NEW s \in Scopes, SaveSnapshot(r, s)
            PROVE  run'[r].pc = "capturing"
        BY <2>6, <4>2 DEF SaveSnapshot, Run
      <4>3. ASSUME EndWorkspace(r) \/ WorkspaceFails(r)
            PROVE  run'[r].pc = "capturing"
        BY <2>6, <4>3 DEF EndWorkspace, WorkspaceFails, Run
      <4>4. QED
        BY <2>9, <4>1, <4>2, <4>3
    <3>2. QED
      BY <2>2, <3>1
  <2>10. QED
    BY <1>5, <2>3, <2>4, <2>5, <2>7, <2>8, <2>9 DEF CaptureStep
<1>6. QED
  BY <1>3, <1>4, <1>5 DEF Next, vars, Tick, Invoke

LEMMA DoneStep ==
    ASSUME Inv, [Next]_vars
    PROVE  DoneMeansFinalized'
<1>1. TypeOK /\ OnInvoked /\ Acknowledged /\ DoneMeansFinalized
  BY DEF Inv
<1>2. finalized \subseteq finalized'
  BY HolesStep
<1>3. SUFFICES ASSUME NEW p \in Passes, job'[p].status = "done"
               PROVE  job[p].status = "done" \/ p \in finalized
  BY <1>1, <1>2 DEF DoneMeansFinalized
<1>4. CASE UNCHANGED job
  BY <1>3, <1>4
<1>5. CASE Invoke
  <2>1. job'[p].status = IF p = clock THEN "active" ELSE job[p].status
    BY <1>1, <1>5, IdleTyped DEF Invoke, Job, TypeOK
  <2>2. QED
    BY <1>3, <2>1
<1>6. ASSUME NEW r \in Runners, NEW q \in Passes, Deliver(r, q)
      PROVE  job[p].status = "done"
  BY <1>1, <1>3, <1>6, JobStatus
<1>7. ASSUME NEW r \in Runners, SettleJob(r)
      PROVE  job[p].status = "done" \/ p \in finalized
  <2>1. run[r].pc = "settling"
    BY <1>7 DEF SettleJob
  <2>2. QED
    BY <1>1, <1>3, <1>7, <2>1, JobStatus DEF Acknowledged
<1>8. QED
  BY <1>1, <1>4, <1>5, <1>6, <1>7, CaptureKeeps DEF Next, vars, Tick, Crash

-----------------------------------------------------------------------------
(* The theorems.                                                           *)

\* The invariant of runDailyCapture, its queue and its ledger holds throughout.
THEOREM InductiveInvariant == Spec => []Inv
<1>1. Inv /\ [Next]_vars => Inv'
  <2> SUFFICES ASSUME Inv, [Next]_vars PROVE Inv'
    OBVIOUS
  <2>1. TypeOK' /\ SnapshotShape'
    BY StepTyped DEF Inv
  <2>2. QED
    BY <2>1, OnInvokedStep, CoveredStep, AcknowledgedStep, PastStep, HolesStep, DoneStep,
       GapsStep DEF Inv
<1>2. QED
  BY InitInv, <1>1, PTL DEF Spec

\* Every variable has its type, and a day's figures come from one of its passes.
THEOREM TypeCorrect == Spec => []TypeOK
BY InductiveInvariant, PTL DEF Inv

\* A finalized pass left no hole, whatever failed, was retried or ran twice on the way.
THEOREM HolesHold == Spec => []FinalizedHasNoHole
BY InductiveInvariant, PTL DEF Inv

\* A job is done only when its pass is finalized, though no transaction spans the two.
THEOREM DoneHolds == Spec => []DoneMeansFinalized
BY InductiveInvariant, PTL DEF Inv

\* Every skipped pass is reported within the limit, and no report is false.
THEOREM GapsHold == Spec => []GapsReported
BY InductiveInvariant, PTL DEF Inv

=============================================================================
