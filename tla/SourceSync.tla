----------------------------- MODULE SourceSync -----------------------------
(***************************************************************************)
(* The sync of one connected source, end to end: deliveries of the durable *)
(* queue (JobQueue, every action of which is a step here) and inline       *)
(* callers run the source-sync handler of                                  *)
(* packages/db/src/connected-source-seams.ts, which opens a `sync_run`,    *)
(* mirrors the payload in a second transaction, and finalizes the run in a *)
(* third (packages/db/src/sync-run-store.ts).  The queue's tables and the  *)
(* workspace's live in different databases, and no transaction spans them. *)
(*                                                                         *)
(* The executor's in-process key set never meets a second job here: every  *)
(* delivery and every inline pass opens a store, and so an executor, of    *)
(* its own (sync-queue.ts:186).  Positions are abstracted to the pass that *)
(* fetched them: the job id, or the name of the inline caller.             *)
(***************************************************************************)
EXTENDS Naturals, Sequences, FiniteSets

CONSTANTS Jobs, Keys, Workers, Producers, MaxAttempts, Heartbeat, MaxFaults,
          NoOwner, NoJob, NoKey

CONSTANTS
    Inline,     \* callers of syncConnectedSource: the cron pass, single-user mode
    Retention,  \* SYNC_RUN_RETENTION_LIMIT
    Never,      \* last_sync_at IS NULL: the source was never mirrored
    Free, Lost  \* for the refinement of SourceMirror

\* The queue's own assumptions are JobQueue's: QueueAssumption.
ASSUME SyncAssumption ==
    /\ Workers \cap Inline = {}
    /\ Jobs \cap Inline = {}
    /\ IsFiniteSet(Workers \cup Inline)
    /\ Retention \in Nat \ {0}
    /\ Never \notin Jobs \cup Inline
    /\ Free \notin Workers \cup Inline
    /\ Lost \notin Workers \cup Inline
    /\ Free # Lost

VARIABLES job, worker, producer, faults  \* the queue

VARIABLES
    pass,      \* where each actor is in the handler
    runs,      \* the source's sync_run rows, newest first
    mirrored,  \* whose positions the store mirrors
    lastSync   \* connected_sources.last_sync_at

Queue == INSTANCE JobQueue

syncVars == <<pass, runs, mirrored, lastSync>>
vars == <<job, worker, producer, faults, pass, runs, mirrored, lastSync>>
queueVars == <<job, worker, producer, faults>>

-----------------------------------------------------------------------------
(* Passes and runs.                                                        *)

Actors == Workers \cup Inline
Stamps == Jobs \cup Inline
NoRun == 0

\* stamp: the payload's syncedAt; run: the run this pass opened.
Pass == [pc: {"out", "opening", "begun", "mirrored", "failed"},
         stamp: Stamps \cup {Never}, run: Nat]

Out == [pc |-> "out", stamp |-> Never, run |-> NoRun]

Open == {"pending", "running"}
OpenRun == \E i \in DOMAIN runs : runs[i].status \in Open
RunStatus(id) == {runs[i].status : i \in {n \in DOMAIN runs : runs[n].id = id}}

\* newId(): an id no row has and no pass holds.
FreshRun ==
    CHOOSE id \in 1..(Retention + Cardinality(Actors) + 2) :
        /\ RunStatus(id) = {}
        /\ \A a \in Actors : pass[a].run # id

WithStatus(id, status) ==
    [i \in DOMAIN runs |-> IF runs[i].id = id THEN [runs[i] EXCEPT !.status = status]
                                              ELSE runs[i]]

\* Faulty variant: nothing is pruned.
Finalized_Unpruned(id, status) == WithStatus(id, status)

\* UPDATE sync_run SET status WHERE id, then pruneRetention.
Finalized(id, status) ==
    SubSeq(WithStatus(id, status), 1, IF Len(runs) < Retention THEN Len(runs) ELSE Retention)

Init ==
    /\ Queue!Init
    /\ pass = [a \in Actors |-> Out]
    /\ runs = << >>
    /\ mirrored = Never
    /\ lastSync = Never

-----------------------------------------------------------------------------
(* Entering and leaving the handler.                                       *)

\* Leaving it: a delivery hands its outcome to the queue's worker loop, an inline
\* caller returns or rethrows.
Leave(a, outcome) ==
    /\ pass' = [pass EXCEPT ![a] = Out]
    /\ IF a \in Workers THEN Queue!HandlerReturns(a, outcome) ELSE UNCHANGED queueVars

\* The row won is read: the resolver opens the workspace the job names.
Deliver(w) ==
    /\ Queue!LeaseRead(w)
    /\ pass' = [pass EXCEPT ![w] = [Out EXCEPT !.pc = "opening", !.stamp = worker[w].id]]
    /\ UNCHANGED <<runs, mirrored, lastSync>>

\* syncConnectedSource over a store of the caller's own.
StartInline(a) ==
    /\ pass[a].pc = "out"
    /\ pass' = [pass EXCEPT ![a] = [Out EXCEPT !.pc = "opening", !.stamp = a]]
    /\ UNCHANGED <<job, worker, producer, faults, runs, mirrored, lastSync>>

\* The workspace cannot be opened: retriable.
OpenFails(w) ==
    /\ pass[w].pc = "opening"
    /\ Leave(w, "retriable")
    /\ UNCHANGED <<runs, mirrored, lastSync>>

-----------------------------------------------------------------------------
(* The source-sync handler.                                                *)

\* Faulty variant: the in-flight read knows only `pending` runs.
BeginRun_PendingOnly(a) ==
    /\ pass[a].pc = "opening"
    /\ \A i \in DOMAIN runs : runs[i].status # "pending"
    /\ runs' = <<[id |-> FreshRun, status |-> "running"]>> \o runs
    /\ pass' = [pass EXCEPT ![a].pc = "begun", ![a].run = FreshRun]
    /\ UNCHANGED <<job, worker, producer, faults, mirrored, lastSync>>

\* beginRun's transaction: no run is open, so one is inserted and made `running`.
BeginRun(a) ==
    /\ pass[a].pc = "opening"
    /\ ~OpenRun
    /\ runs' = <<[id |-> FreshRun, status |-> "running"]>> \o runs
    /\ pass' = [pass EXCEPT ![a].pc = "begun", ![a].run = FreshRun]
    /\ UNCHANGED <<job, worker, producer, faults, mirrored, lastSync>>

\* beginRun returns null: a benign skip.
BeginSkips(a) ==
    /\ pass[a].pc = "opening"
    /\ OpenRun
    /\ Leave(a, "skipped")
    /\ UNCHANGED <<runs, mirrored, lastSync>>

\* beginRun throws, outside the handler's try: the executor calls it a defect.
BeginThrows(a) ==
    /\ pass[a].pc = "opening"
    /\ Leave(a, "fatal")
    /\ UNCHANGED <<runs, mirrored, lastSync>>

\* Faulty variant: last_sync_at is left to finishRun.
Persist_StampLater(a) ==
    /\ pass[a].pc = "begun"
    /\ mirrored' = pass[a].stamp
    /\ pass' = [pass EXCEPT ![a].pc = "mirrored"]
    /\ UNCHANGED <<job, worker, producer, faults, runs, lastSync>>

\* persistSync's transaction: positions, holdings and last_sync_at.
Persist(a) ==
    /\ pass[a].pc = "begun"
    /\ mirrored' = pass[a].stamp
    /\ lastSync' = pass[a].stamp
    /\ pass' = [pass EXCEPT ![a].pc = "mirrored"]
    /\ UNCHANGED <<job, worker, producer, faults, runs>>

\* persistSync or finishRun throws and rolls back; the catch comes next.
HandlerThrows(a) ==
    /\ pass[a].pc \in {"begun", "mirrored"}
    /\ pass' = [pass EXCEPT ![a].pc = "failed"]
    /\ UNCHANGED <<job, worker, producer, faults, runs, mirrored, lastSync>>

\* finishRun's transaction: the run is ok, and stamps last_sync_at.
FinishRun(a) ==
    /\ pass[a].pc = "mirrored"
    /\ runs' = Finalized(pass[a].run, "ok")
    /\ lastSync' = pass[a].stamp
    /\ Leave(a, "ok")
    /\ UNCHANGED mirrored

\* Faulty variant: the recorded error is not handed to the queue.
FailRun_Swallows(a) ==
    /\ pass[a].pc = "failed"
    /\ runs' = Finalized(pass[a].run, "error")
    /\ Leave(a, "ok")
    /\ UNCHANGED <<mirrored, lastSync>>

\* failRun's transaction: the run is an error, and the job is to be retried.
FailRun(a) ==
    /\ pass[a].pc = "failed"
    /\ runs' = Finalized(pass[a].run, "error")
    /\ Leave(a, "retriable")
    /\ UNCHANGED <<mirrored, lastSync>>

\* failRun throws inside the catch: the run stays `running`, and the executor
\* takes the throw for a defect.
FailRunThrows(a) ==
    /\ pass[a].pc = "failed"
    /\ Leave(a, "fatal")
    /\ UNCHANGED <<runs, mirrored, lastSync>>

-----------------------------------------------------------------------------
(* Crashes, and the queue's own steps.                                     *)

\* A hard kill of a draining invocation, wherever its handler is.
Crash(w) ==
    /\ Queue!Crash(w)
    /\ pass' = [pass EXCEPT ![w] = Out]
    /\ UNCHANGED <<runs, mirrored, lastSync>>

\* A hard kill of an inline caller.
InlineCrash(a) ==
    /\ pass[a].pc # "out"
    /\ pass' = [pass EXCEPT ![a] = Out]
    /\ UNCHANGED <<job, worker, producer, faults, runs, mirrored, lastSync>>

EnqueueStep ==
    /\ \/ \E p \in Producers, k \in Keys, j \in Jobs : Queue!EnqueueInsert(p, k, j)
       \/ \E p \in Producers, k \in Keys : Queue!EnqueueConflict(p, k)
       \/ \E p \in Producers : Queue!EnqueueCollapse(p)
    /\ UNCHANGED syncVars

\* The worker loop outside the handler.
LoopStep(w) ==
    /\ \/ \E j \in Jobs : Queue!LeaseSelect(w, j)
       \/ Queue!LeaseClaim(w)
       \/ Queue!LeaseLost(w)
       \/ Queue!CompleteJob(w)
       \/ Queue!FailRead(w)
       \/ Queue!FailRetry(w)
       \/ Queue!FailDead(w)
    /\ UNCHANGED syncVars

ClockStep(j) == Queue!ClockStep(j) /\ UNCHANGED syncVars
SlowRun(j) == Queue!LapseUnderHolder(j) /\ UNCHANGED syncVars

HandlerStep(a) ==
    \/ BeginRun(a)
    \/ BeginSkips(a)
    \/ BeginThrows(a)
    \/ Persist(a)
    \/ HandlerThrows(a)
    \/ FinishRun(a)
    \/ FailRun(a)
    \/ FailRunThrows(a)

WorkerStep(w) == LoopStep(w) \/ Deliver(w) \/ OpenFails(w) \/ HandlerStep(w)

Next ==
    \/ EnqueueStep
    \/ \E w \in Workers : WorkerStep(w)
    \/ \E a \in Inline : StartInline(a)
    \/ \E a \in Inline : HandlerStep(a)
    \/ \E w \in Workers : Crash(w)
    \/ \E a \in Inline : InlineCrash(a)
    \/ \E j \in Jobs : ClockStep(j)
    \/ \E j \in Jobs : SlowRun(j)

Spec == Init /\ [][Next]_vars

\* As in the queue; and an inline pass that began goes on.
FairSpec ==
    /\ Spec
    /\ \A w \in Workers : WF_vars(WorkerStep(w))
    /\ \A a \in Inline : WF_vars(HandlerStep(a))
    /\ \A j \in Jobs : WF_vars(ClockStep(j))

-----------------------------------------------------------------------------
(* Properties.                                                             *)

\* Every variable has its type, a worker is in the handler exactly while the queue
\* says it runs one, with that job's payload, and the tail kept is within the limit.
TypeOK ==
    /\ pass \in [Actors -> Pass]
    /\ runs \in Seq([id: Nat \ {NoRun}, status: {"running", "ok", "error"}])
    /\ Len(runs) <= Retention + 1
    /\ mirrored \in Stamps \cup {Never}
    /\ lastSync \in Stamps \cup {Never}
    /\ \A w \in Workers :
          /\ (pass[w].pc # "out") <=> (worker[w].pc = "running")
          /\ pass[w].pc # "out" => pass[w].stamp = worker[w].id

\* The run fences the persist: whatever the queue redelivers and whoever syncs
\* inline, at most one pass is between its beginRun and its finalization, no other
\* run is open, and retention never takes that run away.
RunFencesPersist ==
    /\ \A a, b \in Actors : pass[a].run # NoRun /\ pass[b].run # NoRun => a = b
    /\ \A a \in Actors : pass[a].run # NoRun => RunStatus(pass[a].run) = {"running"}
    /\ \A i, k \in DOMAIN runs : runs[i].status \in Open /\ runs[k].status \in Open => i = k

\* An acknowledged job was mirrored or skipped: a job the queue calls done was last
\* run to the end of its persist, or met an open run; a failure is never acked.
DoneWasFinishedOrSkipped ==
    [][\A w \in Workers : pass[w].pc # "out" /\ worker'[w].pc = "acking" =>
         \/ worker'[w].outcome = "skipped" /\ OpenRun
         \/ /\ worker'[w].outcome = "ok"
            /\ mirrored = worker[w].id
            /\ lastSync' = mirrored
            /\ \A i \in DOMAIN runs' :
                  runs'[i].id = pass[w].run => runs'[i].status = "ok"]_vars

\* The implementation relation: the run row in flight is the abstract lock.
HolderOf ==
    IF ~OpenRun THEN Free
    ELSE IF \E a \in Actors : pass[a].run # NoRun
         THEN CHOOSE a \in Actors : pass[a].run # NoRun
         ELSE Lost

Mirror == INSTANCE SourceMirror WITH holder <- HolderOf

\* Two databases, three transactions, redeliveries and crashes still give what
\* SourceMirror promises: positions and last_sync_at agree in every state and only
\* the holder of the source writes them.
ImplementsMirror == Mirror!Spec

(* What the run store's comment says and nothing in the code does.          *)

\* "only an uncatchable crash can wedge, and S3 unwedges it": an open run is
\* eventually closed.
Unwedged == OpenRun ~> ~OpenRun

=============================================================================
