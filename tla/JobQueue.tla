------------------------------ MODULE JobQueue ------------------------------
(***************************************************************************)
(* The durable job queue: the `job` table of the control plane             *)
(* (packages/db/src/control-plane/job-store.ts) and the workers that drain *)
(* it (packages/db/src/job-queue.ts).                                      *)
(*                                                                         *)
(* One action is one SQL statement, or the code between two of them: the   *)
(* store is reached over the network by several processes and runs no      *)
(* transaction, so anything may happen between two statements of a call.   *)
(*                                                                         *)
(* The clock is abstracted to what the statements ask of it: `due` says    *)
(* run_after <= now, and `lapsed` says lease_expires_at < now.  Payload,   *)
(* kind, last_error and the text of errors are left out.                   *)
(***************************************************************************)
EXTENDS Naturals, FiniteSets

CONSTANTS
    Jobs,         \* ids a new row may take (newId())
    Keys,         \* dedupe keys
    Workers,      \* lease owners: one per draining invocation
    Producers,    \* callers of enqueueJob
    MaxAttempts,  \* max_attempts, the delivery cap
    Heartbeat,    \* whether renewIntervalMs > 0
    MaxFaults,    \* bound on crashes and on leases that lapse under a live worker
    NoOwner,      \* lease_owner IS NULL
    NoJob, NoKey  \* a worker without a job, a producer without a key

ASSUME QueueAssumption ==
    /\ MaxAttempts \in Nat \ {0}
    /\ MaxFaults \in Nat
    /\ Heartbeat \in BOOLEAN
    /\ NoOwner \notin Workers
    /\ NoJob \notin Jobs
    /\ NoKey \notin Keys

VARIABLES
    job,       \* the table: a row per id, "absent" before its INSERT
    worker,    \* where each worker is in drainOnce
    producer,  \* where each producer is in enqueueJob
    faults     \* crashes and slow runs so far

vars == <<job, worker, producer, faults>>

-----------------------------------------------------------------------------
(* Rows and local states.                                                  *)

Statuses == {"absent", "pending", "leased", "done", "dead"}
Outcomes == {"ok", "skipped", "retriable", "fatal"}

Row == [status: Statuses, key: Keys \cup {NoKey}, attempts: Nat, due: BOOLEAN,
        owner: Workers \cup {NoOwner}, lapsed: BOOLEAN]

AbsentRow == [status |-> "absent", key |-> NoKey, attempts |-> 0, due |-> FALSE,
              owner |-> NoOwner, lapsed |-> FALSE]

\* `attempt` is the attempts column of the row the lease returned, and `named` whether
\* that row's lease_owner was still this worker.
WorkerState == [pc: {"idle", "claiming", "claimed", "running", "acking", "failing", "settling"},
                id: Jobs \cup {NoJob}, attempt: Nat, named: BOOLEAN,
                outcome: Outcomes \cup {"none"}, retry: BOOLEAN]

Idle == [pc |-> "idle", id |-> NoJob, attempt |-> 0, named |-> FALSE, outcome |-> "none",
         retry |-> FALSE]

\* result: what the last enqueue returned; "raised" is the rethrown error.
ProducerState == [pc: {"idle", "collapsing"}, key: Keys \cup {NoKey},
                  result: {"none", "enqueued", "collapsed", "raised"}]

Active(j) == job[j].status \in {"pending", "leased"}
ActiveWithKey(k) == {j \in Jobs : Active(j) /\ job[j].key = k}

\* Faulty variant: an expired lease is never reclaimed.
Ready_PendingOnly(j) == job[j].due /\ job[j].status = "pending"

\* The predicate both statements of leaseJob carry.
Ready(j) ==
    /\ job[j].due
    /\ \/ job[j].status = "pending"
       \/ job[j].status = "leased" /\ job[j].lapsed

\* A worker between winning a claim and the end of drainOnce.
Busy(w) == worker[w].pc \in {"claimed", "running", "acking", "failing", "settling"}

\* One that has read the row it won, and so holds an attempt.
AtWork(w) == Busy(w) /\ worker[w].pc # "claimed"

\* One whose row names it the owner: the delivery it runs is its own.
Delivered(w) == AtWork(w) /\ worker[w].named
LiveHolder(j) == \E w \in Workers : Busy(w) /\ worker[w].id = j /\ job[j].owner = w

Init ==
    /\ job = [j \in Jobs |-> AbsentRow]
    /\ worker = [w \in Workers |-> Idle]
    /\ producer = [p \in Producers |-> [pc |-> "idle", key |-> NoKey, result |-> "none"]]
    /\ faults = 0

-----------------------------------------------------------------------------
(* enqueueJob.                                                             *)

\* Faulty variant: the unique index covers pending rows only.
EnqueueInsert_IndexPendingOnly(p, k, j) ==
    /\ producer[p].pc = "idle"
    /\ job[j].status = "absent"
    /\ \A i \in ActiveWithKey(k) : job[i].status # "pending"
    /\ job' = [job EXCEPT ![j] = [AbsentRow EXCEPT !.status = "pending", !.key = k,
                                                   !.due = TRUE]]
    /\ producer' = [producer EXCEPT ![p].result = "enqueued"]
    /\ UNCHANGED <<worker, faults>>

\* INSERT of a pending row, which the partial unique index admits.
EnqueueInsert(p, k, j) ==
    /\ producer[p].pc = "idle"
    /\ job[j].status = "absent"
    /\ ActiveWithKey(k) = {}
    /\ job' = [job EXCEPT ![j] = [AbsentRow EXCEPT !.status = "pending", !.key = k,
                                                   !.due = TRUE]]
    /\ producer' = [producer EXCEPT ![p].result = "enqueued"]
    /\ UNCHANGED <<worker, faults>>

\* INSERT that trips the index; the SELECT of the active row comes next.
EnqueueConflict(p, k) ==
    /\ producer[p].pc = "idle"
    /\ ActiveWithKey(k) # {}
    /\ producer' = [producer EXCEPT ![p].pc = "collapsing", ![p].key = k,
                                    ![p].result = "none"]
    /\ UNCHANGED <<job, worker, faults>>

\* The SELECT: collapse onto the active job, or rethrow when it is gone.
EnqueueCollapse(p) ==
    /\ producer[p].pc = "collapsing"
    /\ producer' = [producer EXCEPT ![p] =
           [pc |-> "idle", key |-> NoKey,
            result |-> IF ActiveWithKey(producer[p].key) # {} THEN "collapsed" ELSE "raised"]]
    /\ UNCHANGED <<job, worker, faults>>

-----------------------------------------------------------------------------
(* leaseJob.                                                               *)

\* SELECT of a candidate.  No candidate leaves the worker idle.
LeaseSelect(w, j) ==
    /\ worker[w].pc = "idle"
    /\ Ready(j)
    /\ worker' = [worker EXCEPT ![w].pc = "claiming", ![w].id = j]
    /\ UNCHANGED <<job, producer, faults>>

\* Faulty variant: the UPDATE does not repeat the readiness predicate.
LeaseClaim_Unguarded(w) ==
    LET j == worker[w].id IN
    /\ worker[w].pc = "claiming"
    /\ Active(j)
    /\ job' = [job EXCEPT ![j].status = "leased", ![j].owner = w, ![j].lapsed = FALSE,
                          ![j].attempts = @ + 1]
    /\ worker' = [worker EXCEPT ![w].pc = "claimed"]
    /\ UNCHANGED <<producer, faults>>

\* Faulty variant: a redelivery of an expired lease is not counted as an attempt.
LeaseClaim_RedeliveryNotCounted(w) ==
    LET j == worker[w].id
        n == IF job[j].status = "leased" THEN job[j].attempts ELSE job[j].attempts + 1 IN
    /\ worker[w].pc = "claiming"
    /\ Ready(j)
    /\ job' = [job EXCEPT ![j].status = "leased", ![j].owner = w, ![j].lapsed = FALSE,
                          ![j].attempts = n]
    /\ worker' = [worker EXCEPT ![w].pc = "claimed"]
    /\ UNCHANGED <<producer, faults>>

\* The guarded UPDATE matches the candidate.
LeaseClaim(w) ==
    LET j == worker[w].id IN
    /\ worker[w].pc = "claiming"
    /\ Ready(j)
    /\ job' = [job EXCEPT ![j].status = "leased", ![j].owner = w, ![j].lapsed = FALSE,
                          ![j].attempts = @ + 1]
    /\ worker' = [worker EXCEPT ![w].pc = "claimed"]
    /\ UNCHANGED <<producer, faults>>

\* The guarded UPDATE matches no row: another worker won it; select again.
LeaseLost(w) ==
    /\ worker[w].pc = "claiming"
    /\ ~Ready(worker[w].id)
    /\ worker' = [worker EXCEPT ![w] = Idle]
    /\ UNCHANGED <<job, producer, faults>>

\* The SELECT by id of the row just won, whoever owns it by now: its lease may have
\* lapsed meanwhile, and another worker claimed it or even settled it.
LeaseRead(w) ==
    LET j == worker[w].id IN
    /\ worker[w].pc = "claimed"
    /\ worker' = [worker EXCEPT ![w].pc = "running", ![w].attempt = job[j].attempts,
                                ![w].named = (job[j].owner = w)]
    /\ UNCHANGED <<job, producer, faults>>

-----------------------------------------------------------------------------
(* drainOnce after the lease: run the handler, then ack or fail.           *)

\* runJob returns; an uncaught throw is outcome "fatal".
HandlerReturns(w, outcome) ==
    /\ worker[w].pc = "running"
    /\ worker' = [worker EXCEPT
           ![w].outcome = outcome,
           ![w].pc = IF outcome \in {"ok", "skipped"} THEN "acking" ELSE "failing"]
    /\ UNCHANGED <<job, producer, faults>>

\* Faulty variant: the ack is not scoped to the lease owner.
CompleteJob_Unscoped(w) ==
    LET j == worker[w].id IN
    /\ worker[w].pc = "acking"
    /\ job' = [job EXCEPT ![j].status = "done", ![j].owner = NoOwner, ![j].lapsed = FALSE]
    /\ worker' = [worker EXCEPT ![w] = Idle]
    /\ UNCHANGED <<producer, faults>>

\* completeJob(id, owner): one UPDATE WHERE id AND lease_owner.
CompleteJob(w) ==
    LET j == worker[w].id IN
    /\ worker[w].pc = "acking"
    /\ job' = IF job[j].owner = w
              THEN [job EXCEPT ![j].status = "done", ![j].owner = NoOwner,
                               ![j].lapsed = FALSE]
              ELSE job
    /\ worker' = [worker EXCEPT ![w] = Idle]
    /\ UNCHANGED <<producer, faults>>

\* Faulty variant: the last permitted attempt is never used.
FailRead_CapOffByOne(w) ==
    LET j == worker[w].id IN
    /\ worker[w].pc = "failing"
    /\ worker' = IF job[j].owner # w
                 THEN [worker EXCEPT ![w] = Idle]
                 ELSE [worker EXCEPT
                         ![w].pc = "settling",
                         ![w].retry = /\ worker[w].outcome = "retriable"
                                      /\ job[j].attempts + 1 < MaxAttempts]
    /\ UNCHANGED <<job, producer, faults>>

\* failJob's SELECT: the lost-lease guard, and the retry decision.
FailRead(w) ==
    LET j == worker[w].id IN
    /\ worker[w].pc = "failing"
    /\ worker' = IF job[j].owner # w
                 THEN [worker EXCEPT ![w] = Idle]
                 ELSE [worker EXCEPT
                         ![w].pc = "settling",
                         ![w].retry = /\ worker[w].outcome = "retriable"
                                      /\ job[j].attempts < MaxAttempts]
    /\ UNCHANGED <<job, producer, faults>>

\* failJob's UPDATE WHERE id, when it is to retry.  The unique index rejects it
\* if another job of the key is active by now: the call throws and changes nothing.
FailRetry(w) ==
    LET j == worker[w].id IN
    /\ worker[w].pc = "settling"
    /\ worker[w].retry
    /\ job' = IF ActiveWithKey(job[j].key) \subseteq {j}
              THEN [job EXCEPT ![j].status = "pending", ![j].owner = NoOwner,
                               ![j].lapsed = FALSE, ![j].due = FALSE]
              ELSE job
    /\ worker' = [worker EXCEPT ![w] = Idle]
    /\ UNCHANGED <<producer, faults>>

\* failJob's UPDATE WHERE id, when the failure is terminal.
FailDead(w) ==
    LET j == worker[w].id IN
    /\ worker[w].pc = "settling"
    /\ ~worker[w].retry
    /\ job' = [job EXCEPT ![j].status = "dead", ![j].owner = NoOwner,
                          ![j].lapsed = FALSE]
    /\ worker' = [worker EXCEPT ![w] = Idle]
    /\ UNCHANGED <<producer, faults>>

\* renewJobLease, from the heartbeat: one UPDATE guarded by status and owner.
\* It starts once leaseJob returned; a renewal already in flight may land after the
\* handler returned.
RenewJobLease(w) ==
    LET j == worker[w].id IN
    /\ Heartbeat
    /\ AtWork(w)
    /\ job[j].status = "leased"
    /\ job[j].owner = w
    /\ job[j].lapsed
    /\ job' = [job EXCEPT ![j].lapsed = FALSE]
    /\ UNCHANGED <<worker, producer, faults>>

-----------------------------------------------------------------------------
(* Time and failures.                                                      *)

\* lease_expires_at passes while the holder still runs: a slow run.
LapseUnderHolder(j) ==
    /\ job[j].status = "leased"
    /\ ~job[j].lapsed
    /\ LiveHolder(j)
    /\ faults < MaxFaults
    /\ job' = [job EXCEPT ![j].lapsed = TRUE]
    /\ faults' = faults + 1
    /\ UNCHANGED <<worker, producer>>

\* lease_expires_at passes and nobody works on the job any more.
LapseAbandoned(j) ==
    /\ job[j].status = "leased"
    /\ ~job[j].lapsed
    /\ ~LiveHolder(j)
    /\ job' = [job EXCEPT ![j].lapsed = TRUE]
    /\ UNCHANGED <<worker, producer, faults>>

\* run_after passes: the backoff of a retried job is over.
BecomeDue(j) ==
    /\ job[j].status = "pending"
    /\ ~job[j].due
    /\ job' = [job EXCEPT ![j].due = TRUE]
    /\ UNCHANGED <<worker, producer, faults>>

\* The invocation dies (serverless timeout, lost connection).  A later one drains
\* under a fresh owner id; none of the dead one's statements is left to run, so
\* its place may be taken by the same name.
Crash(w) ==
    /\ worker[w].pc # "idle"
    /\ faults < MaxFaults
    /\ worker' = [worker EXCEPT ![w] = Idle]
    /\ faults' = faults + 1
    /\ UNCHANGED <<job, producer>>

WorkerStep(w) ==
    \/ \E j \in Jobs : LeaseSelect(w, j)
    \/ LeaseClaim(w)
    \/ LeaseRead(w)
    \/ LeaseLost(w)
    \/ \E o \in Outcomes : HandlerReturns(w, o)
    \/ CompleteJob(w)
    \/ FailRead(w)
    \/ FailRetry(w)
    \/ FailDead(w)

ClockStep(j) == LapseAbandoned(j) \/ BecomeDue(j)

Next ==
    \/ \E p \in Producers, k \in Keys, j \in Jobs : EnqueueInsert(p, k, j)
    \/ \E p \in Producers, k \in Keys : EnqueueConflict(p, k)
    \/ \E p \in Producers : EnqueueCollapse(p)
    \/ \E w \in Workers : WorkerStep(w)
    \/ \E w \in Workers : RenewJobLease(w)
    \/ \E w \in Workers : Crash(w)
    \/ \E j \in Jobs : ClockStep(j)
    \/ \E j \in Jobs : LapseUnderHolder(j)

Spec == Init /\ [][Next]_vars

\* The clock never stops, and some invocation always drains: every trigger drains
\* in-process and the cron sweeps twice a day.
QueueFairness ==
    /\ \A w \in Workers : WF_vars(WorkerStep(w))
    /\ \A j \in Jobs : WF_vars(ClockStep(j))

FairSpec == Spec /\ QueueFairness

-----------------------------------------------------------------------------
(* What DeliveryQueue sees of the queue.                                   *)

Hands == [j \in Jobs |-> {w \in Workers : Busy(w) /\ worker[w].id = j}]

Queue == INSTANCE DeliveryQueue WITH hands <- Hands

-----------------------------------------------------------------------------
(* Properties.                                                             *)

\* Every variable has its type, and the columns of a row agree: lease_owner and
\* lease_expires_at are set exactly while the row is leased.
QueueTypeOK ==
    /\ job \in [Jobs -> Row]
    /\ worker \in [Workers -> WorkerState]
    /\ producer \in [Producers -> ProducerState]
    /\ faults \in Nat
    /\ \A j \in Jobs :
          /\ (job[j].status = "leased") <=> (job[j].owner # NoOwner)
          /\ job[j].lapsed => job[j].status = "leased"

\* Single flight: two active jobs never share a dedupe key, whatever a late failJob
\* puts back to pending (the job_active_dedupe index).
SingleFlight ==
    \A i, j \in Jobs : Active(i) /\ Active(j) /\ job[i].key = job[j].key => i = j

\* The attempt number tells deliveries apart as far as leaseJob's read-back lets it: of
\* two workers in the middle of one job whose returned rows both name them the owner, the
\* attempts differ, and the owner the row names now holds the row's attempt.  A worker
\* whose lease lapsed before it read its row back may hold the attempt of a later
\* delivery, another worker's; the row it holds then names somebody else.
DeliveriesDistinct ==
    /\ \A v, w \in Workers :
          v # w /\ Delivered(v) /\ Delivered(w) /\ worker[v].id = worker[w].id
             => worker[v].attempt # worker[w].attempt
    /\ \A w \in Workers :
          AtWork(w) /\ job[worker[w].id].owner = w
             => Delivered(w) /\ worker[w].attempt = job[worker[w].id].attempts

\* Only the latest delivery acks: a job becomes done in a step of a worker whose
\* handler ended well on the attempt the row still counts, never through a worker
\* that lost its lease to a later delivery.
AckByLatestDelivery ==
    [][\A j \in Jobs : job[j].status # "done" /\ job'[j].status = "done" =>
         \E w \in Workers : /\ worker[w].id = j
                            /\ worker[w].outcome \in {"ok", "skipped"}
                            /\ worker[w].attempt = job[j].attempts
                            /\ worker'[w].pc = "idle"]_vars

\* A lease passes from one owner straight to another only after it expired: a claim
\* decided on an earlier SELECT never takes the job from a worker that won it since.
NoStealing ==
    [][\A j \in Jobs :
         job[j].owner \in Workers /\ job'[j].owner \in Workers \ {job[j].owner}
           => job[j].lapsed]_vars

\* A job dies only of a non-retriable failure or of its last attempt: no
\* interleaving makes a retriable failure terminal while attempts are left.
DeadOnlyWhenSpent ==
    [][\A j \in Jobs : job[j].status # "dead" /\ job'[j].status = "dead" =>
         \/ job[j].attempts >= MaxAttempts
         \/ \E w \in Workers : worker[w].id = j /\ worker[w].outcome = "fatal"]_vars

\* Crash recovery and bounded retry: every job enqueued ends done or dead, once
\* crashes and slow runs stop.  A row is never removed, so a job that is not active any
\* more is one of the two.
EveryJobSettles == \A j \in Jobs : []<>~Active(j)

\* DeliveryQueue promises: one active job per key, whatever late failure puts back; a job
\* passes from its holder to another worker only when overdue; only its holder acks it;
\* every delivery is counted and answered once at most.  The statements of leaseJob,
\* completeJob and failJob, run by several workers in any order, keep those promises.
ImplementsDeliveryQueue == Queue!Spec

(* What the store's comments say and the statements do not enforce.         *)

\* "so a redelivery from a lapsed lease is bounded by maxAttempts": no job is
\* delivered more often than its cap.
AttemptsBounded == \A j \in Jobs : job[j].attempts <= MaxAttempts

\* "the failure is applied ONLY if the job is still leased to this owner": a
\* worker that settles a failure changes the row only while the row names it.
FailureOnlyWhileOwner ==
    [][\A w \in Workers : worker[w].pc = "settling" /\ worker'[w].pc = "idle" =>
         LET j == worker[w].id IN job[j].owner = w \/ job'[j] = job[j]]_vars

=============================================================================
