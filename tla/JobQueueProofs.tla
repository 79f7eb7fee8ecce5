--------------------------- MODULE JobQueueProofs ---------------------------
(***************************************************************************)
(* Proofs about JobQueue for every set of jobs, keys, workers, producers,  *)
(* every delivery cap and every number of faults.                          *)
(*                                                                         *)
(* None of the safety properties is inductive alone.  IInv adds what the   *)
(* program counters of the workers say about the row they work on.         *)
(*                                                                         *)
(* The refinement of DeliveryQueue needs nothing more: what a worker       *)
(* answers is its own while it owns the row, and otherwise a failure the   *)
(* row suffers or nothing the row sees.                                    *)
(***************************************************************************)
EXTENDS JobQueue, TLAPS

\* What a worker's place in drainOnce says about its job: a row that exists, an
\* attempt the row has counted, which nobody else owns while it is the row's latest, an
\* outcome that fits, and, once the retry is decided against, a failure that is final or
\* an exhausted cap.
WorkerInv(w) ==
    LET j == worker[w].id IN
    /\ worker[w].pc # "idle" => j \in Jobs /\ job[j].status # "absent"
    /\ AtWork(w) => worker[w].attempt <= job[j].attempts
    /\ Delivered(w) /\ worker[w].attempt = job[j].attempts => job[j].owner \in {w, NoOwner}
    /\ worker[w].pc = "acking" => worker[w].outcome \in {"ok", "skipped"}
    /\ worker[w].pc \in {"failing", "settling"} => worker[w].outcome \in {"retriable", "fatal"}
    /\ worker[w].pc = "settling" /\ ~worker[w].retry =>
         worker[w].outcome = "fatal" \/ job[j].attempts >= MaxAttempts

WorkersInv == \A w \in Workers : WorkerInv(w)

IInv == QueueTypeOK /\ SingleFlight /\ WorkersInv /\ DeliveriesDistinct

-----------------------------------------------------------------------------

\* What the statements write is a row, and where they leave a worker is a worker's state.
LEMMA RowLeased ==
    ASSUME NEW r \in Row, NEW w \in Workers, NEW n \in Nat
    PROVE  [r EXCEPT !.status = "leased", !.owner = w, !.lapsed = FALSE, !.attempts = n]
               \in Row
BY DEF Row, Statuses

LEMMA RowSettled ==
    ASSUME NEW r \in Row, NEW st \in {"done", "dead"}
    PROVE  LET row == [r EXCEPT !.status = st, !.owner = NoOwner, !.lapsed = FALSE]
           IN  /\ row \in Row /\ row.status = st /\ row.owner = NoOwner /\ ~row.lapsed
               /\ row.key = r.key /\ row.attempts = r.attempts
BY DEF Row, Statuses

LEMMA RowRetried ==
    ASSUME NEW r \in Row
    PROVE  LET row == [r EXCEPT !.status = "pending", !.owner = NoOwner,
                                !.lapsed = FALSE, !.due = FALSE]
           IN  /\ row \in Row /\ row.status = "pending" /\ row.owner = NoOwner /\ ~row.lapsed
               /\ row.key = r.key /\ row.attempts = r.attempts
BY DEF Row, Statuses

LEMMA WorkerClaims ==
    ASSUME NEW s \in WorkerState, NEW j \in Jobs
    PROVE  [s EXCEPT !.pc = "claiming", !.id = j] \in WorkerState
BY DEF WorkerState

LEMMA WorkerClaimed ==
    ASSUME NEW s \in WorkerState
    PROVE  [s EXCEPT !.pc = "claimed"] \in WorkerState
BY DEF WorkerState

\* The table is empty and nobody works on it: every invariant holds.
LEMMA InitInv == Init => IInv
BY QueueAssumption
   DEF Init, IInv, QueueTypeOK, SingleFlight, WorkersInv, WorkerInv, DeliveriesDistinct, Row,
       AbsentRow, Statuses, WorkerState, Idle, ProducerState, Active, Busy, AtWork, Delivered

\* Whatever leaves the table and the workers alone keeps what relates them.
LEMMA TableAndWorkersUnchanged ==
    ASSUME IInv, UNCHANGED <<job, worker>>
    PROVE  SingleFlight' /\ WorkersInv' /\ DeliveriesDistinct'
BY DEF IInv, SingleFlight, WorkersInv, WorkerInv, DeliveriesDistinct, Active, Busy, AtWork, Delivered

\* An insert adds a row nobody works on, of a key nobody else holds.
LEMMA EnqueueInsertInv ==
    ASSUME IInv, NEW p \in Producers, NEW k \in Keys, NEW j \in Jobs, EnqueueInsert(p, k, j)
    PROVE  IInv'
<1>1. QueueTypeOK'
  <2> DEFINE row == [AbsentRow EXCEPT !.status = "pending", !.key = k, !.due = TRUE]
  <2>1. /\ row \in Row /\ row.status = "pending" /\ row.owner = NoOwner
        /\ row.lapsed = FALSE
    BY DEF Row, AbsentRow, Statuses
  <2>2. job' = [job EXCEPT ![j] = row]
    BY DEF EnqueueInsert
  <2>3. producer' \in [Producers -> ProducerState]
    BY DEF IInv, QueueTypeOK, EnqueueInsert, ProducerState
  <2> HIDE DEF row
  <2>4. QED
    BY <2>1, <2>2, <2>3 DEF IInv, QueueTypeOK, EnqueueInsert
<1>2. SingleFlight'
  BY DEF IInv, QueueTypeOK, SingleFlight, EnqueueInsert, Row, AbsentRow, ActiveWithKey, Active
<1>3. WorkersInv' /\ DeliveriesDistinct'
  BY QueueAssumption
     DEF IInv, QueueTypeOK, WorkersInv, WorkerInv, DeliveriesDistinct, EnqueueInsert, Row,
         AbsentRow, WorkerState, Busy, AtWork, Delivered
<1>4. QED
  BY <1>1, <1>2, <1>3 DEF IInv

\* An insert the index rejects changes no row.
LEMMA EnqueueConflictInv ==
    ASSUME IInv, NEW p \in Producers, NEW k \in Keys, EnqueueConflict(p, k)
    PROVE  IInv'
<1>1. QueueTypeOK'
  BY ZenonT(60) DEF IInv, QueueTypeOK, EnqueueConflict, ProducerState
<1>2. QED
  BY <1>1, TableAndWorkersUnchanged DEF IInv, EnqueueConflict

\* Neither does the SELECT that follows it.
LEMMA EnqueueCollapseInv ==
    ASSUME IInv, NEW p \in Producers, EnqueueCollapse(p)
    PROVE  IInv'
<1>1. PICK r \in {"collapsed", "raised"} :
         producer' = [producer EXCEPT ![p] = [pc |-> "idle", key |-> NoKey, result |-> r]]
  BY Zenon DEF EnqueueCollapse
<1>2. producer' \in [Producers -> ProducerState]
  BY <1>1 DEF IInv, QueueTypeOK, ProducerState
<1>3. QueueTypeOK'
  BY <1>2 DEF IInv, QueueTypeOK, EnqueueCollapse
<1>4. QED
  BY <1>3, TableAndWorkersUnchanged DEF IInv, EnqueueCollapse

\* A step that changes no row, and after which the busy workers were busy before on
\* the same delivery, keeps the fencing.
LEMMA FencingKept ==
    ASSUME DeliveriesDistinct, job' = job,
           \A v \in Workers : AtWork(v)' =>
              /\ AtWork(v)
              /\ worker'[v].id = worker[v].id
              /\ worker'[v].attempt = worker[v].attempt
              /\ worker'[v].named = worker[v].named
    PROVE  DeliveriesDistinct'
<1>1. ASSUME NEW v \in Workers, NEW w \in Workers, v # w, Delivered(v)', Delivered(w)',
             worker'[v].id = worker'[w].id
      PROVE  worker'[v].attempt # worker'[w].attempt
  BY <1>1 DEF DeliveriesDistinct, Delivered
<1>2. ASSUME NEW w \in Workers, AtWork(w)', job'[worker'[w].id].owner = w
      PROVE  Delivered(w)' /\ worker'[w].attempt = job'[worker'[w].id].attempts
  BY <1>2 DEF DeliveriesDistinct, Delivered
<1>3. QED
  BY <1>1, <1>2 DEF DeliveriesDistinct

\* Losing a candidate to another worker changes no row.
LEMMA LeaseLostInv ==
    ASSUME IInv, NEW w \in Workers, LeaseLost(w)
    PROVE  IInv'
BY DEF IInv, QueueTypeOK, SingleFlight, WorkersInv, WorkerInv, DeliveriesDistinct, LeaseLost,
       WorkerState, Idle, Active, Busy, AtWork, Delivered

\* Selecting a candidate changes no row, and the candidate is in the table.
LEMMA LeaseSelectInv ==
    ASSUME IInv, NEW w \in Workers, NEW j \in Jobs, LeaseSelect(w, j)
    PROVE  IInv'
<1>1. worker' \in [Workers -> WorkerState]
  <2>1. worker \in [Workers -> WorkerState] /\ worker[w] \in WorkerState
    BY DEF IInv, QueueTypeOK
  <2>2. worker' = [worker EXCEPT ![w] = [worker[w] EXCEPT !.pc = "claiming", !.id = j]]
    BY <2>1 DEF LeaseSelect
  <2>3. QED
    BY <2>1, <2>2, WorkerClaims
<1>2. QueueTypeOK'
  BY <1>1 DEF IInv, QueueTypeOK, LeaseSelect
<1>3. /\ \A v \in Workers : v # w => worker'[v] = worker[v]
      /\ worker'[w].pc = "claiming" /\ worker'[w].id = j
  BY DEF IInv, QueueTypeOK, LeaseSelect, WorkerState
<1>4. SingleFlight'
  BY DEF IInv, SingleFlight, LeaseSelect, Active
<1>5. DeliveriesDistinct'
  BY <1>3, FencingKept DEF IInv, LeaseSelect, Busy, AtWork, Delivered
<1>6. WorkersInv'
  BY <1>3, ZenonT(60) DEF IInv, WorkersInv, WorkerInv, LeaseSelect, Ready, Busy, AtWork, Delivered
<1>7. QED
  BY <1>2, <1>4, <1>5, <1>6 DEF IInv

\* A claim moves the row to its new owner and the next attempt, which no worker on the
\* job can hold yet: each holds an attempt the row had already counted.
LEMMA ClaimStepInv ==
    ASSUME IInv, NEW w \in Workers, LeaseClaim(w)
    PROVE  IInv'
<1> DEFINE j == worker[w].id
<1>1. j \in Jobs /\ Active(j)
  BY DEF IInv, WorkersInv, WorkerInv, LeaseClaim, Ready, Active
<1> DEFINE row == [job[j] EXCEPT !.status = "leased", !.owner = w, !.lapsed = FALSE,
                                 !.attempts = job[j].attempts + 1]
           place == [worker[w] EXCEPT !.pc = "claimed"]
<1>2. /\ job \in [Jobs -> Row] /\ job[j] \in Row /\ job[j].attempts \in Nat
      /\ job[j].attempts + 1 \in Nat
      /\ worker \in [Workers -> WorkerState] /\ worker[w] \in WorkerState
  BY <1>1 DEF IInv, QueueTypeOK, Row
<1>3. row \in Row /\ place \in WorkerState
  BY <1>2, RowLeased, WorkerClaimed
<1>4. /\ row.status = "leased" /\ row.owner = w /\ w # NoOwner
      /\ row.attempts = job[j].attempts + 1 /\ row.key = job[j].key
  BY <1>2, QueueAssumption DEF Row
<1>5. job' = [job EXCEPT ![j] = row] /\ worker' = [worker EXCEPT ![w] = place]
  BY <1>1, <1>2 DEF LeaseClaim
<1>6. /\ worker[w].pc = "claiming"
      /\ place.pc = "claimed" /\ place.id = j
      /\ place.outcome = worker[w].outcome
  BY <1>2 DEF LeaseClaim, WorkerState
<1> HIDE DEF row, place, j
<1>7. \A i \in Jobs : job'[i] = IF i = j THEN row ELSE job[i]
  BY <1>2, <1>5
<1>8. worker'[w] = place /\ \A v \in Workers \ {w} : worker'[v] = worker[v]
  BY <1>2, <1>5
<1>9. QueueTypeOK'
  <2>1. job' \in [Jobs -> Row] /\ worker' \in [Workers -> WorkerState]
    BY <1>2, <1>3, <1>5
  <2>2. \A i \in Jobs : /\ (job'[i].status = "leased") <=> (job'[i].owner # NoOwner)
                        /\ job'[i].lapsed => job'[i].status = "leased"
    BY <1>4, <1>7 DEF IInv, QueueTypeOK
  <2>3. producer' \in [Producers -> ProducerState] /\ faults' \in Nat
    BY DEF IInv, QueueTypeOK, LeaseClaim
  <2>4. QED
    BY <2>1, <2>2, <2>3 DEF QueueTypeOK
<1>10. SingleFlight'
  <2>1. \A i \in Jobs : job'[i].key = job[i].key /\ (Active(i)' => Active(i))
    BY <1>1, <1>4, <1>7 DEF Active
  <2>2. QED
    BY <2>1 DEF IInv, SingleFlight
<1>11. WorkersInv'
  <2>1. WorkerInv(w)'
    BY <1>1, <1>2, <1>4, <1>6, <1>7, <1>8 DEF IInv, WorkersInv, WorkerInv, Busy, AtWork, Delivered
  <2>2. ASSUME NEW v \in Workers \ {w}
        PROVE  WorkerInv(v)'
    <3>1. worker'[v] = worker[v] /\ WorkerInv(v)
      BY <1>8 DEF IInv, WorkersInv
    <3>2. CASE worker[v].id = j
      BY <1>1, <1>2, <1>4, <1>7, <3>1, <3>2, QueueAssumption
      DEF IInv, QueueTypeOK, WorkerState, WorkerInv, Busy, AtWork, Delivered
    <3>3. CASE worker[v].id # j
      BY <1>7, <3>1, <3>3 DEF WorkerInv, Busy, AtWork, Delivered
    <3>4. QED
      BY <3>2, <3>3
  <2>3. QED
    BY <2>1, <2>2 DEF WorkersInv
<1>12. DeliveriesDistinct'
  <2>1. \A v \in Workers : AtWork(v)' => v # w /\ AtWork(v) /\ worker'[v] = worker[v]
    BY <1>6, <1>8 DEF Busy, AtWork
  <2>2. ASSUME NEW u \in Workers, NEW v \in Workers, u # v, Delivered(u)', Delivered(v)',
               worker'[u].id = worker'[v].id
        PROVE  worker'[u].attempt # worker'[v].attempt
    BY <2>1, <2>2 DEF IInv, DeliveriesDistinct, Delivered
  <2>3. ASSUME NEW v \in Workers, AtWork(v)', job'[worker'[v].id].owner = v
        PROVE  Delivered(v)' /\ worker'[v].attempt = job'[worker'[v].id].attempts
    <3>1. /\ v # w /\ AtWork(v) /\ worker'[v] = worker[v] /\ worker[v].id \in Jobs
      BY <2>1, <2>3 DEF IInv, WorkersInv, WorkerInv, AtWork, Busy
    <3>2. worker[v].id # j
      BY <1>1, <1>4, <1>7, <2>3, <3>1
    <3>3. job'[worker[v].id] = job[worker[v].id]
      BY <1>7, <3>1, <3>2
    <3>4. QED
      BY <2>1, <2>3, <3>1, <3>3 DEF IInv, DeliveriesDistinct, Delivered
  <2>4. QED
    BY <2>2, <2>3 DEF DeliveriesDistinct
<1>13. QED
  BY <1>9, <1>10, <1>11, <1>12 DEF IInv

\* The read-back gives the worker the row's attempt, and names the worker only while no
\* later claim took the row: whoever else holds that attempt was not its owner.
LEMMA LeaseReadInv ==
    ASSUME IInv, NEW w \in Workers, LeaseRead(w)
    PROVE  IInv'
<1> DEFINE j == worker[w].id
<1>1. j \in Jobs /\ worker[w].pc = "claimed" /\ job[j].status # "absent"
  BY DEF IInv, WorkersInv, WorkerInv, LeaseRead
<1>2. /\ worker \in [Workers -> WorkerState] /\ worker[w] \in WorkerState
      /\ job \in [Jobs -> Row] /\ job[j].attempts \in Nat
  BY <1>1 DEF IInv, QueueTypeOK, Row
<1> DEFINE mine == job[j].owner = w
           place == [worker[w] EXCEPT !.pc = "running", !.attempt = job[j].attempts,
                                      !.named = mine]
<1>3. worker' = [worker EXCEPT ![w] = place]
  BY <1>2, Zenon DEF LeaseRead
<1>4. mine \in BOOLEAN
  OBVIOUS
<1> HIDE DEF mine
<1>5. /\ place \in WorkerState /\ place.pc = "running" /\ place.attempt = job[j].attempts
      /\ place.named = mine /\ place.id = j /\ place.outcome = worker[w].outcome
  <2> DEFINE n == job[j].attempts
             s == worker[w]
  <2>1. n \in Nat /\ s \in WorkerState /\ s.id = j
    BY <1>2
  <2> HIDE DEF n, s, j
  <2>2. LET t == [s EXCEPT !.pc = "running", !.attempt = n, !.named = mine]
        IN  /\ t \in WorkerState /\ t.pc = "running" /\ t.attempt = n /\ t.named = mine
            /\ t.id = s.id /\ t.outcome = s.outcome
    BY <1>4, <2>1, Zenon DEF WorkerState
  <2>3. QED
    BY <2>1, <2>2, Zenon DEF n, s
<1> HIDE DEF place, j
<1>6. worker'[w] = place /\ \A v \in Workers \ {w} : worker'[v] = worker[v]
  BY <1>2, <1>3
<1>7. QueueTypeOK' /\ SingleFlight' /\ job' = job
  <2>1. worker' \in [Workers -> WorkerState]
    BY <1>2, <1>3, <1>5
  <2>2. QED
    BY <2>1 DEF IInv, QueueTypeOK, SingleFlight, Active, LeaseRead
<1>8. WorkersInv'
  <2>1. WorkerInv(w)'
    <3>1. place.named => job[j].owner = w
      BY <1>5 DEF mine
    <3>2. QED
      BY <1>1, <1>2, <1>5, <1>6, <1>7, <3>1 DEF WorkerInv, Busy, AtWork, Delivered
  <2>2. ASSUME NEW v \in Workers \ {w}
        PROVE  WorkerInv(v)'
    <3>1. worker'[v] = worker[v] /\ WorkerInv(v)
      BY <1>6 DEF IInv, WorkersInv
    <3>2. QED
      BY <1>7, <3>1 DEF WorkerInv, Busy, AtWork, Delivered
  <2>3. QED
    BY <2>1, <2>2 DEF WorkersInv
<1>9. DeliveriesDistinct'
  <2>1. \A v \in Workers \ {w} : /\ AtWork(v)' <=> AtWork(v)
                                 /\ Delivered(v)' <=> Delivered(v)
                                 /\ worker'[v] = worker[v]
    BY <1>6 DEF Busy, AtWork, Delivered
  <2>2. ASSUME NEW v \in Workers \ {w}, Delivered(v), worker[v].id = j,
               worker[v].attempt = job[j].attempts
        PROVE  ~place.named
    <3>1. job[j].owner \in {v, NoOwner}
      BY <2>2 DEF IInv, WorkersInv, WorkerInv
    <3>2. QED
      BY <1>5, <3>1, QueueAssumption DEF mine
  <2>3. ASSUME NEW u \in Workers, NEW v \in Workers, u # v, Delivered(u)', Delivered(v)',
               worker'[u].id = worker'[v].id
        PROVE  worker'[u].attempt # worker'[v].attempt
    <3>1. CASE u # w /\ v # w
      BY <2>1, <2>3, <3>1 DEF IInv, DeliveriesDistinct
    <3>2. CASE u = w
      BY <1>5, <1>6, <2>1, <2>2, <2>3, <3>2 DEF Delivered
    <3>3. CASE v = w
      BY <1>5, <1>6, <2>1, <2>2, <2>3, <3>3 DEF Delivered
    <3>4. QED
      BY <3>1, <3>2, <3>3
  <2>4. ASSUME NEW v \in Workers, AtWork(v)', job'[worker'[v].id].owner = v
        PROVE  Delivered(v)' /\ worker'[v].attempt = job'[worker'[v].id].attempts
    <3>1. CASE v # w
      BY <1>7, <2>1, <2>4, <3>1 DEF IInv, DeliveriesDistinct
    <3>2. CASE v = w
      <4>1. job[j].owner = w
        BY <1>5, <1>6, <1>7, <2>4, <3>2
      <4>2. mine
        BY <4>1 DEF mine
      <4>3. QED
        BY <1>5, <1>6, <1>7, <2>4, <3>2, <4>2 DEF Delivered
    <3>3. QED
      BY <3>1, <3>2
  <2>5. QED
    BY <2>3, <2>4 DEF DeliveriesDistinct
<1>10. QED
  BY <1>7, <1>8, <1>9 DEF IInv

\* The handler's return changes only the worker's own place and outcome.
LEMMA HandlerReturnsInv ==
    ASSUME IInv, NEW w \in Workers, NEW o \in Outcomes, HandlerReturns(w, o)
    PROVE  IInv'
<1>1. worker' \in [Workers -> WorkerState]
  <2>1. \/ worker' = [worker EXCEPT ![w].outcome = o, ![w].pc = "acking"]
        \/ worker' = [worker EXCEPT ![w].outcome = o, ![w].pc = "failing"]
    BY DEF HandlerReturns
  <2>2. QED
    BY <2>1 DEF IInv, QueueTypeOK, WorkerState
<1>2. QueueTypeOK'
  BY <1>1 DEF IInv, QueueTypeOK, HandlerReturns
<1>3. /\ \A v \in Workers : v # w => worker'[v] = worker[v]
      /\ worker'[w].id = worker[w].id /\ worker'[w].attempt = worker[w].attempt
      /\ worker'[w].named = worker[w].named
      /\ worker[w].pc = "running" /\ worker'[w].outcome = o
      /\ worker'[w].pc = IF o \in {"ok", "skipped"} THEN "acking" ELSE "failing"
  BY DEF IInv, QueueTypeOK, HandlerReturns, WorkerState
<1>4. SingleFlight'
  BY DEF IInv, SingleFlight, HandlerReturns, Active
<1>5. DeliveriesDistinct'
  BY <1>3, FencingKept DEF IInv, HandlerReturns, Busy, AtWork, Delivered
<1>6. WorkersInv'
  <2>1. ASSUME NEW v \in Workers
        PROVE  WorkerInv(v)'
    <3>1. WorkerInv(v) /\ job' = job
      BY DEF IInv, WorkersInv, HandlerReturns
    <3>2. CASE v = w
      BY <1>3, <3>1, <3>2 DEF WorkerInv, Busy, AtWork, Delivered, Outcomes
    <3>3. CASE v # w
      BY <1>3, <3>1, <3>3 DEF WorkerInv, Busy, AtWork, Delivered
    <3>4. QED
      BY <3>2, <3>3
  <2>2. QED
    BY <2>1 DEF WorkersInv
<1>7. QED
  BY <1>2, <1>4, <1>5, <1>6 DEF IInv

\* failJob's SELECT decides: it changes only the worker's place and its decision,
\* and a decision against the retry is final because attempts never shrink.
LEMMA FailReadInv ==
    ASSUME IInv, NEW w \in Workers, FailRead(w)
    PROVE  IInv'
<1>1. PICK r \in BOOLEAN :
         /\ \/ worker' = [worker EXCEPT ![w] = Idle]
            \/ worker' = [worker EXCEPT ![w].pc = "settling", ![w].retry = r]
         /\ r <=> worker[w].outcome = "retriable" /\ job[worker[w].id].attempts < MaxAttempts
  BY Zenon DEF FailRead
<1>2. worker' \in [Workers -> WorkerState]
  <2>1. CASE worker' = [worker EXCEPT ![w] = Idle]
    BY <2>1 DEF IInv, QueueTypeOK, WorkerState, Idle
  <2>2. CASE worker' = [worker EXCEPT ![w].pc = "settling", ![w].retry = r]
    BY <2>2, ZenonT(60) DEF IInv, QueueTypeOK, WorkerState
  <2>3. QED
    BY <1>1, <2>1, <2>2
<1>3. QueueTypeOK'
  BY <1>2 DEF IInv, QueueTypeOK, FailRead
<1>4. /\ \A v \in Workers : v # w => worker'[v] = worker[v]
      /\ worker[w].pc = "failing"
      /\ \/ worker'[w] = Idle
         \/ /\ worker'[w].pc = "settling"
            /\ worker'[w].retry = r
            /\ worker'[w].id = worker[w].id
            /\ worker'[w].attempt = worker[w].attempt
            /\ worker'[w].named = worker[w].named
            /\ worker'[w].outcome = worker[w].outcome
  BY <1>1, ZenonT(60) DEF IInv, QueueTypeOK, FailRead, WorkerState
<1>5. SingleFlight'
  BY DEF IInv, SingleFlight, FailRead, Active
<1>6. DeliveriesDistinct'
  <2>1. ASSUME NEW v \in Workers, AtWork(v)'
        PROVE  /\ AtWork(v)
               /\ worker'[v].id = worker[v].id
               /\ worker'[v].attempt = worker[v].attempt
               /\ worker'[v].named = worker[v].named
    BY <1>4, <2>1 DEF Busy, AtWork, Delivered, Idle
  <2>2. QED
    BY <2>1, FencingKept DEF IInv, FailRead
<1>7. WorkersInv'
  <2>1. ASSUME NEW v \in Workers
        PROVE  WorkerInv(v)'
    <3>1. WorkerInv(v) /\ job' = job
      BY DEF IInv, WorkersInv, FailRead
    <3>2. CASE v = w
      <4>1. worker[w].id \in Jobs /\ job[worker[w].id].attempts \in Nat
        BY <1>4, <3>1, <3>2 DEF IInv, QueueTypeOK, WorkerInv, Row
      <4>2. QED
        BY <1>1, <1>4, <3>1, <3>2, <4>1, QueueAssumption DEF WorkerInv, Busy, AtWork, Delivered, Idle
    <3>3. CASE v # w
      BY <1>4, <3>1, <3>3, SMTT(30) DEF WorkerInv, Busy, AtWork, Delivered
    <3>4. QED
      BY <3>2, <3>3
  <2>2. QED
    BY <2>1 DEF WorkersInv
<1>8. QED
  BY <1>3, <1>5, <1>6, <1>7 DEF IInv

\* The statement that ends a delivery frees the row and its worker; the retry keeps
\* the key single-flight because the index rejects it otherwise.
LEMMA SettleStepInv ==
    ASSUME IInv, NEW w \in Workers, CompleteJob(w) \/ FailRetry(w) \/ FailDead(w)
    PROVE  IInv'
<1> DEFINE j == worker[w].id
<1>1. j \in Jobs /\ job[j].status # "absent"
  BY ZenonT(60) DEF IInv, WorkersInv, WorkerInv, CompleteJob, FailRetry, FailDead
<1>2. /\ worker' = [worker EXCEPT ![w] = Idle]
      /\ UNCHANGED <<producer, faults>>
  BY ZenonT(60) DEF CompleteJob, FailRetry, FailDead
<1>3. job \in [Jobs -> Row] /\ job[j] \in Row /\ worker \in [Workers -> WorkerState]
  BY <1>1 DEF IInv, QueueTypeOK
<1>4. \/ job' = job
      \/ \E r \in Row : /\ job' = [job EXCEPT ![j] = r]
                       /\ r.key = job[j].key /\ r.attempts = job[j].attempts
                       /\ r.owner = NoOwner /\ ~r.lapsed
                       /\ \/ r.status \in {"done", "dead"}
                          \/ r.status = "pending" /\ ActiveWithKey(job[j].key) \subseteq {j}
  <2> DEFINE row(st) == [job[j] EXCEPT !.status = st, !.owner = NoOwner, !.lapsed = FALSE]
             again == [job[j] EXCEPT !.status = "pending", !.owner = NoOwner,
                                     !.lapsed = FALSE, !.due = FALSE]
  <2>1. CASE CompleteJob(w)
    <3>1. job' = job \/ job' = [job EXCEPT ![j] = row("done")]
      BY <1>3, <2>1 DEF CompleteJob
    <3>2. QED
      BY <1>3, <3>1, RowSettled
  <2>2. CASE FailDead(w)
    <3>1. job' = [job EXCEPT ![j] = row("dead")]
      BY <1>3, <2>2 DEF FailDead
    <3>2. QED
      BY <1>3, <3>1, RowSettled
  <2>3. CASE FailRetry(w)
    <3>1. \/ job' = job
          \/ job' = [job EXCEPT ![j] = again] /\ ActiveWithKey(job[j].key) \subseteq {j}
      BY <1>3, <2>3 DEF FailRetry
    <3>2. QED
      BY <1>3, <3>1, RowRetried
  <2>4. QED
    BY <2>1, <2>2, <2>3
<1>5. /\ \A i \in Jobs : i # j => job'[i] = job[i]
      /\ job' \in [Jobs -> Row]
      /\ \/ job'[j] = job[j]
         \/ /\ job'[j].key = job[j].key /\ job'[j].attempts = job[j].attempts
            /\ job'[j].owner = NoOwner /\ ~job'[j].lapsed
            /\ \/ job'[j].status \in {"done", "dead"}
               \/ /\ job'[j].status = "pending"
                  /\ ActiveWithKey(job[j].key) \subseteq {j}
  <2> HIDE DEF j
  <2>1. CASE job' = job
    BY <1>3, <2>1
  <2>2. CASE job' # job
    <3>1. PICK r \in Row : /\ job' = [job EXCEPT ![j] = r]
                           /\ r.key = job[j].key /\ r.attempts = job[j].attempts
                           /\ r.owner = NoOwner /\ ~r.lapsed
                           /\ \/ r.status \in {"done", "dead"}
                              \/ /\ r.status = "pending"
                                 /\ ActiveWithKey(job[j].key) \subseteq {j}
      BY <1>4, <2>2
    <3>2. job'[j] = r /\ \A i \in Jobs : i # j => job'[i] = job[i]
      BY <1>1, <1>3, <3>1
    <3>3. job' \in [Jobs -> Row]
      BY <1>3, <3>1
    <3>4. QED
      BY <3>1, <3>2, <3>3
  <2>3. QED
    BY <2>1, <2>2
<1> HIDE DEF j
<1>6. QueueTypeOK'
  <2>1. \A i \in Jobs : /\ (job'[i].status = "leased") <=> (job'[i].owner # NoOwner)
                        /\ job'[i].lapsed => job'[i].status = "leased"
    BY <1>5 DEF IInv, QueueTypeOK
  <2>2. worker' \in [Workers -> WorkerState]
    BY <1>2, <1>3 DEF WorkerState, Idle
  <2>3. QED
    BY <1>2, <1>5, <2>1, <2>2 DEF IInv, QueueTypeOK
<1>7. SingleFlight'
  <2>1. \A i \in Jobs : /\ job'[i].key = job[i].key
                        /\ Active(i)' => \/ Active(i)
                                         \/ i = j /\ ActiveWithKey(job[j].key) \subseteq {j}
    BY <1>5 DEF Active
  <2>2. QED
    BY <2>1 DEF IInv, SingleFlight, ActiveWithKey
<1>8. /\ \A v \in Workers : v # w => worker'[v] = worker[v]
      /\ worker'[w] = Idle
  BY <1>2 DEF IInv, QueueTypeOK
<1>9. /\ \A i \in Jobs : /\ job'[i].attempts = job[i].attempts
                         /\ job[i].status # "absent" => job'[i].status # "absent"
                         /\ job'[i].owner \in {job[i].owner, NoOwner}
  BY <1>5
<1>10. WorkersInv'
  BY <1>8, <1>9 DEF IInv, WorkersInv, WorkerInv, Idle, Busy, AtWork, Delivered
<1>11. DeliveriesDistinct'
  <2>1. ASSUME NEW v \in Workers, AtWork(v)'
        PROVE  /\ v # w /\ AtWork(v) /\ worker'[v] = worker[v] /\ worker[v].id \in Jobs
               /\ Delivered(v)' <=> Delivered(v)
    BY <1>8, <2>1 DEF IInv, WorkersInv, WorkerInv, Busy, AtWork, Delivered, Idle
  <2>2. QED
    BY <1>9, <2>1, QueueAssumption DEF IInv, DeliveriesDistinct, Delivered
<1>12. QED
  BY <1>6, <1>7, <1>10, <1>11 DEF IInv

\* A crash forgets a worker's place.
LEMMA CrashInv ==
    ASSUME IInv, NEW w \in Workers, Crash(w)
    PROVE  IInv'
BY DEF IInv, QueueTypeOK, SingleFlight, WorkersInv, WorkerInv, DeliveriesDistinct, Crash,
       WorkerState, Idle, Active, Busy, AtWork, Delivered

\* A heartbeat renews the lease of the worker's own job.
LEMMA RenewTarget ==
    ASSUME IInv, NEW w \in Workers, RenewJobLease(w)
    PROVE  \E i \in Jobs : job' = [job EXCEPT ![i].lapsed = FALSE]
BY DEF IInv, WorkersInv, WorkerInv, RenewJobLease, Busy, AtWork, Delivered

\* Heartbeats and the clock move neither owners nor attempts.
LEMMA TimeStepInv ==
    ASSUME IInv, NEW i \in Jobs, UNCHANGED <<worker, producer>>, faults' \in Nat,
           \/ job' = [job EXCEPT ![i].lapsed = FALSE]
           \/ job' = [job EXCEPT ![i].lapsed = TRUE] /\ job[i].status = "leased"
           \/ job' = [job EXCEPT ![i].due = TRUE]
    PROVE  IInv'
<1>1. /\ job' \in [Jobs -> Row]
      /\ \A n \in Jobs : /\ job'[n].status = job[n].status
                         /\ job'[n].key = job[n].key
                         /\ job'[n].attempts = job[n].attempts
                         /\ job'[n].owner = job[n].owner
                         /\ job'[n].lapsed => job[n].lapsed \/ job[n].status = "leased"
  <2>1. CASE job' = [job EXCEPT ![i].lapsed = FALSE]
    BY <2>1, ZenonT(60) DEF IInv, QueueTypeOK, Row
  <2>2. CASE job' = [job EXCEPT ![i].lapsed = TRUE] /\ job[i].status = "leased"
    BY <2>2, ZenonT(60) DEF IInv, QueueTypeOK, Row
  <2>3. CASE job' = [job EXCEPT ![i].due = TRUE]
    BY <2>3, ZenonT(60) DEF IInv, QueueTypeOK, Row
  <2>4. QED
    BY <2>1, <2>2, <2>3
<1>2. QueueTypeOK'
  BY <1>1 DEF IInv, QueueTypeOK
<1>3. SingleFlight'
  BY <1>1 DEF IInv, SingleFlight, Active
<1>4. \A v \in Workers : Busy(v) => worker[v].id \in Jobs
  BY DEF IInv, WorkersInv, WorkerInv, Busy, AtWork, Delivered
<1>5. WorkersInv'
  BY <1>1 DEF IInv, WorkersInv, WorkerInv, Busy, AtWork, Delivered
<1>6. DeliveriesDistinct'
  BY <1>1, <1>4 DEF IInv, DeliveriesDistinct, Busy, AtWork, Delivered
<1>7. QED
  BY <1>2, <1>3, <1>5, <1>6 DEF IInv

-----------------------------------------------------------------------------

\* The induction step: every step of the queue, and stuttering, keeps IInv.
LEMMA NextInv == IInv /\ [Next]_vars => IInv'
<1> SUFFICES ASSUME IInv, [Next]_vars
             PROVE  IInv'
  OBVIOUS
<1>1. ASSUME NEW p \in Producers, NEW k \in Keys, NEW j \in Jobs, EnqueueInsert(p, k, j)
      PROVE  IInv'
  BY <1>1, EnqueueInsertInv
<1>2. ASSUME NEW p \in Producers, NEW k \in Keys, EnqueueConflict(p, k)
      PROVE  IInv'
  BY <1>2, EnqueueConflictInv
<1>3. ASSUME NEW p \in Producers, EnqueueCollapse(p)
      PROVE  IInv'
  BY <1>3, EnqueueCollapseInv
<1>4. ASSUME NEW w \in Workers, WorkerStep(w)
      PROVE  IInv'
  BY <1>4, LeaseSelectInv, ClaimStepInv, LeaseReadInv, LeaseLostInv, HandlerReturnsInv, FailReadInv,
     SettleStepInv DEF WorkerStep
<1>5. ASSUME NEW w \in Workers, RenewJobLease(w)
      PROVE  IInv'
  <2>1. faults' \in Nat /\ UNCHANGED <<worker, producer>>
    BY <1>5 DEF IInv, QueueTypeOK, RenewJobLease
  <2>2. QED
    BY <1>5, <2>1, RenewTarget, TimeStepInv
<1>6. ASSUME NEW w \in Workers, Crash(w)
      PROVE  IInv'
  BY <1>6, CrashInv
<1>7. ASSUME NEW j \in Jobs, ClockStep(j) \/ LapseUnderHolder(j)
      PROVE  IInv'
  <2>1. /\ UNCHANGED <<worker, producer>>
        /\ faults' \in Nat
        /\ \/ job' = [job EXCEPT ![j].lapsed = TRUE] /\ job[j].status = "leased"
           \/ job' = [job EXCEPT ![j].due = TRUE]
    BY <1>7 DEF IInv, QueueTypeOK, ClockStep, LapseAbandoned, BecomeDue, LapseUnderHolder
  <2>2. QED
    BY <2>1, TimeStepInv
<1>8. CASE UNCHANGED vars
  <2>1. QueueTypeOK'
    BY <1>8 DEF IInv, QueueTypeOK, vars
  <2>2. QED
    BY <1>8, <2>1, TableAndWorkersUnchanged DEF IInv, vars
<1>9. QED
  BY <1>1, <1>2, <1>3, <1>4, <1>5, <1>6, <1>7, <1>8 DEF Next

\* The strengthened invariant holds in every reachable state.
THEOREM InductiveInvariant == Spec => []IInv
BY InitInv, NextInv, PTL DEF Spec

\* Every variable keeps its type and the columns of a row agree, for any number of
\* jobs, keys, workers, attempts and faults.
THEOREM TypeCorrect == Spec => []QueueTypeOK
<1>1. IInv => QueueTypeOK
  BY DEF IInv
<1>2. QED
  BY <1>1, InductiveInvariant, PTL

\* At most one active job per dedupe key.
THEOREM SingleFlightHolds == Spec => []SingleFlight
<1>1. IInv => SingleFlight
  BY DEF IInv
<1>2. QED
  BY <1>1, InductiveInvariant, PTL

\* No two workers whose rows name them their owner hold the same attempt of a job, and the
\* owner the row names holds its attempt, whatever lapses between a claim and its read-back.
THEOREM FencingHolds == Spec => []DeliveriesDistinct
<1>1. IInv => DeliveriesDistinct
  BY DEF IInv
<1>2. QED
  BY <1>1, InductiveInvariant, PTL

\* Rows change hands and state only in the named steps: the table of who may do what
\* to a row, from which the action properties follow.
LEMMA RowChange ==
    ASSUME IInv, [Next]_vars, NEW j \in Jobs, job'[j] # job[j]
    PROVE  \/ /\ job'[j].status \notin {"done", "dead"} \/ job'[j].status = job[j].status
              /\ job'[j].owner \in {job[j].owner, NoOwner}
           \/ \E w \in Workers : LeaseClaim(w) /\ worker[w].id = j
           \/ \E w \in Workers : CompleteJob(w) /\ worker[w].id = j /\ job[j].owner = w
           \/ \E w \in Workers : FailDead(w) /\ worker[w].id = j
<1>1. job \in [Jobs -> Row]
  BY DEF IInv, QueueTypeOK
<1>2. ASSUME NEW p \in Producers, NEW k \in Keys, NEW i \in Jobs, EnqueueInsert(p, k, i)
      PROVE  job'[j].status \notin {"done", "dead"} /\ job'[j].owner \in {job[j].owner, NoOwner}
  BY <1>1, <1>2, SMTT(30) DEF EnqueueInsert, AbsentRow, Row
<1>3. ASSUME NEW w \in Workers, WorkerStep(w)
      PROVE  \/ FailRetry(w)
             \/ LeaseClaim(w) /\ worker[w].id = j
             \/ CompleteJob(w) /\ worker[w].id = j /\ job[j].owner = w
             \/ FailDead(w) /\ worker[w].id = j
  BY <1>1, <1>3, ZenonT(60) DEF WorkerStep, LeaseSelect, LeaseClaim, LeaseRead, LeaseLost,
     HandlerReturns, CompleteJob, FailRead, FailDead
<1>4. ASSUME NEW w \in Workers, FailRetry(w)
      PROVE  job'[j].status \notin {"done", "dead"} /\ job'[j].owner \in {job[j].owner, NoOwner}
  <2>1. worker[w].id = j
    BY <1>1, <1>4 DEF FailRetry
  <2>2. job' = [job EXCEPT ![j].status = "pending", ![j].owner = NoOwner,
                           ![j].lapsed = FALSE, ![j].due = FALSE]
    BY <1>4, <2>1 DEF FailRetry
  <2>3. QED
    BY <1>1, <2>2 DEF Row
<1>5. ASSUME NEW w \in Workers, RenewJobLease(w)
      PROVE  job'[j].status = job[j].status /\ job'[j].owner = job[j].owner
  BY <1>1, <1>5 DEF RenewJobLease, Row
<1>6. ASSUME NEW i \in Jobs, ClockStep(i) \/ LapseUnderHolder(i)
      PROVE  job'[j].status = job[j].status /\ job'[j].owner = job[j].owner
  BY <1>1, <1>6 DEF ClockStep, LapseAbandoned, BecomeDue, LapseUnderHolder, Row
<1>7. \/ \E p \in Producers, k \in Keys, i \in Jobs : EnqueueInsert(p, k, i)
      \/ \E w \in Workers : WorkerStep(w)
      \/ \E w \in Workers : RenewJobLease(w)
      \/ \E i \in Jobs : ClockStep(i) \/ LapseUnderHolder(i)
  BY DEF Next, EnqueueConflict, EnqueueCollapse, Crash, vars
<1>8. CASE \E p \in Producers, k \in Keys, i \in Jobs : EnqueueInsert(p, k, i)
  BY <1>2, <1>8
<1>9. CASE \E w \in Workers : WorkerStep(w)
  BY <1>3, <1>4, <1>9
<1>10. CASE \/ \E w \in Workers : RenewJobLease(w)
            \/ \E i \in Jobs : ClockStep(i) \/ LapseUnderHolder(i)
  BY <1>5, <1>6, <1>10
<1>11. QED
  BY <1>7, <1>8, <1>9, <1>10

\* A job becomes done only through a worker on its latest attempt.
THEOREM AckHolds == Spec => AckByLatestDelivery
<1> DEFINE A == \A j \in Jobs : job[j].status # "done" /\ job'[j].status = "done" =>
                  \E w \in Workers : /\ worker[w].id = j
                                     /\ worker[w].outcome \in {"ok", "skipped"}
                                     /\ worker[w].attempt = job[j].attempts
                                     /\ worker'[w].pc = "idle"
<1>1. IInv /\ [Next]_vars => A
  <2> SUFFICES ASSUME IInv, [Next]_vars, NEW j \in Jobs,
                      job[j].status # "done", job'[j].status = "done"
               PROVE  \E w \in Workers : /\ worker[w].id = j
                                         /\ worker[w].outcome \in {"ok", "skipped"}
                                         /\ worker[w].attempt = job[j].attempts
                                         /\ worker'[w].pc = "idle"
    OBVIOUS
  <2>1. PICK w \in Workers : CompleteJob(w) /\ worker[w].id = j /\ job[j].owner = w
    <3>1. job \in [Jobs -> Row] /\ job'[j] # job[j]
      BY DEF IInv, QueueTypeOK
    <3>2. ASSUME NEW w \in Workers, worker[w].id = j, LeaseClaim(w) \/ FailDead(w)
          PROVE  FALSE
      BY <3>1, <3>2 DEF LeaseClaim, FailDead, Row
    <3>3. QED
      BY <3>1, <3>2, RowChange
  <2>2. worker[w].outcome \in {"ok", "skipped"} /\ worker[w].attempt = job[j].attempts
    BY <2>1 DEF IInv, WorkersInv, WorkerInv, DeliveriesDistinct, CompleteJob, Busy, AtWork, Delivered
  <2>3. worker'[w].pc = "idle"
    BY <2>1 DEF IInv, QueueTypeOK, CompleteJob, Idle
  <2>4. QED
    BY <2>1, <2>2, <2>3
<1>2. QED
  BY <1>1, InductiveInvariant, PTL DEF Spec, AckByLatestDelivery

\* A lease changes owner directly only once it expired.
THEOREM NoStealingHolds == Spec => NoStealing
<1> DEFINE A == \A j \in Jobs :
                  job[j].owner \in Workers /\ job'[j].owner \in Workers \ {job[j].owner}
                    => job[j].lapsed
<1>1. IInv /\ [Next]_vars => A
  <2> SUFFICES ASSUME IInv, [Next]_vars, NEW j \in Jobs,
                      job[j].owner \in Workers, job'[j].owner \in Workers \ {job[j].owner}
               PROVE  job[j].lapsed
    OBVIOUS
  <2>1. PICK w \in Workers : LeaseClaim(w) /\ worker[w].id = j
    <3>1. job \in [Jobs -> Row] /\ job'[j] # job[j]
      BY DEF IInv, QueueTypeOK
    <3>2. ASSUME NEW w \in Workers, worker[w].id = j,
                 (job[j].owner = w /\ CompleteJob(w)) \/ FailDead(w)
          PROVE  FALSE
      BY <3>1, <3>2, QueueAssumption DEF CompleteJob, FailDead, Row
    <3>3. QED
      BY <3>1, <3>2, RowChange, QueueAssumption
  <2>2. QED
    BY <2>1, QueueAssumption DEF IInv, QueueTypeOK, LeaseClaim, Ready
<1>2. QED
  BY <1>1, InductiveInvariant, PTL DEF Spec, NoStealing

\* A job dies only of a non-retriable failure or of its last attempt.
THEOREM DeadHolds == Spec => DeadOnlyWhenSpent
<1> DEFINE A == \A j \in Jobs : job[j].status # "dead" /\ job'[j].status = "dead" =>
                  \/ job[j].attempts >= MaxAttempts
                  \/ \E w \in Workers : worker[w].id = j /\ worker[w].outcome = "fatal"
<1>1. IInv /\ [Next]_vars => A
  <2> SUFFICES ASSUME IInv, [Next]_vars, NEW j \in Jobs,
                      job[j].status # "dead", job'[j].status = "dead"
               PROVE  \/ job[j].attempts >= MaxAttempts
                      \/ \E w \in Workers : worker[w].id = j /\ worker[w].outcome = "fatal"
    OBVIOUS
  <2>1. PICK w \in Workers : FailDead(w) /\ worker[w].id = j
    <3>1. job \in [Jobs -> Row] /\ job'[j] # job[j]
      BY DEF IInv, QueueTypeOK
    <3>2. ASSUME NEW w \in Workers, worker[w].id = j,
                 (job[j].owner = w /\ CompleteJob(w)) \/ LeaseClaim(w)
          PROVE  FALSE
      BY <3>1, <3>2 DEF LeaseClaim, CompleteJob, Row
    <3>3. QED
      BY <3>1, <3>2, RowChange
  <2>2. QED
    BY <2>1 DEF IInv, WorkersInv, WorkerInv, FailDead
<1>2. QED
  BY <1>1, InductiveInvariant, PTL DEF Spec, DeadOnlyWhenSpent

-----------------------------------------------------------------------------
(* The refinement of DeliveryQueue.                                        *)

InHands(j) == {w \in Workers : Busy(w) /\ worker[w].id = j}

\* One worker moves: it takes a delivery into its hands, gives one up, or neither.
LEMMA HandsMove ==
    ASSUME NEW w \in Workers, \A v \in Workers \ {w} : worker'[v] = worker[v]
    PROVE  /\ \A j \in Jobs : ~Busy(w) /\ Busy(w)' /\ worker'[w].id = j
                 => Hands' = [Hands EXCEPT ![j] = @ \cup {w}]
           /\ \A j \in Jobs : Busy(w) /\ ~Busy(w)' /\ worker[w].id = j
                 => Hands' = [Hands EXCEPT ![j] = @ \ {w}]
           /\ (Busy(w)' <=> Busy(w)) /\ (Busy(w) => worker'[w].id = worker[w].id)
                 => Hands' = Hands
<1> USE DEF InHands
<1>1. Hands = [j \in Jobs |-> InHands(j)] /\ Hands' = [j \in Jobs |-> InHands(j)']
  BY DEF Hands
<1>2. \A v \in Workers \ {w} : (Busy(v)' <=> Busy(v)) /\ worker'[v].id = worker[v].id
  BY DEF Busy
<1>3. ASSUME NEW j \in Jobs, ~Busy(w), Busy(w)', worker'[w].id = j
      PROVE  Hands' = [Hands EXCEPT ![j] = @ \cup {w}]
  <2>1. InHands(j)' = InHands(j) \cup {w}
    BY <1>2, <1>3
  <2>2. \A i \in Jobs \ {j} : InHands(i)' = InHands(i)
    BY <1>2, <1>3
  <2> HIDE DEF InHands
  <2>3. QED
    BY <1>1, <2>1, <2>2
<1>4. ASSUME NEW j \in Jobs, Busy(w), worker[w].id = j, ~Busy(w)'
      PROVE  Hands' = [Hands EXCEPT ![j] = @ \ {w}]
  <2>1. InHands(j)' = InHands(j) \ {w}
    BY <1>2, <1>4
  <2>2. \A i \in Jobs \ {j} : InHands(i)' = InHands(i)
    BY <1>2, <1>4
  <2> HIDE DEF InHands
  <2>3. QED
    BY <1>1, <2>1, <2>2
<1>5. ASSUME Busy(w)' <=> Busy(w), Busy(w) => worker'[w].id = worker[w].id
      PROVE  Hands' = Hands
  <2>1. \A i \in Jobs : InHands(i)' = InHands(i)
    BY <1>2, <1>5
  <2> HIDE DEF InHands
  <2>2. QED
    BY <1>1, <2>1
<1>6. QED
  BY <1>3, <1>4, <1>5

\* What is in a worker's hands is what it works on.
LEMMA HandsAre ==
    ASSUME NEW j \in Jobs, NEW w \in Workers
    PROVE  w \in Hands[j] <=> Busy(w) /\ worker[w].id = j
BY DEF Hands

\* The unique index, as the abstract queue says it.
LEMMA IndexAdmits ==
    ASSUME NEW j \in Jobs, NEW k
    PROVE  /\ ActiveWithKey(k) = {} => Queue!OnlyOfItsKey(j, k)
           /\ ActiveWithKey(k) \subseteq {j} => Queue!OnlyOfItsKey(j, k)
BY DEF ActiveWithKey, Queue!OnlyOfItsKey, Queue!Active, Active

\* An INSERT is the abstract Enqueue; the rest of enqueueJob is not seen.
LEMMA EnqueueRefines ==
    ASSUME NEW p \in Producers, NEW k \in Keys, NEW j \in Jobs, EnqueueInsert(p, k, j)
    PROVE  Queue!Enqueue(j, k)
<1>1. Hands' = Hands
  BY DEF EnqueueInsert, Hands, Busy
<1>2. job[j].status = "absent" /\ ActiveWithKey(k) = {}
      /\ job' = [job EXCEPT ![j] = [AbsentRow EXCEPT !.status = "pending", !.key = k,
                                                     !.due = TRUE]]
  BY DEF EnqueueInsert
<1>3. QED
  BY <1>1, <1>2, IndexAdmits DEF Queue!Enqueue, Queue!Absent, AbsentRow

\* The claim of a candidate is a delivery to hands that were empty.
LEMMA ClaimRefines ==
    ASSUME IInv, NEW w \in Workers, LeaseClaim(w)
    PROVE  worker[w].id \in Jobs /\ Queue!Deliver(worker[w].id, w)
<1> DEFINE j == worker[w].id
<1>1. /\ worker[w].pc = "claiming" /\ Ready(j)
      /\ job' = [job EXCEPT ![j].status = "leased", ![j].owner = w, ![j].lapsed = FALSE,
                            ![j].attempts = @ + 1]
      /\ worker' = [worker EXCEPT ![w].pc = "claimed"]
  BY DEF LeaseClaim
<1>2. j \in Jobs /\ worker \in [Workers -> WorkerState]
  BY <1>1 DEF IInv, QueueTypeOK, WorkersInv, WorkerInv
<1>3. /\ worker'[w].pc = "claimed" /\ worker'[w].id = j
      /\ \A v \in Workers \ {w} : worker'[v] = worker[v]
  BY <1>1, <1>2 DEF WorkerState
<1>4. ~Busy(w) /\ Busy(w)'
  BY <1>1, <1>3 DEF Busy
<1> HIDE DEF j
<1>5. Hands' = [Hands EXCEPT ![j] = @ \cup {w}]
  BY <1>2, <1>3, <1>4, HandsMove
<1>6. \A i \in Jobs : w \notin Hands[i]
  BY <1>4, HandsAre
<1>7. job[j].due /\ (job[j].status = "pending" \/ (job[j].status = "leased" /\ job[j].lapsed))
  BY <1>1 DEF Ready
<1>8. Queue!Deliver(j, w)
  BY <1>1, <1>5, <1>6, <1>7 DEF Queue!Deliver
<1>9. QED
  BY <1>2, <1>8 DEF j

\* The steps of a worker that are not seen: selecting, losing a candidate, reading the row
\* won, running the handler, deciding on a retry.
LEMMA UnseenSteps ==
    ASSUME IInv, NEW w \in Workers,
           \/ \E j \in Jobs : LeaseSelect(w, j)
           \/ LeaseLost(w)
           \/ LeaseRead(w)
           \/ \E o \in Outcomes : HandlerReturns(w, o)
           \/ FailRead(w) /\ job[worker[w].id].owner = w
    PROVE  job' = job /\ Hands' = Hands
<1>1. worker \in [Workers -> WorkerState]
  BY DEF IInv, QueueTypeOK
<1>2. job' = job /\ \A v \in Workers \ {w} : worker'[v] = worker[v]
  BY <1>1 DEF LeaseSelect, LeaseLost, LeaseRead, HandlerReturns, FailRead
<1>3. CASE (\E j \in Jobs : LeaseSelect(w, j)) \/ LeaseLost(w)
  <2>1. ~Busy(w) /\ ~Busy(w)'
    BY <1>1, <1>3 DEF LeaseSelect, LeaseLost, Busy, WorkerState, Idle
  <2>2. QED
    BY <1>2, <2>1, HandsMove
<1>4. CASE \/ LeaseRead(w)
           \/ \E o \in Outcomes : HandlerReturns(w, o)
           \/ FailRead(w) /\ job[worker[w].id].owner = w
  <2>1. Busy(w)
    BY <1>4 DEF LeaseRead, HandlerReturns, FailRead, Busy
  <2>2. ASSUME NEW o \in Outcomes, HandlerReturns(w, o)
        PROVE  worker'[w].pc \in {"acking", "failing"} /\ worker'[w].id = worker[w].id
    BY <1>1, <2>2 DEF HandlerReturns, WorkerState
  <2>3. ASSUME FailRead(w), job[worker[w].id].owner = w
        PROVE  worker'[w].pc = "settling" /\ worker'[w].id = worker[w].id
    <3> DEFINE retry == /\ worker[w].outcome = "retriable"
                        /\ job[worker[w].id].attempts < MaxAttempts
    <3>1. worker' = [worker EXCEPT ![w].pc = "settling", ![w].retry = retry]
      BY <2>3 DEF FailRead
    <3> HIDE DEF retry
    <3>2. QED
      BY <1>1, <3>1, ZenonT(30) DEF WorkerState
  <2>4. ASSUME LeaseRead(w)
        PROVE  worker'[w].pc = "running" /\ worker'[w].id = worker[w].id
    BY <1>1, <2>4, ZenonT(30) DEF LeaseRead, WorkerState
  <2>5. Busy(w)' /\ worker'[w].id = worker[w].id
    BY <1>4, <2>2, <2>3, <2>4 DEF Busy
  <2>6. QED
    BY <1>2, <2>1, <2>5, HandsMove
<1>5. QED
  BY <1>3, <1>4

\* A worker that is idle afterwards has given its delivery up.
LEMMA GivenUp ==
    ASSUME IInv, NEW w \in Workers, Busy(w), worker' = [worker EXCEPT ![w] = Idle]
    PROVE  /\ worker[w].id \in Jobs
           /\ w \in Hands[worker[w].id]
           /\ Queue!Answer(worker[w].id, w)
<1>1. worker \in [Workers -> WorkerState] /\ worker[w].id \in Jobs
  BY DEF IInv, QueueTypeOK, WorkersInv, WorkerInv, Busy
<1>2. ~Busy(w)' /\ \A v \in Workers \ {w} : worker'[v] = worker[v]
  BY <1>1 DEF Busy, Idle
<1>3. Hands' = [Hands EXCEPT ![worker[w].id] = @ \ {w}]
  BY <1>1, <1>2, HandsMove
<1>4. QED
  BY <1>1, <1>3, HandsAre DEF Queue!Answer

\* The end of a delivery: an ack or a failure of the owner, a late failure, a rejected
\* UPDATE, a lost lease, a death.
LEMMA AnswerRefines ==
    ASSUME IInv, NEW w \in Workers, Busy(w),
           \/ CompleteJob(w) \/ FailRetry(w) \/ FailDead(w) \/ Crash(w)
           \/ FailRead(w) /\ job[worker[w].id].owner # w
    PROVE  /\ worker[w].id \in Jobs /\ w \in Hands[worker[w].id]
           /\ \/ Queue!Ack(worker[w].id, w)
              \/ Queue!Kill(worker[w].id, w)
              \/ Queue!Reopen(worker[w].id, w)
              \/ Queue!Drop(worker[w].id, w)
<1> DEFINE j == worker[w].id
<1>1. worker' = [worker EXCEPT ![w] = Idle]
  BY DEF CompleteJob, FailRetry, FailDead, Crash, FailRead
<1>2. j \in Jobs /\ w \in Hands[j] /\ Queue!Answer(j, w)
  BY <1>1, GivenUp
<1>3. CASE CompleteJob(w)
  BY <1>2, <1>3 DEF CompleteJob, Queue!Ack, Queue!Drop
<1>4. CASE FailDead(w)
  BY <1>2, <1>4 DEF FailDead, Queue!Kill
<1>5. CASE FailRetry(w)
  <2>1. CASE ActiveWithKey(job[j].key) \subseteq {j}
    BY <1>2, <1>5, <2>1, IndexAdmits DEF FailRetry, Queue!Reopen
  <2>2. CASE ~(ActiveWithKey(job[j].key) \subseteq {j})
    BY <1>2, <1>5, <2>2 DEF FailRetry, Queue!Drop
  <2>3. QED
    BY <2>1, <2>2
<1>6. CASE Crash(w) \/ (FailRead(w) /\ job[j].owner # w)
  BY <1>2, <1>6 DEF Crash, FailRead, Queue!Drop
<1>7. QED
  BY <1>2, <1>3, <1>4, <1>5, <1>6

\* A step of a worker, whole.
LEMMA WorkerRefines ==
    ASSUME IInv, NEW w \in Workers, WorkerStep(w) \/ Crash(w)
    PROVE  [Queue!Next]_<<job, Hands>>
<1>1. CASE LeaseClaim(w)
  BY <1>1, ClaimRefines DEF Queue!Next
<1>2. CASE \/ \E j \in Jobs : LeaseSelect(w, j)
           \/ LeaseLost(w)
           \/ LeaseRead(w)
           \/ \E o \in Outcomes : HandlerReturns(w, o)
           \/ FailRead(w) /\ job[worker[w].id].owner = w
  BY <1>2, UnseenSteps
<1>3. CASE \/ CompleteJob(w) \/ FailRetry(w) \/ FailDead(w) \/ (Crash(w) /\ Busy(w))
           \/ FailRead(w) /\ job[worker[w].id].owner # w
  <2>1. Busy(w)
    BY <1>3 DEF CompleteJob, FailRetry, FailDead, FailRead, Busy
  <2>2. QED
    BY <1>3, <2>1, AnswerRefines DEF Queue!Next
<1>4. CASE Crash(w) /\ ~Busy(w)
  <2>1. job' = job /\ ~Busy(w)' /\ \A v \in Workers \ {w} : worker'[v] = worker[v]
    BY <1>4 DEF IInv, QueueTypeOK, Crash, Busy, Idle
  <2>2. QED
    BY <1>4, <2>1, HandsMove
<1>5. QED
  BY <1>1, <1>2, <1>3, <1>4 DEF WorkerStep

\* Every step of the queue is a step of the abstract one, or is not seen.
LEMMA StepRefines == IInv /\ [Next]_vars => [Queue!Next]_<<job, Hands>>
<1> SUFFICES ASSUME IInv, [Next]_vars
             PROVE  [Queue!Next]_<<job, Hands>>
  OBVIOUS
<1>1. ASSUME NEW p \in Producers, NEW k \in Keys, NEW j \in Jobs, EnqueueInsert(p, k, j)
      PROVE  Queue!Next
  BY <1>1, EnqueueRefines DEF Queue!Next
<1>2. ASSUME NEW w \in Workers, RenewJobLease(w)
      PROVE  Queue!Next
  <2>1. worker[w].id \in Jobs /\ w \in Hands[worker[w].id]
    BY <1>2, HandsAre DEF IInv, WorkersInv, WorkerInv, RenewJobLease, AtWork, Busy
  <2>2. Hands' = Hands
    BY <1>2 DEF RenewJobLease, Hands, Busy
  <2>3. Queue!Renew(worker[w].id, w)
    BY <1>2, <2>2 DEF RenewJobLease, Queue!Renew
  <2>4. QED
    BY <2>1, <2>3 DEF Queue!Next
<1>3. ASSUME NEW j \in Jobs, ClockStep(j) \/ LapseUnderHolder(j)
      PROVE  Queue!Next
  <2>1. Hands' = Hands
    BY <1>3 DEF ClockStep, LapseAbandoned, BecomeDue, LapseUnderHolder, Hands, Busy
  <2>2. Queue!Lapse(j) \/ Queue!BackoffEnds(j)
    BY <1>3, <2>1 DEF ClockStep, LapseAbandoned, BecomeDue, LapseUnderHolder, Queue!Lapse,
       Queue!BackoffEnds
  <2>3. QED
    BY <2>2 DEF Queue!Next
<1>4. CASE \/ \E p \in Producers, k \in Keys : EnqueueConflict(p, k)
           \/ \E p \in Producers : EnqueueCollapse(p)
           \/ UNCHANGED vars
  <2>1. job' = job /\ worker' = worker
    BY <1>4 DEF EnqueueConflict, EnqueueCollapse, vars
  <2>2. QED
    BY <2>1 DEF Hands, Busy
<1>5. QED
  BY <1>1, <1>2, <1>3, <1>4, WorkerRefines DEF Next

\* The queue implements DeliveryQueue, for any jobs, keys, workers, producers, delivery cap
\* and number of faults: its statements, run in any order by any number of workers, are
\* seen as whole deliveries and answers.
THEOREM QueueRefined == Spec => ImplementsDeliveryQueue
<1>1. Init => Queue!Init
  <2> SUFFICES ASSUME Init
               PROVE  Queue!Init
    OBVIOUS
  <2>1. \A w \in Workers : ~Busy(w)
    BY DEF Init, Busy, Idle
  <2>2. \A j \in Jobs : {w \in Workers : Busy(w) /\ worker[w].id = j} = {}
    BY <2>1
  <2>3. job = [j \in Jobs |-> Queue!Absent]
    BY DEF Init, AbsentRow, Queue!Absent
  <2>4. Hands = [j \in Jobs |-> {}]
    BY <2>2 DEF Hands
  <2>5. QED
    BY <2>3, <2>4 DEF Queue!Init
<1>2. QED
  BY <1>1, StepRefines, InductiveInvariant, PTL DEF Spec, ImplementsDeliveryQueue,
     Queue!Spec, Queue!deliveryVars

OneKeyInv == job \in [Jobs -> Row] /\ Queue!OneActivePerKey

\* Only an enqueue and a reopening make a job active, and both look for another of its key;
\* nothing else changes a key.
LEMMA OneKeyStep ==
    ASSUME OneKeyInv, [Queue!Next]_(Queue!deliveryVars)
    PROVE  OneKeyInv'
<1>1. ASSUME NEW j \in Jobs, NEW k \in Keys, Queue!Enqueue(j, k)
      PROVE  OneKeyInv'
  BY <1>1 DEF Queue!Enqueue, Queue!Absent, OneKeyInv, Queue!OneActivePerKey, Queue!Active,
     Queue!OnlyOfItsKey, Row, Statuses
<1>2. ASSUME job' \in [Jobs -> Row], \A j \in Jobs : job'[j].key = job[j].key,
             \A j \in Jobs : Queue!Active(j)' =>
                 \/ Queue!Active(j)
                 \/ /\ Queue!OnlyOfItsKey(j, job[j].key)
                    /\ \A i \in Jobs \ {j} : job'[i] = job[i]
      PROVE  OneKeyInv'
  BY <1>2 DEF OneKeyInv, Queue!OneActivePerKey, Queue!Active, Queue!OnlyOfItsKey
<1>3. ASSUME NEW j \in Jobs, NEW w \in Workers, Queue!Deliver(j, w)
      PROVE  OneKeyInv'
  <2>1. /\ job' = [job EXCEPT ![j].status = "leased", ![j].owner = w, ![j].lapsed = FALSE,
                              ![j].attempts = @ + 1]
        /\ Queue!Active(j)
    BY <1>3 DEF Queue!Deliver, Queue!Active
  <2>2. job' \in [Jobs -> Row]
    BY <2>1 DEF OneKeyInv, Row, Statuses
  <2>3. /\ \A i \in Jobs : job'[i].key = job[i].key
        /\ \A i \in Jobs \ {j} : job'[i] = job[i]
    BY <2>1 DEF OneKeyInv, Row
  <2>4. QED
    BY <1>2, <2>1, <2>2, <2>3 DEF Queue!Active
<1>4. ASSUME NEW j \in Jobs, NEW w \in Workers,
             Queue!Renew(j, w) \/ Queue!Drop(j, w)
      PROVE  OneKeyInv'
  <2>1. job' = [job EXCEPT ![j].lapsed = FALSE] \/ job' = job
    BY <1>4 DEF Queue!Renew, Queue!Drop
  <2>2. job' \in [Jobs -> Row]
    BY <2>1 DEF OneKeyInv, Row
  <2>3. \A i \in Jobs : job'[i].key = job[i].key /\ job'[i].status = job[i].status
    BY <2>1 DEF OneKeyInv, Row
  <2>4. QED
    BY <1>2, <2>2, <2>3 DEF Queue!Active
<1>5. ASSUME NEW j \in Jobs, NEW w \in Workers, Queue!Ack(j, w) \/ Queue!Kill(j, w)
      PROVE  OneKeyInv'
  <2>1. PICK s \in {"done", "dead"} :
            job' = [job EXCEPT ![j] = [job[j] EXCEPT !.status = s, !.owner = NoOwner,
                                                     !.lapsed = FALSE]]
    BY <1>5 DEF Queue!Ack, Queue!Kill
  <2>2. job' \in [Jobs -> Row]
    BY <2>1, RowSettled DEF OneKeyInv
  <2>3. /\ \A i \in Jobs : job'[i].key = job[i].key
        /\ \A i \in Jobs \ {j} : job'[i] = job[i]
        /\ job'[j].status \in {"done", "dead"}
    BY <2>1 DEF OneKeyInv, Row
  <2>4. QED
    BY <1>2, <2>2, <2>3 DEF Queue!Active
<1>6. ASSUME NEW j \in Jobs, NEW w \in Workers, Queue!Reopen(j, w)
      PROVE  OneKeyInv'
  <2>1. /\ job' = [job EXCEPT ![j] = [job[j] EXCEPT !.status = "pending", !.owner = NoOwner,
                                                    !.lapsed = FALSE, !.due = FALSE]]
        /\ Queue!OnlyOfItsKey(j, job[j].key)
    BY <1>6 DEF Queue!Reopen
  <2>2. job' \in [Jobs -> Row]
    BY <2>1, RowRetried DEF OneKeyInv
  <2>3. /\ \A i \in Jobs : job'[i].key = job[i].key
        /\ \A i \in Jobs \ {j} : job'[i] = job[i]
    BY <2>1 DEF OneKeyInv, Row
  <2>4. QED
    BY <1>2, <2>1, <2>2, <2>3 DEF Queue!Active
<1>7. ASSUME NEW j \in Jobs, NEW w \in Hands[j] PROVE w \in Workers
  BY <1>7 DEF Hands
<1>8. CASE UNCHANGED Queue!deliveryVars
  BY <1>2, <1>8 DEF Queue!deliveryVars, OneKeyInv, Queue!Active
<1>9. ASSUME NEW j \in Jobs, Queue!Lapse(j) \/ Queue!BackoffEnds(j)
      PROVE  OneKeyInv'
  <2>1. job' = [job EXCEPT ![j].lapsed = TRUE] \/ job' = [job EXCEPT ![j].due = TRUE]
    BY <1>9 DEF Queue!Lapse, Queue!BackoffEnds
  <2>2. job' \in [Jobs -> Row]
    <3>1. CASE job' = [job EXCEPT ![j].lapsed = TRUE]
      BY <3>1 DEF OneKeyInv, Row
    <3>2. CASE job' = [job EXCEPT ![j].due = TRUE]
      BY <3>2 DEF OneKeyInv, Row
    <3>3. QED
      BY <2>1, <3>1, <3>2
  <2>3. \A i \in Jobs : job'[i].key = job[i].key /\ job'[i].status = job[i].status
    BY <2>1 DEF OneKeyInv, Row
  <2>4. QED
    BY <1>2, <2>2, <2>3 DEF Queue!Active
<1>10. QED
  BY <1>1, <1>3, <1>4, <1>5, <1>6, <1>7, <1>8, <1>9 DEF Queue!Next

\* The promises of DeliveryQueue alone keep one active job a key, however late a failure
\* reopens its job.
THEOREM QueueOnePerKey == Queue!Spec => []Queue!OneActivePerKey
<1>1. Queue!Init => OneKeyInv
  BY DEF Queue!Init, Queue!Absent, OneKeyInv, Queue!OneActivePerKey, Queue!Active, Row, Statuses
<1>2. OneKeyInv /\ [Queue!Next]_(Queue!deliveryVars) => OneKeyInv'
  BY OneKeyStep
<1>3. OneKeyInv => Queue!OneActivePerKey
  BY DEF OneKeyInv
<1>4. QED
  BY <1>1, <1>2, <1>3, PTL DEF Queue!Spec

=============================================================================
