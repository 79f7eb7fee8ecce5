-------------------------- MODULE SourceSyncProofs --------------------------
(***************************************************************************)
(* The run row fences the persist, an acknowledged job was mirrored or met *)
(* an open run, and the sync implements SourceMirror: for any jobs, keys,  *)
(* workers, inline callers and any retention.  Inside it the queue behaves *)
(* as JobQueue says.                                                       *)
(***************************************************************************)
EXTENDS SourceSync, FiniteSetTheorems, SequenceTheorems, TLAPS

RunRows == [id: Nat \ {NoRun}, status: {"running", "ok", "error"}]
Inside == {"begun", "mirrored", "failed"}

\* The queue's rows are rows.
Table == job \in [Jobs -> Queue!Row]

\* A worker holds a job whenever it is not idle.
Workplaces ==
    /\ worker \in [Workers -> Queue!WorkerState]
    /\ \A w \in Workers : worker[w].pc # "idle" => worker[w].id \in Jobs

\* A pass is inside exactly while it has a run, carries the stamp of its payload, and
\* is the last to have written once it mirrored.
Places ==
    \A a \in Actors :
        /\ pass[a].pc \in Inside <=> pass[a].run # NoRun
        /\ pass[a].pc # "out" => pass[a].stamp \in Stamps
        /\ pass[a].pc = "mirrored" => mirrored = pass[a].stamp /\ lastSync = pass[a].stamp

\* Finalizing pruned: the limit is exceeded by the open run only.
Pruned == ~OpenRun => Len(runs) <= Retention

Inv == TypeOK /\ RunFencesPersist /\ Table /\ Workplaces /\ Places /\ Pruned



-----------------------------------------------------------------------------
(* The rows.                                                               *)

LEMMA FreshIsFresh ==
    ASSUME Inv
    PROVE  /\ FreshRun \in Nat \ {NoRun}
           /\ RunStatus(FreshRun) = {}
           /\ \A a \in Actors : pass[a].run # FreshRun
<1> DEFINE used == {runs[i].id : i \in DOMAIN runs}
           bound == Retention + Cardinality(Actors) + 2
           range == 1..bound
<1>1. /\ runs \in Seq(RunRows)
      /\ Len(runs) \in Nat
      /\ DOMAIN runs = 1..Len(runs)
      /\ Len(runs) <= Retention + 1
  BY LenProperties DEF Inv, TypeOK, RunRows
<1>2. IsFiniteSet(used) /\ Cardinality(used) <= Len(runs)
  <2> DEFINE idOf == [i \in DOMAIN runs |-> runs[i].id]
  <2>1. idOf \in Surjection(DOMAIN runs, used)
    BY DEF Surjection
  <2>2. IsFiniteSet(DOMAIN runs) /\ Cardinality(DOMAIN runs) = Len(runs)
    <3>1. \A n \in Nat : IsFiniteSet(1..n) /\ Cardinality(1..n) = n
      BY FS_Interval
    <3>2. QED
      BY <1>1, <3>1
  <2>3. QED
    BY <2>1, <2>2, FS_Surjection
<1>3. Cardinality(Actors) \in Nat
  BY SyncAssumption, FS_CardinalityType DEF Actors
<1>4. bound \in Nat /\ IsFiniteSet(range) /\ Cardinality(range) = bound
  <2>1. bound \in Nat /\ 1 \in Int /\ bound \in Int /\ bound > 1
    BY SyncAssumption, <1>3
  <2>2. QED
    BY <2>1, FS_Interval
<1>5. PICK id \in range : id \notin used
  <2>1. SUFFICES ASSUME range \subseteq used PROVE FALSE
    OBVIOUS
  <2>2. Cardinality(range) <= Cardinality(used)
    BY <1>2, <2>1, FS_Subset
  <2>3. Cardinality(used) \in Nat
    BY <1>2, FS_CardinalityType
  <2>4. QED
    BY SyncAssumption, <1>1, <1>2, <1>3, <1>4, <2>2, <2>3
<1>6. id \in Nat \ {NoRun}
  BY <1>4, <1>5 DEF NoRun
<1>7. RunStatus(id) = {}
  BY <1>5 DEF RunStatus
<1>8. \A a \in Actors : pass[a].run # id
  <2>1. SUFFICES ASSUME NEW a \in Actors, pass[a].run = id PROVE FALSE
    OBVIOUS
  <2>2. RunStatus(id) = {"running"}
    BY <1>6, <2>1 DEF Inv, RunFencesPersist
  <2>3. QED
    BY <1>7, <2>2
<1>9. QED
  <2> DEFINE Fresh(n) == RunStatus(n) = {} /\ \A a \in Actors : pass[a].run # n
  <2>1. FreshRun = CHOOSE n \in range : Fresh(n)
    BY DEF FreshRun
  <2>2. Fresh(id)
    BY <1>7, <1>8
  <2>3. FreshRun \in range /\ Fresh(FreshRun)
    BY <1>5, <2>1, <2>2
  <2>4. QED
    BY <1>4, <2>3 DEF NoRun

\* The row beginRun inserts becomes the only open one.
LEMMA RunOpened ==
    ASSUME Inv, ~OpenRun, NEW id \in Nat \ {NoRun}, RunStatus(id) = {},
           runs' = <<[id |-> id, status |-> "running"]>> \o runs
    PROVE  /\ runs' \in Seq(RunRows)
           /\ Len(runs') <= Retention + 1
           /\ OpenRun'
           /\ RunStatus(id)' = {"running"}
           /\ \A i, k \in DOMAIN runs' :
                 runs'[i].status \in Open /\ runs'[k].status \in Open => i = k
<1> DEFINE row == [id |-> id, status |-> "running"]
           one == <<row>>
<1>1. runs \in Seq(RunRows) /\ Len(runs) \in Nat /\ DOMAIN runs = 1..Len(runs)
  BY LenProperties DEF Inv, TypeOK, RunRows
<1>2. row \in RunRows /\ one \in Seq(RunRows) /\ Len(one) = 1 /\ one[1] = row
  BY DEF RunRows
<1>3. /\ runs' \in Seq(RunRows)
      /\ Len(runs') = 1 + Len(runs)
      /\ \A i \in 1..(1 + Len(runs)) : runs'[i] = IF i <= 1 THEN one[i] ELSE runs[i - 1]
  <2> HIDE DEF one
  <2>1. runs' = one \o runs
    BY DEF one
  <2>2. QED
    BY <1>1, <1>2, <2>1, ConcatProperties
<1> HIDE DEF one, row
<1>4. DOMAIN runs' = 1..(1 + Len(runs))
  BY <1>3, LenProperties
<1>5. /\ runs'[1] = row
      /\ \A i \in DOMAIN runs' : i # 1 => i - 1 \in DOMAIN runs /\ runs'[i] = runs[i - 1]
  BY <1>1, <1>2, <1>3, <1>4
<1>6. row.id = id /\ row.status = "running"
  BY DEF row
<1>7. \A i \in DOMAIN runs : runs[i].id # id /\ runs[i].status \notin Open
  BY DEF RunStatus, OpenRun
<1>8. 1 \in DOMAIN runs'
  BY <1>1, <1>4
<1>9. \A i \in DOMAIN runs' : runs'[i].id = id \/ runs'[i].status \in Open => i = 1
  BY <1>5, <1>7
<1>10. RunStatus(id)' = {"running"}
  <2>1. RunStatus(id)' = {runs'[i].status : i \in {n \in DOMAIN runs' : runs'[n].id = id}}
    BY DEF RunStatus
  <2>2. {n \in DOMAIN runs' : runs'[n].id = id} = {1}
    BY <1>5, <1>6, <1>8, <1>9
  <2>3. QED
    BY <1>5, <1>6, <2>1, <2>2
<1>11. Len(runs') <= Retention + 1
  BY SyncAssumption, <1>1, <1>3 DEF Inv, Pruned
<1>12. OpenRun'
  BY <1>5, <1>6, <1>8 DEF OpenRun, Open
<1>13. QED
  BY <1>3, <1>9, <1>10, <1>11, <1>12

\* The row a finalization writes was the only open one, and pruning keeps the limit.
LEMMA RunFinalized ==
    ASSUME Inv, NEW a \in Actors, pass[a].run # NoRun, NEW status \in {"ok", "error"},
           runs' = Finalized(pass[a].run, status)
    PROVE  /\ runs' \in Seq(RunRows)
           /\ Len(runs') <= Retention
           /\ ~OpenRun'
           /\ \A i \in DOMAIN runs' : runs'[i].id = pass[a].run => runs'[i].status = status
<1> DEFINE written == WithStatus(pass[a].run, status)
           kept == IF Len(runs) < Retention THEN Len(runs) ELSE Retention
<1>1. runs \in Seq(RunRows) /\ Len(runs) \in Nat /\ DOMAIN runs = 1..Len(runs)
  BY LenProperties DEF Inv, TypeOK, RunRows
<1>2. kept \in Nat /\ kept <= Len(runs) /\ kept <= Retention
  BY SyncAssumption, <1>1
<1>3. \A i \in DOMAIN runs :
        /\ written[i].id = runs[i].id
        /\ written[i].status = IF runs[i].id = pass[a].run THEN status ELSE runs[i].status
        /\ written[i] \in RunRows
  <2>1. SUFFICES ASSUME NEW i \in DOMAIN runs
                 PROVE  /\ written[i].id = runs[i].id
                        /\ written[i].status = IF runs[i].id = pass[a].run
                                               THEN status ELSE runs[i].status
                        /\ written[i] \in RunRows
    OBVIOUS
  <2>2. runs[i] \in RunRows
    BY <1>1, <2>1, ElementOfSeq
  <2>3. written[i] = IF runs[i].id = pass[a].run
                     THEN [runs[i] EXCEPT !.status = status] ELSE runs[i]
    BY <2>1 DEF WithStatus
  <2>4. QED
    BY <2>2, <2>3 DEF RunRows
<1> HIDE DEF written
<1>4. runs' = SubSeq(written, 1, kept)
  BY DEF Finalized, written
<1> HIDE DEF kept
<1>5. \A i \in 1..kept : written[i] \in RunRows
  BY <1>1, <1>2, <1>3
<1>6. /\ runs' \in Seq(RunRows)
      /\ Len(runs') = kept
      /\ \A i \in 1..kept : runs'[i] = written[i]
  <2>1. /\ SubSeq(written, 1, kept) \in Seq(RunRows)
        /\ Len(SubSeq(written, 1, kept)) = IF 1 <= kept THEN kept - 1 + 1 ELSE 0
        /\ \A i \in 1..kept - 1 + 1 : SubSeq(written, 1, kept)[i] = written[1 + i - 1]
    BY <1>2, <1>5, SubSeqProperties
  <2>2. QED
    BY <1>2, <1>4, <2>1
<1>7. DOMAIN runs' = 1..kept
  BY <1>6, LenProperties
<1>8. \A i \in DOMAIN runs' : i \in DOMAIN runs /\ runs'[i] = written[i]
  BY <1>1, <1>2, <1>6, <1>7
<1>9. PICK n \in DOMAIN runs : runs[n].id = pass[a].run /\ runs[n].status = "running"
  <2>1. RunStatus(pass[a].run) = {"running"}
    BY DEF Inv, RunFencesPersist
  <2>2. QED
    BY <2>1 DEF RunStatus
<1>10. \A i \in DOMAIN runs : runs[i].status \in Open => i = n
  BY <1>9 DEF Inv, RunFencesPersist, Open
<1>11. ~OpenRun'
  BY <1>3, <1>8, <1>9, <1>10 DEF OpenRun, Open
<1>12. \A i \in DOMAIN runs' : runs'[i].id = pass[a].run => runs'[i].status = status
  BY <1>3, <1>8
<1>13. QED
  BY <1>2, <1>6, <1>11, <1>12

-----------------------------------------------------------------------------
(* The queue's side of a step.                                             *)

\* What the queue's statements write is a row.
LEMMA RowSettled ==
    ASSUME NEW r \in Queue!Row, NEW st \in {"done", "dead"}
    PROVE  [r EXCEPT !.status = st, !.owner = NoOwner, !.lapsed = FALSE] \in Queue!Row
BY DEF Queue!Row, Queue!Statuses

LEMMA RowRetried ==
    ASSUME NEW r \in Queue!Row
    PROVE  [r EXCEPT !.status = "pending", !.owner = NoOwner, !.lapsed = FALSE, !.due = FALSE]
               \in Queue!Row
BY DEF Queue!Row, Queue!Statuses

LEMMA RowLeased ==
    ASSUME NEW r \in Queue!Row, NEW w \in Workers, NEW n \in Nat
    PROVE  [r EXCEPT !.status = "leased", !.owner = w, !.lapsed = FALSE, !.attempts = n]
               \in Queue!Row
BY DEF Queue!Row, Queue!Statuses

LEMMA TableKept ==
    ASSUME Inv, Next
    PROVE  Table'
<1>1. /\ job \in [Jobs -> Queue!Row]
      /\ \A w \in Workers : worker[w].pc # "idle" => worker[w].id \in Jobs
  BY DEF Inv, Table, Workplaces
<1>2. ASSUME NEW w \in Workers, Queue!LeaseClaim(w)
      PROVE  job' \in [Jobs -> Queue!Row]
  <2> DEFINE j == worker[w].id
  <2>1. job' = [job EXCEPT ![j].status = "leased", ![j].owner = w, ![j].lapsed = FALSE,
                           ![j].attempts = @ + 1]
    BY <1>2 DEF Queue!LeaseClaim
  <2> DEFINE row == [job[j] EXCEPT !.status = "leased", !.owner = w, !.lapsed = FALSE,
                                   !.attempts = job[j].attempts + 1]
  <2>2. job' = [job EXCEPT ![j] = row]
    BY <2>1
  <2>3. ASSUME j \in Jobs
        PROVE  row \in Queue!Row
    <3>1. job[j] \in Queue!Row /\ job[j].attempts + 1 \in Nat
      BY <1>1, <2>3 DEF Queue!Row
    <3>2. QED
      BY <3>1, RowLeased
  <2> HIDE DEF row, j
  <2>4. QED
    BY <1>1, <2>2, <2>3
<1>3. ASSUME NEW w \in Workers, LoopStep(w)
      PROVE  job' \in [Jobs -> Queue!Row]
  <2> DEFINE j == worker[w].id
  <2>0. ASSUME NEW st \in {"done", "dead"},
               job' = [job EXCEPT ![j].status = st, ![j].owner = NoOwner, ![j].lapsed = FALSE]
        PROVE  job' \in [Jobs -> Queue!Row]
    <3> DEFINE row == [job[j] EXCEPT !.status = st, !.owner = NoOwner, !.lapsed = FALSE]
    <3>1. job' = [job EXCEPT ![j] = row]
      BY <2>0
    <3>2. j \in Jobs => row \in Queue!Row
      BY <1>1, RowSettled
    <3> HIDE DEF row, j
    <3>3. QED
      BY <1>1, <3>1, <3>2
  <2>1. CASE job' = job
    BY <1>1, <2>1, SMTT(30)
  <2>2. CASE Queue!CompleteJob(w) \/ Queue!FailDead(w)
    BY <2>0, <2>1, <2>2 DEF Queue!CompleteJob, Queue!FailDead
  <2>3. CASE Queue!FailRetry(w)
    <3>1. \/ job' = job
          \/ job' = [job EXCEPT ![j].status = "pending", ![j].owner = NoOwner,
                                ![j].lapsed = FALSE, ![j].due = FALSE]
      BY <2>3 DEF Queue!FailRetry
    <3> DEFINE row == [job[j] EXCEPT !.status = "pending", !.owner = NoOwner,
                                     !.lapsed = FALSE, !.due = FALSE]
    <3>2. job' = job \/ job' = [job EXCEPT ![j] = row]
      BY <3>1
    <3>3. j \in Jobs => row \in Queue!Row
      BY <1>1, RowRetried
    <3> HIDE DEF row, j
    <3>4. QED
      BY <1>1, <3>2, <3>3, SMTT(30)
  <2>4. QED
    BY <1>2, <1>3, <2>1, <2>2, <2>3 DEF LoopStep, Queue!LeaseSelect, Queue!LeaseLost,
       Queue!FailRead
<1>4. ASSUME NEW a \in Actors, OpenFails(a) \/ HandlerStep(a)
      PROVE  job' = job
  BY <1>4 DEF OpenFails, HandlerStep, BeginRun, BeginSkips, BeginThrows, Persist, HandlerThrows,
     FinishRun, FailRun, FailRunThrows, Leave, queueVars, Queue!HandlerReturns
<1>5. CASE EnqueueStep
  <2>1. ASSUME NEW p \in Producers, NEW k \in Keys, NEW j \in Jobs, Queue!EnqueueInsert(p, k, j)
        PROVE  job' \in [Jobs -> Queue!Row]
    BY <1>1, <2>1 DEF Queue!EnqueueInsert, Queue!AbsentRow, Queue!Row, Queue!Statuses
  <2>2. QED
    <3>1. \/ job' = job
          \/ \E p \in Producers, k \in Keys, j \in Jobs : Queue!EnqueueInsert(p, k, j)
      BY <1>5 DEF EnqueueStep, Queue!EnqueueConflict, Queue!EnqueueCollapse
    <3>2. QED
      BY <1>1, <2>1, <3>1 DEF Table
<1>6. ASSUME NEW j \in Jobs, ClockStep(j) \/ SlowRun(j)
      PROVE  job' \in [Jobs -> Queue!Row]
  <2>1. \/ job' = [job EXCEPT ![j].lapsed = TRUE]
        \/ job' = [job EXCEPT ![j].due = TRUE]
    BY <1>6 DEF ClockStep, SlowRun, Queue!ClockStep, Queue!LapseAbandoned, Queue!BecomeDue,
       Queue!LapseUnderHolder
  <2>2. \A i \in Jobs : /\ [job[i] EXCEPT !.lapsed = TRUE] \in Queue!Row
                        /\ [job[i] EXCEPT !.due = TRUE] \in Queue!Row
    BY <1>1, ZenonT(60) DEF Queue!Row
  <2>3. QED
    BY <1>1, <2>1, <2>2
<1>7. ASSUME \/ \E w \in Workers : Crash(w)
             \/ \E a \in Inline : StartInline(a) \/ InlineCrash(a)
      PROVE  job' = job
  BY <1>7 DEF Crash, Queue!Crash, StartInline, InlineCrash
<1>8. ASSUME NEW w \in Workers, Deliver(w)
      PROVE  job' = job
  BY <1>8 DEF Deliver, Queue!LeaseRead
<1>9. Workers \subseteq Actors /\ Inline \subseteq Actors
  BY DEF Actors
<1>10. QED
  BY <1>1, <1>3, <1>4, <1>5, <1>6, <1>7, <1>8, <1>9 DEF Next, WorkerStep, Table

Agree ==
    \A w \in Workers :
        /\ (pass[w].pc # "out") <=> (worker[w].pc = "running")
        /\ pass[w].pc # "out" => pass[w].stamp = worker[w].id

\* A worker that stays in the handler, or out of it, keeps agreeing.
LEMMA AgreeElsewhere ==
    ASSUME Inv, UNCHANGED pass, Workplaces',
           \A w \in Workers :
               \/ worker'[w] = worker[w]
               \/ worker[w].pc # "running" /\ worker'[w].pc # "running"
    PROVE  Agree'
BY DEF Inv, TypeOK, Agree

\* An actor that leaves the handler hands its outcome to the queue, if it is a worker.
LEMMA AgreeOnLeave ==
    ASSUME Inv, NEW a \in Actors, NEW o \in Queue!Outcomes, pass[a].pc # "out", Leave(a, o)
    PROVE  Workplaces' /\ Agree'
<1>1. pass' = [pass EXCEPT ![a] = Out] /\ pass \in [Actors -> Pass]
  BY DEF Leave, Inv, TypeOK
<1>2. CASE a \in Workers
  <2>1. Queue!HandlerReturns(a, o)
    BY <1>2 DEF Leave
  <2>2. worker' = [worker EXCEPT
            ![a].outcome = o,
            ![a].pc = IF o \in {"ok", "skipped"} THEN "acking" ELSE "failing"]
    BY <2>1 DEF Queue!HandlerReturns
  <2>3. Workplaces'
    BY <1>2, <2>1, <2>2 DEF Inv, Workplaces, Queue!WorkerState, Queue!Outcomes,
       Queue!HandlerReturns
  <2>4. \A w \in Workers \ {a} : worker'[w] = worker[w] /\ pass'[w] = pass[w]
    BY <1>1, <2>2 DEF Inv, Workplaces
  <2>5. pass'[a].pc = "out" /\ worker'[a].pc # "running"
    BY <1>1, <1>2, <2>2 DEF Inv, Workplaces, Queue!WorkerState, Out
  <2>6. QED
    BY <2>3, <2>4, <2>5 DEF Agree, Inv, TypeOK
<1>3. CASE a \notin Workers
  <2>1. worker' = worker
    BY <1>3 DEF Leave, queueVars
  <2>2. \A w \in Workers : pass'[w] = pass[w]
    BY <1>1, <1>3
  <2>3. QED
    BY <2>1, <2>2 DEF Agree, Inv, TypeOK, Workplaces
<1>4. QED
  BY <1>2, <1>3

\* A step inside the handler leaves the queue alone and keeps who is in it.
LEMMA AgreeInside ==
    ASSUME Inv, NEW a \in Actors, worker' = worker, pass[a].pc # "out",
           \E r \in Pass : /\ pass' = [pass EXCEPT ![a] = r]
                           /\ r.pc # "out" /\ r.stamp = pass[a].stamp
    PROVE  Workplaces' /\ Agree'
<1>1. Workplaces'
  BY DEF Inv, Workplaces
<1>2. pass \in [Actors -> Pass]
  BY DEF Inv, TypeOK
<1>3. PICK r \in Pass : /\ pass' = [pass EXCEPT ![a] = r]
                       /\ r.pc # "out" /\ r.stamp = pass[a].stamp
  OBVIOUS
<1>4. \A w \in Workers : pass'[w] = IF w = a THEN r ELSE pass[w]
  BY <1>2, <1>3 DEF Actors
<1>5. QED
  BY <1>1, <1>3, <1>4 DEF Agree, Inv, TypeOK

LEMMA LoopKept ==
    ASSUME Inv, NEW w \in Workers, LoopStep(w)
    PROVE  Workplaces' /\ Agree'
<1>1. /\ worker \in [Workers -> Queue!WorkerState]
      /\ \A v \in Workers : worker[v].pc # "idle" => worker[v].id \in Jobs
  BY DEF Inv, Workplaces
<1>2. Queue!Idle \in Queue!WorkerState /\ Queue!Idle.pc = "idle"
  BY DEF Queue!Idle, Queue!WorkerState
<1>3. ASSUME NEW j \in Jobs, Queue!LeaseSelect(w, j)
      PROVE  /\ Workplaces'
             /\ \A v \in Workers \ {w} : worker'[v] = worker[v]
             /\ worker[w].pc # "running" /\ worker'[w].pc # "running"
  <2>1. /\ worker[w].pc = "idle"
        /\ worker' = [worker EXCEPT ![w].pc = "claiming", ![w].id = j]
    BY <1>3 DEF Queue!LeaseSelect
  <2>2. worker' \in [Workers -> Queue!WorkerState]
    BY <1>1, <2>1, ZenonT(60) DEF Queue!WorkerState
  <2>3. worker'[w].pc = "claiming" /\ worker'[w].id = j
    BY <1>1, <2>1 DEF Queue!WorkerState
  <2>4. \A v \in Workers \ {w} : worker'[v] = worker[v]
    BY <1>1, <2>1
  <2>5. QED
    BY <1>1, <2>1, <2>2, <2>3, <2>4 DEF Workplaces
<1>4. ASSUME \/ Queue!LeaseLost(w) \/ Queue!CompleteJob(w)
             \/ Queue!FailRetry(w) \/ Queue!FailDead(w)
      PROVE  /\ Workplaces'
             /\ \A v \in Workers \ {w} : worker'[v] = worker[v]
             /\ worker[w].pc # "running" /\ worker'[w].pc # "running"
  <2>1. worker' = [worker EXCEPT ![w] = Queue!Idle] /\ worker[w].pc # "running"
    BY <1>4 DEF Queue!LeaseLost, Queue!CompleteJob, Queue!FailRetry, Queue!FailDead
  <2>2. QED
    BY <1>1, <1>2, <2>1 DEF Workplaces
<1>5. ASSUME Queue!FailRead(w)
      PROVE  /\ Workplaces'
             /\ \A v \in Workers \ {w} : worker'[v] = worker[v]
             /\ worker[w].pc # "running" /\ worker'[w].pc # "running"
  <2>1. worker[w].pc = "failing"
    BY <1>5 DEF Queue!FailRead
  <2>2. CASE worker' = [worker EXCEPT ![w] = Queue!Idle]
    BY <1>1, <1>2, <2>1, <2>2 DEF Workplaces
  <2>3. ASSUME NEW b \in BOOLEAN,
               worker' = [worker EXCEPT ![w].pc = "settling", ![w].retry = b]
        PROVE  /\ Workplaces'
               /\ \A v \in Workers \ {w} : worker'[v] = worker[v]
               /\ worker'[w].pc # "running"
    BY <1>1, <2>1, <2>3, ZenonT(60) DEF Workplaces, Queue!WorkerState
  <2>4. QED
    BY <1>5, <2>1, <2>2, <2>3 DEF Queue!FailRead
<1>6. ASSUME Queue!LeaseClaim(w)
      PROVE  /\ Workplaces'
             /\ \A v \in Workers \ {w} : worker'[v] = worker[v]
             /\ worker[w].pc # "running" /\ worker'[w].pc # "running"
  <2>1. worker[w].pc = "claiming" /\ worker' = [worker EXCEPT ![w].pc = "claimed"]
    BY <1>6 DEF Queue!LeaseClaim
  <2>2. worker' \in [Workers -> Queue!WorkerState]
    BY <1>1, <2>1, ZenonT(60) DEF Queue!WorkerState
  <2>3. worker'[w].pc = "claimed" /\ worker'[w].id = worker[w].id
    BY <1>1, <2>1 DEF Queue!WorkerState
  <2>4. \A v \in Workers \ {w} : worker'[v] = worker[v]
    BY <1>1, <2>1
  <2>5. QED
    BY <1>1, <2>1, <2>2, <2>3, <2>4 DEF Workplaces
<1>7. Workplaces' /\ \A v \in Workers : \/ worker'[v] = worker[v]
                                        \/ worker[v].pc # "running" /\ worker'[v].pc # "running"
  BY <1>3, <1>4, <1>5, <1>6 DEF LoopStep
<1>8. pass' = pass
  BY DEF LoopStep, syncVars
<1>9. QED
  BY <1>7, <1>8, AgreeElsewhere

LEMMA QueueKept ==
    ASSUME Inv, \/ EnqueueStep
                \/ \E a \in Inline : StartInline(a) \/ InlineCrash(a)
                \/ \E j \in Jobs : ClockStep(j) \/ SlowRun(j)
    PROVE  Workplaces' /\ Agree'
<1>1. worker' = worker
  BY DEF EnqueueStep, StartInline, InlineCrash, ClockStep, SlowRun, Queue!EnqueueInsert,
     Queue!EnqueueConflict, Queue!EnqueueCollapse, Queue!ClockStep, Queue!LapseAbandoned,
     Queue!BecomeDue, Queue!LapseUnderHolder
<1>2. \A w \in Workers : pass'[w] = pass[w]
  <2>1. \/ pass' = pass
        \/ \E a \in Inline, r \in Pass \cup {Out} : pass' = [pass EXCEPT ![a] = r]
    <3>1. ASSUME NEW a \in Inline
          PROVE  [Out EXCEPT !.pc = "opening", !.stamp = a] \in Pass
      BY DEF Out, Pass, Stamps, NoRun
    <3>2. QED
      BY <3>1 DEF EnqueueStep, StartInline, InlineCrash, ClockStep, SlowRun, syncVars
  <2>2. pass \in [Actors -> Pass] /\ \A w \in Workers, a \in Inline : w # a
    BY SyncAssumption DEF Inv, TypeOK
  <2>3. QED
    BY <2>1, <2>2 DEF Actors
<1>3. QED
  BY <1>1, <1>2 DEF Agree, Inv, TypeOK, Workplaces

LEMMA DeliveryKept ==
    ASSUME Inv, NEW w \in Workers, Deliver(w) \/ Crash(w)
    PROVE  Workplaces' /\ Agree'
<1>1. /\ worker \in [Workers -> Queue!WorkerState]
      /\ \A v \in Workers : worker[v].pc # "idle" => worker[v].id \in Jobs
      /\ pass \in [Actors -> Pass]
  BY DEF Inv, Workplaces, TypeOK
<1>2. CASE Deliver(w)
  <2> DEFINE entered == [Out EXCEPT !.pc = "opening", !.stamp = worker[w].id]
         n == job[worker[w].id].attempts
         named == job[worker[w].id].owner = w
  <2>1. /\ worker[w].pc = "claimed"
        /\ pass' = [pass EXCEPT ![w] = entered]
        /\ worker' = [worker EXCEPT ![w].pc = "running", ![w].attempt = n,
                                   ![w].named = named]
    BY <1>2, Zenon DEF Deliver, Queue!LeaseRead
  <2>2. n \in Nat /\ named \in BOOLEAN
    BY <1>1, <2>1 DEF Inv, Table, Queue!Row
  <2> HIDE DEF n, named
  <2>3. Workplaces'
    BY <1>1, <2>1, <2>2, ZenonT(60) DEF Workplaces, Queue!WorkerState
  <2>4. /\ worker'[w].pc = "running" /\ worker'[w].id = worker[w].id
        /\ pass'[w] = entered /\ entered.pc # "out" /\ entered.stamp = worker[w].id
    BY <1>1, <2>1, ZenonT(60) DEF Actors, Out, Queue!WorkerState
  <2>5. \A v \in Workers \ {w} : worker'[v] = worker[v] /\ pass'[v] = pass[v]
    BY <1>1, <2>1 DEF Actors
  <2>6. QED
    BY <2>3, <2>4, <2>5 DEF Agree, Inv, TypeOK
<1>3. CASE Crash(w)
  <2>1. worker' = [worker EXCEPT ![w] = Queue!Idle] /\ pass' = [pass EXCEPT ![w] = Out]
    BY <1>3 DEF Crash, Queue!Crash
  <2>2. Queue!Idle \in Queue!WorkerState /\ Queue!Idle.pc = "idle" /\ Out.pc = "out"
    BY DEF Queue!Idle, Queue!WorkerState, Out
  <2>3. Workplaces'
    BY <1>1, <2>1, <2>2 DEF Workplaces
  <2>4. QED
    BY <1>1, <2>1, <2>2, <2>3 DEF Agree, Inv, TypeOK, Actors
<1>4. QED
  BY <1>2, <1>3

-----------------------------------------------------------------------------
(* The handler's side of a step.                                           *)

\* An actor enters with the stamp of its payload, or leaves its run as it is.
LEMMA EnterOrLose ==
    ASSUME Inv, NEW a \in Actors, NEW r \in Pass, Table', Workplaces', Agree',
           pass' = [pass EXCEPT ![a] = r],
           UNCHANGED <<runs, mirrored, lastSync>>,
           r.run = NoRun, r.pc \in {"out", "opening"},
           r.pc = "opening" => r.stamp \in Stamps
    PROVE  Inv'
<1>1. /\ pass \in [Actors -> Pass] /\ pass' \in [Actors -> Pass]
      /\ pass'[a] = r
      /\ \A b \in Actors \ {a} : pass'[b] = pass[b]
  BY DEF Inv, TypeOK
<1>2. TypeOK'
  BY <1>1 DEF Inv, TypeOK, Agree
<1>3. \A id : RunStatus(id)' = RunStatus(id)
  BY DEF RunStatus
<1>4. RunFencesPersist'
  <2>1. \A b \in Actors : pass'[b].run # NoRun => b # a /\ pass[b].run = pass'[b].run
    BY <1>1
  <2>2. QED
    BY <1>3, <2>1 DEF Inv, RunFencesPersist
<1>5. Places'
  BY <1>1 DEF Inv, Places, Inside
<1>6. Pruned'
  BY DEF Inv, Pruned, OpenRun
<1>7. QED
  BY <1>2, <1>4, <1>5, <1>6 DEF Inv

LEMMA BeginRunInv ==
    ASSUME Inv, NEW a \in Actors, BeginRun(a), Table'
    PROVE  Inv'
<1>0. PICK id \in Nat \ {NoRun} : id = FreshRun
  BY FreshIsFresh
<1> DEFINE r == [pass[a] EXCEPT !.pc = "begun", !.run = id]
<1>1. id \in Nat \ {NoRun} /\ RunStatus(id) = {} /\ \A b \in Actors : pass[b].run # id
  BY <1>0, FreshIsFresh
<1>2. /\ pass[a].pc = "opening" /\ ~OpenRun
      /\ runs' = <<[id |-> id, status |-> "running"]>> \o runs
      /\ pass' = [pass EXCEPT ![a] = r]
      /\ UNCHANGED <<worker, mirrored, lastSync>>
  BY <1>0 DEF BeginRun
<1>3. /\ runs' \in Seq(RunRows) /\ Len(runs') <= Retention + 1 /\ OpenRun'
      /\ RunStatus(id)' = {"running"}
      /\ \A i, k \in DOMAIN runs' :
            runs'[i].status \in Open /\ runs'[k].status \in Open => i = k
  BY <1>1, <1>2, RunOpened
<1>4. pass \in [Actors -> Pass] /\ r \in Pass /\ r.pc = "begun" /\ r.run = id
      /\ r.stamp = pass[a].stamp
  BY <1>1 DEF Inv, TypeOK, Pass
<1> HIDE DEF r
<1>5. /\ pass' \in [Actors -> Pass] /\ pass'[a] = r
      /\ \A b \in Actors \ {a} : pass'[b] = pass[b]
  BY <1>2, <1>4
<1>6. Workplaces' /\ Agree'
  BY <1>2, <1>4, AgreeInside
<1>7. \A b \in Actors : pass[b].run = NoRun
  <2>1. SUFFICES ASSUME NEW b \in Actors, pass[b].run # NoRun PROVE FALSE
    OBVIOUS
  <2>2. "running" \in RunStatus(pass[b].run)
    BY <2>1 DEF Inv, RunFencesPersist
  <2>3. QED
    BY <1>2, <2>2 DEF RunStatus, OpenRun, Open
<1>8. TypeOK'
  BY <1>2, <1>3, <1>5, <1>6 DEF Inv, TypeOK, Agree, RunRows
<1>9. RunFencesPersist'
  <2>1. \A b \in Actors : pass'[b].run # NoRun => b = a
    BY <1>5, <1>7
  <2>2. RunStatus(pass[a].run)' = {"running"}
    BY <1>3, <1>4, <1>5 DEF RunStatus
  <2>3. QED
    BY <1>3, <2>1, <2>2 DEF RunFencesPersist
<1>10. Places'
  BY <1>1, <1>2, <1>4, <1>5 DEF Inv, Places, Inside
<1>11. Pruned'
  BY <1>3 DEF Pruned
<1>12. QED
  BY <1>6, <1>8, <1>9, <1>10, <1>11 DEF Inv

\* Persisting, or throwing, keeps the run.
LEMMA InsideInv ==
    ASSUME Inv, NEW a \in Actors, Persist(a) \/ HandlerThrows(a), Table'
    PROVE  Inv'
<1>1. PICK pc \in {"mirrored", "failed"} :
        /\ pass' = [pass EXCEPT ![a].pc = pc]
        /\ pass[a].pc \in Inside
        /\ UNCHANGED <<worker, runs>>
        /\ \/ mirrored' = pass[a].stamp /\ lastSync' = pass[a].stamp
           \/ pc = "failed" /\ UNCHANGED <<mirrored, lastSync>>
  BY DEF Persist, HandlerThrows, Inside
<1> DEFINE r == [pass[a] EXCEPT !.pc = pc]
<1>2. /\ pass \in [Actors -> Pass] /\ r \in Pass /\ r.pc = pc /\ r.run = pass[a].run
      /\ r.stamp = pass[a].stamp /\ pass' = [pass EXCEPT ![a] = r]
  BY <1>1 DEF Inv, TypeOK, Pass
<1> HIDE DEF r
<1>3. /\ pass' \in [Actors -> Pass] /\ pass'[a] = r
      /\ \A b \in Actors \ {a} : pass'[b] = pass[b]
  BY <1>2
<1>4. Workplaces' /\ Agree'
  BY <1>1, <1>2, AgreeInside DEF Inside
<1>5. pass[a].run # NoRun /\ pass[a].stamp \in Stamps
  BY <1>1 DEF Inv, Places, Inside
<1>6. TypeOK'
  BY <1>1, <1>3, <1>4, <1>5 DEF Inv, TypeOK, Agree
<1>7. \A b \in Actors : pass'[b].run = pass[b].run
  BY <1>2, <1>3
<1>8. RunFencesPersist'
  <2>1. \A b \in Actors : RunStatus(pass[b].run)' = RunStatus(pass[b].run)
    BY <1>1, <1>7 DEF RunStatus
  <2>2. QED
    BY <1>1, <1>7, <2>1 DEF Inv, RunFencesPersist
<1>9. \A b \in Actors \ {a} : pass[b].run = NoRun
  BY <1>5 DEF Inv, RunFencesPersist
<1>10. Places'
  <2>1. \A b \in Actors \ {a} : pass[b].pc # "mirrored"
    BY <1>9 DEF Inv, Places, Inside
  <2>2. QED
    BY <1>1, <1>2, <1>3, <1>5, <2>1 DEF Inv, Places, Inside
<1>11. Pruned'
  BY <1>1 DEF Inv, Pruned, OpenRun
<1>12. QED
  BY <1>4, <1>6, <1>8, <1>10, <1>11 DEF Inv

\* Finalizing the run lets the source go.
LEMMA FinalizeInv ==
    ASSUME Inv, NEW a \in Actors, FinishRun(a) \/ FailRun(a), Table'
    PROVE  Inv'
<1>1. PICK status \in {"ok", "error"} :
        /\ runs' = Finalized(pass[a].run, status)
        /\ pass[a].pc \in Inside
        /\ mirrored' = mirrored
        /\ \/ lastSync' = lastSync
           \/ pass[a].pc = "mirrored" /\ lastSync' = pass[a].stamp
  BY DEF FinishRun, FailRun, Inside
<1>2. Workplaces' /\ Agree'
  <2>1. pass[a].pc # "out" /\ \E o \in {"ok", "retriable"} : Leave(a, o)
    BY DEF FinishRun, FailRun
  <2>2. {"ok", "retriable"} \subseteq Queue!Outcomes
    BY DEF Queue!Outcomes
  <2>3. QED
    BY <2>1, <2>2, AgreeOnLeave
<1>3. pass[a].run # NoRun /\ pass[a].stamp \in Stamps
  BY <1>1 DEF Inv, Places, Inside
<1>4. runs' \in Seq(RunRows) /\ Len(runs') <= Retention /\ ~OpenRun'
  BY <1>1, <1>3, RunFinalized
<1>5. pass' = [pass EXCEPT ![a] = Out] /\ pass \in [Actors -> Pass] /\ Out \in Pass
  BY DEF FinishRun, FailRun, Leave, Inv, TypeOK, Out, Pass, NoRun
<1>6. /\ pass' \in [Actors -> Pass] /\ pass'[a] = Out
      /\ \A b \in Actors \ {a} : pass'[b] = pass[b]
  BY <1>5
<1>7. \A b \in Actors : pass'[b].run = NoRun
  BY <1>3, <1>6 DEF Inv, RunFencesPersist, Out
<1>8. TypeOK'
  <2>1. Len(runs') <= Retention + 1
    BY <1>4, SyncAssumption, LenProperties
  <2>2. QED
    BY <1>1, <1>2, <1>3, <1>4, <1>6, <2>1 DEF Inv, TypeOK, Agree, RunRows
<1>9. RunFencesPersist'
  BY <1>4, <1>7 DEF RunFencesPersist, OpenRun
<1>10. Places'
  <2>1. \A b \in Actors : pass'[b].pc \notin Inside
    BY <1>3, <1>6 DEF Inv, RunFencesPersist, Places, Out, Inside
  <2>2. QED
    BY <1>6, <1>7, <2>1 DEF Inv, Places, Inside, Out
<1>11. Pruned'
  BY <1>4 DEF Pruned
<1>12. QED
  BY <1>2, <1>8, <1>9, <1>10, <1>11 DEF Inv

-----------------------------------------------------------------------------
(* The invariant.                                                          *)

LEMMA InitInv == Init => Inv
<1> SUFFICES ASSUME Init PROVE Inv
  OBVIOUS
<1>1. /\ job \in [Jobs -> Queue!Row] /\ worker = [w \in Workers |-> Queue!Idle]
      /\ pass = [a \in Actors |-> Out] /\ runs = << >>
      /\ mirrored = Never /\ lastSync = Never
  BY DEF Init, Queue!Init, Queue!AbsentRow, Queue!Row, Queue!Statuses
<1>2. Queue!Idle \in Queue!WorkerState /\ Queue!Idle.pc = "idle"
  BY DEF Queue!Idle, Queue!WorkerState
<1>3. Out \in Pass /\ Out.pc = "out" /\ Out.run = NoRun
  BY DEF Out, Pass, NoRun
<1>4. runs \in Seq(RunRows) /\ Len(runs) = 0 /\ DOMAIN runs = {}
  BY <1>1, EmptySeq
<1>5. TypeOK
  BY <1>1, <1>2, <1>3, <1>4, SyncAssumption DEF TypeOK, RunRows, Actors
<1>6. RunFencesPersist /\ Places /\ Pruned /\ Table /\ Workplaces
  BY <1>1, <1>2, <1>3, <1>4, SyncAssumption
     DEF RunFencesPersist, Places, Inside, Pruned, Table, Workplaces, Actors
<1>7. QED
  BY <1>5, <1>6 DEF Inv

\* Whoever leaves without finalizing changes nothing but its place.
LEMMA LeaveInv ==
    ASSUME Inv, Table', NEW a \in Actors,
           OpenFails(a) \/ BeginSkips(a) \/ BeginThrows(a) \/ FailRunThrows(a)
    PROVE  Inv'
<1>1. /\ pass[a].pc # "out" /\ \E o \in {"skipped", "retriable", "fatal"} : Leave(a, o)
      /\ UNCHANGED <<runs, mirrored, lastSync>>
  BY DEF OpenFails, BeginSkips, BeginThrows, FailRunThrows
<1>2. {"skipped", "retriable", "fatal"} \subseteq Queue!Outcomes
  BY DEF Queue!Outcomes
<1>3. Workplaces' /\ Agree'
  BY <1>1, <1>2, AgreeOnLeave
<1>4. pass' = [pass EXCEPT ![a] = Out]
  BY <1>1 DEF Leave
<1>5. Out \in Pass /\ Out.pc = "out" /\ Out.run = NoRun
  BY DEF Out, Pass, NoRun
<1>6. QED
  BY <1>1, <1>3, <1>4, <1>5, EnterOrLose

LEMMA HandlerStepInv ==
    ASSUME Inv, Table', NEW a \in Actors, HandlerStep(a)
    PROVE  Inv'
BY LeaveInv, BeginRunInv, InsideInv, FinalizeInv DEF HandlerStep

LEMMA QueueStepInv ==
    ASSUME Inv, Table', Workplaces', Agree', UNCHANGED syncVars
    PROVE  Inv'
<1>1. UNCHANGED <<pass, runs, mirrored, lastSync>>
  BY DEF syncVars
<1>2. TypeOK'
  BY <1>1 DEF Inv, TypeOK, Agree
<1>3. \A a \in Actors : RunStatus(pass[a].run)' = RunStatus(pass[a].run)
  BY <1>1 DEF RunStatus
<1>4. RunFencesPersist'
  BY <1>1, <1>3 DEF Inv, RunFencesPersist
<1>5. Places' /\ Pruned'
  BY <1>1 DEF Inv, Places, Pruned, OpenRun
<1>6. QED
  BY <1>2, <1>4, <1>5 DEF Inv

LEMMA NextInv == Inv /\ [Next]_vars => Inv'
<1> SUFFICES ASSUME Inv, [Next]_vars PROVE Inv'
  OBVIOUS
<1>1. CASE UNCHANGED vars
  <2>1. Table' /\ Workplaces' /\ Agree' /\ UNCHANGED syncVars
    BY <1>1 DEF vars, syncVars, Inv, TypeOK, Table, Workplaces, Agree
  <2>2. QED
    BY <2>1, QueueStepInv
<1>2. CASE Next
  <2>1. Table'
    BY <1>2, TableKept
  <2>2. Workers \subseteq Actors /\ Inline \subseteq Actors
    BY DEF Actors
  <2>3. Out \in Pass /\ Out.pc = "out" /\ Out.run = NoRun
    BY DEF Out, Pass, NoRun
  <2>4. ASSUME NEW a \in Actors, NEW s \in Stamps, Workplaces', Agree',
               pass' = [pass EXCEPT ![a] = [Out EXCEPT !.pc = "opening", !.stamp = s]],
               UNCHANGED <<runs, mirrored, lastSync>>
        PROVE  Inv'
    <3> DEFINE r == [Out EXCEPT !.pc = "opening", !.stamp = s]
    <3>1. r \in Pass /\ r.pc = "opening" /\ r.run = NoRun /\ r.stamp \in Stamps
      BY DEF Out, Pass, NoRun
    <3> HIDE DEF r
    <3>2. pass' = [pass EXCEPT ![a] = r]
      BY <2>4 DEF r
    <3>3. QED
      BY <2>1, <2>4, <3>1, <3>2, EnterOrLose
  <2>5. ASSUME NEW w \in Workers, LoopStep(w)
        PROVE  Inv'
    <3>1. Workplaces' /\ Agree'
      BY <2>5, LoopKept
    <3>2. UNCHANGED syncVars
      BY <2>5 DEF LoopStep
    <3>3. QED
      BY <2>1, <3>1, <3>2, QueueStepInv
  <2>6. CASE EnqueueStep \/ \E j \in Jobs : ClockStep(j) \/ SlowRun(j)
    <3>1. Workplaces' /\ Agree'
      BY <2>6, QueueKept
    <3>2. UNCHANGED syncVars
      BY <2>6 DEF EnqueueStep, ClockStep, SlowRun
    <3>3. QED
      BY <2>1, <3>1, <3>2, QueueStepInv
  <2>7. ASSUME NEW a \in Inline, StartInline(a) \/ InlineCrash(a)
        PROVE  Inv'
    <3>1. Workplaces' /\ Agree'
      BY <2>7, QueueKept
    <3>2. CASE StartInline(a)
      BY <2>2, <2>4, <3>1, <3>2 DEF StartInline, Stamps
    <3>3. CASE InlineCrash(a)
      BY <2>1, <2>2, <2>3, <3>1, <3>3, EnterOrLose DEF InlineCrash
    <3>4. QED
      BY <2>7, <3>2, <3>3
  <2>8. ASSUME NEW w \in Workers, Deliver(w) \/ Crash(w)
        PROVE  Inv'
    <3>1. Workplaces' /\ Agree'
      BY <2>8, DeliveryKept
    <3>2. CASE Deliver(w)
      <4>1. worker[w].pc = "claimed"
        BY <3>2 DEF Deliver, Queue!LeaseRead
      <4>2. worker[w].id \in Stamps
        BY <4>1 DEF Inv, Workplaces, Stamps
      <4>3. QED
        BY <2>2, <2>4, <3>1, <3>2, <4>2 DEF Deliver
    <3>3. CASE Crash(w)
      BY <2>1, <2>2, <2>3, <3>1, <3>3, EnterOrLose DEF Crash
    <3>4. QED
      BY <2>8, <3>2, <3>3
  <2>9. ASSUME NEW w \in Workers, OpenFails(w)
        PROVE  Inv'
    BY <2>1, <2>2, <2>9, LeaveInv
  <2>10. ASSUME NEW a \in Actors, HandlerStep(a)
         PROVE  Inv'
    BY <2>1, <2>10, HandlerStepInv
  <2>11. QED
    BY <1>2, <2>2, <2>5, <2>6, <2>7, <2>8, <2>9, <2>10 DEF Next, WorkerStep
<1>3. QED
  BY <1>1, <1>2

\* The strengthened invariant, from which the other theorems follow.
THEOREM InductiveInvariant == Spec => []Inv
BY InitInv, NextInv, PTL DEF Spec

\* Every variable keeps its type, and the handler's place agrees with the queue's.
THEOREM TypeCorrect == Spec => []TypeOK
<1>1. Inv => TypeOK
  BY DEF Inv
<1>2. QED
  BY <1>1, InductiveInvariant, PTL

\* One pass writes the source at a time and its open run is the only one, whatever is
\* redelivered, whoever syncs inline, and whatever retention prunes (beginRun).
THEOREM FenceHolds == Spec => []RunFencesPersist
<1>1. Inv => RunFencesPersist
  BY DEF Inv
<1>2. QED
  BY <1>1, InductiveInvariant, PTL

-----------------------------------------------------------------------------
(* What an acknowledgement means.                                          *)

\* The queue hears of a good end from a skip or a finished run only.
LEMMA WhoAcks ==
    ASSUME Inv, Next, NEW w \in Workers, pass[w].pc # "out", worker'[w].pc = "acking"
    PROVE  BeginSkips(w) \/ FinishRun(w)
<1>1. worker[w].pc = "running" /\ worker \in [Workers -> Queue!WorkerState]
  BY DEF Inv, TypeOK, Workplaces
<1>2. SUFFICES ASSUME ~BeginSkips(w), ~FinishRun(w)
               PROVE  worker'[w] = worker[w] \/ worker'[w].pc # "acking"
  BY <1>1
<1>3. ASSUME NEW a \in Actors, OpenFails(a) \/ HandlerStep(a)
      PROVE  worker'[w] = worker[w] \/ worker'[w].pc # "acking"
  <2>1. ASSUME NEW o \in {"ok", "skipped", "retriable", "fatal"}, Leave(a, o),
               a = w => o \in {"retriable", "fatal"}
        PROVE  worker'[w] = worker[w] \/ worker'[w].pc # "acking"
    <3>1. CASE a \notin Workers
      BY <2>1, <3>1 DEF Leave, queueVars
    <3>2. CASE a \in Workers
      <4>1. worker' = [worker EXCEPT
                 ![a].outcome = o,
                 ![a].pc = IF o \in {"ok", "skipped"} THEN "acking" ELSE "failing"]
        BY <2>1, <3>2 DEF Leave, Queue!HandlerReturns
      <4>2. QED
        BY <1>1, <2>1, <3>2, <4>1 DEF Queue!WorkerState
    <3>3. QED
      BY <3>1, <3>2
  <2>2. CASE OpenFails(a)
    BY <2>1, <2>2 DEF OpenFails
  <2>3. CASE BeginThrows(a) \/ FailRun(a) \/ FailRunThrows(a)
    BY <2>1, <2>3 DEF BeginThrows, FailRun, FailRunThrows
  <2>4. CASE BeginSkips(a) \/ FinishRun(a)
    BY <1>2, <2>1, <2>4 DEF BeginSkips, FinishRun
  <2>5. CASE BeginRun(a) \/ Persist(a) \/ HandlerThrows(a)
    BY <2>5, SMTT(30) DEF BeginRun, Persist, HandlerThrows
  <2>6. QED
    BY <1>3, <2>2, <2>3, <2>4, <2>5 DEF HandlerStep
<1>4. ASSUME NEW v \in Workers, LoopStep(v)
      PROVE  worker'[w] = worker[w]
  <2>1. v # w
    BY <1>1, <1>4 DEF LoopStep, Queue!LeaseSelect, Queue!LeaseClaim, Queue!LeaseLost,
       Queue!CompleteJob, Queue!FailRead, Queue!FailRetry, Queue!FailDead
  <2>2. QED
    BY <1>1, <1>4, <2>1, SMTT(30) DEF LoopStep, Queue!LeaseSelect, Queue!LeaseClaim,
       Queue!LeaseLost, Queue!CompleteJob, Queue!FailRead, Queue!FailRetry, Queue!FailDead
<1>5. ASSUME NEW v \in Workers, Deliver(v)
      PROVE  worker'[w] = worker[w]
  BY <1>1, <1>5, ZenonT(30) DEF Deliver, Queue!LeaseRead
<1>6. ASSUME NEW v \in Workers, Crash(v)
      PROVE  worker'[w] = worker[w] \/ worker'[w].pc # "acking"
  BY <1>1, <1>6, SMTT(30) DEF Crash, Queue!Crash, Queue!Idle
<1>7. ASSUME \/ EnqueueStep
             \/ \E a \in Inline : StartInline(a) \/ InlineCrash(a)
             \/ \E j \in Jobs : ClockStep(j) \/ SlowRun(j)
      PROVE  worker' = worker
  BY <1>7 DEF EnqueueStep, StartInline, InlineCrash, ClockStep, SlowRun, Queue!EnqueueInsert,
     Queue!EnqueueConflict, Queue!EnqueueCollapse, Queue!ClockStep, Queue!LapseAbandoned,
     Queue!BecomeDue, Queue!LapseUnderHolder
<1>8. Workers \subseteq Actors /\ Inline \subseteq Actors
  BY DEF Actors
<1>9. QED
  BY <1>3, <1>4, <1>5, <1>6, <1>7, <1>8 DEF Next, WorkerStep

LEMMA AckedAsDone ==
    ASSUME Inv, Next, NEW w \in Workers, pass[w].pc # "out", worker'[w].pc = "acking"
    PROVE  \/ worker'[w].outcome = "skipped" /\ OpenRun
           \/ /\ worker'[w].outcome = "ok"
              /\ mirrored = worker[w].id
              /\ lastSync' = mirrored
              /\ \A i \in DOMAIN runs' :
                    runs'[i].id = pass[w].run => runs'[i].status = "ok"
<1>1. ASSUME NEW o \in {"ok", "skipped"}, Leave(w, o)
      PROVE  worker'[w].outcome = o
  <2>1. worker' = [worker EXCEPT
               ![w].outcome = o,
               ![w].pc = IF o \in {"ok", "skipped"} THEN "acking" ELSE "failing"]
    BY <1>1 DEF Leave, Queue!HandlerReturns
  <2>2. QED
    BY <2>1 DEF Inv, Workplaces, Queue!WorkerState
<1>2. CASE BeginSkips(w)
  BY <1>1, <1>2 DEF BeginSkips
<1>3. CASE FinishRun(w)
  <2>1. /\ pass[w].pc = "mirrored" /\ runs' = Finalized(pass[w].run, "ok")
        /\ lastSync' = pass[w].stamp /\ Leave(w, "ok")
    BY <1>3 DEF FinishRun
  <2>2. w \in Actors
    BY DEF Actors
  <2>3. pass[w].run # NoRun /\ mirrored = pass[w].stamp
    BY <2>1, <2>2 DEF Inv, Places, Inside
  <2>4. pass[w].stamp = worker[w].id
    BY DEF Inv, TypeOK
  <2>5. QED
    BY <1>1, <2>1, <2>2, <2>3, <2>4, RunFinalized
<1>4. QED
  BY <1>2, <1>3, WhoAcks

\* A job the queue acknowledges was mirrored, with its run and its last_sync_at, or met
\* an open run: a failure is never acked (the outcomes of jobExecutor and runSyncJob).
THEOREM DoneHolds == Spec => DoneWasFinishedOrSkipped
<1> DEFINE Done == \A w \in Workers : pass[w].pc # "out" /\ worker'[w].pc = "acking" =>
                     \/ worker'[w].outcome = "skipped" /\ OpenRun
                     \/ /\ worker'[w].outcome = "ok"
                        /\ mirrored = worker[w].id
                        /\ lastSync' = mirrored
                        /\ \A i \in DOMAIN runs' :
                              runs'[i].id = pass[w].run => runs'[i].status = "ok"
<1>1. Inv /\ [Next]_vars => [Done]_vars
  BY AckedAsDone
<1>2. QED
  BY <1>1, InductiveInvariant, PTL DEF Spec, DoneWasFinishedOrSkipped

-----------------------------------------------------------------------------
(* The refinement of SourceMirror.                                         *)

\* The only pass with a run is the one the mapping chooses.
LEMMA OnlyHolder ==
    ASSUME NEW p, NEW a \in Actors, p[a].run # NoRun,
           \A b, c \in Actors : p[b].run # NoRun /\ p[c].run # NoRun => b = c
    PROVE  (CHOOSE b \in Actors : p[b].run # NoRun) = a
OBVIOUS

LEMMA Holds ==
    ASSUME Inv, NEW a \in Actors, pass[a].run # NoRun
    PROVE  HolderOf = a /\ OpenRun
<1>1. RunStatus(pass[a].run) = {"running"}
  BY DEF Inv, RunFencesPersist
<1>2. OpenRun
  BY <1>1 DEF RunStatus, OpenRun, Open
<1>3. QED
  BY <1>2, OnlyHolder DEF HolderOf, Inv, RunFencesPersist

LEMMA HoldsNext ==
    ASSUME Inv', NEW a \in Actors, pass'[a].run # NoRun
    PROVE  HolderOf' = a /\ OpenRun'
<1>1. RunStatus(pass[a].run)' = {"running"}
  BY DEF Inv, RunFencesPersist
<1>2. OpenRun'
  BY <1>1 DEF RunStatus, OpenRun, Open
<1>3. \A b, c \in Actors : pass'[b].run # NoRun /\ pass'[c].run # NoRun => b = c
  BY DEF Inv, RunFencesPersist
<1>4. QED
  BY <1>2, <1>3, OnlyHolder DEF HolderOf

LEMMA HolderUnchanged ==
    ASSUME runs' = runs, \A a \in Actors : pass'[a].run = pass[a].run
    PROVE  HolderOf' = HolderOf
BY DEF HolderOf, OpenRun

\* A pass that goes without finalizing loses the source, or nothing.
LEMMA LeavingRefines ==
    ASSUME Inv, Inv', NEW a \in Actors, pass' = [pass EXCEPT ![a] = Out],
           UNCHANGED <<runs, mirrored, lastSync>>
    PROVE  [Mirror!Next]_(Mirror!mirrorVars)
<1>1. pass \in [Actors -> Pass] /\ Out.run = NoRun
  BY DEF Inv, TypeOK, Out
<1>2. CASE pass[a].run = NoRun
  <2>1. HolderOf' = HolderOf
    BY <1>1, <1>2, HolderUnchanged
  <2>2. QED
    BY <2>1 DEF Mirror!mirrorVars
<1>3. CASE pass[a].run # NoRun
  <2>1. HolderOf = a /\ OpenRun
    BY <1>3, Holds
  <2>2. \A b \in Actors : pass'[b].run = NoRun
    BY <1>1, <1>3 DEF Inv, RunFencesPersist
  <2>3. HolderOf' = Lost
    BY <2>1, <2>2 DEF HolderOf, OpenRun
  <2>4. Mirror!Lose(a)
    BY <2>1, <2>3 DEF Mirror!Lose
  <2>5. QED
    BY <2>4 DEF Mirror!Next
<1>4. QED
  BY <1>2, <1>3

LEMMA HandlerRefines ==
    ASSUME Inv, Inv', NEW a \in Actors, HandlerStep(a)
    PROVE  [Mirror!Next]_(Mirror!mirrorVars)
<1>1. pass \in [Actors -> Pass]
  BY DEF Inv, TypeOK
<1>2. CASE BeginRun(a)
  <2>1. HolderOf = Free
    BY <1>2 DEF BeginRun, HolderOf
  <2>2. pass'[a].run # NoRun
    BY <1>1, <1>2, FreshIsFresh DEF BeginRun, Pass
  <2>3. HolderOf' = a
    BY <2>2, HoldsNext
  <2>4. Mirror!Begin(a)
    BY <1>2, <2>1, <2>3 DEF BeginRun, Mirror!Begin
  <2>5. QED
    BY <2>4 DEF Mirror!Next
<1>3. CASE Persist(a)
  <2>1. pass[a].run # NoRun /\ pass[a].stamp \in Stamps
    BY <1>3 DEF Persist, Inv, Places, Inside
  <2>2. \A b \in Actors : pass'[b].run = pass[b].run
    BY <1>1, <1>3 DEF Persist, Pass
  <2>3. HolderOf = a /\ HolderOf' = a
    BY <2>1, <2>2, Holds, HoldsNext
  <2>4. Mirror!Write(a, pass[a].stamp)
    BY <1>3, <2>3 DEF Persist, Mirror!Write
  <2>5. QED
    BY <2>1, <2>4 DEF Mirror!Next
<1>4. CASE HandlerThrows(a)
  <2>1. \A b \in Actors : pass'[b].run = pass[b].run
    BY <1>1, <1>4 DEF HandlerThrows, Pass
  <2>2. QED
    BY <1>4, <2>1, HolderUnchanged DEF HandlerThrows, Mirror!mirrorVars
<1>5. CASE FinishRun(a) \/ FailRun(a)
  <2>1. PICK status \in {"ok", "error"} :
          /\ runs' = Finalized(pass[a].run, status)
          /\ pass[a].pc \in Inside
          /\ mirrored' = mirrored
          /\ \/ lastSync' = lastSync
             \/ pass[a].pc = "mirrored" /\ lastSync' = pass[a].stamp
    BY <1>5 DEF FinishRun, FailRun, Inside
  <2>2. pass[a].run # NoRun
    BY <2>1 DEF Inv, Places
  <2>3. HolderOf = a
    BY <2>2, Holds
  <2>4. ~OpenRun'
    BY <2>1, <2>2, RunFinalized
  <2>5. HolderOf' = Free
    BY <2>4 DEF HolderOf
  <2>6. lastSync' = lastSync
    BY <2>1 DEF Inv, Places
  <2>7. Mirror!End(a)
    BY <2>1, <2>3, <2>5, <2>6 DEF Mirror!End
  <2>8. QED
    BY <2>7 DEF Mirror!Next
<1>6. CASE BeginSkips(a) \/ BeginThrows(a) \/ FailRunThrows(a)
  BY <1>6, LeavingRefines DEF BeginSkips, BeginThrows, FailRunThrows, Leave
<1>7. QED
  BY <1>2, <1>3, <1>4, <1>5, <1>6 DEF HandlerStep

LEMMA StepRefines == Inv /\ Inv' /\ [Next]_vars => [Mirror!Next]_(Mirror!mirrorVars)
<1> SUFFICES ASSUME Inv, Inv', [Next]_vars
             PROVE  [Mirror!Next]_(Mirror!mirrorVars)
  OBVIOUS
<1>1. /\ pass \in [Actors -> Pass] /\ Out.run = NoRun
      /\ Workers \subseteq Actors /\ Inline \subseteq Actors
  BY DEF Inv, TypeOK, Out, Actors
<1>2. ASSUME UNCHANGED syncVars
      PROVE  UNCHANGED Mirror!mirrorVars
  BY <1>2, HolderUnchanged DEF syncVars, Mirror!mirrorVars
<1>3. ASSUME NEW a \in Actors, NEW s,
             pass' = [pass EXCEPT ![a] = [Out EXCEPT !.pc = "opening", !.stamp = s]],
             pass[a].run = NoRun, UNCHANGED <<runs, mirrored, lastSync>>
      PROVE  UNCHANGED Mirror!mirrorVars
  <2>1. [Out EXCEPT !.pc = "opening", !.stamp = s].run = NoRun
    BY DEF Out
  <2>2. \A b \in Actors : pass'[b].run = pass[b].run
    BY <1>1, <1>3, <2>1
  <2>3. QED
    BY <1>3, <2>2, HolderUnchanged DEF Mirror!mirrorVars
<1>4. ASSUME NEW w \in Workers, Deliver(w)
      PROVE  UNCHANGED Mirror!mirrorVars
  <2>1. worker[w].pc # "running"
    BY <1>4 DEF Deliver, Queue!LeaseRead
  <2>2. pass[w].run = NoRun
    BY <1>1, <2>1 DEF Inv, TypeOK, Places, Inside
  <2>3. QED
    BY <1>1, <1>3, <1>4, <2>2 DEF Deliver
<1>5. ASSUME NEW a \in Inline, StartInline(a)
      PROVE  UNCHANGED Mirror!mirrorVars
  BY <1>1, <1>3, <1>5 DEF StartInline, Inv, Places, Inside
<1>6. ASSUME NEW a \in Actors, OpenFails(a) \/ Crash(a) \/ InlineCrash(a)
      PROVE  [Mirror!Next]_(Mirror!mirrorVars)
  BY <1>6, LeavingRefines DEF OpenFails, Crash, InlineCrash, Leave
<1>7. ASSUME NEW a \in Actors, HandlerStep(a)
      PROVE  [Mirror!Next]_(Mirror!mirrorVars)
  BY <1>7, HandlerRefines
<1>8. CASE UNCHANGED vars
  BY <1>2, <1>8 DEF vars, syncVars
<1>9. QED
  BY <1>1, <1>2, <1>4, <1>5, <1>6, <1>7, <1>8 DEF Next, WorkerStep, EnqueueStep, LoopStep,
     ClockStep, SlowRun

\* The queue, the run rows, the redeliveries and the crashes implement SourceMirror:
\* positions and last_sync_at are written together, by the holder of the source alone.
THEOREM MirrorRefined == Spec => ImplementsMirror
<1>1. Init => Mirror!Init
  BY DEF Init, Mirror!Init, HolderOf, OpenRun
<1>2. QED
  BY <1>1, StepRefines, InductiveInvariant, PTL DEF Spec, ImplementsMirror, Mirror!Spec

-----------------------------------------------------------------------------
(* The queue inside the sync.                                              *)

\* Where a worker leaves the handler is the queue's HandlerReturns; what an inline caller
\* does, and what either does inside, is nothing to the queue.
LEMMA LeaveOfQueue ==
    ASSUME NEW a \in Actors, NEW outcome \in Queue!Outcomes, Leave(a, outcome)
    PROVE  [Queue!Next]_queueVars
<1>1. CASE a \in Workers
  <2>1. Queue!HandlerReturns(a, outcome)
    BY <1>1 DEF Leave
  <2>2. Queue!WorkerStep(a)
    BY <2>1 DEF Queue!WorkerStep
  <2>3. QED
    BY <1>1, <2>2 DEF Queue!Next
<1>2. CASE a \notin Workers
  BY <1>2 DEF Leave
<1>3. QED
  BY <1>1, <1>2

LEMMA StepOfQueue == ASSUME [Next]_vars PROVE [Queue!Next]_queueVars
<1>1. ASSUME NEW a \in Actors, HandlerStep(a)
      PROVE  [Queue!Next]_queueVars
  <2>1. CASE BeginRun(a) \/ Persist(a) \/ HandlerThrows(a)
    BY <2>1 DEF BeginRun, Persist, HandlerThrows, queueVars
  <2>2. CASE ~(BeginRun(a) \/ Persist(a) \/ HandlerThrows(a))
    <3>1. PICK outcome \in Queue!Outcomes : Leave(a, outcome)
      BY <1>1, <2>2 DEF HandlerStep, BeginSkips, BeginThrows, FinishRun, FailRun, FailRunThrows,
         Queue!Outcomes
    <3>2. QED
      BY <3>1, LeaveOfQueue
  <2>3. QED
    BY <2>1, <2>2
<1>2. ASSUME NEW w \in Workers, LoopStep(w) \/ Deliver(w)
      PROVE  Queue!Next
  <2>1. Queue!WorkerStep(w)
    BY <1>2 DEF LoopStep, Deliver, Queue!WorkerStep
  <2>2. QED
    BY <2>1 DEF Queue!Next
<1>3. ASSUME NEW w \in Workers, OpenFails(w)
      PROVE  [Queue!Next]_queueVars
  BY <1>3, LeaveOfQueue DEF OpenFails, Actors, Queue!Outcomes
<1>4. CASE EnqueueStep
  BY <1>4 DEF EnqueueStep, Queue!Next
<1>5. CASE \/ \E a \in Inline : StartInline(a) \/ InlineCrash(a)
           \/ UNCHANGED vars
  BY <1>5 DEF StartInline, InlineCrash, vars, queueVars
<1>6. CASE \E w \in Workers : Crash(w)
  BY <1>6 DEF Crash, Queue!Next
<1>7. CASE \E j \in Jobs : ClockStep(j) \/ SlowRun(j)
  BY <1>7 DEF ClockStep, SlowRun, Queue!Next
<1>8. Inline \subseteq Actors /\ Workers \subseteq Actors
  BY DEF Actors
<1>9. QED
  BY <1>1, <1>2, <1>3, <1>4, <1>5, <1>6, <1>7, <1>8 DEF Next, WorkerStep

\* The sync does nothing to the queue that the queue by itself does not (LeaseRead goes with
\* the entry of the handler, HandlerReturns with its exit): where QueueAssumption is met, what
\* is proved of JobQueue is true of the queue the handler runs in.
THEOREM QueueInside == Spec => Queue!Spec
<1>1. Init => Queue!Init
  BY DEF Init
<1>2. [Next]_vars => [Queue!Next]_(Queue!vars)
  BY StepOfQueue DEF queueVars, Queue!vars
<1>3. QED
  BY <1>1, <1>2, PTL DEF Spec, Queue!Spec

=============================================================================
