------------------------ MODULE StoreTransactionProofs ------------------------
(***************************************************************************)
(* The unit of work that opened a transaction is all or nothing, and what  *)
(* joined it in time is kept with it, for any calls, statements and number *)
(* of failures.                                                            *)
(*                                                                         *)
(* From the same invariant, the store implements UnitOfWork, whose         *)
(* promises alone make a unit all or nothing.                              *)
(***************************************************************************)
EXTENDS StoreTransaction, TLAPS

\* The call holds the transaction, from its Begin to its Leave.
Leads(c) == call[c].role = c /\ call[c].pc \notin {"idle"} \cup Ended

OuterPc == {"opening", "working", "draining", "flushing", "committing", "rolling", "settled",
            "leaving", "returned", "threw"}
InnerPc == {"idle", "waiting", "working", "returned", "threw"}

\* One call at most is active, and the store's client, gate and depth are its own.
Control ==
    /\ \A c, d \in Calls : Leads(c) /\ Leads(d) => c = d
    /\ depth = 1 <=> \E c \in Calls : Leads(c)
    /\ depth = 0 => gate = "none" /\ client = Base /\ open = {}
    /\ \A c \in Calls : Leads(c) =>
          /\ gate = CASE call[c].pc = "opening" -> "pending"
                      [] call[c].pc = "leaving" -> "none"
                      [] OTHER -> "open"
          /\ client = IF call[c].pc \in {"opening", "leaving"} THEN Base ELSE c
          /\ open = IF call[c].pc \in {"opening", "settled", "leaving"} THEN {} ELSE {c}
    /\ open = {} => pending = {}

\* What joined is in the joins in flight until it settles, and waits only for an opening.
RolesOf(c) ==
    /\ call[c].pc = "idle" => call[c].role = Base /\ call[c].made = 0 /\ call[c].ok
                             /\ ~call[c].lost
    /\ call[c].role = c => call[c].pc \in OuterPc /\ c \notin joins
    /\ call[c].role # c =>
          /\ call[c].pc \in InnerPc
          /\ c \in joins <=> call[c].pc \in {"waiting", "working"}
    /\ call[c].pc = "waiting" =>
          /\ call[c].made = 0 /\ call[c].role \in Calls
          /\ call[call[c].role].pc = "opening"
    /\ call[c].role \in Calls \ {c} =>
          /\ call[call[c].role].role = call[c].role
          /\ call[call[c].role].pc = "opening" => call[c].pc = "waiting"
    /\ call[c].pc = "returned" => call[c].made = Writes
Roles == \A c \in Calls : RolesOf(c)

\* The statements of the call that holds the transaction.
Kept(c) ==
    \/ call[c].pc = "returned" \/ call[c].lost
    \/ call[c].pc \in {"settled", "leaving"} /\ call[c].ok
OuterOf(c) ==
    /\ \A k \in 1..Writes : <<c, k>> \in durable \cup pending => k <= call[c].made
    /\ call[c].role = c =>
          /\ call[c].pc = "opening" => call[c].ok /\ call[c].made = 0
          /\ call[c].pc = "rolling" => ~call[c].ok
          /\ call[c].pc \in {"working", "draining", "flushing", "committing"} =>
                call[c].ok /\ {c} \X (1..call[c].made) \subseteq pending
          /\ \/ call[c].pc \in {"draining", "flushing", "committing"}
             \/ call[c].pc \in {"settled", "leaving"} /\ call[c].ok
             => call[c].made = Writes
          /\ call[c].pc \in {"settled", "leaving", "returned", "threw"} =>
                \A k \in 1..Writes : <<c, k>> \notin pending
          /\ call[c].lost => call[c].pc \in {"settled", "leaving", "threw"} /\ ~call[c].ok
          /\ IF Kept(c)
             THEN {c} \X (1..Writes) \subseteq durable
             ELSE \A k \in 1..Writes : <<c, k>> \notin durable
OuterData == \A c \in Calls : OuterOf(c)

\* The statements of a call that joined in time.
JoinOf(c, o) ==
    (c # o /\ call[c].role = o /\ ~call[c].late) =>
        /\ call[o].pc \in {"working", "draining"} => {c} \X (1..call[c].made) \subseteq pending
        /\ call[o].pc \in {"flushing", "committing"} =>
              call[c].pc \in Ended /\ {c} \X (1..call[c].made) \subseteq pending
        /\ (call[o].pc \in {"settled", "leaving"} /\ call[o].ok) \/ call[o].pc = "returned" =>
              call[c].pc \in Ended /\ {c} \X (1..call[c].made) \subseteq durable
JoinData == \A c, o \in Calls : JoinOf(c, o)

StoreInv == StoreTypeOK /\ Control /\ Roles /\ OuterData /\ JoinData

-----------------------------------------------------------------------------
(* Types.                                                                  *)

LEMMA OuterIs ==
    ASSUME Control, NEW o \in Calls, Leads(o)
    PROVE  Outer = o
BY DEF Control, Leads, Outer

LEMMA CallTyped ==
    ASSUME StoreAssumption, StoreTypeOK, Control, NEW c \in Calls,
           Begin(c) \/ Join(c) \/ OpenFails(c) \/ WorkThrows(c) \/ Progress(c)
    PROVE  call' \in [Calls -> Call]
<1>1. call \in [Calls -> Call] /\ call[c] \in Call
  BY DEF StoreTypeOK
<1>2. CASE Begin(c)
  BY <1>1, <1>2 DEF Begin, Call
<1>3. CASE Join(c)
  <2>1. PICK o \in Calls : Leads(o)
    BY <1>3 DEF Join, Control, StoreTypeOK
  <2>2. Outer \in Calls
    BY <2>1, OuterIs
  <2>3. (call[Outer].pc \in {"flushing", "committing", "settled"}) \in BOOLEAN
    OBVIOUS
  <2>4. PICK late \in BOOLEAN, pc \in {"waiting", "working"}, role \in Calls \cup {Base} :
           call' = [call EXCEPT ![c].pc = pc, ![c].role = role, ![c].late = late]
    <3> DEFINE pc == IF gate = "pending" THEN "waiting" ELSE "working"
               role == IF gate = "none" THEN Base ELSE Outer
               late == call[Outer].pc \in {"flushing", "committing", "settled"}
    <3>1. call' = [call EXCEPT ![c].pc = pc, ![c].role = role, ![c].late = late]
      BY <1>3 DEF Join
    <3>2. pc \in {"waiting", "working"} /\ role \in Calls \cup {Base} /\ late \in BOOLEAN
      BY <2>2
    <3> HIDE DEF pc, role, late
    <3>3. QED
      BY <3>1, <3>2
  <2>5. QED
    BY <1>1, <2>4 DEF Call
<1>4. CASE Opened(c)
  BY <1>1, <1>4 DEF Opened, Call
<1>5. CASE OpenFails(c)
  BY <1>1, <1>5, ZenonT(60) DEF OpenFails, Call
<1>6. ASSUME NEW ok \in BOOLEAN, WorkEnds(c, ok)
      PROVE  call' \in [Calls -> Call]
  BY <1>1, <1>6 DEF WorkEnds, Call
<1>7. ASSUME NEW pc \in {"flushing", "committing", "settled", "leaving", "returned", "threw"},
             At(c, pc)
      PROVE  call' \in [Calls -> Call]
  BY <1>1, <1>7 DEF At, Call
<1>8. CASE Write(c)
  <2>1. CASE WorkEnds(c, FALSE)
    BY <1>6, <2>1
  <2>2. CASE call' = [call EXCEPT ![c].made = @ + 1]
    BY <1>1, <1>8, <2>2 DEF Write, Call, StoreAssumption
  <2>3. QED
    BY <1>8, <2>1, <2>2 DEF Write
<1>9. CASE RunBeforeCommit(c) \/ Commit(c)
  <2>1. CASE call' = [call EXCEPT ![c].pc = "rolling", ![c].ok = FALSE]
    BY <1>1, <2>1 DEF Call
  <2>2. CASE call' = [call EXCEPT ![c].pc = "settled", ![c].ok = FALSE, ![c].lost = TRUE]
    BY <1>1, <2>2 DEF Call
  <2>3. QED
    BY <1>7, <1>9, <2>1, <2>2 DEF RunBeforeCommit, Commit
<1>10. CASE WorkReturns(c) \/ WorkThrows(c)
  BY <1>6, <1>10 DEF WorkReturns, WorkThrows
<1>11. CASE DrainJoins(c) \/ Rollback(c) \/ RestoreClient(c) \/ Leave(c)
  BY <1>7, <1>11 DEF DrainJoins, Rollback, RestoreClient, Leave
<1>12. QED
  BY <1>2, <1>3, <1>4, <1>5, <1>8, <1>9, <1>10, <1>11 DEF Progress

LEMMA StoreInitInv == ASSUME StoreAssumption PROVE StoreInit => StoreInv
<1> SUFFICES ASSUME StoreInit PROVE StoreInv
  OBVIOUS
<1>1. StoreTypeOK
  BY DEF StoreInit, StoreTypeOK, Call, StoreAssumption
<1>2. Control /\ Roles
  BY DEF StoreInit, Control, Roles, RolesOf, Leads, InnerPc, StoreAssumption
<1>3. OuterData /\ JoinData
  BY DEF StoreInit, OuterData, OuterOf, JoinData, JoinOf, StoreAssumption
<1>4. QED
  BY <1>1, <1>2, <1>3 DEF StoreInv

LEMMA StepTyped ==
    ASSUME StoreAssumption, StoreTypeOK, Control, Control', [StoreNext]_storeVars
    PROVE  StoreTypeOK'
<1>1. ASSUME NEW c \in Calls,
             Begin(c) \/ Join(c) \/ OpenFails(c) \/ WorkThrows(c) \/ Progress(c)
      PROVE  StoreTypeOK'
  <2>1. call' \in [Calls -> Call]
    BY <1>1, CallTyped
  <2>2. depth' \in 0..1 /\ gate' \in {"none", "pending", "open"}
    <3>1. depth' = depth \/ depth' = 0 \/ depth' = 1
      BY <1>1 DEF Begin, Join, OpenFails, WorkThrows, Progress, Opened, Write,
         WorkReturns, DrainJoins, RunBeforeCommit, Commit, Rollback, RestoreClient, Leave
    <3>2. gate' = gate \/ gate' \in {"none", "pending", "open"}
      BY <1>1 DEF Begin, Join, OpenFails, WorkThrows, Progress, Opened, Write,
         WorkReturns, DrainJoins, RunBeforeCommit, Commit, Rollback, RestoreClient, Leave
    <3>3. QED
      BY <3>1, <3>2 DEF StoreTypeOK
  <2>6. client' \in Calls \cup {Base} /\ open' \subseteq Calls
    BY <1>1 DEF StoreTypeOK, Begin, Join, OpenFails, WorkThrows, Progress, Opened, Write,
       WorkReturns, DrainJoins, RunBeforeCommit, Commit, Rollback, RestoreClient, Leave
  <2>7. joins' \subseteq Calls
    BY <1>1 DEF StoreTypeOK, Begin, Join, OpenFails, WorkThrows, WorkEnds, Progress, Opened, Write,
       WorkReturns, DrainJoins, RunBeforeCommit, Commit, Rollback, RestoreClient, Leave
  <2>8. throws' \in 0..MaxThrows
    <3>1. throws' = throws \/ Throw
      BY <1>1 DEF Begin, Join, OpenFails, WorkThrows, Progress, Opened, Write, WorkReturns,
         DrainJoins, RunBeforeCommit, Commit, Rollback, RestoreClient, Leave
    <3>2. QED
      BY <3>1 DEF Throw, StoreTypeOK, StoreAssumption
  <2>3. pending' \subseteq Statements /\ durable' \subseteq Statements
    <3>1. CASE Write(c)
      <4>1. call[c].made + 1 \in 1..Writes \/ call[c].made >= Writes
        BY DEF StoreTypeOK, Call, StoreAssumption
      <4>2. call[c].made < Writes => <<c, call[c].made + 1>> \in Statements
        BY <4>1 DEF Statements, StoreTypeOK, Call, StoreAssumption
      <4>3. QED
        BY <3>1, <4>2 DEF Write, StoreTypeOK
    <3>2. QED
      BY <1>1, <3>1 DEF StoreTypeOK, Begin, Join, OpenFails, WorkThrows, Progress, Opened,
         WorkReturns, DrainJoins, RunBeforeCommit, Commit, Rollback, RestoreClient, Leave
  <2>4. pending' # {} => open' = {client'}
    <3>1. ASSUME pending' # {}
          PROVE  open' = {client'}
      <4>1. open' # {} /\ depth' # 0
        BY <3>1 DEF Control
      <4>2. PICK o \in Calls : Leads(o)'
        BY <2>2, <4>1 DEF Control
      <4>3. QED
        BY <4>1, <4>2 DEF Control
    <3>2. QED
      BY <3>1
  <2>5. QED
    BY <2>1, <2>2, <2>3, <2>4, <2>6, <2>7, <2>8 DEF StoreTypeOK
<1>2. CASE UNCHANGED storeVars
  BY <1>2 DEF storeVars, StoreTypeOK, Statements
<1>3. QED
  BY <1>1, <1>2 DEF StoreNext

-----------------------------------------------------------------------------
(* The steps, one by one.                                                  *)

LEMMA BeginStep ==
    ASSUME StoreAssumption, StoreInv, NEW c \in Calls, Begin(c)
    PROVE  Control' /\ Roles' /\ OuterData' /\ JoinData'
<1>1. /\ call'[c].pc = "opening" /\ call'[c].role = c /\ call[c].role = Base
      /\ call[c].pc = "idle" /\ call'[c].made = 0 /\ call[c].made = 0
      /\ call'[c].ok /\ ~call'[c].lost
      /\ \A d \in Calls \ {c} : call'[d] = call[d]
      /\ depth = 0 /\ depth' = 1 /\ gate' = "pending" /\ client = Base /\ open = {}
      /\ UNCHANGED <<client, open, pending, durable, joins>>
      /\ \A d \in Calls : ~Leads(d)
  BY DEF StoreInv, StoreTypeOK, Call, Begin, Control, Roles, RolesOf
<1>2. c # Base /\ c \notin joins
  <2>1. c # Base
    BY DEF StoreAssumption
  <2>2. QED
    BY <1>1, <2>1 DEF StoreInv, Roles, RolesOf
<1>3. Control'
  <2>1. Leads(c)' /\ \A d \in Calls \ {c} : ~Leads(d)'
    BY <1>1 DEF Leads, Ended
  <2>2. pending = {}
    BY <1>1 DEF StoreInv, Control
  <2>3. QED
    BY <1>1, <2>1, <2>2 DEF Control
<1>4. Roles'
  BY <1>1, <1>2 DEF StoreInv, Roles, RolesOf, OuterPc, InnerPc, StoreAssumption
<1>5. OuterData'
  BY <1>1, <1>2 DEF StoreInv, OuterData, OuterOf, Kept
<1>6. JoinData'
  BY <1>1, <1>2 DEF StoreInv, JoinData, JoinOf, Roles, RolesOf
<1>7. QED
  BY <1>3, <1>4, <1>5, <1>6

LEMMA JoinStep ==
    ASSUME StoreAssumption, StoreInv, NEW c \in Calls, Join(c)
    PROVE  Control' /\ Roles' /\ OuterData' /\ JoinData'
<1>1. PICK o \in Calls : Leads(o) /\ Outer = o
  BY OuterIs DEF StoreInv, StoreTypeOK, Join, Control
<1>2. /\ call[c].pc = "idle" /\ call[c].role = Base /\ call[c].made = 0
      /\ UNCHANGED <<depth, gate, client, open, pending, durable>>
      /\ joins' = joins \cup {c} /\ c # Base /\ Base \notin Calls
  BY DEF StoreInv, Join, Roles, RolesOf, StoreAssumption
<1>3. c # o /\ call[o].role = o /\ call[o].pc \in OuterPc /\ call[o].pc \notin Ended
  BY <1>1, <1>2 DEF Leads, StoreInv, Roles, RolesOf
<1>4. /\ \A d \in Calls \ {c} : call'[d] = call[d]
      /\ call'[c].made = 0
      /\ call'[c].pc = IF call[o].pc = "opening" THEN "waiting" ELSE "working"
      /\ call'[c].role = IF call[o].pc = "leaving" THEN Base ELSE o
      /\ call'[c].late <=> call[o].pc \in {"flushing", "committing", "settled"}
  <2>1. gate = CASE call[o].pc = "opening" -> "pending"
                 [] call[o].pc = "leaving" -> "none"
                 [] OTHER -> "open"
    BY <1>1 DEF StoreInv, Control
  <2>2. call \in [Calls -> Call]
    BY DEF StoreInv, StoreTypeOK
  <2>3. call' = [call EXCEPT ![c].pc = IF gate = "pending" THEN "waiting" ELSE "working",
                             ![c].role = IF gate = "none" THEN Base ELSE o,
                             ![c].late = call[o].pc \in {"flushing", "committing", "settled"}]
    BY <1>1, Zenon DEF Join
  <2>4. QED
    BY <1>2, <2>1, <2>2, <2>3 DEF Call
<1>5. Control'
  <2>1. ~Leads(c) /\ ~Leads(c)'
    BY <1>2, <1>3, <1>4 DEF Leads
  <2>2. \A d \in Calls \ {c} : Leads(d)' <=> Leads(d)
    BY <1>4 DEF Leads
  <2>3. QED
    BY <1>2, <1>4, <2>1, <2>2 DEF StoreInv, Control
<1>6. Roles'
  BY <1>2, <1>3, <1>4 DEF StoreInv, Roles, RolesOf, InnerPc, OuterPc
<1>7. OuterData'
  BY <1>2, <1>3, <1>4 DEF StoreInv, OuterData, OuterOf, Kept
<1>8. JoinData'
  <2>1. \A d, e \in Calls : (d # e /\ call'[d].role = e) => e # c
    BY <1>2, <1>3, <1>4 DEF StoreInv, Roles, RolesOf
  <2>2. {c} \X (1..0) = {}
    OBVIOUS
  <2>3. ASSUME ~call'[c].late, call'[c].role = o
        PROVE  /\ call[o].pc \in {"opening", "working", "draining", "rolling"}
    BY <1>3, <1>4, <2>3 DEF OuterPc, StoreAssumption, Ended
  <2>4. QED
    BY <1>2, <1>3, <1>4, <2>1, <2>2, <2>3 DEF StoreInv, JoinData, JoinOf
<1>9. QED
  BY <1>5, <1>6, <1>7, <1>8

LEMMA OpenedStep ==
    ASSUME StoreAssumption, StoreInv, NEW c \in Calls, Opened(c)
    PROVE  Control' /\ Roles' /\ OuterData' /\ JoinData'
<1>1. /\ Leads(c) /\ call[c].pc = "opening" /\ call[c].role = c /\ call[c].made = 0
      /\ open = {} /\ pending = {} /\ depth = 1
      /\ open' = {c} /\ client' = c /\ gate' = "open"
      /\ UNCHANGED <<depth, pending, durable, joins>>
  <2>1. call[c].role = c
    BY DEF StoreInv, Roles, RolesOf, Opened, InnerPc
  <2>2. Leads(c)
    BY <2>1 DEF Leads, Opened, Ended
  <2>3. QED
    BY <2>1, <2>2 DEF StoreInv, Control, OuterData, OuterOf, Opened
<1>2. \A d \in Calls :
         /\ call'[d].role = call[d].role /\ call'[d].made = call[d].made
         /\ call'[d].ok = call[d].ok /\ call'[d].late = call[d].late
         /\ call'[d].lost = call[d].lost
         /\ call'[d].pc = IF d = c \/ call[d].pc = "waiting" THEN "working" ELSE call[d].pc
  BY DEF StoreInv, StoreTypeOK, Call, Opened
<1>3. \A d \in Calls : Leads(d)' <=> Leads(d)
  <2>1. \A d \in Calls : call[d].role = d => call[d].pc \in OuterPc
    BY DEF StoreInv, Roles, RolesOf
  <2>2. ASSUME NEW d \in Calls, call[d].role = d
        PROVE  (call'[d].pc \in {"idle"} \cup Ended) <=> (call[d].pc \in {"idle"} \cup Ended)
    <3>1. call[d].pc # "waiting"
      BY <2>1, <2>2 DEF OuterPc
    <3>2. CASE d = c
      BY <1>1, <1>2, <3>2 DEF Ended
    <3>3. CASE d # c
      BY <1>2, <3>1, <3>3
    <3>4. QED
      BY <3>2, <3>3
  <2>3. \A d \in Calls : call'[d].role = call[d].role
    BY <1>2
  <2>4. QED
    BY <2>2, <2>3 DEF Leads
<1>4. Control'
  BY <1>1, <1>2, <1>3 DEF StoreInv, Control
<1>5. \A d \in Calls : call[d].pc = "waiting" => call[d].role = c /\ d # c
  <2>1. ASSUME NEW d \in Calls, call[d].pc = "waiting"
        PROVE  Leads(call[d].role) /\ call[d].role \in Calls
    BY <2>1 DEF StoreInv, Roles, RolesOf, Leads, Ended
  <2>2. QED
    BY <1>1, <2>1 DEF StoreInv, Control
<1>6. Roles'
  BY <1>1, <1>2, <1>5 DEF StoreInv, Roles, RolesOf, InnerPc, OuterPc
<1>7. OuterData'
  <2>1. \A d \in Calls : call[d].role = d => d = c \/ call'[d].pc = call[d].pc
    BY <1>2, <1>5
  <2>2. {c} \X (1..0) = {}
    OBVIOUS
  <2>3. call[c].ok
    BY <1>1 DEF StoreInv, OuterData, OuterOf, Kept
  <2>4. QED
    BY <1>1, <1>2, <2>1, <2>2, <2>3 DEF StoreInv, OuterData, OuterOf, Kept
<1>8. JoinData'
  <2>1. \A d \in Calls : d # c /\ call[d].role = c => call[d].made = 0
    BY <1>1 DEF StoreInv, Roles, RolesOf
  <2>2. QED
    BY <1>1, <1>2, <1>5, <2>1 DEF StoreInv, JoinData, JoinOf, Roles, RolesOf
<1>9. QED
  BY <1>4, <1>6, <1>7, <1>8

LEMMA OpenFailsStep ==
    ASSUME StoreAssumption, StoreInv, NEW c \in Calls, OpenFails(c)
    PROVE  Control' /\ Roles' /\ OuterData' /\ JoinData'
<1>1. /\ Leads(c) /\ call[c].pc = "opening" /\ call[c].role = c /\ call[c].made = 0
      /\ open = {} /\ pending = {} /\ depth = 1 /\ client = Base /\ gate' = "none"
      /\ UNCHANGED <<depth, client, open, pending, durable, joins>>
  <2>1. call[c].role = c
    BY ZenonT(60) DEF StoreInv, Roles, RolesOf, OpenFails, InnerPc
  <2>2. Leads(c)
    BY <2>1 DEF Leads, OpenFails, Ended
  <2>3. QED
    BY <2>1, <2>2, ZenonT(60) DEF StoreInv, Control, OuterData, OuterOf, OpenFails
<1>2. /\ call'[c].pc = "leaving" /\ ~call'[c].ok /\ call'[c].role = c /\ call'[c].made = 0
      /\ call'[c].lost = call[c].lost
      /\ \A d \in Calls \ {c} :
            /\ call'[d].made = call[d].made
            /\ call'[d].ok = call[d].ok /\ call'[d].late = call[d].late
            /\ call'[d].lost = call[d].lost
            /\ call[d].pc # "waiting" => call'[d] = call[d]
            /\ call[d].pc = "waiting" => call'[d].pc = "working" /\ call'[d].role = Base
  BY <1>1, ZenonT(60) DEF StoreInv, StoreTypeOK, Call, OpenFails
<1>3. Base \notin Calls
  BY DEF StoreAssumption
<1>4. \A d \in Calls : call[d].pc = "waiting" => call[d].role = c /\ d # c
  <2>1. ASSUME NEW d \in Calls, call[d].pc = "waiting"
        PROVE  Leads(call[d].role) /\ call[d].role \in Calls
    BY <2>1 DEF StoreInv, Roles, RolesOf, Leads, Ended
  <2>2. QED
    BY <1>1, <2>1 DEF StoreInv, Control
<1>5. \A d \in Calls : d # c /\ call'[d].role = c => FALSE
  BY <1>1, <1>2, <1>3 DEF StoreInv, Roles, RolesOf
<1>6. \A d \in Calls : Leads(d)' <=> Leads(d)
  BY <1>1, <1>2, <1>3, <1>4 DEF Leads, Ended
<1>7. Control'
  BY <1>1, <1>2, <1>6 DEF StoreInv, Control
<1>8. Roles'
  BY <1>1, <1>2, <1>3, <1>4, <1>5 DEF StoreInv, Roles, RolesOf, InnerPc, OuterPc
<1>9. OuterData'
  BY <1>1, <1>2, <1>3, <1>4 DEF StoreInv, OuterData, OuterOf, Kept
<1>10. JoinData'
  <2>1. ASSUME NEW d \in Calls, NEW o \in Calls, d # o, call'[d].role = o
        PROVE  call'[d] = call[d] /\ call'[o] = call[o]
    <3>1. o # c /\ d # c
      BY <1>2, <1>5, <2>1
    <3>2. call'[d] = call[d]
      BY <1>2, <1>3, <2>1, <3>1
    <3>3. call[o].role = o
      BY <2>1, <3>2 DEF StoreInv, Roles, RolesOf
    <3>4. call[o].pc # "waiting"
      BY <1>4, <3>1, <3>3
    <3>5. QED
      BY <1>2, <3>1, <3>2, <3>4
  <2>2. ASSUME NEW d \in Calls, NEW o \in Calls
        PROVE  JoinOf(d, o)'
    BY <1>1, <2>1 DEF StoreInv, JoinData, JoinOf
  <2>3. QED
    BY <2>2 DEF JoinData
<1>11. QED
  BY <1>7, <1>8, <1>9, <1>10

-----------------------------------------------------------------------------
(* The work.                                                               *)

\* The client is where the transaction of an outer call at work is.
LEMMA ClientIs ==
    ASSUME StoreAssumption, StoreInv
    PROVE  /\ client # Base => Leads(client) /\ client \in Calls
           /\ client \in open => open = {client}
           /\ \A o \in Calls : (Leads(o) /\ call[o].pc \in {"working", "draining"}) =>
                 client = o /\ open = {o}
<1>1. client # Base => Leads(client) /\ client \in Calls
  <2>1. ASSUME client # Base
        PROVE  \E o \in Calls : Leads(o)
    BY <2>1 DEF StoreInv, Control, StoreTypeOK
  <2>2. QED
    BY <2>1 DEF StoreInv, Control
<1>2. client \in open => open = {client}
  BY DEF StoreInv, Control, StoreTypeOK
<1>3. QED
  BY <1>1, <1>2 DEF StoreInv, Control

\* A call works in the transaction it joined in time.
LEMMA WorksWhere ==
    ASSUME StoreAssumption, StoreInv, NEW c \in Calls, call[c].pc = "working",
           NEW o \in Calls, call[c].role = o,
           call[o].pc \in {"working", "draining"} \/ c = o
    PROVE  client = o /\ open = {o}
<1>1. call[o].role = o
  BY DEF StoreInv, Roles, RolesOf
<1>2. Leads(o) /\ call[o].pc \in {"working", "draining"}
  BY <1>1 DEF Leads, Ended
<1>3. QED
  BY <1>2, ClientIs

LEMMA WriteStep ==
    ASSUME StoreAssumption, StoreInv, NEW c \in Calls,
           call[c].pc = "working", call[c].made < Writes,
           call' = [call EXCEPT ![c].made = @ + 1],
           \/ /\ client = Base /\ pending' = pending
              /\ durable' = durable \cup {<<c, call[c].made + 1>>}
           \/ /\ client \in open /\ durable' = durable
              /\ pending' = pending \cup {<<c, call[c].made + 1>>},
           UNCHANGED <<depth, gate, client, open, joins>>
    PROVE  Control' /\ Roles' /\ OuterData' /\ JoinData'
<1>1. /\ call'[c].made = call[c].made + 1 /\ call'[c].pc = "working"
      /\ call'[c].role = call[c].role /\ call'[c].ok = call[c].ok
      /\ call'[c].late = call[c].late /\ call'[c].lost = call[c].lost
      /\ \A d \in Calls \ {c} : call'[d] = call[d]
      /\ call[c].made \in 0..Writes /\ Writes \in Nat /\ call[c].made + 1 \in 1..Writes
  BY DEF StoreInv, StoreTypeOK, Call, StoreAssumption
<1>2. Control'
  <2>1. \A d \in Calls : Leads(d)' <=> Leads(d)
    BY <1>1 DEF Leads
  <2>2. client = Base \/ open # {}
    OBVIOUS
  <2>3. open = {} => pending' = pending
    OBVIOUS
  <2>4. \A d \in Calls : call'[d].pc = call[d].pc
    BY <1>1
  <2>5. QED
    BY <2>1, <2>3, <2>4 DEF StoreInv, Control
<1>3. Roles'
  BY <1>1 DEF StoreInv, Roles, RolesOf, InnerPc, OuterPc
<1>4. \A d \in Calls, k \in 1..Writes : (d # c \/ k # call[c].made + 1) =>
         /\ <<d, k>> \in durable' <=> <<d, k>> \in durable
         /\ <<d, k>> \in pending' <=> <<d, k>> \in pending
  OBVIOUS
<1>5. durable \subseteq durable' /\ pending \subseteq pending'
  OBVIOUS
<1>6. \A k \in 1..(call[c].made + 1) : k \in 1..call[c].made \/ k = call[c].made + 1
  BY <1>1
<1>7. ASSUME NEW o \in Calls, call[c].role = o, call[o].pc \in {"working", "draining"} \/ c = o,
             {c} \X (1..call[c].made) \subseteq pending
      PROVE  durable' = durable /\ {c} \X (1..call'[c].made) \subseteq pending'
  <2>1. client # Base
    BY <1>7, WorksWhere DEF StoreAssumption
  <2>2. pending' = pending \cup {<<c, call[c].made + 1>>} /\ durable' = durable
    BY <2>1
  <2>3. QED
    BY <1>1, <1>6, <1>7, <2>2
<1>8. OuterData'
  <2>1. ASSUME NEW d \in Calls, d # c
        PROVE  OuterOf(d)'
    BY <1>1, <1>4, <1>5, <2>1 DEF StoreInv, OuterData, OuterOf, Kept
  <2>2. OuterOf(c)'
    <3>1. OuterOf(c)
      BY DEF StoreInv, OuterData
    <3>2. \A k \in 1..Writes : <<c, k>> \in durable' \cup pending' => k <= call'[c].made
      BY <1>1, <1>4, <3>1 DEF OuterOf, Kept
    <3>3. CASE call[c].role = c
      <4>1. call[c].ok /\ {c} \X (1..call[c].made) \subseteq pending
        BY <3>1, <3>3 DEF OuterOf, Kept
      <4>2. durable' = durable /\ {c} \X (1..call'[c].made) \subseteq pending'
        BY <1>7, <3>3, <4>1
      <4>3. QED
        BY <1>1, <3>1, <3>2, <3>3, <4>1, <4>2 DEF OuterOf, Kept
    <3>4. CASE call[c].role # c
      BY <1>1, <3>2, <3>4 DEF OuterOf, Kept
    <3>5. QED
      BY <3>3, <3>4
  <2>3. QED
    BY <2>1, <2>2 DEF OuterData
<1>9. JoinData'
  <2>1. ASSUME NEW o \in Calls
        PROVE  JoinOf(c, o)'
    <3>1. JoinOf(c, o)
      BY DEF StoreInv, JoinData
    <3>2. c # o => call'[o] = call[o]
      BY <1>1
    <3>3. QED
      BY <1>1, <1>7, <3>1, <3>2 DEF JoinOf, Ended
  <2>2. ASSUME NEW d \in Calls, d # c, NEW o \in Calls
        PROVE  JoinOf(d, o)'
    <3>1. JoinOf(d, o)
      BY DEF StoreInv, JoinData
    <3>2. call'[d] = call[d] /\ call'[o].pc = call[o].pc /\ call'[o].ok = call[o].ok
      BY <1>1, <2>2
    <3>3. QED
      BY <1>5, <3>1, <3>2 DEF JoinOf
  <2>3. QED
    BY <2>1, <2>2 DEF JoinData
<1>10. QED
  BY <1>2, <1>3, <1>8, <1>9

\* A joiner settles: it leaves the joins.
LEMMA JoinerEnds ==
    ASSUME StoreAssumption, StoreInv, NEW c \in Calls, call[c].pc = "working", call[c].role # c,
           NEW ok \in BOOLEAN, WorkEnds(c, ok), ok => call[c].made = Writes,
           UNCHANGED <<depth, gate, client, open, pending, durable>>
    PROVE  Control' /\ Roles' /\ OuterData' /\ JoinData'
<1>1. /\ call'[c].pc \in Ended /\ (call'[c].pc = "returned" => call[c].made = Writes)
      /\ call'[c].role = call[c].role /\ call'[c].made = call[c].made
      /\ call'[c].late = call[c].late /\ call'[c].lost = call[c].lost
      /\ \A d \in Calls \ {c} : call'[d] = call[d]
      /\ joins' = joins \ {c}
  BY DEF StoreInv, StoreTypeOK, Call, WorkEnds, Ended
<1>2. Control'
  <2>1. \A d \in Calls : Leads(d)' <=> Leads(d)
    BY <1>1 DEF Leads
  <2>2. \A d \in Calls : Leads(d) => call'[d] = call[d]
    BY <1>1 DEF Leads
  <2>3. QED
    BY <2>1, <2>2 DEF StoreInv, Control
<1>3. Roles'
  BY <1>1 DEF StoreInv, Roles, RolesOf, InnerPc, OuterPc, Ended
<1>4. OuterData'
  <2>1. ASSUME NEW d \in Calls
        PROVE  OuterOf(d)'
    BY <1>1 DEF StoreInv, OuterData, OuterOf, Kept
  <2>2. QED
    BY <2>1 DEF OuterData
<1>5. JoinData'
  <2>1. ASSUME NEW d \in Calls, NEW o \in Calls
        PROVE  JoinOf(d, o)'
    <3>1. JoinOf(d, o)
      BY DEF StoreInv, JoinData
    <3>2. call[d].role = o => o # c
      BY DEF StoreInv, Roles, RolesOf
    <3>3. QED
      BY <1>1, <3>1, <3>2 DEF JoinOf
  <2>2. QED
    BY <2>1 DEF JoinData
<1>6. QED
  BY <1>2, <1>3, <1>4, <1>5

\* The call that holds the transaction moves, by itself.
LEMMA OuterIsAlone ==
    ASSUME StoreInv, NEW c \in Calls,
           \/ call[c].pc \in {"draining", "flushing", "committing", "rolling", "settled", "leaving"}
           \/ call[c].pc = "working" /\ call[c].role = c
    PROVE  /\ Leads(c) /\ call[c].role = c /\ depth = 1
           /\ \A d \in Calls \ {c} : ~Leads(d)
           /\ gate = IF call[c].pc = "leaving" THEN "none" ELSE "open"
           /\ client = IF call[c].pc = "leaving" THEN Base ELSE c
           /\ open = IF call[c].pc \in {"settled", "leaving"} THEN {} ELSE {c}
<1>1. call[c].role = c
  BY DEF StoreInv, Roles, RolesOf, InnerPc
<1>2. Leads(c)
  BY <1>1 DEF Leads, Ended
<1>3. QED
  BY <1>1, <1>2 DEF StoreInv, Control

\* A step that moves it past its opening leaves the roles of everybody.
LEMMA OuterRoles ==
    ASSUME StoreInv, NEW c \in Calls, call[c].role = c, call[c].pc # "opening",
           call'[c].role = c, call'[c].made = call[c].made,
           call'[c].pc \in OuterPc, call'[c].pc # "opening",
           call'[c].pc = "returned" => call[c].made = Writes,
           \A d \in Calls \ {c} : call'[d] = call[d],
           joins' = joins
    PROVE  Roles'
<1>1. \A d \in Calls :
         /\ call'[d].role = call[d].role /\ call'[d].made = call[d].made
         /\ call'[d].pc = "opening" <=> call[d].pc = "opening"
         /\ d # c => call'[d] = call[d]
  OBVIOUS
<1>2. Roles
  BY DEF StoreInv
<1>3. ASSUME NEW d \in Calls
      PROVE  RolesOf(d)'
  <2>1. CASE d = c
    BY <1>2, <2>1 DEF Roles, RolesOf, OuterPc
  <2>2. CASE d # c
    <3>1. RolesOf(d) /\ call'[d] = call[d]
      BY <1>1, <1>2, <2>2 DEF Roles
    <3>2. PICK role : call[d].role = role /\ call'[d].role = role
      BY <3>1
    <3>3. role \in Calls => /\ call'[role].role = call[role].role
                            /\ call'[role].pc = "opening" <=> call[role].pc = "opening"
      BY <1>1
    <3>4. QED
      BY <3>1, <3>2, <3>3 DEF RolesOf
  <2>3. QED
    BY <2>1, <2>2
<1>4. QED
  BY <1>3 DEF Roles

\* Its step from one place to the next, while the database keeps the transaction open.
LEMMA OuterMoves ==
    ASSUME StoreAssumption, StoreInv, NEW c \in Calls, call[c].role = c,
           NEW pc, NEW ok \in BOOLEAN, call' = [call EXCEPT ![c].pc = pc, ![c].ok = ok],
           \/ call[c].pc = "working" /\ pc = "draining" /\ call[c].made = Writes /\ ok
           \/ call[c].pc = "draining" /\ pc = "flushing" /\ joins = {} /\ ok = call[c].ok
           \/ call[c].pc = "flushing" /\ pc = "committing" /\ ok = call[c].ok
           \/ /\ call[c].pc \in {"working", "flushing", "committing"}
              /\ pc = "rolling" /\ ~ok,
           UNCHANGED <<depth, gate, client, open, pending, durable, joins>>
    PROVE  Control' /\ Roles' /\ OuterData' /\ JoinData'
<1>1. /\ call'[c].pc = pc /\ call'[c].ok = ok
      /\ call'[c].role = c /\ call'[c].made = call[c].made
      /\ call'[c].late = call[c].late /\ call'[c].lost = call[c].lost
      /\ \A d \in Calls \ {c} : call'[d] = call[d]
  BY DEF StoreInv, StoreTypeOK, Call
<1>2. /\ Leads(c) /\ depth = 1 /\ \A d \in Calls \ {c} : ~Leads(d)
      /\ gate = "open" /\ client = c /\ open = {c}
  BY OuterIsAlone
<1>3. Control'
  <2>1. Leads(c)' /\ \A d \in Calls \ {c} : ~Leads(d)'
    BY <1>1, <1>2 DEF Leads, Ended
  <2>2. QED
    BY <1>1, <1>2, <2>1 DEF StoreInv, Control
<1>4. Roles'
  BY <1>1, OuterRoles DEF OuterPc
<1>5. OuterData'
  <2>1. ASSUME NEW d \in Calls, d # c
        PROVE  OuterOf(d)'
    <3>1. OuterOf(d) /\ call'[d] = call[d]
      BY <1>1, <2>1 DEF StoreInv, OuterData
    <3>2. QED
      BY <3>1 DEF OuterOf, Kept
  <2>2. OuterOf(c)'
    BY <1>1 DEF StoreInv, OuterData, OuterOf, Kept
  <2>3. QED
    BY <2>1, <2>2 DEF OuterData
<1>6. JoinData'
  <2>1. ASSUME NEW d \in Calls, NEW o \in Calls, d # o, call'[d].role = o, ~call'[d].late
        PROVE  JoinOf(d, o)'
    <3>1. call[o].role = o /\ d # c /\ call'[d] = call[d]
      <4>1. call[d].role = o
        BY <1>1, <2>1
      <4>2. call[o].role = o
        BY <2>1, <4>1 DEF StoreInv, Roles, RolesOf
      <4>3. d # c
        BY <1>1, <2>1, <4>1
      <4>4. QED
        BY <1>1, <4>2, <4>3
    <3>2. JoinOf(d, o)
      BY DEF StoreInv, JoinData
    <3>3. CASE o # c
      BY <1>1, <3>1, <3>2, <3>3 DEF JoinOf
    <3>4. CASE o = c
      <4>1. joins = {} => call[d].pc \in {"idle"} \cup Ended
        BY <2>1, <3>1 DEF StoreInv, Roles, RolesOf, InnerPc, Ended
      <4>2. call[d].pc # "idle"
        BY <2>1, <3>1 DEF StoreInv, Roles, RolesOf, StoreAssumption
      <4>3. QED
        BY <1>1, <2>1, <3>1, <3>2, <3>4, <4>1, <4>2 DEF JoinOf
    <3>5. QED
      BY <3>3, <3>4
  <2>2. ASSUME NEW d \in Calls, NEW o \in Calls
        PROVE  JoinOf(d, o)'
    BY <2>1 DEF JoinOf
  <2>3. QED
    BY <2>2 DEF JoinData
<1>7. QED
  BY <1>3, <1>4, <1>5, <1>6

-----------------------------------------------------------------------------
(* The end of the transaction.                                             *)

LEMMA CommitStep ==
    ASSUME StoreAssumption, StoreInv, NEW c \in Calls, call[c].pc = "committing",
           durable' = durable \cup pending, pending' = {}, open' = open \ {c},
           \/ At(c, "settled")
           \/ call' = [call EXCEPT ![c].pc = "settled", ![c].ok = FALSE, ![c].lost = TRUE],
           UNCHANGED <<depth, gate, client, joins>>
    PROVE  Control' /\ Roles' /\ OuterData' /\ JoinData'
<1>1. /\ Leads(c) /\ depth = 1 /\ \A d \in Calls \ {c} : ~Leads(d)
      /\ gate = "open" /\ client = c /\ open = {c} /\ call[c].role = c
  BY OuterIsAlone
<1>2. /\ call'[c].pc = "settled"
      /\ \/ call'[c].ok = call[c].ok /\ call'[c].lost = call[c].lost
         \/ ~call'[c].ok /\ call'[c].lost
      /\ call'[c].role = c /\ call'[c].made = call[c].made
      /\ call'[c].late = call[c].late
      /\ \A d \in Calls \ {c} : call'[d] = call[d]
  BY <1>1 DEF StoreInv, StoreTypeOK, Call, At
<1>3. Control'
  <2>1. Leads(c)' /\ \A d \in Calls \ {c} : ~Leads(d)'
    BY <1>1, <1>2 DEF Leads, Ended
  <2>2. open' = {}
    BY <1>1
  <2>3. QED
    BY <1>1, <1>2, <2>1, <2>2 DEF StoreInv, Control
<1>4. Roles'
  BY <1>1, <1>2, OuterRoles DEF OuterPc
<1>5. OuterData'
  <2>1. ASSUME NEW d \in Calls, d # c
        PROVE  OuterOf(d)'
    <3>1. OuterOf(d) /\ call'[d] = call[d]
      BY <1>2, <2>1 DEF StoreInv, OuterData
    <3>2. call[d].role = d => call[d].pc \in {"returned", "threw"}
      BY <1>1, <2>1 DEF StoreInv, Roles, RolesOf, OuterPc, Leads, Ended
    <3>3. QED
      BY <3>1, <3>2 DEF OuterOf, Kept
  <2>2. OuterOf(c)'
    <3>1. call[c].ok /\ {c} \X (1..Writes) \subseteq durable'
      BY <1>1 DEF StoreInv, OuterData, OuterOf, Kept
    <3>2. QED
      BY <1>1, <1>2, <3>1 DEF StoreInv, OuterData, OuterOf, Kept
  <2>3. QED
    BY <2>1, <2>2 DEF OuterData
<1>6. JoinData'
  <2>1. ASSUME NEW d \in Calls, NEW o \in Calls, d # o, call'[d].role = o, ~call'[d].late
        PROVE  JoinOf(d, o)'
    <3>1. d # c /\ call'[d] = call[d] /\ call[o].role = o
      BY <1>1, <1>2, <2>1 DEF StoreInv, Roles, RolesOf
    <3>2. JoinOf(d, o)
      BY DEF StoreInv, JoinData
    <3>3. CASE o # c
      <4>1. call[o].pc \in {"returned", "threw"} /\ call'[o] = call[o]
        BY <1>1, <1>2, <3>1, <3>3 DEF StoreInv, Roles, RolesOf, OuterPc, Leads, Ended
      <4>2. QED
        BY <3>1, <3>2, <4>1 DEF JoinOf
    <3>4. CASE o = c
      BY <1>2, <2>1, <3>1, <3>2, <3>4 DEF JoinOf
    <3>5. QED
      BY <3>3, <3>4
  <2>2. ASSUME NEW d \in Calls, NEW o \in Calls
        PROVE  JoinOf(d, o)'
    BY <2>1 DEF JoinOf
  <2>3. QED
    BY <2>2 DEF JoinData
<1>7. QED
  BY <1>3, <1>4, <1>5, <1>6

LEMMA RollbackStep ==
    ASSUME StoreAssumption, StoreInv, NEW c \in Calls, Rollback(c)
    PROVE  Control' /\ Roles' /\ OuterData' /\ JoinData'
<1>1. /\ Leads(c) /\ depth = 1 /\ \A d \in Calls \ {c} : ~Leads(d)
      /\ gate = "open" /\ client = c /\ open = {c} /\ call[c].role = c
  BY OuterIsAlone DEF Rollback
<1>2. /\ call'[c].pc = "settled" /\ call'[c].ok = call[c].ok
      /\ call'[c].role = c /\ call'[c].made = call[c].made
      /\ call'[c].late = call[c].late /\ call'[c].lost = call[c].lost
      /\ \A d \in Calls \ {c} : call'[d] = call[d]
      /\ ~call[c].ok /\ pending' = {} /\ open' = {} /\ call[c].pc = "rolling"
      /\ UNCHANGED <<depth, gate, client, durable, joins>>
  BY <1>1 DEF StoreInv, StoreTypeOK, Call, At, Rollback, OuterData, OuterOf
<1>3. Control'
  <2>1. Leads(c)' /\ \A d \in Calls \ {c} : ~Leads(d)'
    BY <1>1, <1>2 DEF Leads, Ended
  <2>2. QED
    BY <1>1, <1>2, <2>1 DEF StoreInv, Control
<1>4. Roles'
  BY <1>1, <1>2, OuterRoles DEF OuterPc
<1>5. OuterData'
  <2>1. ASSUME NEW d \in Calls, d # c
        PROVE  OuterOf(d)'
    <3>1. OuterOf(d) /\ call'[d] = call[d]
      BY <1>2, <2>1 DEF StoreInv, OuterData
    <3>2. call[d].role = d => call[d].pc \in {"returned", "threw"}
      BY <1>1, <2>1 DEF StoreInv, Roles, RolesOf, OuterPc, Leads, Ended
    <3>3. QED
      BY <1>2, <3>1, <3>2 DEF OuterOf, Kept
  <2>2. OuterOf(c)'
    BY <1>1, <1>2 DEF StoreInv, OuterData, OuterOf, Kept
  <2>3. QED
    BY <2>1, <2>2 DEF OuterData
<1>6. JoinData'
  <2>1. ASSUME NEW d \in Calls, NEW o \in Calls, d # o, call'[d].role = o, ~call'[d].late
        PROVE  JoinOf(d, o)'
    <3>1. d # c /\ call'[d] = call[d] /\ call[o].role = o
      BY <1>1, <1>2, <2>1 DEF StoreInv, Roles, RolesOf
    <3>2. JoinOf(d, o)
      BY DEF StoreInv, JoinData
    <3>3. CASE o # c
      <4>1. call[o].pc \in {"returned", "threw"} /\ call'[o] = call[o]
        BY <1>1, <1>2, <3>1, <3>3 DEF StoreInv, Roles, RolesOf, OuterPc, Leads, Ended
      <4>2. QED
        BY <1>2, <3>1, <3>2, <4>1 DEF JoinOf
    <3>4. CASE o = c
      BY <1>2, <3>4 DEF JoinOf
    <3>5. QED
      BY <3>3, <3>4
  <2>2. ASSUME NEW d \in Calls, NEW o \in Calls
        PROVE  JoinOf(d, o)'
    BY <2>1 DEF JoinOf
  <2>3. QED
    BY <2>2 DEF JoinData
<1>7. QED
  BY <1>3, <1>4, <1>5, <1>6

\* The two finally blocks.
LEMMA FinallyStep ==
    ASSUME StoreAssumption, StoreInv, NEW c \in Calls, RestoreClient(c) \/ Leave(c)
    PROVE  Control' /\ Roles' /\ OuterData' /\ JoinData'
<1>1. /\ Leads(c) /\ depth = 1 /\ \A d \in Calls \ {c} : ~Leads(d)
      /\ open = {} /\ call[c].role = c /\ call[c].pc \in {"settled", "leaving"}
      /\ call[c].pc = "leaving" => client = Base
  BY OuterIsAlone DEF RestoreClient, Leave
<1>2. /\ \/ call[c].pc = "settled" /\ call'[c].pc = "leaving" /\ client' = Base /\ depth' = 1
         \/ /\ call[c].pc = "leaving" /\ client' = Base /\ depth' = 0
            /\ call'[c].pc = IF call[c].ok THEN "returned" ELSE "threw"
      /\ call'[c].ok = call[c].ok
      /\ call'[c].role = c /\ call'[c].made = call[c].made
      /\ call'[c].late = call[c].late /\ call'[c].lost = call[c].lost
      /\ \A d \in Calls \ {c} : call'[d] = call[d]
      /\ gate' = "none" /\ UNCHANGED <<open, pending, durable, joins>>
  <2>1. call \in [Calls -> Call]
    BY DEF StoreInv, StoreTypeOK
  <2>2. CASE RestoreClient(c)
    BY <1>1, <2>1, <2>2 DEF RestoreClient, At, Call
  <2>3. CASE Leave(c)
    BY <1>1, <2>1, <2>3 DEF Leave, At, Call
  <2>4. QED
    BY <2>2, <2>3
<1>3. Control'
  <2>1. /\ \A d \in Calls \ {c} : ~Leads(d)'
        /\ Leads(c)' <=> call[c].pc = "settled"
    BY <1>1, <1>2 DEF Leads, Ended
  <2>2. QED
    BY <1>1, <1>2, <2>1 DEF StoreInv, Control
<1>4. call'[c].pc = "returned" => call[c].made = Writes
  BY <1>1, <1>2 DEF StoreInv, OuterData, OuterOf, Kept
<1>5. Roles'
  BY <1>1, <1>2, <1>4, OuterRoles DEF OuterPc
<1>6. OuterData'
  <2>1. ASSUME NEW d \in Calls, d # c
        PROVE  OuterOf(d)'
    <3>1. OuterOf(d) /\ call'[d] = call[d]
      BY <1>2, <2>1 DEF StoreInv, OuterData
    <3>2. QED
      BY <1>2, <3>1 DEF OuterOf, Kept
  <2>2. OuterOf(c)'
    BY <1>1, <1>2 DEF StoreInv, OuterData, OuterOf, Kept
  <2>3. QED
    BY <2>1, <2>2 DEF OuterData
<1>7. JoinData'
  <2>1. ASSUME NEW d \in Calls, NEW o \in Calls, d # o, call'[d].role = o, ~call'[d].late
        PROVE  JoinOf(d, o)'
    <3>1. d # c /\ call'[d] = call[d]
      BY <1>1, <1>2, <2>1
    <3>2. JoinOf(d, o)
      BY DEF StoreInv, JoinData
    <3>3. CASE o # c
      BY <1>2, <3>1, <3>2, <3>3 DEF JoinOf
    <3>4. CASE o = c
      BY <1>1, <1>2, <3>1, <3>2, <3>4 DEF JoinOf
    <3>5. QED
      BY <3>3, <3>4
  <2>2. ASSUME NEW d \in Calls, NEW o \in Calls
        PROVE  JoinOf(d, o)'
    BY <2>1 DEF JoinOf
  <2>3. QED
    BY <2>2 DEF JoinData
<1>8. QED
  BY <1>3, <1>5, <1>6, <1>7

-----------------------------------------------------------------------------
(* The invariant.                                                          *)

LEMMA WorkEndsStep ==
    ASSUME StoreAssumption, StoreInv, NEW c \in Calls, call[c].pc = "working",
           NEW ok \in BOOLEAN, WorkEnds(c, ok), ok => call[c].made = Writes,
           UNCHANGED <<depth, gate, client, open, pending, durable>>
    PROVE  Control' /\ Roles' /\ OuterData' /\ JoinData'
<1>1. CASE call[c].role = c
  <2>1. joins' = joins /\ \E pc : /\ pc = IF ok THEN "draining" ELSE "rolling"
                                  /\ call' = [call EXCEPT ![c].pc = pc, ![c].ok = ok]
    BY <1>1 DEF WorkEnds
  <2>2. QED
    BY <1>1, <2>1, OuterMoves
<1>2. CASE call[c].role # c
  BY <1>2, JoinerEnds
<1>3. QED
  BY <1>1, <1>2

LEMMA ProgressStep ==
    ASSUME StoreAssumption, StoreInv, NEW c \in Calls, Progress(c)
    PROVE  Control' /\ Roles' /\ OuterData' /\ JoinData'
<1>1. CASE Opened(c)
  BY <1>1, OpenedStep
<1>2. CASE Write(c)
  <2>1. CASE /\ client \notin open \cup {Base} /\ WorkEnds(c, FALSE)
             /\ UNCHANGED <<pending, durable>>
    BY <1>2, <2>1, WorkEndsStep DEF Write
  <2>2. QED
    BY <1>2, <2>1, WriteStep DEF Write
<1>3. CASE WorkReturns(c)
  BY <1>3, WorkEndsStep DEF WorkReturns
<1>4. ASSUME NEW pc, At(c, pc), call[c] \in Call
      PROVE  call' = [call EXCEPT ![c].pc = pc, ![c].ok = call[c].ok] /\ call[c].ok \in BOOLEAN
  <2>1. call \in [Calls -> Call]
    BY DEF StoreInv, StoreTypeOK
  <2>2. [call[c] EXCEPT !.pc = pc] = [call[c] EXCEPT !.pc = pc, !.ok = call[c].ok]
    BY <1>4 DEF Call
  <2>3. call[c].ok \in BOOLEAN
    BY <1>4, Zenon DEF Call
  <2>4. QED
    BY <1>4, <2>1, <2>2, <2>3 DEF At
<1>5. call[c] \in Call
  BY DEF StoreInv, StoreTypeOK
<1>6. CASE DrainJoins(c)
  <2>1. call[c].role = c
    BY <1>6, OuterIsAlone DEF DrainJoins
  <2>2. QED
    <3>1. /\ call[c].pc = "draining" /\ joins = {}
          /\ call' = [call EXCEPT ![c].pc = "flushing", ![c].ok = call[c].ok]
          /\ call[c].ok \in BOOLEAN
          /\ UNCHANGED <<depth, gate, client, open, pending, durable, joins>>
      BY <1>4, <1>5, <1>6 DEF DrainJoins
    <3>2. QED
      BY <2>1, <3>1, OuterMoves
<1>7. CASE RunBeforeCommit(c)
  <2>1. call[c].role = c
    BY <1>7, OuterIsAlone DEF RunBeforeCommit
  <2>2. QED
    <3>1. /\ call[c].pc = "flushing"
          /\ UNCHANGED <<depth, gate, client, open, pending, durable, joins>>
      BY <1>7 DEF RunBeforeCommit
    <3>2. CASE At(c, "committing")
      <4>1. /\ call' = [call EXCEPT ![c].pc = "committing", ![c].ok = call[c].ok]
            /\ call[c].ok \in BOOLEAN
        BY <1>4, <1>5, <3>2
      <4>2. QED
        BY <2>1, <3>1, <4>1, OuterMoves
    <3>3. CASE call' = [call EXCEPT ![c].pc = "rolling", ![c].ok = FALSE]
      <4>1. FALSE \in BOOLEAN
        OBVIOUS
      <4>2. QED
        BY <2>1, <3>1, <3>3, <4>1, OuterMoves
    <3>4. QED
      BY <1>7, <3>2, <3>3 DEF RunBeforeCommit
<1>8. CASE Commit(c)
  <2>1. call[c].role = c
    BY <1>8, OuterIsAlone DEF Commit
  <2>2. QED
    BY <1>8, <2>1, OuterMoves, CommitStep DEF Commit
<1>9. QED
  BY <1>1, <1>2, <1>3, <1>6, <1>7, <1>8, RollbackStep, FinallyStep DEF Progress

LEMMA StoreStepInv == ASSUME StoreAssumption, StoreInv, [StoreNext]_storeVars PROVE StoreInv'
<1>1. Control' /\ Roles' /\ OuterData' /\ JoinData'
  <2>1. ASSUME NEW c \in Calls, WorkThrows(c)
        PROVE  Control' /\ Roles' /\ OuterData' /\ JoinData'
    BY <2>1, WorkEndsStep DEF WorkThrows
  <2>2. CASE UNCHANGED storeVars
    BY <2>2 DEF storeVars, StoreInv, Control, Leads, Roles, RolesOf, OuterData, OuterOf, Kept,
       JoinData, JoinOf
  <2>3. QED
    BY <2>1, <2>2, BeginStep, JoinStep, OpenFailsStep, ProgressStep DEF StoreNext
<1>2. QED
  BY <1>1, StepTyped DEF StoreInv

THEOREM StoreInvariant == ASSUME StoreAssumption PROVE StoreSpec => []StoreInv
<1>1. StoreInit => StoreInv
  BY StoreInitInv
<1>2. StoreInv /\ [StoreNext]_storeVars => StoreInv'
  BY StoreStepInv
<1>3. QED
  BY <1>1, <1>2, PTL DEF StoreSpec

\* Type correctness, for any calls, statements and number of failures.
THEOREM StoreTypeCorrect == ASSUME StoreAssumption PROVE StoreSpec => []StoreTypeOK
BY StoreInvariant, PTL DEF StoreInv

\* The unit of work that opened the transaction is all or nothing: all where it returned,
\* and where its caller got an error because the answer of its commit was lost.
THEOREM OuterHolds == ASSUME StoreAssumption PROVE StoreSpec => []OuterAllOrNothing
<1>1. ASSUME StoreInv
      PROVE  OuterAllOrNothing
  <2>1. ASSUME NEW c \in Calls, call[c].role = c
        PROVE  Written(c) = IF Kept(c) THEN {c} \X (1..Writes) ELSE {}
    <3>1. durable \subseteq Calls \X (1..Writes)
      BY <1>1 DEF StoreInv, StoreTypeOK, Statements
    <3>2. IF Kept(c) THEN {c} \X (1..Writes) \subseteq durable
          ELSE \A k \in 1..Writes : <<c, k>> \notin durable
      BY <1>1, <2>1 DEF StoreInv, OuterData, OuterOf
    <3>3. QED
      BY <3>1, <3>2 DEF Written
  <2>2. QED
    BY <2>1 DEF OuterAllOrNothing, Kept
<1>2. QED
  BY <1>1, StoreInvariant, PTL

\* What joined in time and returned is committed with the transaction it joined.
THEOREM JoinHolds == ASSUME StoreAssumption PROVE StoreSpec => []JoinedInTimeIsKept
<1>1. ASSUME StoreInv
      PROVE  JoinedInTimeIsKept
  <2>1. ASSUME NEW c \in Calls, NEW o \in Calls, c # o, call[c].role = o, ~call[c].late,
               call[o].pc = "returned"
        PROVE  /\ call[c].pc \in Ended
               /\ call[c].pc = "returned" => Written(c) = {c} \X (1..Writes)
    <3>1. durable \subseteq Calls \X (1..Writes)
      BY <1>1 DEF StoreInv, StoreTypeOK, Statements
    <3>2. call[c].pc \in Ended /\ {c} \X (1..call[c].made) \subseteq durable
      BY <1>1, <2>1 DEF StoreInv, JoinData, JoinOf
    <3>3. call[c].pc = "returned" => call[c].made = Writes
      BY <1>1 DEF StoreInv, Roles, RolesOf
    <3>4. QED
      BY <3>1, <3>2, <3>3 DEF Written
  <2>2. QED
    BY <2>1 DEF JoinedInTimeIsKept
<1>2. QED
  BY <1>1, StoreInvariant, PTL

-----------------------------------------------------------------------------
(* The refinement of UnitOfWork.                                           *)

SentOf(c) == call[c].made
FateOf(c) ==
    IF call[c].role = c /\ call[c].pc \in {"settled", "leaving"} \cup Ended
    THEN IF call[c].ok THEN "kept" ELSE IF call[c].lost THEN "unheard" ELSE "dropped"
    ELSE "none"
Sent == [c \in Calls |-> call[c].made]

LEMMA SeenAre ==
    /\ Fates = [c \in Calls |-> FateOf(c)] /\ Fates' = [c \in Calls |-> FateOf(c)']
    /\ Sent = [c \in Calls |-> SentOf(c)] /\ Sent' = [c \in Calls |-> SentOf(c)']
BY DEF Fates, FateOf, Sent, SentOf

\* A step is not seen when it changes neither the data nor what became of any call.
LEMMA Unseen ==
    ASSUME UNCHANGED <<durable, pending, open>>,
           \A d \in Calls : FateOf(d)' = FateOf(d) /\ SentOf(d)' = SentOf(d)
    PROVE  UNCHANGED <<durable, pending, open, Fates, Sent>>
<1>1. Fates' = Fates /\ Sent' = Sent
  BY SeenAre
<1>2. QED
  BY <1>1

\* Where only c moves, and what it sent stays: its fate is the new one.
LEMMA FateMoves ==
    ASSUME NEW c \in Calls, NEW how, FateOf(c)' = how,
           \A d \in Calls \ {c} : FateOf(d)' = FateOf(d),
           \A d \in Calls : SentOf(d)' = SentOf(d)
    PROVE  Fates' = [Fates EXCEPT ![c] = how] /\ Sent' = Sent
BY SeenAre

LEMMA MoveOf ==
    ASSUME NEW c \in Calls, \A d \in Calls \ {c} : call'[d] = call[d]
    PROVE  \A d \in Calls \ {c} : FateOf(d)' = FateOf(d) /\ SentOf(d)' = SentOf(d)
BY DEF FateOf, SentOf

\* A call enters the unit of work, its own or another's.
LEMMA EnterUnseen ==
    ASSUME StoreInv, NEW c \in Calls, Begin(c) \/ Join(c)
    PROVE  UNCHANGED <<durable, pending, open, Fates, Sent>>
<1>1. call \in [Calls -> Call] /\ call[c].pc = "idle"
  BY DEF StoreInv, StoreTypeOK, Begin, Join
<1>2. /\ \A d \in Calls \ {c} : call'[d] = call[d]
      /\ call'[c].pc \in {"opening", "waiting", "working"}
      /\ call'[c].made = call[c].made
      /\ UNCHANGED <<durable, pending, open>>
  <2>1. CASE Begin(c)
    BY <1>1, <2>1 DEF Begin, Call
  <2>2. CASE Join(c)
    <3> DEFINE pc == IF gate = "pending" THEN "waiting" ELSE "working"
               role == IF gate = "none" THEN Base ELSE Outer
               late == call[Outer].pc \in {"flushing", "committing", "settled"}
    <3>1. call' = [call EXCEPT ![c].pc = pc, ![c].role = role, ![c].late = late]
          /\ UNCHANGED <<durable, pending, open>>
      BY <2>2 DEF Join
    <3>2. pc \in {"waiting", "working"}
      OBVIOUS
    <3> HIDE DEF pc, role, late
    <3>3. /\ \A d \in Calls \ {c} : call'[d] = call[d]
          /\ call'[c].pc = pc /\ call'[c].made = call[c].made
      BY <1>1, <3>1, ZenonT(30) DEF Call
    <3>4. QED
      BY <3>1, <3>2, <3>3
  <2>3. QED
    BY <2>1, <2>2
<1>3. FateOf(c) = "none" /\ FateOf(c)' = "none" /\ SentOf(c)' = SentOf(c)
  BY <1>1, <1>2 DEF FateOf, SentOf, Ended
<1>4. QED
  BY <1>2, <1>3, MoveOf, Unseen

\* The database opens the transaction, or refuses to.
LEMMA OpenRefines ==
    ASSUME StoreAssumption, StoreInv, NEW c \in Calls, Opened(c) \/ OpenFails(c)
    PROVE  Unit!Open(c) \/ Unit!Refuse(c)
<1>1. call \in [Calls -> Call] /\ call[c].pc = "opening"
  BY DEF StoreInv, StoreTypeOK, Opened, OpenFails
<1>2. call[c].role = c /\ Leads(c)
  BY <1>1 DEF StoreInv, Roles, RolesOf, InnerPc, Leads, Ended
<1>3. call[c].made = 0 /\ open = {} /\ ~call[c].lost
  BY <1>1, <1>2 DEF StoreInv, OuterData, OuterOf, Kept, Control
<1>4. FateOf(c) = "none" /\ SentOf(c) = 0
  BY <1>1, <1>3 DEF FateOf, SentOf, Ended
<1>5. Unit!Fresh(c)
  BY <1>3, <1>4, SeenAre DEF Unit!Fresh, Sent
<1>6. CASE Opened(c)
  <2>1. \A d \in Calls : call'[d] = IF d = c \/ call[d].pc = "waiting"
                                    THEN [call[d] EXCEPT !.pc = "working"] ELSE call[d]
    BY <1>6 DEF Opened
  <2>2. \A d \in Calls : call'[d] = call[d] \/
           /\ call[d].pc \in {"opening", "waiting"} /\ call'[d].pc = "working"
           /\ call'[d].made = call[d].made
    BY <1>1, <2>1 DEF Call
  <2>3. \A d \in Calls : FateOf(d)' = FateOf(d) /\ SentOf(d)' = SentOf(d)
    BY <2>2 DEF FateOf, SentOf, Ended
  <2>4. Fates' = Fates /\ Sent' = Sent
    BY <2>3, SeenAre
  <2>5. open' = {c} /\ UNCHANGED <<durable, pending>>
    BY <1>3, <1>6 DEF Opened
  <2>6. QED
    BY <1>5, <2>4, <2>5 DEF Unit!Open, Sent
<1>7. CASE OpenFails(c)
  <2>1. \A d \in Calls : call'[d] =
           IF d = c THEN [call[d] EXCEPT !.pc = "leaving", !.ok = FALSE]
           ELSE IF call[d].pc = "waiting"
           THEN [call[d] EXCEPT !.pc = "working", !.role = Base] ELSE call[d]
    BY <1>7 DEF OpenFails
  <2>2. call'[c].pc = "leaving" /\ ~call'[c].ok /\ ~call'[c].lost /\ call'[c].role = c
        /\ call'[c].made = call[c].made
    BY <1>1, <1>2, <1>3, <2>1 DEF Call
  <2>3. \A d \in Calls \ {c} : call'[d] = call[d] \/
           /\ call[d].pc = "waiting" /\ call'[d].pc = "working"
           /\ call'[d].made = call[d].made
    BY <1>1, <2>1 DEF Call
  <2>4. \A d \in Calls \ {c} : FateOf(d)' = FateOf(d) /\ SentOf(d)' = SentOf(d)
    BY <2>3 DEF FateOf, SentOf, Ended
  <2>5. FateOf(c)' = "dropped" /\ SentOf(c)' = SentOf(c)
    BY <2>2 DEF FateOf, SentOf
  <2>6. Fates' = [Fates EXCEPT ![c] = "dropped"] /\ Sent' = Sent
    BY <2>4, <2>5, FateMoves
  <2>7. UNCHANGED <<durable, pending, open>>
    BY <1>7 DEF OpenFails
  <2>8. QED
    BY <1>5, <2>6, <2>7 DEF Unit!Refuse, Unit!Ends, Sent
<1>8. QED
  BY <1>6, <1>7

\* A statement goes to the open transaction, or commits alone where none is open.
LEMMA TakeRefines ==
    ASSUME StoreAssumption, StoreInv, NEW c \in Calls,
           call[c].pc = "working", call[c].made < Writes,
           call' = [call EXCEPT ![c].made = @ + 1], open' = open,
           \/ /\ client = Base /\ pending' = pending
              /\ durable' = durable \cup {<<c, call[c].made + 1>>}
           \/ /\ client \in open /\ durable' = durable
              /\ pending' = pending \cup {<<c, call[c].made + 1>>}
    PROVE  Unit!Take(c)
<1>1. call \in [Calls -> Call]
  BY DEF StoreInv, StoreTypeOK
<1>2. client = Base => open = {}
  <2>1. ASSUME client = Base
        PROVE  open = {}
    <3>1. CASE \E o \in Calls : Leads(o)
      BY <2>1, <3>1 DEF StoreInv, Control, StoreAssumption
    <3>2. CASE ~\E o \in Calls : Leads(o)
      BY <3>2 DEF StoreInv, Control, StoreTypeOK
    <3>3. QED
      BY <3>1, <3>2
  <2>2. QED
    BY <2>1
<1>3. /\ call'[c].made = call[c].made + 1 /\ call'[c].pc = call[c].pc
      /\ \A d \in Calls \ {c} : call'[d] = call[d]
  BY <1>1 DEF Call
<1>4. \A d \in Calls \ {c} : FateOf(d)' = FateOf(d) /\ SentOf(d)' = SentOf(d)
  BY <1>3, MoveOf
<1>5. FateOf(c) = "none" /\ FateOf(c)' = "none" /\ SentOf(c)' = SentOf(c) + 1
  BY <1>3 DEF FateOf, SentOf, Ended
<1>6. Fates' = Fates /\ Sent' = [Sent EXCEPT ![c] = @ + 1] /\ Fates[c] = "none"
      /\ Sent[c] = call[c].made
  BY <1>4, <1>5, SeenAre DEF SentOf
<1>7. CASE client = Base
  <2>1. pending' = pending /\ durable' = durable \cup {<<c, Sent[c] + 1>>}
    BY <1>2, <1>6, <1>7
  <2>2. QED
    BY <1>2, <1>6, <1>7, <2>1 DEF Unit!Take, Sent
<1>8. CASE client # Base
  <2>1. durable' = durable /\ pending' = pending \cup {<<c, Sent[c] + 1>>} /\ open # {}
    BY <1>6, <1>8
  <2>2. QED
    BY <1>6, <2>1 DEF Unit!Take, Sent
<1>9. QED
  BY <1>7, <1>8

\* Work that ends, joins drained, hooks run: not seen.
LEMMA WorkUnseen ==
    ASSUME StoreInv, NEW c \in Calls, NEW pc, UNCHANGED <<durable, pending, open>>,
           At(c, pc) \/ \E ok \in BOOLEAN : call' = [call EXCEPT ![c].pc = pc, ![c].ok = ok],
           call[c].pc \in {"working", "draining", "flushing", "committing"},
           pc \in {"draining", "flushing", "committing", "rolling"} \/ call[c].role # c
    PROVE  UNCHANGED <<durable, pending, open, Fates, Sent>>
<1>1. call \in [Calls -> Call]
  BY DEF StoreInv, StoreTypeOK
<1>2. /\ call'[c].pc = pc /\ call'[c].role = call[c].role /\ call'[c].made = call[c].made
      /\ \A d \in Calls \ {c} : call'[d] = call[d]
  BY <1>1 DEF At, Call
<1>3. FateOf(c)' = FateOf(c) /\ SentOf(c)' = SentOf(c)
  BY <1>2 DEF FateOf, SentOf, Ended
<1>4. QED
  BY <1>2, <1>3, MoveOf, Unseen

LEMMA WorkEndsUnseen ==
    ASSUME StoreInv, NEW c \in Calls, NEW ok \in BOOLEAN, WorkEnds(c, ok), call[c].pc = "working",
           UNCHANGED <<durable, pending, open>>
    PROVE  UNCHANGED <<durable, pending, open, Fates, Sent>>
<1>1. CASE call[c].role = c
  <2>1. PICK pc \in {"draining", "rolling"} : call' = [call EXCEPT ![c].pc = pc, ![c].ok = ok]
    BY <1>1 DEF WorkEnds
  <2>2. QED
    BY <2>1, WorkUnseen
<1>2. CASE call[c].role # c
  <2>1. PICK pc \in {"returned", "threw"} : call' = [call EXCEPT ![c].pc = pc, ![c].ok = ok]
    BY <1>2 DEF WorkEnds
  <2>2. QED
    BY <1>2, <2>1, WorkUnseen
<1>3. QED
  BY <1>1, <1>2

\* The database settles the transaction.
LEMMA SettleRefines ==
    ASSUME StoreAssumption, StoreInv, NEW c \in Calls,
           \/ At(c, "settled")
           \/ /\ call[c].pc = "committing"
              /\ call' = [call EXCEPT ![c].pc = "settled", ![c].ok = FALSE, ![c].lost = TRUE],
           open' = open \ {c}, pending' = {},
           \/ call[c].pc = "committing" /\ durable' = durable \cup pending
           \/ call[c].pc = "rolling" /\ durable' = durable
    PROVE  Unit!Commit(c) \/ Unit!Discard(c)
<1>1. call \in [Calls -> Call]
  BY DEF StoreInv, StoreTypeOK
<1>2. call[c].role = c /\ Leads(c)
  BY DEF StoreInv, Roles, RolesOf, InnerPc, Leads, Ended
<1>3. /\ open = {c}
      /\ call[c].pc = "committing" => call[c].ok /\ call[c].made = Writes
      /\ call[c].pc = "rolling" => ~call[c].ok /\ ~call[c].lost
  BY <1>2 DEF StoreInv, OuterData, OuterOf, Control
<1>4. /\ call'[c].pc = "settled" /\ call'[c].role = c
      /\ \/ call'[c].ok = call[c].ok /\ call'[c].lost = call[c].lost
         \/ call[c].pc = "committing" /\ ~call'[c].ok /\ call'[c].lost
      /\ call'[c].made = call[c].made /\ \A d \in Calls \ {c} : call'[d] = call[d]
  BY <1>1, <1>2 DEF At, Call
<1>5. \A d \in Calls \ {c} : FateOf(d)' = FateOf(d) /\ SentOf(d)' = SentOf(d)
  BY <1>4, MoveOf
<1>6. /\ SentOf(c)' = SentOf(c)
      /\ FateOf(c)' \in IF call[c].ok THEN {"kept", "unheard"} ELSE {"dropped"}
  BY <1>3, <1>4 DEF FateOf, SentOf
<1>7. /\ \E how \in IF call[c].ok THEN {"kept", "unheard"} ELSE {"dropped"} :
            Fates' = [Fates EXCEPT ![c] = how]
      /\ Sent' = Sent /\ Sent[c] = call[c].made
  BY <1>5, <1>6, FateMoves, SeenAre DEF SentOf
<1>8. open' = {}
  BY <1>3
<1>9. CASE call[c].pc = "committing"
  BY <1>3, <1>7, <1>8, <1>9 DEF Unit!Commit, Unit!Ends, Sent
<1>10. CASE call[c].pc = "rolling"
  BY <1>3, <1>7, <1>8, <1>10 DEF Unit!Discard, Unit!Ends, Sent
<1>11. QED
  BY <1>9, <1>10

\* The finally blocks: not seen.
LEMMA FinallyUnseen ==
    ASSUME StoreInv, NEW c \in Calls, RestoreClient(c) \/ Leave(c)
    PROVE  UNCHANGED <<durable, pending, open, Fates, Sent>>
<1>1. call \in [Calls -> Call]
  BY DEF StoreInv, StoreTypeOK
<1>2. PICK pc \in {"leaving", "returned", "threw"} : At(c, pc)
  BY DEF RestoreClient, Leave
<1>3. /\ call[c].pc \in {"settled", "leaving"} /\ UNCHANGED <<durable, pending, open>>
  BY DEF RestoreClient, Leave
<1>4. /\ call'[c].pc = pc /\ call'[c].role = call[c].role /\ call'[c].ok = call[c].ok
      /\ call'[c].lost = call[c].lost
      /\ call'[c].made = call[c].made /\ \A d \in Calls \ {c} : call'[d] = call[d]
  BY <1>1, <1>2 DEF At, Call
<1>5. FateOf(c)' = FateOf(c) /\ SentOf(c)' = SentOf(c)
  BY <1>2, <1>3, <1>4 DEF FateOf, SentOf, Ended
<1>6. QED
  BY <1>3, <1>4, <1>5, MoveOf, Unseen

\* One step of one call, whole.
LEMMA CallRefines ==
    ASSUME StoreAssumption, StoreInv, NEW c \in Calls,
           Begin(c) \/ Join(c) \/ OpenFails(c) \/ WorkThrows(c) \/ Progress(c)
    PROVE  \/ UNCHANGED <<durable, pending, open, Fates, Sent>>
           \/ Unit!Open(c) \/ Unit!Refuse(c) \/ Unit!Take(c) \/ Unit!Commit(c) \/ Unit!Discard(c)
<1>1. CASE Begin(c) \/ Join(c)
  BY <1>1, EnterUnseen
<1>2. CASE Opened(c) \/ OpenFails(c)
  BY <1>2, OpenRefines
<1>3. CASE Write(c)
  <2>1. CASE client \notin open \cup {Base} /\ WorkEnds(c, FALSE) /\ UNCHANGED <<pending, durable>>
    BY <1>3, <2>1, WorkEndsUnseen DEF Write
  <2>2. CASE ~(/\ client \notin open \cup {Base} /\ WorkEnds(c, FALSE)
               /\ UNCHANGED <<pending, durable>>)
    BY <1>3, <2>2, TakeRefines DEF Write
  <2>3. QED
    BY <2>1, <2>2
<1>4. CASE WorkReturns(c) \/ WorkThrows(c)
  BY <1>4, WorkEndsUnseen DEF WorkReturns, WorkThrows
<1>5. CASE DrainJoins(c)
  BY <1>5, WorkUnseen DEF DrainJoins
<1>6. CASE RunBeforeCommit(c)
  BY <1>6, WorkUnseen DEF RunBeforeCommit
<1>7. CASE Commit(c)
  <2>1. CASE durable' = durable \cup pending /\ pending' = {} /\ open' = open \ {c}
             /\ \/ At(c, "settled")
                \/ call' = [call EXCEPT ![c].pc = "settled", ![c].ok = FALSE, ![c].lost = TRUE]
    BY <1>7, <2>1, SettleRefines DEF Commit
  <2>2. CASE /\ call' = [call EXCEPT ![c].pc = "rolling", ![c].ok = FALSE]
             /\ UNCHANGED <<durable, pending, open>>
    BY <1>7, <2>2, WorkUnseen DEF Commit
  <2>3. QED
    BY <1>7, <2>1, <2>2 DEF Commit
<1>8. CASE Rollback(c)
  BY <1>8, SettleRefines DEF Rollback
<1>9. CASE RestoreClient(c) \/ Leave(c)
  BY <1>9, FinallyUnseen
<1>10. QED
  BY <1>1, <1>2, <1>3, <1>4, <1>5, <1>6, <1>7, <1>8, <1>9 DEF Progress

\* The store implements UnitOfWork, for any calls, statements and number of failures.
THEOREM UnitRefined == ASSUME StoreAssumption PROVE StoreSpec => ImplementsUnitOfWork
<1>1. StoreInit => Unit!Init
  <2> SUFFICES ASSUME StoreInit
               PROVE  Unit!Init
    OBVIOUS
  <2>1. \A c \in Calls : FateOf(c) = "none" /\ call[c].made = 0
    BY DEF StoreInit, FateOf, Ended
  <2>2. Fates = [c \in Calls |-> "none"]
    BY <2>1, SeenAre
  <2>3. [c \in Calls |-> call[c].made] = [c \in Calls |-> 0]
    BY <2>1
  <2>4. QED
    BY <2>2, <2>3 DEF StoreInit, Unit!Init
<1>2. StoreInv /\ [StoreNext]_storeVars => [Unit!Next]_(Unit!unitVars)
  <2> SUFFICES ASSUME StoreInv, [StoreNext]_storeVars
               PROVE  [Unit!Next]_(Unit!unitVars)
    OBVIOUS
  <2>1. CASE UNCHANGED storeVars
    BY <2>1 DEF storeVars, Unit!unitVars, Fates
  <2>2. CASE StoreNext
    <3>1. PICK c \in Calls : Begin(c) \/ Join(c) \/ OpenFails(c) \/ WorkThrows(c) \/ Progress(c)
      BY <2>2 DEF StoreNext
    <3>2. QED
      BY <3>1, CallRefines DEF Unit!Next, Unit!unitVars, Sent
  <2>3. QED
    BY <2>1, <2>2
<1>3. QED
  BY <1>1, <1>2, StoreInvariant, PTL DEF StoreSpec, ImplementsUnitOfWork, Unit!Spec

-----------------------------------------------------------------------------
(* What UnitOfWork itself comes to.                                        *)

\* A call with an open unit sent all it has into it; one that sent nothing left no trace.
UnitOf(c) ==
    /\ c \in open => /\ Fates[c] = "none"
                     /\ \A k \in 1..Sent[c] : <<c, k>> \in pending
                     /\ \A k \in 1..Writes : <<c, k>> \notin durable
    /\ Fates[c] \in {"kept", "unheard"} => \A k \in 1..Writes : <<c, k>> \in durable
    /\ Fates[c] = "dropped" \/ Sent[c] = 0 =>
          \A k \in 1..Writes : <<c, k>> \notin durable /\ <<c, k>> \notin pending
UnitInv ==
    /\ Fates \in [Calls -> {"none", "kept", "unheard", "dropped"}]
    /\ Sent \in [Calls -> 0..Writes]
    /\ \A c \in Calls : UnitOf(c)

LEMMA UnitStep ==
    ASSUME StoreAssumption, UnitInv, NEW c \in Calls,
           Unit!Open(c) \/ Unit!Refuse(c) \/ Unit!Take(c) \/ Unit!Commit(c) \/ Unit!Discard(c)
    PROVE  UnitInv'
<1> USE DEF StoreAssumption
<1>1. Sent = [d \in Calls |-> call[d].made]
  BY DEF Sent
<1>2. Sent' = [d \in Calls |-> call[d].made]'
  BY DEF Sent
<1>3. CASE Unit!Open(c)
  <2>1. /\ open = {} /\ open' = {c} /\ Fates[c] = "none" /\ Sent[c] = 0
        /\ durable' = durable /\ pending' = pending /\ Fates' = Fates /\ Sent' = Sent
    BY <1>1, <1>2, <1>3 DEF Unit!Open, Unit!Fresh
  <2>2. QED
    BY <2>1 DEF UnitInv, UnitOf
<1>4. CASE Unit!Refuse(c)
  <2>1. /\ open = {} /\ open' = {} /\ Fates[c] = "none" /\ Sent[c] = 0
        /\ durable' = durable /\ pending' = pending /\ Sent' = Sent
        /\ Fates' = [Fates EXCEPT ![c] = "dropped"]
    BY <1>1, <1>2, <1>4 DEF Unit!Refuse, Unit!Fresh, Unit!Ends
  <2>2. QED
    BY <2>1 DEF UnitInv, UnitOf
<1>5. CASE Unit!Take(c)
  <2>1. /\ Fates[c] = "none" /\ Sent[c] < Writes /\ Sent' = [Sent EXCEPT ![c] = @ + 1]
        /\ IF open = {} THEN durable' = durable \cup {<<c, Sent[c] + 1>>} /\ pending' = pending
           ELSE pending' = pending \cup {<<c, Sent[c] + 1>>} /\ durable' = durable
        /\ open' = open /\ Fates' = Fates
    BY <1>1, <1>2, <1>5 DEF Unit!Take
  <2>2. /\ Sent[c] \in Nat /\ Sent[c] + 1 \in 1..Writes
        /\ Sent' \in [Calls -> 0..Writes] /\ Sent'[c] = Sent[c] + 1
        /\ \A d \in Calls \ {c} : Sent'[d] = Sent[d]
    BY <2>1 DEF UnitInv
  <2>3. ASSUME NEW d \in Calls, d # c
        PROVE  UnitOf(d)'
    <3>1. /\ UnitOf(d) /\ Sent'[d] = Sent[d]
          /\ \A k \in 1..Writes : /\ <<d, k>> \in durable' <=> <<d, k>> \in durable
                                  /\ <<d, k>> \in pending' <=> <<d, k>> \in pending
      BY <2>1, <2>2, <2>3 DEF UnitInv
    <3>2. pending \subseteq pending'
      BY <2>1
    <3>3. QED
      BY <2>1, <3>1, <3>2 DEF UnitOf
  <2>4. UnitOf(c)'
    <3>1. UnitOf(c)
      BY DEF UnitInv
    <3>2. Fates'[c] = "none" /\ Sent'[c] # 0
      BY <2>1, <2>2
    <3>3. ASSUME c \in open
          PROVE  /\ \A k \in 1..Sent'[c] : <<c, k>> \in pending'
                 /\ \A k \in 1..Writes : <<c, k>> \notin durable'
      <4>1. pending' = pending \cup {<<c, Sent[c] + 1>>} /\ durable' = durable
        BY <2>1, <3>3
      <4>2. \A k \in 1..Sent'[c] : k \in 1..Sent[c] \/ k = Sent[c] + 1
        BY <2>2
      <4>3. QED
        BY <3>1, <3>3, <4>1, <4>2 DEF UnitOf
    <3>4. QED
      BY <2>1, <3>2, <3>3 DEF UnitOf
  <2>5. QED
    BY <2>1, <2>2, <2>3, <2>4 DEF UnitInv
<1>6. CASE Unit!Commit(c)
  <2>1. /\ open = {c} /\ open' = {} /\ Sent[c] = Writes /\ Sent' = Sent
        /\ durable' = durable \cup pending /\ pending' = {}
        /\ \E how \in {"kept", "unheard"} : Fates' = [Fates EXCEPT ![c] = how]
    BY <1>1, <1>2, <1>6 DEF Unit!Commit, Unit!Ends
  <2>2. \A k \in 1..Writes : <<c, k>> \in pending
    BY <2>1 DEF UnitInv, UnitOf
  <2>3. \A d \in Calls \ {c} : UnitOf(d)'
    BY <2>1 DEF UnitInv, UnitOf
  <2>4. UnitOf(c)'
    BY <2>1, <2>2 DEF UnitInv, UnitOf
  <2>5. QED
    BY <2>1, <2>3, <2>4 DEF UnitInv
<1>7. CASE Unit!Discard(c)
  <2>1. /\ open = {c} /\ open' = {} /\ Sent' = Sent
        /\ durable' = durable /\ pending' = {}
        /\ Fates' = [Fates EXCEPT ![c] = "dropped"]
    BY <1>1, <1>2, <1>7 DEF Unit!Discard, Unit!Ends
  <2>2. QED
    BY <2>1 DEF UnitInv, UnitOf
<1>8. QED
  BY <1>3, <1>4, <1>5, <1>6, <1>7

\* The promises of UnitOfWork alone make a unit all or nothing: kept, it is durable to its
\* last statement; open, refused or dropped, it left no trace.
THEOREM UnitAllOrNothing == ASSUME StoreAssumption PROVE Unit!Spec => []Unit!AllOrNothing
<1>1. Unit!Init => UnitInv
  <2> SUFFICES ASSUME Unit!Init
               PROVE  UnitInv
    OBVIOUS
  <2>1. /\ durable = {} /\ pending = {} /\ open = {}
        /\ Fates = [c \in Calls |-> "none"] /\ Sent = [c \in Calls |-> 0]
    BY DEF Unit!Init, Sent
  <2>2. QED
    BY <2>1 DEF UnitInv, UnitOf, StoreAssumption
<1>2. UnitInv /\ [Unit!Next]_(Unit!unitVars) => UnitInv'
  <2>1. ASSUME UnitInv, UNCHANGED Unit!unitVars
        PROVE  UnitInv'
    <3>1. UNCHANGED <<durable, pending, open, Fates, Sent>>
      BY <2>1 DEF Unit!unitVars, Sent
    <3>2. QED
      BY <2>1, <3>1 DEF UnitInv, UnitOf
  <2>2. QED
    BY <2>1, UnitStep DEF Unit!Next
<1>3. UnitInv => Unit!AllOrNothing
  <2> SUFFICES ASSUME UnitInv, NEW c \in Calls
               PROVE  /\ Fates[c] \in {"kept", "unheard"} => {c} \X (1..Writes) \subseteq durable
                      /\ Fates[c] = "dropped" \/ c \in open =>
                            \A k \in 1..Writes : <<c, k>> \notin durable
    BY DEF Unit!AllOrNothing
  <2>1. UnitOf(c)
    BY DEF UnitInv
  <2>2. \A x \in {c} \X (1..Writes) : \E k \in 1..Writes : x = <<c, k>>
    OBVIOUS
  <2>3. QED
    BY <2>1, <2>2 DEF UnitOf
<1>4. QED
  BY <1>1, <1>2, <1>3, PTL DEF Unit!Spec

=============================================================================
