------------------------------ MODULE SyncPush ------------------------------
(***************************************************************************)
(* The local<->prod sync engine (packages/db/src/sync-engine.ts).  pull    *)
(* copies prod over local; push replaces prod with local, behind a         *)
(* staleness guard and a backup, and puts back the connection keys the     *)
(* export leaves out.  The hosted app goes on writing to prod meanwhile,   *)
(* and the script may die between any two of its steps.                    *)
(*                                                                         *)
(* A workspace's document is the set of items it holds; a connected source *)
(* is an item that has a key besides, kept out of the document.  A         *)
(* fingerprint is the document itself; keys are numbered in the order they *)
(* are entered, 0 being the placeholder of an imported source.             *)
(***************************************************************************)
EXTENDS Naturals

CONSTANTS
    Items,
    Sources,    \* the items that are connected sources
    MaxKey,     \* bound: keys entered
    MaxRuns,    \* bound: pulls and pushes started
    Never       \* no last pull; also: prod was never initialized

\* What the instances satisfy and the proofs assume.
SyncAssumption ==
    /\ Sources \subseteq Items
    /\ MaxKey \in Nat /\ MaxKey >= 2   \* both sides start with their keys entered
    /\ MaxRuns \in Nat
    /\ \A items \in SUBSET Items : items # Never

VARIABLES
    prod, local,            \* documents; prod may not be initialized yet
    apart,                  \* items of prod in tables the export leaves out
    prodKey, localKey,      \* connection keys
    prodToken, localToken,  \* sources with the token a login with their key left
    lastPull,
    backups,
    script,                 \* the sync script that is running
    fresh,                  \* ids not used yet
    entered, runs,
    seen,                   \* items of prod that local held
    between,                \* items saved in prod after the running push read it, until its import
    absorbed,               \* items saved in prod after an import, until the baseline was read
    typed,                  \* the last key typed in prod
    signed,                 \* sources logged in to in prod with their last key
    rekeyed,                \* sources typed over between a push's capture and its re-seal
    severed                 \* sources a push died over, between import and re-seal

hosted == <<prod, apart, prodKey, prodToken>>
kept == <<local, localKey, localToken>>
records == <<lastPull, backups, script, runs>>
ghosts == <<seen, between, absorbed, typed, signed, rekeyed, severed>>
pushVars == <<hosted, kept, records, fresh, entered, ghosts>>

-----------------------------------------------------------------------------

Keys == [Sources -> 0..MaxKey]
NoKeys == [s \in Sources |-> 0]
ItemsOf(doc) == IF doc = Never THEN {} ELSE doc

\* doc: the document pulled, or the one of prod the guard saw; prodSnap, localSnap,
\* prodTokens, localTokens: the keys and tokens captured; left: sources still to re-seal;
\* tokens: the source whose key was put back and whose token is next.
Script == [pc : {"none", "guard", "backup", "capture", "import", "reseal", "baseline",
                 "pulled", "pulling"},
           doc : {Never} \cup SUBSET Items, prodSnap : Keys, localSnap : Keys,
           prodTokens : SUBSET Sources, localTokens : SUBSET Sources,
           left : SUBSET Sources, tokens : SUBSET Sources]
NoScript == [pc |-> "none", doc |-> Never, prodSnap |-> NoKeys, localSnap |-> NoKeys,
             prodTokens |-> {}, localTokens |-> {}, left |-> {}, tokens |-> {}]

Captured(s) == script.pc = "import" \/ (script.pc = "reseal" /\ s \in script.left)

PushInit ==
    /\ prod \in {Never} \cup SUBSET Items
    /\ local \in SUBSET Items
    /\ apart = {}
    /\ prodKey = [s \in Sources |-> IF s \in ItemsOf(prod) THEN 1 ELSE 0]
    /\ localKey = [s \in Sources |-> IF s \in local THEN 2 ELSE 0]
    /\ prodToken = {} /\ localToken = Sources \cap local
    /\ lastPull = Never
    /\ backups = {}
    /\ script = NoScript
    /\ fresh = Items \ (ItemsOf(prod) \cup local)
    /\ entered = 2 /\ runs = 0
    /\ seen = {} /\ between = {} /\ absorbed = {}
    /\ typed = prodKey /\ signed = {}
    /\ rekeyed = {} /\ severed = {}

-----------------------------------------------------------------------------
(* What the people do: the hosted app over prod, the local app over local. *)

\* What either side adds has a fresh id.
HostedSave(i) ==
    /\ prod # Never
    /\ i \in fresh
    /\ fresh' = fresh \ {i}
    /\ entered < MaxKey
    /\ prod' = prod \cup {i}
    /\ entered' = entered + 1
    /\ prodKey' = IF i \in Sources THEN [prodKey EXCEPT ![i] = entered'] ELSE prodKey
    /\ typed' = IF i \in Sources THEN [typed EXCEPT ![i] = entered'] ELSE typed
    /\ between' = IF script.pc \in {"guard", "backup", "capture", "import"}
                  THEN between \cup {i} ELSE between
    /\ absorbed' = IF script.pc = "reseal" THEN absorbed \cup {i} ELSE absorbed
    /\ UNCHANGED <<apart, prodToken, kept, records, seen, signed, rekeyed, severed>>

\* A row of a table the export leaves out: an income, an audit entry, the state of a sync.
HostedNote(i) ==
    /\ prod # Never
    /\ i \in fresh \ Sources
    /\ fresh' = fresh \ {i}
    /\ entered < MaxKey
    /\ entered' = entered + 1
    /\ apart' = apart \cup {i}
    /\ UNCHANGED <<prod, prodKey, prodToken, kept, records, ghosts>>

\* updateCredentials from the hosted app; the token, if any, is the previous key's.
HostedKey(s) ==
    /\ s \in ItemsOf(prod)
    /\ entered < MaxKey
    /\ entered' = entered + 1
    /\ prodKey' = [prodKey EXCEPT ![s] = entered']
    /\ typed' = [typed EXCEPT ![s] = entered']
    /\ signed' = signed \ {s}
    /\ rekeyed' = IF Captured(s) THEN rekeyed \cup {s} ELSE rekeyed \ {s}
    /\ severed' = severed \ {s}
    /\ UNCHANGED <<prod, apart, prodToken, kept, records, fresh, seen, between, absorbed>>

\* saveToken from the hosted app, after a login with the key.
HostedLogin(s) ==
    /\ s \in ItemsOf(prod)
    /\ prodKey[s] # 0
    /\ entered < MaxKey
    /\ entered' = entered + 1
    /\ prodToken' = prodToken \cup {s}
    /\ signed' = signed \cup {s}
    /\ rekeyed' = IF Captured(s) THEN rekeyed \cup {s} ELSE rekeyed
    /\ UNCHANGED <<prod, apart, prodKey, kept, records, fresh, seen, between, absorbed,
                   typed, severed>>

LocalSave(i) ==
    /\ i \in fresh
    /\ fresh' = fresh \ {i}
    /\ entered < MaxKey
    /\ local' = local \cup {i}
    /\ entered' = entered + 1
    /\ localKey' = IF i \in Sources THEN [localKey EXCEPT ![i] = entered'] ELSE localKey
    /\ UNCHANGED <<hosted, localToken, records, ghosts>>

LocalDrop(i) ==
    /\ i \in local
    /\ entered < MaxKey
    /\ local' = local \ {i}
    /\ entered' = entered + 1
    /\ localKey' = IF i \in Sources THEN [localKey EXCEPT ![i] = 0] ELSE localKey
    /\ localToken' = localToken \ {i}
    /\ UNCHANGED <<hosted, records, fresh, ghosts>>

-----------------------------------------------------------------------------
(* syncPull.                                                               *)

BeginPull ==
    /\ script.pc = "none"
    /\ runs < MaxRuns
    /\ prod # Never
    /\ runs' = runs + 1
    /\ script' = [NoScript EXCEPT !.pc = "pulling", !.doc = prod]
    /\ UNCHANGED <<hosted, kept, lastPull, backups, fresh, entered, ghosts>>

\* importWorkspace empties local's keys and tokens with the rest: the document carries none.
ImportLocal ==
    /\ script.pc = "pulling"
    /\ local' = script.doc
    /\ localKey' = NoKeys /\ localToken' = {}
    /\ seen' = seen \cup script.doc
    /\ script' = [script EXCEPT !.pc = "pulled"]
    /\ UNCHANGED <<hosted, lastPull, backups, runs, fresh, entered, between, absorbed, typed,
                   signed, rekeyed, severed>>

EndPull ==
    /\ script.pc = "pulled"
    /\ lastPull' = script.doc
    /\ script' = NoScript
    /\ UNCHANGED <<hosted, kept, backups, runs, fresh, entered, ghosts>>

-----------------------------------------------------------------------------
(* syncPush.                                                               *)

\* The export of prod the guard is about to judge.
BeginPush ==
    /\ script.pc = "none"
    /\ runs < MaxRuns
    /\ runs' = runs + 1
    /\ script' = [NoScript EXCEPT !.pc = "guard", !.doc = prod]
    /\ between' = {}
    /\ UNCHANGED <<hosted, kept, lastPull, backups, fresh, entered, seen, absorbed, typed,
                   signed, rekeyed, severed>>

\* Faulty variant: the guard does not compare.
Guard_Blind ==
    /\ script.pc = "guard"
    /\ script' = [script EXCEPT !.pc = "backup"]
    /\ UNCHANGED <<hosted, kept, lastPull, backups, runs, fresh, entered, ghosts>>

\* SyncStaleError when prod's export is not what was last synced with; no last pull passes.
Guard ==
    /\ script.pc = "guard"
    /\ script' = IF lastPull # Never /\ lastPull # script.doc
                 THEN NoScript ELSE [script EXCEPT !.pc = "backup"]
    /\ UNCHANGED <<hosted, kept, lastPull, backups, runs, fresh, entered, ghosts>>

\* The export the guard judged, no more; nothing to back up when prod is fresh.
Backup ==
    /\ script.pc = "backup"
    /\ backups' = IF script.doc = Never THEN backups ELSE backups \cup {script.doc}
    /\ script' = [script EXCEPT !.pc = "capture"]
    /\ UNCHANGED <<hosted, kept, lastPull, runs, fresh, entered, ghosts>>

\* snapshotSecrets of both sides, before the replace.
Capture ==
    /\ script.pc = "capture"
    /\ script' = [script EXCEPT !.pc = "import", !.prodSnap = prodKey, !.localSnap = localKey,
                                !.prodTokens = prodToken, !.localTokens = localToken]
    /\ UNCHANGED <<hosted, kept, lastPull, backups, runs, fresh, entered, ghosts>>

\* Faulty variant: the replace leaves the keys that were there.
ImportProd_KeepsKeys ==
    /\ script.pc = "import"
    /\ prod' = local /\ apart' = {}
    /\ script' = [script EXCEPT !.pc = "reseal", !.left = Sources \cap local]
    /\ seen' = seen \cup local
    /\ typed' = [s \in Sources |-> IF s \in local THEN typed[s] ELSE 0]
    /\ signed' = signed \cap local
    /\ UNCHANGED <<prodKey, prodToken, kept, lastPull, backups, runs, fresh, entered, between,
                   absorbed, rekeyed, severed>>

\* exportWorkspace of local and importWorkspace over prod, which first empties every table,
\* those the export leaves out too: every source lands with neither key nor token.
ImportProd ==
    /\ script.pc = "import"
    /\ prod' = local /\ apart' = {}
    /\ prodKey' = NoKeys /\ prodToken' = {}
    /\ script' = [script EXCEPT !.pc = "reseal", !.left = Sources \cap local]
    /\ seen' = seen \cup local
    /\ typed' = [s \in Sources |-> IF s \in local THEN typed[s] ELSE 0]
    /\ signed' = signed \cap local
    /\ UNCHANGED <<kept, lastPull, backups, runs, fresh, entered, between, absorbed, rekeyed,
                   severed>>

\* reapplySecrets, one source: its key and, in a write of its own, its token, both of prod's
\* snapshot when it has a key there and of local's otherwise; with no key, neither.
FromProd(s) == script.prodSnap[s] # 0
KeyCaptured(s) == IF FromProd(s) THEN script.prodSnap[s] ELSE script.localSnap[s]
TokenCaptured(s) ==
    IF KeyCaptured(s) = 0 THEN {}
    ELSE {s} \cap IF FromProd(s) THEN script.prodTokens ELSE script.localTokens

\* Faulty variant: local's own key wins.
ResealKey_LocalWins(s) ==
    /\ script.pc = "reseal"
    /\ script.tokens = {}
    /\ s \in script.left
    /\ LET key == IF script.localSnap[s] # 0 THEN script.localSnap[s] ELSE script.prodSnap[s]
       IN prodKey' = IF key # 0 THEN [prodKey EXCEPT ![s] = key] ELSE prodKey
    /\ script' = [script EXCEPT !.left = @ \ {s}, !.tokens = TokenCaptured(s)]
    /\ UNCHANGED <<prod, apart, prodToken, kept, lastPull, backups, runs, fresh, entered,
                   ghosts>>

ResealKey(s) ==
    /\ script.pc = "reseal"
    /\ script.tokens = {}
    /\ s \in script.left
    /\ prodKey' = IF KeyCaptured(s) # 0 THEN [prodKey EXCEPT ![s] = KeyCaptured(s)] ELSE prodKey
    /\ script' = [script EXCEPT !.left = @ \ {s}, !.tokens = TokenCaptured(s)]
    /\ UNCHANGED <<prod, apart, prodToken, kept, lastPull, backups, runs, fresh, entered,
                   ghosts>>

ResealToken(s) ==
    /\ s \in script.tokens
    /\ prodToken' = prodToken \cup {s}
    /\ script' = [script EXCEPT !.tokens = {}]
    /\ UNCHANGED <<prod, apart, prodKey, kept, lastPull, backups, runs, fresh, entered, ghosts>>

\* The new baseline is read from prod after the import, not from what was imported.
ReadBaseline ==
    /\ script.pc = "reseal"
    /\ script.left = {} /\ script.tokens = {}
    /\ script' = [script EXCEPT !.pc = "baseline", !.doc = prod]
    /\ UNCHANGED <<hosted, kept, lastPull, backups, runs, fresh, entered, ghosts>>

EndPush ==
    /\ script.pc = "baseline"
    /\ lastPull' = script.doc
    /\ script' = NoScript
    /\ UNCHANGED <<hosted, kept, backups, runs, fresh, entered, ghosts>>

\* The script dies where it stands.
Die ==
    /\ script.pc # "none"
    /\ severed' = severed \cup script.left \cup script.tokens
    /\ script' = NoScript
    /\ UNCHANGED <<hosted, kept, lastPull, backups, runs, fresh, entered, seen, between,
                   absorbed, typed, signed, rekeyed>>

PushNext ==
    \/ \E i \in Items : HostedSave(i) \/ HostedNote(i) \/ LocalSave(i) \/ LocalDrop(i)
    \/ \E s \in Sources : HostedKey(s) \/ HostedLogin(s) \/ ResealKey(s) \/ ResealToken(s)
    \/ BeginPull \/ ImportLocal \/ EndPull
    \/ BeginPush \/ Guard \/ Backup \/ Capture \/ ImportProd \/ ReadBaseline \/ EndPush
    \/ Die

PushSpec == PushInit /\ [][PushNext]_pushVars

-----------------------------------------------------------------------------
(* Properties.                                                             *)

\* Type correctness; a source prod does not hold has no key there.
PushTypeOK ==
    /\ prod \in {Never} \cup SUBSET Items
    /\ local \in SUBSET Items /\ apart \in SUBSET Items
    /\ prodKey \in Keys /\ localKey \in Keys /\ typed \in Keys
    /\ prodToken \subseteq Sources /\ localToken \subseteq Sources
    /\ lastPull \in {Never} \cup SUBSET Items
    /\ backups \subseteq SUBSET Items
    /\ script \in Script
    /\ fresh \subseteq Items
    /\ entered \in 0..MaxKey /\ runs \in 0..MaxRuns
    /\ seen \subseteq Items /\ between \subseteq Items /\ absorbed \subseteq Items
    /\ signed \subseteq Sources /\ rekeyed \subseteq Sources /\ severed \subseteq Sources
    /\ \A s \in Sources \ ItemsOf(prod) : prodKey[s] = 0

\* A push overwrites nothing of prod's document that is not in a backup and that local never
\* held, with two windows the code leaves open: what the hosted app saves after the push read
\* prod and before its import is lost without a backup, and what it saves after the import
\* and before the baseline is read is not seen by the next push's guard, though that push
\* backs it up.  The first load, with nothing ever pulled, is backed up too.  What is in the
\* tables the export leaves out is lost with every push.
OverwritesWhatWasSeen ==
    [][\A i \in (ItemsOf(prod) \cup apart) \ (ItemsOf(prod') \cup apart') :
          \/ i \in apart \/ i \in between
          \/ i \in UNION backups /\ (i \in seen \cup absorbed \/ lastPull = Never)]_pushVars

\* A push never severs a connection: outside its own re-seal, a source that was given a key
\* in prod has that key, and one that was logged in to has a token, unless a push died
\* before putting them back or they were entered after the push captured the ones it puts
\* back.
KeysSurvivePush ==
    \A s \in Sources \ (script.left \cup severed \cup rekeyed) :
        /\ (s \in ItemsOf(prod) /\ typed[s] # 0) => prodKey[s] = typed[s]
        /\ (s \in signed \ script.tokens) => s \in prodToken

=============================================================================
