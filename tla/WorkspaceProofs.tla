--------------------------- MODULE WorkspaceProofs ---------------------------
(***************************************************************************)
(* Proofs about what is kept in one workspace's database and apart from    *)
(* the store's transactions and the proposals: the push to prod and        *)
(* history under backdated facts.                                          *)
(*                                                                         *)
(* SyncPush: outside its two windows and the tables the export leaves out, *)
(* a push overwrites nothing it did not see and back up, and it severs no  *)
(* connection, for any items, sources and number of runs.                  *)
(*                                                                         *)
(* History: for any holdings, operations and calendar, every snapshot row  *)
(* that no late capture wrote shows what the book holds on its day.  The   *)
(* property is inductive on the types; the work is in what the book shows. *)
(* What a holding has on a day is defined by recursion over the days, so   *)
(* first that such a balance exists, is of naturals, and follows from what *)
(* arrives and departs until that day (DayByDay is the induction); then    *)
(* that a command changes no fact before its floor or of another holding   *)
(* (Within); then that a band rewrites all the rest (RippleFollows).       *)
(*                                                                         *)
(* Last, that MCWorkspace, which puts them beside the store and the        *)
(* proposals, behaves as each of them; only there are its assumptions      *)
(* used.                                                                   *)
(***************************************************************************)
EXTENDS MCWorkspace, StoreTransactionProofs, ProposalsProofs, FiniteSetTheorems,
    SequenceTheorems, WellFoundedInduction, TLAPS

(***************************************************************************)
(* The push to prod                                                        *)
(***************************************************************************)

\* Sources are left to re-seal only in the re-seal, and prod holds them; what is fresh is
\* nowhere.
PushPlaces ==
    /\ script.pc # "reseal" => script.left = {} /\ script.tokens = {}
    /\ script.left \cup script.tokens \subseteq ItemsOf(prod)
    /\ \A s \in script.tokens : script.tokens = {s}
    /\ script.pc \in {"pulling", "pulled"} => script.doc # Never
    /\ fresh \cap (ItemsOf(prod) \cup local \cup ItemsOf(script.doc)) = {}

\* What a push captured is what was typed; a source prod does not hold has nothing typed.
KeysCaptured ==
    /\ \A s \in Sources \ (script.left \cup severed \cup rekeyed) :
          s \in ItemsOf(prod) /\ typed[s] # 0 => prodKey[s] = typed[s]
    /\ \A s \in Sources \ ItemsOf(prod) : typed[s] = 0
    /\ \A s \in Sources \ (severed \cup rekeyed) :
          (/\ typed[s] # 0
           /\ \/ script.pc = "import" /\ s \in ItemsOf(prod) /\ s \in local
              \/ s \in script.left) => script.prodSnap[s] = typed[s]

\* A source that was logged in to has its key and, once the re-seal is past it, its token;
\* a push that captured them puts them back.
TokensCaptured ==
    /\ signed \subseteq ItemsOf(prod)
    /\ \A s \in signed \ (severed \cup rekeyed) :
          /\ s \notin script.left => prodKey[s] # 0
          /\ s \notin script.left \cup script.tokens => s \in prodToken
          /\ script.pc = "import" \/ s \in script.left =>
                script.prodSnap[s] # 0 /\ s \in script.prodTokens

\* What the guard let through is what was seen, and is backed up by the import.
WhatWasSeen ==
    /\ script.pc \in {"guard", "backup", "capture", "import"} =>
          ItemsOf(prod) \subseteq ItemsOf(script.doc) \cup between
    /\ script.pc \in {"backup", "capture", "import"} =>
          lastPull = Never \/ lastPull = script.doc
    /\ script.pc \in {"capture", "import"} => script.doc = Never \/ script.doc \in backups
    /\ ItemsOf(lastPull) \subseteq seen \cup absorbed
    /\ script.pc = "pulled" => ItemsOf(script.doc) \subseteq seen
    /\ script.pc = "reseal" => ItemsOf(prod) \subseteq seen \cup absorbed
    /\ script.pc = "baseline" => ItemsOf(script.doc) \subseteq seen \cup absorbed

PushInv == PushTypeOK /\ PushPlaces /\ KeysCaptured /\ TokensCaptured /\ WhatWasSeen

\* The variables, one by one.
USE DEF hosted, kept, records, ghosts

-----------------------------------------------------------------------------
(* Types.                                                                  *)

LEMMA DocTyped == PushTypeOK => ItemsOf(prod) \subseteq Items
BY DEF PushTypeOK, ItemsOf

LEMMA NoScriptTyped == ASSUME SyncAssumption PROVE NoScript \in Script /\ NoKeys \in Keys
<1>1. NoKeys \in Keys
  BY DEF NoKeys, Keys, SyncAssumption
<1>2. QED
  BY <1>1 DEF NoScript, Script

LEMMA PushInitTyped == ASSUME SyncAssumption PROVE PushInit => PushTypeOK
BY NoScriptTyped DEF PushInit, PushTypeOK, Keys, ItemsOf, SyncAssumption

\* The script after the first write of a re-seal.
LEMMA ResealRow ==
    ASSUME NEW s \in Sources, ResealKey(s)
    PROVE  script' = [script EXCEPT !.left = script.left \ {s}, !.tokens = TokenCaptured(s)]
BY Zenon DEF ResealKey

\* Each step of a script leaves it typed.
LEMMA ScriptTyped ==
    ASSUME SyncAssumption, PushTypeOK,
           \/ \E s \in Sources : ResealKey(s) \/ ResealToken(s)
           \/ BeginPull \/ ImportLocal \/ EndPull \/ BeginPush \/ Guard \/ Backup \/ Capture
           \/ ImportProd \/ ReadBaseline \/ EndPush \/ Die
    PROVE  script' \in Script
<1>1. script \in Script /\ prod \in {Never} \cup SUBSET Items
      /\ prodKey \in Keys /\ localKey \in Keys
      /\ prodToken \in SUBSET Sources /\ localToken \in SUBSET Sources
  BY DEF PushTypeOK
<1>2. CASE EndPull \/ EndPush \/ Die \/ Guard
  BY <1>1, <1>2, NoScriptTyped DEF EndPull, EndPush, Die, Guard, Script
<1>3. CASE BeginPull \/ BeginPush
  BY <1>1, <1>3, NoScriptTyped DEF BeginPull, BeginPush, Script
<1>4. CASE ImportLocal \/ Backup \/ ReadBaseline
  BY <1>1, <1>4 DEF ImportLocal, Backup, ReadBaseline, Script
<1>5. CASE Capture
  BY <1>1, <1>5 DEF Capture, Script
<1>6. CASE ImportProd \/ \E s \in Sources : ResealKey(s) \/ ResealToken(s)
  <2>1. script.left \in SUBSET Sources /\ \A s : script.left \ {s} \in SUBSET Sources
    BY <1>1 DEF Script
  <2>2. CASE ImportProd
    BY <1>1, <2>2 DEF ImportProd, Script
  <2>3. ASSUME NEW s \in Sources, ResealKey(s)
        PROVE  script' \in Script
    <3> DEFINE left == script.left \ {s}
               tokens == TokenCaptured(s)
    <3>1. script' = [script EXCEPT !.left = left, !.tokens = tokens]
      BY <2>3, ResealRow, Zenon
    <3>2. left \in SUBSET Sources /\ tokens \in SUBSET Sources
      BY <2>1 DEF TokenCaptured
    <3> HIDE DEF left, tokens
    <3>3. QED
      BY <1>1, <3>1, <3>2 DEF Script
  <2>4. ASSUME NEW s \in Sources, ResealToken(s)
        PROVE  script' \in Script
    BY <1>1, <2>4 DEF ResealToken, Script
  <2>5. QED
    BY <1>6, <2>2, <2>3, <2>4
<1>7. QED
  BY <1>2, <1>3, <1>4, <1>5, <1>6

LEMMA PushStepTyped ==
    ASSUME SyncAssumption, PushTypeOK, PushPlaces, [PushNext]_pushVars
    PROVE  PushTypeOK'
<1> USE DEF SyncAssumption
<1>1. ASSUME NEW i \in Items, HostedSave(i)
      PROVE  PushTypeOK'
  <2>1. prod' \in SUBSET Items /\ entered' \in 0..MaxKey /\ prodKey' \in Keys /\ typed' \in Keys
    BY <1>1 DEF PushTypeOK, HostedSave, Keys
  <2>2. \A s \in Sources \ ItemsOf(prod)' : prodKey'[s] = 0
    <3>1. ItemsOf(prod)' = ItemsOf(prod) \cup {i}
      BY <1>1, <2>1 DEF HostedSave, ItemsOf, SyncAssumption
    <3>2. \A s \in Sources \ {i} : prodKey'[s] = prodKey[s]
      BY <1>1 DEF PushTypeOK, HostedSave, Keys
    <3>3. QED
      BY <3>1, <3>2 DEF PushTypeOK
  <2>3. between' \subseteq Items /\ absorbed' \subseteq Items
    BY <1>1 DEF PushTypeOK, HostedSave
  <2>4. QED
    BY <1>1, <2>1, <2>2, <2>3 DEF PushTypeOK, HostedSave
<1>2. ASSUME NEW s \in Sources, HostedKey(s)
      PROVE  PushTypeOK'
  <2>1. entered' \in 0..MaxKey /\ prodKey' \in Keys /\ typed' \in Keys
    BY <1>2 DEF PushTypeOK, HostedKey, Keys
  <2>2. \A q \in Sources \ ItemsOf(prod)' : prodKey'[q] = 0
    BY <1>2 DEF PushTypeOK, HostedKey, Keys, ItemsOf
  <2>3. QED
    BY <1>2, <2>1, <2>2 DEF PushTypeOK, HostedKey
<1>3. ASSUME NEW i \in Items, LocalSave(i) \/ LocalDrop(i)
      PROVE  PushTypeOK'
  <2>1. local' \in SUBSET Items /\ entered' \in 0..MaxKey /\ localKey' \in Keys
    BY <1>3 DEF PushTypeOK, LocalSave, LocalDrop, Keys
  <2>2. QED
    BY <1>3, <2>1 DEF PushTypeOK, LocalSave, LocalDrop, ItemsOf
<1>10. ASSUME NEW i \in Items, HostedNote(i)
       PROVE  PushTypeOK'
  BY <1>10 DEF PushTypeOK, HostedNote, ItemsOf
<1>11. ASSUME NEW s \in Sources, HostedLogin(s)
       PROVE  PushTypeOK'
  BY <1>11 DEF PushTypeOK, HostedLogin, ItemsOf
<1>4. CASE BeginPull \/ ImportLocal \/ EndPull
  <2>1. script' \in Script
    BY <1>4, ScriptTyped
  <2>2. script.doc \in {Never} \cup SUBSET Items
    BY DEF PushTypeOK, Script
  <2>3. QED
    BY <1>4, <2>1, <2>2 DEF PushTypeOK, PushPlaces, BeginPull, ImportLocal, EndPull, ItemsOf, Keys,
       NoKeys
<1>5. CASE BeginPush \/ Guard \/ Backup \/ Capture \/ ReadBaseline \/ EndPush \/ Die
  <2>1. script' \in Script
    BY <1>5, ScriptTyped
  <2>2. /\ script.doc \in {Never} \cup SUBSET Items /\ script.left \subseteq Sources
        /\ script.tokens \subseteq Sources
    BY DEF PushTypeOK, Script
  <2>3. QED
    BY <1>5, <2>1, <2>2 DEF PushTypeOK, BeginPush, Guard, Backup, Capture, ReadBaseline, EndPush,
       Die, ItemsOf
<1>6. CASE ImportProd
  <2>1. script' \in Script
    BY <1>6, ScriptTyped
  <2>2. typed' \in Keys
    BY <1>6 DEF PushTypeOK, ImportProd, Keys
  <2>3. QED
    BY <1>6, <2>1, <2>2 DEF PushTypeOK, ImportProd, NoKeys, Keys
<1>7. ASSUME NEW s \in Sources, ResealKey(s)
      PROVE  PushTypeOK'
  <2>1. script' \in Script
    BY <1>7, ScriptTyped
  <2>2. prodKey' \in Keys /\ \A q \in Sources \ {s} : prodKey'[q] = prodKey[q]
    <3>1. KeyCaptured(s) \in 0..MaxKey
      BY DEF PushTypeOK, Script, Keys, KeyCaptured
    <3>2. QED
      BY <1>7, <3>1 DEF PushTypeOK, ResealKey, Keys
  <2>3. s \in ItemsOf(prod)'
    BY <1>7 DEF ResealKey, PushPlaces, ItemsOf
  <2>4. QED
    BY <1>7, <2>1, <2>2, <2>3 DEF PushTypeOK, ResealKey, ItemsOf
<1>12. ASSUME NEW s \in Sources, ResealToken(s)
       PROVE  PushTypeOK'
  <2>1. script' \in Script
    BY <1>12, ScriptTyped
  <2>2. QED
    BY <1>12, <2>1 DEF PushTypeOK, ResealToken, ItemsOf
<1>8. CASE UNCHANGED pushVars
  BY <1>8 DEF pushVars, PushTypeOK, ItemsOf
<1>9. QED
  BY <1>1, <1>2, <1>3, <1>4, <1>5, <1>6, <1>7, <1>8, <1>10, <1>11, <1>12 DEF PushNext

-----------------------------------------------------------------------------
(* The steps of the script, as far as the invariant reads them.            *)

\* The fields of the script after a step.
SamePlaces(s, t) == t.doc = s.doc /\ t.left = s.left /\ t.tokens = s.tokens
SameSnaps(s, t) == t.prodSnap = s.prodSnap /\ t.prodTokens = s.prodTokens

LEMMA ScriptMoves ==
    ASSUME PushTypeOK
    PROVE  /\ BeginPull => /\ script'.pc = "pulling" /\ script'.doc = prod
                           /\ script'.left = {} /\ script'.tokens = {}
           /\ ImportLocal => script'.pc = "pulled" /\ SamePlaces(script, script')
           /\ BeginPush => /\ script'.pc = "guard" /\ script'.doc = prod
                           /\ script'.left = {} /\ script'.tokens = {}
           /\ Guard => \/ script' = NoScript
                       \/ /\ script'.pc = "backup" /\ SamePlaces(script, script')
                          /\ lastPull = Never \/ lastPull = script.doc
           /\ Backup => script'.pc = "capture" /\ SamePlaces(script, script')
           /\ Capture => /\ script'.pc = "import" /\ SamePlaces(script, script')
                         /\ script'.prodSnap = prodKey /\ script'.prodTokens = prodToken
           /\ ImportProd => /\ script'.pc = "reseal" /\ script'.left = Sources \cap local
                            /\ script'.tokens = script.tokens /\ SameSnaps(script, script')
                            /\ script'.doc = script.doc
           /\ ReadBaseline => /\ script'.pc = "baseline" /\ script'.doc = prod
                              /\ script'.left = script.left /\ script'.tokens = script.tokens
           /\ EndPull \/ EndPush \/ Die => script' = NoScript
<1> USE DEF SamePlaces, SameSnaps
<1>1. /\ script \in Script /\ NoScript.pc = "none" /\ NoScript.left = {}
      /\ NoScript.tokens = {} /\ "pc" \in DOMAIN NoScript /\ "doc" \in DOMAIN NoScript
  BY DEF PushTypeOK, NoScript
<1>2. BeginPull => /\ script'.pc = "pulling" /\ script'.doc = prod
                   /\ script'.left = {} /\ script'.tokens = {}
  BY <1>1 DEF BeginPull
<1>3. BeginPush => /\ script'.pc = "guard" /\ script'.doc = prod
                   /\ script'.left = {} /\ script'.tokens = {}
  BY <1>1 DEF BeginPush
<1>4. ImportLocal => script'.pc = "pulled" /\ SamePlaces(script, script')
  BY <1>1 DEF ImportLocal, Script
<1>5. Guard => \/ script' = NoScript
               \/ /\ script'.pc = "backup" /\ SamePlaces(script, script')
                  /\ lastPull = Never \/ lastPull = script.doc
  BY <1>1 DEF Guard, Script
<1>6. Backup => script'.pc = "capture" /\ SamePlaces(script, script')
  BY <1>1 DEF Backup, Script
<1>7. Capture => /\ script'.pc = "import" /\ SamePlaces(script, script')
                 /\ script'.prodSnap = prodKey /\ script'.prodTokens = prodToken
  BY <1>1 DEF Capture, Script
<1>8. ImportProd => /\ script'.pc = "reseal" /\ script'.left = Sources \cap local
                    /\ script'.tokens = script.tokens /\ SameSnaps(script, script')
                    /\ script'.doc = script.doc
  BY <1>1 DEF ImportProd, Script
<1>10. ReadBaseline => /\ script'.pc = "baseline" /\ script'.doc = prod
                       /\ script'.left = script.left /\ script'.tokens = script.tokens
  BY <1>1 DEF ReadBaseline, Script
<1>11. EndPull \/ EndPush \/ Die => script' = NoScript
  BY DEF EndPull, EndPush, Die
<1>12. QED
  BY <1>2, <1>3, <1>4, <1>5, <1>6, <1>7, <1>8, <1>10, <1>11

\* A re-seal, its first write and its second.
LEMMA KeyMoves ==
    ASSUME PushTypeOK, NEW s \in Sources, ResealKey(s)
    PROVE  /\ script.pc = "reseal" /\ s \in script.left /\ script.tokens = {}
           /\ script'.pc = "reseal" /\ script'.left = script.left \ {s}
           /\ script'.tokens = TokenCaptured(s)
           /\ SameSnaps(script, script') /\ script'.doc = script.doc
<1> DEFINE left == script.left \ {s}
           tokens == TokenCaptured(s)
<1>1. script \in Script
  BY DEF PushTypeOK
<1>2. script.pc = "reseal" /\ s \in script.left /\ script.tokens = {}
  BY Zenon DEF ResealKey
<1>4. script' = [script EXCEPT !.left = left, !.tokens = tokens]
  BY ResealRow, Zenon
<1> HIDE DEF left, tokens
<1>3. /\ script'.left = left /\ script'.tokens = tokens /\ script'.pc = script.pc
      /\ script'.doc = script.doc /\ script'.prodSnap = script.prodSnap
      /\ script'.prodTokens = script.prodTokens
  BY <1>1, <1>4 DEF Script
<1>5. QED
  BY <1>2, <1>3 DEF left, tokens, SameSnaps

LEMMA TokenMoves ==
    ASSUME PushTypeOK, NEW s \in Sources, ResealToken(s)
    PROVE  /\ s \in script.tokens
           /\ script'.pc = script.pc /\ script'.left = script.left
           /\ script'.tokens = {} /\ SameSnaps(script, script') /\ script'.doc = script.doc
BY DEF PushTypeOK, ResealToken, Script, SameSnaps

LEMMA NoScriptIs == /\ NoScript.pc = "none" /\ NoScript.left = {} /\ NoScript.tokens = {}
                    /\ ItemsOf(NoScript.doc) = {}
BY DEF NoScript, ItemsOf

\* Only a save of the hosted app and the import of a push touch the items of prod.
LEMMA ProdItems ==
    ASSUME SyncAssumption, PushTypeOK
    PROVE  /\ \A i \in Items : HostedSave(i) => ItemsOf(prod)' = ItemsOf(prod) \cup {i}
           /\ ImportProd => ItemsOf(prod)' = local
           /\ prod' = prod => ItemsOf(prod)' = ItemsOf(prod)
<1>1. \A i \in Items : prod \cup {i} # Never \/ prod = Never
  BY DEF PushTypeOK, SyncAssumption
<1>2. local # Never
  BY DEF PushTypeOK, SyncAssumption
<1>3. QED
  BY <1>1, <1>2 DEF HostedSave, ImportProd, ItemsOf

-----------------------------------------------------------------------------
(* The invariant.                                                          *)

LEMMA PlacesStep ==
    ASSUME SyncAssumption, PushTypeOK, PushPlaces, [PushNext]_pushVars
    PROVE  PushPlaces'
<1> USE DEF SamePlaces
<1>1. ASSUME NEW i \in Items, HostedSave(i)
      PROVE  PushPlaces'
  BY <1>1, ProdItems DEF PushPlaces, HostedSave
<1>2. CASE \/ \E s \in Sources : HostedKey(s) \/ HostedLogin(s)
           \/ \E i \in Items : LocalSave(i) \/ LocalDrop(i) \/ HostedNote(i)
  BY <1>2, ProdItems DEF PushPlaces, HostedKey, HostedLogin, HostedNote, LocalSave, LocalDrop
<1>3. CASE BeginPull \/ BeginPush
  BY <1>3, ScriptMoves, ProdItems DEF PushPlaces, BeginPull, BeginPush
<1>4. CASE ImportLocal
  BY <1>4, ScriptMoves, ProdItems DEF PushPlaces, ImportLocal, ItemsOf
<1>5. CASE EndPull \/ EndPush \/ Die
  BY <1>5, ScriptMoves, ProdItems, NoScriptIs DEF PushPlaces, EndPull, EndPush, Die, ItemsOf
<1>6. CASE Guard
  BY <1>6, ScriptMoves, ProdItems, NoScriptIs DEF PushPlaces, Guard, ItemsOf
<1>7. CASE Backup \/ Capture
  BY <1>7, ScriptMoves, ProdItems DEF PushPlaces, Backup, Capture
<1>8. CASE ImportProd
  BY <1>8, ScriptMoves, ProdItems DEF PushPlaces, ImportProd
<1>9. ASSUME NEW s \in Sources, ResealKey(s)
      PROVE  PushPlaces'
  <2>1. /\ script'.tokens \subseteq {s} /\ script'.left \subseteq script.left
        /\ s \in script.left /\ script'.pc = "reseal" /\ script.pc = "reseal"
        /\ script'.doc = script.doc
    BY <1>9, KeyMoves DEF TokenCaptured
  <2>2. UNCHANGED <<prod, local, fresh>>
    BY <1>9 DEF ResealKey
  <2>3. QED
    BY <2>1, <2>2, ProdItems DEF PushPlaces
<1>10. CASE ReadBaseline
  BY <1>10, ScriptMoves, ProdItems DEF PushPlaces, ReadBaseline
<1>11. ASSUME NEW s \in Sources, ResealToken(s)
       PROVE  PushPlaces'
  BY <1>11, TokenMoves, ProdItems DEF PushPlaces, ResealToken
<1>12. CASE UNCHANGED pushVars
  BY <1>12 DEF pushVars, PushPlaces, ItemsOf
<1>13. QED
  BY <1>1, <1>2, <1>3, <1>4, <1>5, <1>6, <1>7, <1>8, <1>9, <1>10, <1>11, <1>12 DEF PushNext

LEMMA KeysStep ==
    ASSUME SyncAssumption, PushTypeOK, PushPlaces, KeysCaptured, [PushNext]_pushVars
    PROVE  KeysCaptured'
<1> USE DEF KeysCaptured, SamePlaces, SameSnaps
<1>1. ASSUME NEW i \in Items, HostedSave(i)
      PROVE  KeysCaptured'
  <2>1. ItemsOf(prod)' = ItemsOf(prod) \cup {i} /\ i \notin local /\ i \notin ItemsOf(prod)
    BY <1>1, ProdItems DEF HostedSave, PushPlaces
  <2>2. /\ \A s \in Sources \ {i} : prodKey'[s] = prodKey[s] /\ typed'[s] = typed[s]
        /\ i \in Sources => prodKey'[i] = typed'[i]
    BY <1>1 DEF HostedSave, PushTypeOK, Keys
  <2>3. UNCHANGED <<local, script, severed, rekeyed>> /\ i \notin script.left
    BY <1>1, <2>1 DEF HostedSave, PushPlaces
  <2>4. QED
    BY <2>1, <2>2, <2>3
<1>2. ASSUME NEW s \in Sources, HostedKey(s)
      PROVE  KeysCaptured'
  <2>1. /\ \A q \in Sources \ {s} : prodKey'[q] = prodKey[q] /\ typed'[q] = typed[q]
        /\ prodKey'[s] = typed'[s] /\ s \in ItemsOf(prod) /\ ItemsOf(prod)' = ItemsOf(prod)
    BY <1>2, ProdItems DEF HostedKey, PushTypeOK, Keys
  <2>2. UNCHANGED <<local, script>> /\ severed' = severed \ {s}
    BY <1>2 DEF HostedKey
  <2>3. rekeyed' = IF Captured(s) THEN rekeyed \cup {s} ELSE rekeyed \ {s}
    BY <1>2 DEF HostedKey
  <2>4. s \in script.left => Captured(s)
    BY DEF Captured, PushPlaces
  <2>5. script.pc = "import" => Captured(s)
    BY DEF Captured
  <2>6. QED
    BY <2>1, <2>2, <2>3, <2>4, <2>5
<1>3. ASSUME NEW i \in Items, LocalSave(i) \/ LocalDrop(i)
      PROVE  KeysCaptured'
  <2>1. i \in local' => i \notin ItemsOf(prod)
    BY <1>3 DEF LocalSave, LocalDrop, PushPlaces
  <2>2. UNCHANGED <<prod, prodKey, typed, script, severed, rekeyed>>
    BY <1>3 DEF LocalSave, LocalDrop
  <2>3. local' \subseteq local \cup {i}
    BY <1>3 DEF LocalSave, LocalDrop
  <2>4. QED
    BY <2>1, <2>2, <2>3, ProdItems
<1>4. CASE BeginPull \/ BeginPush \/ ImportLocal \/ EndPull \/ Guard \/ Backup
           \/ ReadBaseline \/ EndPush
  <2>1. UNCHANGED <<prod, prodKey, typed, severed, rekeyed>>
    BY <1>4 DEF BeginPull, BeginPush, ImportLocal, EndPull, Guard, Backup, ReadBaseline,
       EndPush
  <2>2. script.left = {}
    BY <1>4 DEF PushPlaces, BeginPull, BeginPush, ImportLocal, EndPull, Guard, Backup,
       ReadBaseline, EndPush
  <2>3. script'.left = {} /\ script'.pc # "import"
    BY <1>4, <2>2, ScriptMoves, NoScriptIs
  <2>4. QED
    BY <2>1, <2>2, <2>3, ProdItems
<1>5. CASE Capture
  <2>1. script.left = {} /\ script'.left = {} /\ script'.prodSnap = prodKey
    BY <1>5, ScriptMoves DEF Capture, PushPlaces
  <2>2. UNCHANGED <<prod, prodKey, typed, local, severed, rekeyed>>
    BY <1>5 DEF Capture
  <2>3. QED
    BY <2>1, <2>2, ProdItems
<1>6. CASE ImportProd
  <2>1. /\ script.pc = "import" /\ script'.pc = "reseal" /\ script'.left = Sources \cap local
        /\ script'.prodSnap = script.prodSnap
    BY <1>6, ScriptMoves DEF ImportProd
  <2>2. /\ ItemsOf(prod)' = local /\ UNCHANGED <<local, severed, rekeyed>>
        /\ \A s \in Sources : typed'[s] = IF s \in local THEN typed[s] ELSE 0
    BY <1>6, ProdItems DEF ImportProd
  <2>3. \A s \in Sources : typed'[s] # 0 => s \in ItemsOf(prod) /\ s \in local
    BY <2>2
  <2>4. QED
    BY <2>1, <2>2, <2>3
<1>7. ASSUME NEW s \in Sources, ResealKey(s)
      PROVE  KeysCaptured'
  <2>1. /\ script.pc = "reseal" /\ s \in script.left
        /\ script'.pc = "reseal" /\ script'.left = script.left \ {s}
        /\ script'.prodSnap = script.prodSnap
    BY <1>7, KeyMoves
  <2>2. UNCHANGED <<prod, typed, local, severed, rekeyed>>
    BY <1>7 DEF ResealKey
  <2>3. \A q \in Sources \ {s} : prodKey'[q] = prodKey[q]
    BY <1>7 DEF ResealKey, PushTypeOK, Keys
  <2>4. script.prodSnap[s] # 0 => prodKey'[s] = script.prodSnap[s]
    BY <1>7 DEF ResealKey, PushTypeOK, Keys, KeyCaptured, FromProd
  <2>5. QED
    BY <2>1, <2>2, <2>3, <2>4, ProdItems
<1>8. CASE Die
  <2>1. script' = NoScript /\ script.left \subseteq severed' /\ severed \subseteq severed'
        /\ UNCHANGED <<prod, prodKey, typed, rekeyed>>
    BY <1>8 DEF Die
  <2>2. script'.left = {} /\ script'.pc # "import"
    BY <2>1, NoScriptIs
  <2>3. QED
    BY <2>1, <2>2, ProdItems
<1>11. ASSUME NEW s \in Sources, HostedLogin(s) \/ ResealToken(s)
       PROVE  KeysCaptured'
  <2>1. UNCHANGED <<prod, prodKey, typed, local, severed>> /\ rekeyed \subseteq rekeyed'
    BY <1>11 DEF HostedLogin, ResealToken
  <2>2. script'.pc = script.pc /\ script'.left = script.left /\ script'.prodSnap = script.prodSnap
    BY <1>11, TokenMoves DEF HostedLogin
  <2>3. QED
    BY <2>1, <2>2, ProdItems
<1>12. ASSUME NEW i \in Items, HostedNote(i)
       PROVE  KeysCaptured'
  BY <1>12, ProdItems DEF HostedNote
<1>9. CASE UNCHANGED pushVars
  BY <1>9 DEF pushVars, ItemsOf
<1>10. QED
  BY <1>1, <1>2, <1>3, <1>4, <1>5, <1>6, <1>7, <1>8, <1>9, <1>11, <1>12 DEF PushNext

LEMMA TokensStep ==
    ASSUME SyncAssumption, PushTypeOK, PushPlaces, TokensCaptured, [PushNext]_pushVars
    PROVE  TokensCaptured'
<1> USE DEF TokensCaptured, SamePlaces, SameSnaps
<1>s. signed \subseteq Sources
  BY DEF PushTypeOK
<1>1. ASSUME NEW i \in Items, HostedSave(i)
      PROVE  TokensCaptured'
  <2>1. ItemsOf(prod)' = ItemsOf(prod) \cup {i} /\ i \notin ItemsOf(prod)
    BY <1>1, ProdItems DEF HostedSave, PushPlaces
  <2>2. \A s \in Sources \ {i} : prodKey'[s] = prodKey[s]
    BY <1>1 DEF HostedSave, PushTypeOK, Keys
  <2>3. UNCHANGED <<script, prodToken, signed, severed, rekeyed>>
    BY <1>1 DEF HostedSave
  <2>4. QED
    BY <1>s, <2>1, <2>2, <2>3
<1>2. ASSUME NEW s \in Sources, HostedKey(s)
      PROVE  TokensCaptured'
  <2>1. \A q \in Sources \ {s} : prodKey'[q] = prodKey[q]
    BY <1>2 DEF HostedKey, PushTypeOK, Keys
  <2>2. /\ UNCHANGED <<prod, script, prodToken>> /\ signed' = signed \ {s}
        /\ severed \subseteq severed' \cup {s} /\ rekeyed \subseteq rekeyed' \cup {s}
    BY <1>2 DEF HostedKey
  <2>3. QED
    BY <1>s, <2>1, <2>2, ProdItems
<1>3. ASSUME NEW s \in Sources, HostedLogin(s)
      PROVE  TokensCaptured'
  <2>1. /\ s \in ItemsOf(prod) /\ prodKey[s] # 0 /\ UNCHANGED <<prod, script, prodKey, severed>>
        /\ prodToken' = prodToken \cup {s} /\ signed' = signed \cup {s}
        /\ rekeyed' = IF Captured(s) THEN rekeyed \cup {s} ELSE rekeyed
    BY <1>3 DEF HostedLogin
  <2>2. script.pc = "import" \/ s \in script.left => s \in rekeyed'
    BY <2>1 DEF Captured, PushPlaces
  <2>3. QED
    BY <1>s, <2>1, <2>2, ProdItems
<1>4. CASE \E i \in Items : LocalSave(i) \/ LocalDrop(i) \/ HostedNote(i)
  BY <1>4, ProdItems DEF LocalSave, LocalDrop, HostedNote
<1>5. CASE BeginPull \/ BeginPush \/ ImportLocal \/ EndPull \/ Guard \/ Backup
           \/ ReadBaseline \/ EndPush
  <2>1. UNCHANGED <<prod, prodKey, prodToken, signed, severed, rekeyed>>
    BY <1>5 DEF BeginPull, BeginPush, ImportLocal, EndPull, Guard, Backup, ReadBaseline,
       EndPush
  <2>2. script.left = {} /\ script.tokens = {}
    BY <1>5 DEF PushPlaces, BeginPull, BeginPush, ImportLocal, EndPull, Guard, Backup,
       ReadBaseline, EndPush
  <2>3. script'.left = {} /\ script'.tokens = {} /\ script'.pc # "import"
    BY <1>5, <2>2, ScriptMoves, NoScriptIs
  <2>4. QED
    BY <2>1, <2>2, <2>3, ProdItems
<1>6. CASE Capture
  <2>1. /\ script.left = {} /\ script.tokens = {} /\ script'.left = {} /\ script'.tokens = {}
        /\ script'.prodSnap = prodKey /\ script'.prodTokens = prodToken
    BY <1>6, ScriptMoves DEF Capture, PushPlaces
  <2>2. UNCHANGED <<prod, prodKey, prodToken, signed, severed, rekeyed>>
    BY <1>6 DEF Capture
  <2>3. QED
    BY <2>1, <2>2, ProdItems
<1>7. CASE ImportProd
  <2>1. /\ script.pc = "import" /\ script'.pc = "reseal" /\ script'.left = Sources \cap local
        /\ script'.tokens = script.tokens /\ script'.prodSnap = script.prodSnap
        /\ script'.prodTokens = script.prodTokens
    BY <1>7, ScriptMoves DEF ImportProd
  <2>2. /\ ItemsOf(prod)' = local /\ signed' = signed \cap local
        /\ UNCHANGED <<severed, rekeyed>>
    BY <1>7, ProdItems DEF ImportProd
  <2>3. signed' \subseteq script'.left
    BY <1>s, <2>1, <2>2
  <2>4. QED
    BY <2>1, <2>2, <2>3
<1>8. ASSUME NEW s \in Sources, ResealKey(s)
      PROVE  TokensCaptured'
  <2>1. /\ script.pc = "reseal" /\ s \in script.left /\ script.tokens = {}
        /\ script'.pc = "reseal" /\ script'.left = script.left \ {s}
        /\ script'.prodSnap = script.prodSnap /\ script'.prodTokens = script.prodTokens
        /\ script'.tokens = TokenCaptured(s)
    BY <1>8, KeyMoves
  <2>2. UNCHANGED <<prod, prodToken, signed, severed, rekeyed>>
    BY <1>8 DEF ResealKey
  <2>3. \A q \in Sources \ {s} : prodKey'[q] = prodKey[q]
    BY <1>8 DEF ResealKey, PushTypeOK, Keys
  <2>4. script.prodSnap[s] # 0 /\ s \in script.prodTokens =>
            prodKey'[s] # 0 /\ script'.tokens = {s}
    BY <1>8, <2>1 DEF ResealKey, PushTypeOK, Keys, KeyCaptured, FromProd, TokenCaptured
  <2>5. QED
    BY <1>s, <2>1, <2>2, <2>3, <2>4, ProdItems
<1>9. ASSUME NEW s \in Sources, ResealToken(s)
      PROVE  TokensCaptured'
  <2>1. /\ script'.pc = script.pc /\ script'.left = script.left /\ script'.tokens = {}
        /\ script'.prodSnap = script.prodSnap /\ script'.prodTokens = script.prodTokens
    BY <1>9, TokenMoves
  <2>2. /\ UNCHANGED <<prod, prodKey, signed, severed, rekeyed>>
        /\ prodToken' = prodToken \cup {s}
    BY <1>9 DEF ResealToken
  <2>3. script.tokens = {s}
    BY <1>9 DEF ResealToken, PushPlaces
  <2>4. QED
    BY <2>1, <2>2, <2>3, ProdItems
<1>10. CASE Die
  <2>1. /\ script' = NoScript /\ UNCHANGED <<prod, prodKey, prodToken, signed, rekeyed>>
        /\ severed' = severed \cup script.left \cup script.tokens
    BY <1>10 DEF Die
  <2>2. script'.left = {} /\ script'.tokens = {} /\ script'.pc # "import"
    BY <2>1, NoScriptIs
  <2>3. QED
    BY <2>1, <2>2, ProdItems
<1>11. CASE UNCHANGED pushVars
  BY <1>11 DEF pushVars, ItemsOf
<1>12. QED
  BY <1>1, <1>2, <1>3, <1>4, <1>5, <1>6, <1>7, <1>8, <1>9, <1>10, <1>11 DEF PushNext

LEMMA SeenStep ==
    ASSUME SyncAssumption, PushTypeOK, PushPlaces, WhatWasSeen, [PushNext]_pushVars
    PROVE  WhatWasSeen'
<1> USE DEF WhatWasSeen, SamePlaces
<1>1. ASSUME NEW i \in Items, HostedSave(i)
      PROVE  WhatWasSeen'
  <2>1. /\ ItemsOf(prod)' = ItemsOf(prod) \cup {i}
        /\ between' = IF script.pc \in {"guard", "backup", "capture", "import"}
                      THEN between \cup {i} ELSE between
        /\ absorbed' = IF script.pc = "reseal" THEN absorbed \cup {i} ELSE absorbed
    BY <1>1, ProdItems DEF HostedSave
  <2>2. UNCHANGED <<script, lastPull, backups, seen>>
    BY <1>1 DEF HostedSave
  <2>3. QED
    BY <2>1, <2>2 DEF ItemsOf
<1>2. CASE \/ \E s \in Sources : HostedKey(s) \/ HostedLogin(s)
           \/ \E i \in Items : LocalSave(i) \/ LocalDrop(i) \/ HostedNote(i)
  BY <1>2 DEF HostedKey, HostedLogin, HostedNote, LocalSave, LocalDrop, ItemsOf
<1>3. CASE BeginPull \/ BeginPush
  BY <1>3, ScriptMoves DEF BeginPull, BeginPush, ItemsOf
<1>4. CASE ImportLocal
  BY <1>4, ScriptMoves DEF ImportLocal, ItemsOf, PushPlaces
<1>5. CASE EndPull \/ EndPush \/ Die
  BY <1>5, ScriptMoves, NoScriptIs DEF EndPull, EndPush, Die, ItemsOf, PushPlaces
<1>6. CASE Guard
  BY <1>6, ScriptMoves, NoScriptIs DEF Guard, ItemsOf
<1>7. CASE Backup \/ Capture
  BY <1>7, ScriptMoves DEF Backup, Capture, ItemsOf
<1>8. CASE ImportProd
  BY <1>8, ScriptMoves, ProdItems DEF ImportProd, ItemsOf
<1>9. ASSUME NEW s \in Sources, ResealKey(s) \/ ResealToken(s)
      PROVE  WhatWasSeen'
  <2>1. UNCHANGED <<prod, lastPull, backups, seen, between, absorbed>>
    BY <1>9 DEF ResealKey, ResealToken
  <2>2. script'.doc = script.doc /\ script'.pc = script.pc
    BY <1>9, KeyMoves, TokenMoves
  <2>3. QED
    BY <2>1, <2>2, ProdItems DEF ItemsOf
<1>10. CASE ReadBaseline
  BY <1>10, ScriptMoves DEF ReadBaseline, ItemsOf
<1>11. CASE UNCHANGED pushVars
  BY <1>11 DEF pushVars, ItemsOf
<1>12. QED
  BY <1>1, <1>2, <1>3, <1>4, <1>5, <1>6, <1>7, <1>8, <1>9, <1>10, <1>11 DEF PushNext

LEMMA PushInitInv == ASSUME SyncAssumption PROVE PushInit => PushInv
<1> SUFFICES ASSUME PushInit PROVE PushInv
  OBVIOUS
<1>1. PushTypeOK
  BY PushInitTyped
<1>2. PushPlaces
  BY NoScriptIs DEF PushInit, PushPlaces
<1>3. KeysCaptured
  BY NoScriptIs DEF PushInit, KeysCaptured
<1>4. TokensCaptured
  BY NoScriptIs DEF PushInit, TokensCaptured
<1>5. WhatWasSeen
  BY NoScriptIs DEF PushInit, WhatWasSeen, ItemsOf
<1>6. QED
  BY <1>1, <1>2, <1>3, <1>4, <1>5 DEF PushInv

THEOREM PushInvariant == ASSUME SyncAssumption PROVE PushSpec => []PushInv
<1>1. PushInit => PushInv
  BY PushInitInv
<1>2. PushInv /\ [PushNext]_pushVars => PushInv'
  BY PushStepTyped, PlacesStep, KeysStep, TokensStep, SeenStep DEF PushInv
<1>3. QED
  BY <1>1, <1>2, PTL DEF PushSpec

\* Type correctness, for any items, sources and bounds.
THEOREM PushTypeCorrect == ASSUME SyncAssumption PROVE PushSpec => []PushTypeOK
BY PushInvariant, PTL DEF PushInv

\* A push puts back the keys that were typed and the tokens of their logins, whatever it
\* crosses.
THEOREM KeysHold == ASSUME SyncAssumption PROVE PushSpec => []KeysSurvivePush
<1>1. PushInv => KeysSurvivePush
  BY DEF PushInv, KeysCaptured, TokensCaptured, KeysSurvivePush
<1>2. QED
  BY <1>1, PushInvariant, PTL

\* What a push overwrites of prod's document was backed up, and seen by whoever pushes,
\* unless it was saved in one of the push's two windows.
THEOREM OverwritesHold == ASSUME SyncAssumption PROVE PushSpec => OverwritesWhatWasSeen
<1> DEFINE Overwrites ==
        \A i \in (ItemsOf(prod) \cup apart) \ (ItemsOf(prod') \cup apart') :
            \/ i \in apart \/ i \in between
            \/ i \in UNION backups /\ (i \in seen \cup absorbed \/ lastPull = Never)
<1>1. ASSUME PushInv, [PushNext]_pushVars
      PROVE  [Overwrites]_pushVars
  <2>1. CASE ImportProd
    <3>1. /\ script.pc = "import"
          /\ ItemsOf(prod) \subseteq ItemsOf(script.doc) \cup between
          /\ lastPull = Never \/ lastPull = script.doc
          /\ script.doc = Never \/ script.doc \in backups
          /\ ItemsOf(lastPull) \subseteq seen \cup absorbed
      BY <1>1, <2>1 DEF ImportProd, PushInv, WhatWasSeen
    <3>2. QED
      BY <3>1 DEF ItemsOf
  <2>2. ASSUME NEW i \in Items, HostedSave(i)
        PROVE  Overwrites
    <3>1. prod' = prod \cup {i} /\ prod # Never /\ prod' # Never /\ apart' = apart
      BY <1>1, <2>2 DEF HostedSave, PushInv, PushTypeOK, SyncAssumption
    <3>2. QED
      BY <3>1 DEF ItemsOf
  <2>3. CASE prod' = prod /\ apart \subseteq apart'
    BY <2>3
  <2>4. ASSUME ~ImportProd, \A i \in Items : ~HostedSave(i)
        PROVE  prod' = prod /\ apart \subseteq apart'
    <3>1. CASE \E i \in Items : HostedNote(i) \/ LocalSave(i) \/ LocalDrop(i)
      BY <3>1 DEF HostedNote, LocalSave, LocalDrop
    <3>2. CASE \E s \in Sources : HostedKey(s) \/ HostedLogin(s)
      BY <3>2 DEF HostedKey, HostedLogin
    <3>3. CASE \E s \in Sources : ResealKey(s) \/ ResealToken(s)
      BY <3>3 DEF ResealKey, ResealToken
    <3>4. CASE BeginPull \/ ImportLocal \/ EndPull \/ BeginPush \/ Guard \/ Backup
      BY <3>4 DEF BeginPull, ImportLocal, EndPull, BeginPush, Guard, Backup
    <3>5. CASE Capture \/ ReadBaseline \/ EndPush \/ Die \/ UNCHANGED pushVars
      BY <3>5 DEF Capture, ReadBaseline, EndPush, Die, pushVars
    <3>6. QED
      BY <1>1, <2>4, <3>1, <3>2, <3>3, <3>4, <3>5 DEF PushNext
  <2>5. QED
    BY <2>1, <2>2, <2>3, <2>4
<1>2. QED
  BY <1>1, PushInvariant, PTL DEF PushSpec, OverwritesWhatWasSeen

-----------------------------------------------------------------------------
(***************************************************************************)
(* History: induction over the days                                        *)
(***************************************************************************)

LEMMA LeastNat ==
    ASSUME NEW T \in SUBSET Nat, T # {}
    PROVE  \E x \in T : \A y \in T : x <= y
<1> DEFINE R == OpToRel(<, Nat)
<1>1. IsWellFoundedOn(R, Nat)
  BY NatLessThanWellFounded, Zenon
<1>2. \E x \in T : \A y \in T : <<y, x>> \notin R
  <2> HIDE DEF R
  <2>1. QED
    BY <1>1, WFMin
<1>3. \A x, y \in T : y < x => <<y, x>> \in R
  BY DEF OpToRel
<1>4. \A x, y \in T : x <= y \/ y < x
  OBVIOUS
<1>5. QED
  <2> HIDE DEF R
  <2>1. QED
    BY <1>2, <1>3, <1>4

\* Induction over the days: a set of days with the first, and with each day the next, has
\* them all.
LEMMA DayByDay ==
    ASSUME LastDay \in Nat, NEW G,
           0 \in G,
           \A d \in Calendar : d + 1 \in Calendar /\ d \in G => d + 1 \in G
    PROVE  Calendar \subseteq G
<1> DEFINE T == Calendar \ G
<1>1. SUFFICES ASSUME T # {} PROVE FALSE
  OBVIOUS
<1>2. T \in SUBSET Nat
  BY DEF Calendar
<1>3. PICK x \in T : \A y \in T : x <= y
  <2> HIDE DEF T
  <2>1. QED
    BY <1>1, <1>2, LeastNat
<1>4. x \in Nat /\ x # 0 /\ x \in Calendar
  BY <1>2, <1>3
<1>5. x - 1 \in Calendar /\ x - 1 \notin T
  BY <1>3, <1>4 DEF Calendar
<1>6. x \in G
  BY <1>4, <1>5 DEF Calendar
<1>7. QED
  BY <1>3, <1>6

\* The units held over the days, of what arrives and what departs on each.
Balance(f, a, l) ==
    f = [d \in Calendar |-> Clamped((IF d = 0 THEN 0 ELSE f[d - 1]) + a[d], l[d])]

LEMMA ClampedTyped ==
    ASSUME NEW had \in Nat, NEW leaving \in Nat
    PROVE  Clamped(had, leaving) \in Nat
BY DEF Clamped

LEMMA BalanceExists ==
    ASSUME LastDay \in Nat, NEW a \in [Calendar -> Nat], NEW l \in [Calendar -> Nat]
    PROVE  \E f : Balance(f, a, l)
<1> DEFINE Upto(n, f) ==
        \A d \in 0..n : f[d] = Clamped((IF d = 0 THEN 0 ELSE f[d - 1]) + a[d], l[d])
    G == {n \in Calendar : \E f \in [Calendar -> Nat] : Upto(n, f)}
<1>1. 0 \in G
  <2> DEFINE f == [d \in Calendar |-> Clamped(a[0], l[0])]
  <2>1. 0 \in Calendar
    BY DEF Calendar
  <2>2. Clamped(a[0], l[0]) \in Nat
    BY <2>1, ClampedTyped
  <2>3. f \in [Calendar -> Nat]
    BY <2>2
  <2>4. f[0] = Clamped(0 + a[0], l[0])
    BY <2>1
  <2>5. Upto(0, f)
    <3> HIDE DEF f
    <3>1. QED
      BY <2>4
  <2>6. QED
    BY <2>1, <2>3, <2>5
<1>2. ASSUME NEW n \in Calendar, n + 1 \in Calendar, n \in G
      PROVE  n + 1 \in G
  <2>1. PICK f \in [Calendar -> Nat] : Upto(n, f)
    BY <1>2
  <2> DEFINE v == Clamped(f[n] + a[n + 1], l[n + 1])
             g == [f EXCEPT ![n + 1] = v]
  <2>2. v \in Nat
    <3>1. f[n] + a[n + 1] \in Nat /\ l[n + 1] \in Nat
      BY <1>2
    <3>2. QED
      BY <3>1, ClampedTyped
  <2>3. /\ g \in [Calendar -> Nat]
        /\ g[n + 1] = v
        /\ \A d \in Calendar : d # n + 1 => g[d] = f[d]
    <3> HIDE DEF v
    <3>1. QED
      BY <1>2, <2>2
  <2>4. ASSUME NEW d \in 0..(n + 1)
        PROVE  g[d] = Clamped((IF d = 0 THEN 0 ELSE g[d - 1]) + a[d], l[d])
    <3> HIDE DEF g
    <3>1. d \in Calendar /\ (d # 0 => d - 1 \in Calendar /\ d - 1 # n + 1)
      BY <1>2 DEF Calendar
    <3>2. CASE d = n + 1
      <4>1. d # 0 /\ d - 1 = n
        BY <3>2 DEF Calendar
      <4>2. g[d] = v /\ g[d - 1] = f[n]
        BY <2>3, <3>1, <3>2, <4>1
      <4>3. QED
        BY <3>2, <4>1, <4>2
    <3>3. CASE d # n + 1
      <4>1. d \in 0..n
        BY <3>3 DEF Calendar
      <4>2. g[d] = f[d] /\ (d # 0 => g[d - 1] = f[d - 1])
        BY <2>3, <3>1, <3>3
      <4>3. f[d] = Clamped((IF d = 0 THEN 0 ELSE f[d - 1]) + a[d], l[d])
        BY <2>1, <4>1
      <4>4. QED
        BY <4>2, <4>3
    <3>4. QED
      BY <3>2, <3>3
  <2>5. QED
    <3> HIDE DEF g
    <3>1. QED
      BY <1>2, <2>3, <2>4
<1>3. LastDay \in G
  <2> HIDE DEF G
  <2>1. Calendar \subseteq G
    BY <1>1, <1>2, DayByDay
  <2>2. QED
    BY <2>1 DEF Calendar
<1>4. PICK f \in [Calendar -> Nat] : Upto(LastDay, f)
  BY <1>3
<1>5. f = [d \in Calendar |-> f[d]]
  OBVIOUS
<1>6. Balance(f, a, l)
  BY <1>4, <1>5 DEF Balance, Calendar
<1>7. QED
  BY <1>6

\* A balance is of naturals, and up to a day follows from what came and went until then.
LEMMA BalanceTyped ==
    ASSUME LastDay \in Nat, NEW a \in [Calendar -> Nat], NEW l \in [Calendar -> Nat],
           NEW f, Balance(f, a, l)
    PROVE  f \in [Calendar -> Nat]
<1> DEFINE G == {n \in Calendar : f[n] \in Nat}
<1>1. \A d \in Calendar : f[d] = Clamped((IF d = 0 THEN 0 ELSE f[d - 1]) + a[d], l[d])
  BY DEF Balance
<1>2. 0 \in G
  <2>1. 0 \in Calendar
    BY DEF Calendar
  <2>2. f[0] = Clamped(0 + a[0], l[0])
    BY <1>1, <2>1
  <2>3. 0 + a[0] \in Nat /\ l[0] \in Nat
    BY <2>1
  <2>4. QED
    BY <2>1, <2>2, <2>3, ClampedTyped
<1>3. ASSUME NEW d \in Calendar, d + 1 \in Calendar, d \in G
      PROVE  d + 1 \in G
  <2>1. d + 1 # 0 /\ (d + 1) - 1 = d
    BY DEF Calendar
  <2>2. f[d + 1] = Clamped(f[d] + a[d + 1], l[d + 1])
    BY <1>1, <1>3, <2>1
  <2>3. f[d] + a[d + 1] \in Nat /\ l[d + 1] \in Nat
    BY <1>3
  <2>4. QED
    BY <1>3, <2>2, <2>3, ClampedTyped
<1>4. Calendar \subseteq G
  <2> HIDE DEF G
  <2>1. QED
    BY <1>2, <1>3, DayByDay
<1>5. f = [d \in Calendar |-> f[d]]
  BY DEF Balance
<1>6. QED
  BY <1>4, <1>5

LEMMA BalanceLocal ==
    ASSUME LastDay \in Nat, NEW a, NEW l, NEW c, NEW m,
           NEW f, Balance(f, a, l), NEW g, Balance(g, c, m),
           NEW e \in Calendar,
           \A d \in 0..e : a[d] = c[d] /\ l[d] = m[d]
    PROVE  f[e] = g[e]
<1> DEFINE G == {n \in Calendar : n <= e => f[n] = g[n]}
<1>1. \A d \in Calendar :
        /\ f[d] = Clamped((IF d = 0 THEN 0 ELSE f[d - 1]) + a[d], l[d])
        /\ g[d] = Clamped((IF d = 0 THEN 0 ELSE g[d - 1]) + c[d], m[d])
  BY DEF Balance
<1>2. 0 \in G
  <2>1. 0 \in Calendar /\ 0 \in 0..e
    BY DEF Calendar
  <2>2. f[0] = Clamped(0 + a[0], l[0]) /\ g[0] = Clamped(0 + c[0], m[0])
    BY <1>1, <2>1
  <2>3. QED
    BY <2>1, <2>2
<1>3. ASSUME NEW d \in Calendar, d + 1 \in Calendar, d \in G
      PROVE  d + 1 \in G
  <2>1. CASE d + 1 <= e
    <3>1. d + 1 # 0 /\ (d + 1) - 1 = d /\ d + 1 \in 0..e /\ d <= e
      BY <2>1 DEF Calendar
    <3>2. /\ f[d + 1] = Clamped(f[d] + a[d + 1], l[d + 1])
          /\ g[d + 1] = Clamped(g[d] + c[d + 1], m[d + 1])
      BY <1>1, <1>3, <3>1
    <3>3. f[d] = g[d] /\ a[d + 1] = c[d + 1] /\ l[d + 1] = m[d + 1]
      BY <1>3, <3>1
    <3>4. QED
      BY <1>3, <3>2, <3>3
  <2>2. QED
    BY <1>3, <2>1
<1>4. Calendar \subseteq G
  <2> HIDE DEF G
  <2>1. QED
    BY <1>2, <1>3, DayByDay
<1>5. QED
  BY <1>4 DEF Calendar

\* Where nothing arrives nothing is held, and where nothing comes or goes any more what is
\* held stays.
LEMMA BalanceZero ==
    ASSUME LastDay \in Nat, NEW a, NEW l \in [Calendar -> Nat], NEW f, Balance(f, a, l),
           \A d \in Calendar : a[d] = 0
    PROVE  \A d \in Calendar : f[d] = 0
<1> DEFINE G == {n \in Calendar : f[n] = 0}
<1>1. \A d \in Calendar : f[d] = Clamped((IF d = 0 THEN 0 ELSE f[d - 1]) + a[d], l[d])
  BY DEF Balance
<1>2. \A d \in Calendar : Clamped(0 + a[d], l[d]) = 0
  BY DEF Clamped
<1>3. 0 \in G
  <2>1. 0 \in Calendar
    BY DEF Calendar
  <2>2. f[0] = Clamped(0 + a[0], l[0])
    BY <1>1, <2>1
  <2>3. QED
    BY <1>2, <2>1, <2>2
<1>4. ASSUME NEW d \in Calendar, d + 1 \in Calendar, d \in G
      PROVE  d + 1 \in G
  <2>1. d + 1 # 0 /\ (d + 1) - 1 = d
    BY DEF Calendar
  <2>2. f[d + 1] = Clamped(0 + a[d + 1], l[d + 1])
    BY <1>1, <1>4, <2>1
  <2>3. QED
    BY <1>2, <1>4, <2>2
<1>5. Calendar \subseteq G
  <2> HIDE DEF G
  <2>1. QED
    BY <1>3, <1>4, DayByDay
<1>6. QED
  BY <1>5

LEMMA BalanceStill ==
    ASSUME LastDay \in Nat, NEW a, NEW l, NEW f \in [Calendar -> Nat], Balance(f, a, l),
           NEW e \in Calendar,
           \A d \in Calendar : d > e => a[d] = 0 /\ l[d] = 0
    PROVE  f[LastDay] = f[e]
<1> DEFINE G == {n \in Calendar : n >= e => f[n] = f[e]}
<1>1. 0 \in G
  BY DEF Calendar
<1>2. ASSUME NEW d \in Calendar, d + 1 \in Calendar, d \in G
      PROVE  d + 1 \in G
  <2>1. CASE d >= e
    <3>1. d + 1 # 0 /\ (d + 1) - 1 = d /\ d + 1 > e
      BY <2>1 DEF Calendar
    <3>2. f[d + 1] = Clamped(f[d] + a[d + 1], l[d + 1])
      BY <1>2, <3>1 DEF Balance
    <3>3. f[d] \in Nat /\ a[d + 1] = 0 /\ l[d + 1] = 0
      BY <1>2, <3>1
    <3>4. f[d + 1] = f[d]
      BY <3>2, <3>3 DEF Clamped
    <3>5. QED
      BY <1>2, <2>1, <3>4
  <2>2. CASE ~ (d >= e)
    <3>1. d + 1 >= e => d + 1 = e
      BY <2>2 DEF Calendar
    <3>2. QED
      BY <1>2, <3>1
  <2>3. QED
    BY <2>1, <2>2
<1>3. Calendar \subseteq G
  <2> HIDE DEF G
  <2>1. QED
    BY <1>1, <1>2, DayByDay
<1>4. LastDay \in Calendar /\ LastDay >= e
  BY DEF Calendar
<1>5. QED
  BY <1>3, <1>4

-----------------------------------------------------------------------------
(* What the book shows.                                                    *)

LEMMA ShiftedTyped ==
    ASSUME HistoryAssumption, NEW b \in Book, NEW ts \in SUBSET Transfers
    PROVE  Shifted(b, ts) \in Nat
<1> DEFINE arrivals == [t \in ts |-> {t} \X (1..b.moved[t])]
           parts == {{t} \X (1..b.moved[t]) : t \in ts}
<1>1. IsFiniteSet(ts)
  BY FS_Subset DEF HistoryAssumption
<1>2. arrivals \in Surjection(ts, parts)
  BY DEF Surjection
<1>3. IsFiniteSet(parts)
  <2> HIDE DEF arrivals, parts
  <2>1. QED
    BY <1>1, <1>2, FS_Surjection
<1>4. ASSUME NEW t \in ts
      PROVE  IsFiniteSet({t} \X (1..b.moved[t]))
  <2>1. b.moved[t] \in Nat
    BY DEF Book, Units
  <2>2. IsFiniteSet(1..b.moved[t])
    BY <2>1, FS_Interval
  <2>3. IsFiniteSet({t})
    BY FS_Singleton
  <2>4. QED
    BY <2>2, <2>3, FS_Product
<1>5. IsFiniteSet(UNION parts)
  <2>1. \A T \in parts : IsFiniteSet(T)
    BY <1>4
  <2> HIDE DEF parts
  <2>2. QED
    BY <1>3, <2>1, FS_UNION
<1>6. QED
  BY <1>5, FS_CardinalityType DEF Shifted

LEMMA FactsTyped ==
    ASSUME HistoryAssumption, NEW b \in Book, NEW h, NEW d
    PROVE  Arrived(b, h, d) \in Nat /\ Departed(b, h, d) \in Nat
<1>1. IsFiniteSet({p \in b.bought : HoldingOf[p] = h /\ DayOf[p] = d})
  <2>1. {p \in b.bought : HoldingOf[p] = h /\ DayOf[p] = d} \in SUBSET Purchases
    BY DEF Book
  <2>2. QED
    BY <2>1, FS_Subset DEF HistoryAssumption
<1>2. Cardinality({p \in b.bought : HoldingOf[p] = h /\ DayOf[p] = d}) \in Nat
  BY <1>1, FS_CardinalityType
<1>3. Shifted(b, {t \in Transfers : DestinationOf[t] = h /\ MoveDayOf[t] = d}) \in Nat
  BY ShiftedTyped
<1>4. Shifted(b, {t \in Transfers : OriginOf[t] = h /\ MoveDayOf[t] = d}) \in Nat
  BY ShiftedTyped
<1>5. QED
  BY <1>2, <1>3, <1>4 DEF Arrived, Departed

LEMMA HeldIsBalance ==
    ASSUME HistoryAssumption, NEW b \in Book, NEW h
    PROVE  Balance(Held(b, h), [d \in Calendar |-> Arrived(b, h, d)],
                   [d \in Calendar |-> Departed(b, h, d)])
<1> DEFINE a == [d \in Calendar |-> Arrived(b, h, d)]
           l == [d \in Calendar |-> Departed(b, h, d)]
           Days(f) == f = [d \in Calendar |->
               Clamped((IF d = 0 THEN 0 ELSE f[d - 1]) + Arrived(b, h, d), Departed(b, h, d))]
<1>1. a \in [Calendar -> Nat] /\ l \in [Calendar -> Nat] /\ LastDay \in Nat
  BY FactsTyped DEF HistoryAssumption
<1>2. PICK f : Balance(f, a, l)
  <2> HIDE DEF a, l
  <2>1. QED
    BY <1>1, BalanceExists
<1>3. \A g : Balance(g, a, l) <=> Days(g)
  BY DEF Balance
<1>4. Held(b, h) = CHOOSE g : Days(g)
  BY DEF Held
<1>5. Days(Held(b, h))
  <2> HIDE DEF Days
  <2>1. QED
    BY <1>2, <1>3, <1>4
<1>6. QED
  BY <1>3, <1>5

LEMMA HeldTyped ==
    ASSUME HistoryAssumption, NEW b \in Book, NEW h
    PROVE  Held(b, h) \in [Calendar -> Nat]
<1> DEFINE a == [d \in Calendar |-> Arrived(b, h, d)]
           l == [d \in Calendar |-> Departed(b, h, d)]
<1>1. a \in [Calendar -> Nat] /\ l \in [Calendar -> Nat] /\ LastDay \in Nat
  BY FactsTyped DEF HistoryAssumption
<1>2. Balance(Held(b, h), a, l)
  BY HeldIsBalance
<1>3. QED
  <2> HIDE DEF a, l
  <2>1. QED
    BY <1>1, <1>2, BalanceTyped

\* Two books say the same of a holding up to a day.
Agree(b, c, h, e) ==
    \A d \in 0..e : Arrived(b, h, d) = Arrived(c, h, d) /\ Departed(b, h, d) = Departed(c, h, d)

LEMMA HeldLocal ==
    ASSUME HistoryAssumption, NEW b \in Book, NEW c \in Book, NEW h, NEW e \in Calendar,
           Agree(b, c, h, e)
    PROVE  Held(b, h)[e] = Held(c, h)[e]
<1> DEFINE a(x) == [d \in Calendar |-> Arrived(x, h, d)]
           l(x) == [d \in Calendar |-> Departed(x, h, d)]
<1>1. Balance(Held(b, h), a(b), l(b)) /\ Balance(Held(c, h), a(c), l(c))
  BY HeldIsBalance
<1>2. \A d \in 0..e : a(b)[d] = a(c)[d] /\ l(b)[d] = l(c)[d]
  BY DEF Agree, Calendar, HistoryAssumption
<1>3. LastDay \in Nat
  BY DEF HistoryAssumption
<1>4. QED
  <2> HIDE DEF a, l
  <2>1. QED
    BY <1>1, <1>2, <1>3, BalanceLocal


LEMMA ShiftedSame ==
    ASSUME NEW b, NEW c, NEW ts, \A t \in ts : b.moved[t] = c.moved[t]
    PROVE  Shifted(b, ts) = Shifted(c, ts)
<1>1. {{t} \X (1..b.moved[t]) : t \in ts} = {{t} \X (1..c.moved[t]) : t \in ts}
  OBVIOUS
<1>2. QED
  BY <1>1 DEF Shifted

LEMMA ShiftedNone ==
    ASSUME NEW b, NEW ts, \A t \in ts : b.moved[t] = 0
    PROVE  Shifted(b, ts) = 0
<1>1. UNION {{t} \X (1..b.moved[t]) : t \in ts} = {}
  OBVIOUS
<1>2. QED
  BY <1>1, FS_EmptySet DEF Shifted

\* A holding nothing was ever brought to holds nothing.
LEMMA NothingHeld ==
    ASSUME HistoryAssumption, NEW b \in Book, NEW h,
           \A p \in b.bought : HoldingOf[p] # h,
           \A t \in Transfers : DestinationOf[t] = h => b.moved[t] = 0
    PROVE  \A d \in Calendar : Held(b, h)[d] = 0
<1> DEFINE a == [d \in Calendar |-> Arrived(b, h, d)]
           l == [d \in Calendar |-> Departed(b, h, d)]
<1>1. ASSUME NEW d \in Calendar
      PROVE  Arrived(b, h, d) = 0
  <2>1. {p \in b.bought : HoldingOf[p] = h /\ DayOf[p] = d} = {}
    OBVIOUS
  <2>2. Cardinality({p \in b.bought : HoldingOf[p] = h /\ DayOf[p] = d}) = 0
    BY <2>1, FS_EmptySet
  <2>3. Shifted(b, {t \in Transfers : DestinationOf[t] = h /\ MoveDayOf[t] = d}) = 0
    BY ShiftedNone
  <2>4. QED
    BY <2>2, <2>3 DEF Arrived
<1>2. l \in [Calendar -> Nat] /\ LastDay \in Nat
  BY FactsTyped DEF HistoryAssumption
<1>3. Balance(Held(b, h), a, l)
  BY HeldIsBalance
<1>4. \A d \in Calendar : a[d] = 0
  BY <1>1
<1>5. QED
  <2> HIDE DEF a, l
  <2>1. QED
    BY <1>2, <1>3, <1>4, BalanceZero

\* A holding none of whose facts is dated after a day holds at the end what it held then:
\* the whole ledger says of that day what the ledger up to it does.
LEMMA NothingLater ==
    ASSUME HistoryAssumption, NEW b \in Book, NEW h, NEW e \in Calendar, ~ Later(b, h, e)
    PROVE  Held(b, h)[LastDay] = Held(b, h)[e]
<1> DEFINE a == [d \in Calendar |-> Arrived(b, h, d)]
           l == [d \in Calendar |-> Departed(b, h, d)]
<1>1. ASSUME NEW d \in Calendar, d > e
      PROVE  Arrived(b, h, d) = 0 /\ Departed(b, h, d) = 0
  <2>1. {p \in b.bought : HoldingOf[p] = h /\ DayOf[p] = d} = {}
    BY <1>1 DEF Later
  <2>2. Cardinality({p \in b.bought : HoldingOf[p] = h /\ DayOf[p] = d}) = 0
    BY <2>1, FS_EmptySet
  <2>3. \A t \in Transfers :
            /\ DestinationOf[t] = h \/ OriginOf[t] = h
            /\ MoveDayOf[t] = d
            => b.moved[t] = 0
    BY <1>1 DEF Later
  <2>4. Shifted(b, {t \in Transfers : DestinationOf[t] = h /\ MoveDayOf[t] = d}) = 0
    BY <2>3, ShiftedNone
  <2>5. Shifted(b, {t \in Transfers : OriginOf[t] = h /\ MoveDayOf[t] = d}) = 0
    BY <2>3, ShiftedNone
  <2>6. QED
    BY <2>2, <2>4, <2>5 DEF Arrived, Departed
<1>2. Held(b, h) \in [Calendar -> Nat] /\ LastDay \in Nat
  BY HeldTyped DEF HistoryAssumption
<1>3. Balance(Held(b, h), a, l)
  BY HeldIsBalance
<1>4. \A d \in Calendar : d > e => a[d] = 0 /\ l[d] = 0
  BY <1>1
<1>5. QED
  <2> HIDE DEF a, l
  <2>1. QED
    BY <1>2, <1>3, <1>4, BalanceStill

\* Books that differ in nothing of a holding up to a day agree.
LEMMA SameFactsAgree ==
    ASSUME HistoryAssumption, NEW b \in Book, NEW c \in Book, NEW h, NEW e \in Calendar,
           \A p \in Purchases :
               HoldingOf[p] = h /\ DayOf[p] <= e => (p \in b.bought <=> p \in c.bought),
           \A t \in Transfers :
               (OriginOf[t] = h \/ DestinationOf[t] = h) /\ MoveDayOf[t] <= e =>
                   b.moved[t] = c.moved[t]
    PROVE  Agree(b, c, h, e)
<1>1. SUFFICES ASSUME NEW d \in 0..e
               PROVE  /\ Arrived(b, h, d) = Arrived(c, h, d)
                      /\ Departed(b, h, d) = Departed(c, h, d)
  BY DEF Agree
<1>2. d <= e
  BY DEF Calendar, HistoryAssumption
<1>3. {p \in b.bought : HoldingOf[p] = h /\ DayOf[p] = d}
      = {p \in c.bought : HoldingOf[p] = h /\ DayOf[p] = d}
  BY <1>2 DEF Book
<1>4. Shifted(b, {t \in Transfers : DestinationOf[t] = h /\ MoveDayOf[t] = d})
      = Shifted(c, {t \in Transfers : DestinationOf[t] = h /\ MoveDayOf[t] = d})
  <2> DEFINE ts == {t \in Transfers : DestinationOf[t] = h /\ MoveDayOf[t] = d}
  <2>1. \A t \in ts : b.moved[t] = c.moved[t]
    BY <1>2
  <2> HIDE DEF ts
  <2>2. QED
    BY <2>1, ShiftedSame
<1>5. Shifted(b, {t \in Transfers : OriginOf[t] = h /\ MoveDayOf[t] = d})
      = Shifted(c, {t \in Transfers : OriginOf[t] = h /\ MoveDayOf[t] = d})
  <2> DEFINE ts == {t \in Transfers : OriginOf[t] = h /\ MoveDayOf[t] = d}
  <2>1. \A t \in ts : b.moved[t] = c.moved[t]
    BY <1>2
  <2> HIDE DEF ts
  <2>2. QED
    BY <2>1, ShiftedSame
<1>6. QED
  BY <1>3, <1>4, <1>5 DEF Arrived, Departed

-----------------------------------------------------------------------------
(* The band.                                                               *)

LEMMA MinIsLeast ==
    ASSUME NEW T \in SUBSET Nat, T # {}
    PROVE  Min(T) \in T /\ \A y \in T : Min(T) <= y
BY LeastNat DEF Min

LEMMA NothingTyped ==
    /\ NoRows \in Frozen
    /\ NoSnapshot \in Snapshot
    /\ NoSnapshot.rows = NoRows /\ NoSnapshot.origin = "none"
BY DEF NoRows, Frozen, NoSnapshot, Snapshot

\* What a row shows.
Shown(row) == IF row = Absent THEN 0 ELSE row

LEMMA RowsShow ==
    ASSUME HistoryAssumption, NEW b \in Book, NEW d \in Calendar
    PROVE  /\ RowsAt(b, d) \in Frozen
           /\ \A h \in Holdings : Held(b, h)[d] = Shown(RowAt(b, h, d))
           /\ \A h \in Holdings : RowAt(b, h, d) \in Units \cup {Absent}
<1>1. \A h \in Holdings : Held(b, h)[d] \in Nat
  BY HeldTyped
<1>2. \A h \in Holdings : /\ Held(b, h)[d] = Shown(RowAt(b, h, d))
                          /\ RowAt(b, h, d) \in Units \cup {Absent}
  BY <1>1 DEF RowAt, Shown, Absent, Units
<1>3. QED
  BY <1>2 DEF RowsAt, Frozen

LEMMA RewrittenIs ==
    ASSUME HistoryAssumption, HistoryTypeOK, NEW b \in Book, NEW d \in Calendar, NEW order
    PROVE  /\ Rewritten(b, d, order) \in Snapshot
           /\ Rewritten(b, d, order).rows # NoRows =>
                 /\ snapshots[d].rows # NoRows
                 /\ Rewritten(b, d, order).origin = snapshots[d].origin
                 /\ \A h \in Holdings :
                       Rewritten(b, d, order).rows[h] =
                           IF \E i \in 1..Len(order) : order[i] = h
                           THEN RowAt(b, h, d) ELSE snapshots[d].rows[h]
<1> DEFINE rows == snapshots[d].rows
           derived == RowsAt(b, d)
           folded == Refolded(rows, derived, order, Len(order))
           refilled == [snapshots[d] EXCEPT !.rows = folded]
<1>1. snapshots[d] \in Snapshot /\ rows \in Frozen /\ derived \in Frozen
  BY RowsShow DEF HistoryTypeOK, Snapshot
<1>2. \A h \in Holdings :
          folded[h] = IF \E i \in 1..Len(order) : order[i] = h THEN derived[h] ELSE rows[h]
  BY DEF Refolded
<1>3. \A h \in Holdings : derived[h] = RowAt(b, h, d)
  BY DEF RowsAt
<1>4. folded \in Frozen
  <2>1. \A h \in Holdings : folded[h] \in Units \cup {Absent}
    <3> HIDE DEF folded, rows, derived
    <3>1. QED
      BY <1>1, <1>2 DEF Frozen
  <2>2. folded = [h \in Holdings |-> folded[h]]
    BY DEF Refolded
  <2>3. QED
    <3> HIDE DEF folded
    <3>1. QED
      BY <2>1, <2>2 DEF Frozen
<1>5. refilled \in Snapshot /\ refilled.origin = snapshots[d].origin /\ refilled.rows = folded
  <2> HIDE DEF folded
  <2>1. QED
    BY <1>1, <1>4 DEF Snapshot
<1>6. \/ Rewritten(b, d, order) = snapshots[d] /\ rows = NoRows
      \/ Rewritten(b, d, order) = NoSnapshot
      \/ Rewritten(b, d, order) = refilled /\ rows # NoRows
  BY Zenon DEF Rewritten
<1>7. QED
  <2> HIDE DEF refilled, folded, derived
  <2>1. QED
    BY <1>1, <1>2, <1>3, <1>5, <1>6, NothingTyped

LEMMA GeneratedIs ==
    ASSUME HistoryAssumption, NEW b \in Book, NEW d \in Calendar
    PROVE  /\ Generated(b, d) \in Snapshot
           /\ Generated(b, d).rows # NoRows =>
                 \A h \in Holdings : Held(b, h)[d] = Shown(Generated(b, d).rows[h])
<1> DEFINE rows == RowsAt(b, d)
           made == [origin |-> "backfill", rows |-> rows]
<1>1. rows \in Frozen /\ \A h \in Holdings : Held(b, h)[d] = Shown(rows[h])
  BY RowsShow DEF RowsAt
<1>2. made \in Snapshot /\ made.rows = rows
  BY <1>1 DEF Snapshot
<1>3. Generated(b, d) = NoSnapshot \/ Generated(b, d) = made
  BY DEF Generated
<1>4. QED
  <2> HIDE DEF rows, made
  <2>1. QED
    BY <1>1, <1>2, <1>3, NothingTyped

\* What a band does to a day.
LEMMA RippleIs ==
    ASSUME NEW b, NEW order, NEW dates, NEW mode, Ripple(b, order, dates, mode)
    PROVE  /\ book' = b
           /\ snapshots' = [d \in Calendar |-> snapshots'[d]]
           /\ \A d \in Calendar :
                 \/ snapshots'[d] = NoSnapshot
                 \/ snapshots[d].origin = "none" /\ snapshots'[d] = Generated(b, d)
                 \/ /\ snapshots[d].origin # "none" /\ ~ (Min(dates) <= d)
                    /\ snapshots'[d] = snapshots[d]
                 \/ /\ snapshots[d].origin # "none" /\ Min(dates) <= d
                    /\ snapshots'[d] = Rewritten(b, d, order)
           /\ \A d, h : <<d, h>> \in astray =>
                 \/ <<d, h>> \in astray'
                 \/ snapshots'[d].origin = "none"
                 \/ Min(dates) <= d /\ \E i \in DOMAIN order : order[i] = h
           /\ astray' \subseteq astray
<1>1. book' = b /\ snapshots' = [d \in Calendar |-> snapshots'[d]]
  BY DEF Ripple
<1>2. ASSUME NEW d \in Calendar
      PROVE  \/ snapshots'[d] = NoSnapshot
             \/ snapshots[d].origin = "none" /\ snapshots'[d] = Generated(b, d)
             \/ /\ snapshots[d].origin # "none" /\ ~ (Min(dates) <= d)
                /\ snapshots'[d] = snapshots[d]
             \/ /\ snapshots[d].origin # "none" /\ Min(dates) <= d
                /\ snapshots'[d] = Rewritten(b, d, order)
  BY DEF Ripple, Reached
<1>3. ASSUME NEW d, NEW h, <<d, h>> \in astray
      PROVE  \/ <<d, h>> \in astray'
             \/ snapshots'[d].origin = "none"
             \/ Min(dates) <= d /\ \E i \in DOMAIN order : order[i] = h
  BY <1>3 DEF Ripple, Reached
<1>4. astray' \subseteq astray
  BY DEF Ripple
<1>5. QED
  BY <1>1, <1>2, <1>3, <1>4

LEMMA RippleCapture ==
    ASSUME NEW b, NEW order, NEW dates, NEW mode, Ripple(b, order, dates, mode)
    PROVE  \/ /\ capture.open /\ Min(dates) <= capture.day
              /\ capture' = [capture EXCEPT
                     !.doubt = capture.doubt \cup {order[i] : i \in DOMAIN order}]
           \/ ~ (capture.open /\ Min(dates) <= capture.day) /\ capture' = capture
BY DEF Ripple

CaptureState == [open: BOOLEAN, day: Calendar, rows: Frozen, doubt: SUBSET Holdings]

LEMMA Doubting ==
    ASSUME NEW c \in CaptureState, NEW hs \in SUBSET Holdings
    PROVE  /\ [c EXCEPT !.doubt = c.doubt \cup hs] \in CaptureState
           /\ [c EXCEPT !.doubt = c.doubt \cup hs].doubt = c.doubt \cup hs
           /\ [c EXCEPT !.doubt = c.doubt \cup hs].open = c.open
           /\ [c EXCEPT !.doubt = c.doubt \cup hs].day = c.day
           /\ [c EXCEPT !.doubt = c.doubt \cup hs].rows = c.rows
<1> DEFINE more == c.doubt \cup hs
<1>1. more \in SUBSET Holdings
  BY DEF CaptureState
<1> HIDE DEF more
<1>2. /\ [c EXCEPT !.doubt = more] \in CaptureState
      /\ [c EXCEPT !.doubt = more].doubt = more
      /\ [c EXCEPT !.doubt = more].open = c.open
      /\ [c EXCEPT !.doubt = more].day = c.day
      /\ [c EXCEPT !.doubt = more].rows = c.rows
  BY <1>1, ZenonT(60) DEF CaptureState
<1>3. QED
  BY <1>2 DEF more

LEMMA RippleTyped ==
    ASSUME HistoryAssumption, HistoryTypeOK, NEW b \in Book,
           NEW order, \A i \in DOMAIN order : order[i] \in Holdings,
           NEW dates, NEW mode, Ripple(b, order, dates, mode)
    PROVE  /\ book' \in Book
           /\ snapshots' \in [Calendar -> Snapshot]
           /\ capture' \in CaptureState
           /\ astray' \subseteq Calendar \X Holdings
<1>1. \A d \in Calendar : snapshots'[d] \in Snapshot
  BY RippleIs, RewrittenIs, GeneratedIs, NothingTyped DEF HistoryTypeOK
<1>2. capture' \in CaptureState
  <2> DEFINE hs == {order[i] : i \in DOMAIN order}
  <2>1. capture \in CaptureState /\ hs \in SUBSET Holdings
    BY DEF HistoryTypeOK, CaptureState
  <2>2. capture' = capture \/ capture' = [capture EXCEPT !.doubt = capture.doubt \cup hs]
    BY RippleCapture, Zenon
  <2> HIDE DEF hs
  <2>3. QED
    BY <2>1, <2>2, Doubting
<1>3. QED
  BY <1>1, <1>2, RippleIs DEF HistoryTypeOK

\* The facts a command changes are of the holdings it refolds, and none falls before its
\* floor.
Within(b, order, floor) ==
    \A h \in Holdings, d \in Calendar :
        d < floor \/ (\A i \in 1..Len(order) : order[i] # h) => Agree(b, book, h, d)

LEMMA RippleFollows ==
    ASSUME HistoryAssumption, HistoryTypeOK, HistoryFollowsBook,
           NEW b \in Book, NEW order, DOMAIN order = 1..Len(order),
           NEW dates \in SUBSET Calendar, dates # {}, NEW mode,
           Within(b, order, Min(dates)), Ripple(b, order, dates, mode)
    PROVE  HistoryFollowsBook'
<1>1. Min(dates) \in Nat
  <2>1. dates \in SUBSET Nat
    BY DEF Calendar, HistoryAssumption
  <2>2. QED
    BY <2>1, MinIsLeast
<1>2. book' = b /\ book \in Book
  BY RippleIs DEF HistoryTypeOK
<1>3. SUFFICES ASSUME NEW d \in Calendar, NEW h \in Holdings,
                      snapshots'[d].rows # NoRows, <<d, h>> \notin astray'
               PROVE  Held(b, h)[d] = Shown(snapshots'[d].rows[h])
  BY <1>2 DEF HistoryFollowsBook, Shown
<1>4. d \in Nat
  BY DEF Calendar, HistoryAssumption
<1>5. snapshots'[d] # NoSnapshot
  BY <1>3, NothingTyped
<1>6. ASSUME Agree(b, book, h, d), <<d, h>> \notin astray, snapshots[d].rows # NoRows
      PROVE  Held(b, h)[d] = Shown(snapshots[d].rows[h])
  BY <1>2, <1>6, HeldLocal DEF HistoryFollowsBook, Shown
<1>7. ASSUME <<d, h>> \in astray
      PROVE  \/ snapshots'[d].origin = "none"
             \/ Min(dates) <= d /\ \E i \in 1..Len(order) : order[i] = h
  BY <1>3, <1>7, RippleIs
<1>8. CASE snapshots'[d] = Generated(b, d)
  BY <1>3, <1>8, GeneratedIs
<1>9. CASE /\ snapshots[d].origin # "none" /\ ~ (Min(dates) <= d)
           /\ snapshots'[d] = snapshots[d]
  <2>1. d < Min(dates)
    BY <1>1, <1>4, <1>9
  <2>2. Agree(b, book, h, d)
    BY <2>1 DEF Within
  <2>3. <<d, h>> \notin astray
    BY <1>7, <1>9
  <2>4. QED
    BY <1>3, <1>6, <1>9, <2>2, <2>3
<1>10. CASE /\ snapshots[d].origin # "none" /\ Min(dates) <= d
            /\ snapshots'[d] = Rewritten(b, d, order)
  <2>1. /\ snapshots[d].rows # NoRows
        /\ snapshots'[d].origin # "none"
        /\ snapshots'[d].rows[h] = IF \E i \in 1..Len(order) : order[i] = h
                                   THEN RowAt(b, h, d) ELSE snapshots[d].rows[h]
    BY <1>3, <1>10, RewrittenIs
  <2>2. CASE \E i \in 1..Len(order) : order[i] = h
    BY <2>1, <2>2, RowsShow
  <2>3. CASE ~ \E i \in 1..Len(order) : order[i] = h
    <3>1. Agree(b, book, h, d)
      BY <2>3 DEF Within
    <3>2. <<d, h>> \notin astray
      BY <1>7, <2>1, <2>3
    <3>3. QED
      BY <1>6, <2>1, <2>3, <3>1, <3>2
  <2>4. QED
    BY <2>2, <2>3
<1>11. QED
  <2>1. \/ snapshots'[d] = Generated(b, d)
        \/ /\ snapshots[d].origin # "none" /\ ~ (Min(dates) <= d)
           /\ snapshots'[d] = snapshots[d]
        \/ /\ snapshots[d].origin # "none" /\ Min(dates) <= d
           /\ snapshots'[d] = Rewritten(b, d, order)
    BY <1>5, RippleIs
  <2>2. QED
    BY <1>8, <1>9, <1>10, <2>1

LEMMA OrderIs ==
    ASSUME NEW hs, IsFiniteSet(hs), NEW order \in Orders(hs)
    PROVE  /\ DOMAIN order = 1..Len(order)
           /\ \A h \in hs : \E i \in 1..Len(order) : order[i] = h
           /\ \A i \in DOMAIN order : order[i] \in hs
<1>1. Cardinality(hs) \in Nat
  BY FS_CardinalityType
<1>2. order \in [1..Cardinality(hs) -> hs]
  BY DEF Orders
<1>3. order \in Seq(hs)
  BY <1>1, <1>2, SeqDef
<1>4. DOMAIN order = 1..Len(order)
  BY <1>3, LenProperties
<1>5. QED
  BY <1>2, <1>4 DEF Orders

-----------------------------------------------------------------------------
(* The commands and the capture.                                           *)

\* Purchases are made or deleted.
LEMMA PurchasesWithin ==
    ASSUME HistoryAssumption, HistoryTypeOK, NEW b \in Book,
           NEW touched \in SUBSET Purchases, touched # {},
           b.moved = book.moved,
           \A p \in Purchases \ touched : p \in b.bought <=> p \in book.bought,
           NEW order \in Orders({HoldingOf[p] : p \in touched})
    PROVE  /\ DOMAIN order = 1..Len(order)
           /\ \A i \in DOMAIN order : order[i] \in Holdings
           /\ {DayOf[p] : p \in touched} \in SUBSET Calendar
           /\ {DayOf[p] : p \in touched} # {}
           /\ Within(b, order, Min({DayOf[p] : p \in touched}))
<1> DEFINE on == {HoldingOf[p] : p \in touched}
           dates == {DayOf[p] : p \in touched}
<1>1. IsFiniteSet(on) /\ on \in SUBSET Holdings
  <2>1. on \in SUBSET Holdings
    BY DEF HistoryAssumption
  <2>2. QED
    BY <2>1, FS_Subset DEF HistoryAssumption
<1>2. /\ DOMAIN order = 1..Len(order)
      /\ \A h \in on : \E i \in 1..Len(order) : order[i] = h
      /\ \A i \in DOMAIN order : order[i] \in on
  <2>1. order \in Orders(on)
    OBVIOUS
  <2> HIDE DEF on
  <2>2. QED
    BY <1>1, <2>1, OrderIs
<1>3. dates \in SUBSET Calendar /\ dates \in SUBSET Nat /\ dates # {}
  BY DEF HistoryAssumption, Calendar
<1>4. \A y \in dates : Min(dates) <= y
  <2> HIDE DEF dates
  <2>1. QED
    BY <1>3, MinIsLeast
<1>5. Min(dates) \in Nat
  <2> HIDE DEF dates
  <2>1. QED
    BY <1>3, MinIsLeast
<1>6. \A p \in touched : Min(dates) <= DayOf[p] /\ HoldingOf[p] \in on
  <2>1. \A p \in touched : DayOf[p] \in dates /\ HoldingOf[p] \in on
    OBVIOUS
  <2>2. QED
    BY <1>4, <2>1
<1>7. ASSUME NEW h \in Holdings, NEW d \in Calendar,
             d < Min(dates) \/ \A i \in 1..Len(order) : order[i] # h
      PROVE  Agree(b, book, h, d)
  <2>1. ASSUME NEW p \in Purchases, HoldingOf[p] = h, DayOf[p] <= d
        PROVE  p \in b.bought <=> p \in book.bought
    <3>1. DayOf[p] \in Nat /\ d \in Nat
      BY DEF HistoryAssumption, Calendar
    <3>2. p \notin touched
      <4> HIDE DEF dates, on
      <4>1. QED
        BY <1>2, <1>5, <1>6, <1>7, <2>1, <3>1
    <3>3. QED
      BY <3>2
  <2>2. book \in Book
    BY DEF HistoryTypeOK
  <2>3. QED
    BY <2>1, <2>2, SameFactsAgree
<1>8. QED
  <2>1. Within(b, order, Min(dates))
    <3> HIDE DEF dates
    <3>1. QED
      BY <1>7 DEF Within
  <2>2. \A i \in DOMAIN order : order[i] \in Holdings
    <3> HIDE DEF on
    <3>1. QED
      BY <1>1, <1>2
  <2>3. QED
    BY <1>2, <1>3, <2>1, <2>2

\* A transfer is made or deleted.
LEMMA TransferWithin ==
    ASSUME HistoryAssumption, HistoryTypeOK, NEW b \in Book, NEW t \in Transfers,
           b.bought = book.bought,
           \A m \in Transfers \ {t} : b.moved[m] = book.moved[m],
           NEW order, DOMAIN order = 1..Len(order),
           \A h \in {OriginOf[t], DestinationOf[t]} : \E i \in 1..Len(order) : order[i] = h
    PROVE  /\ {MoveDayOf[t]} \in SUBSET Calendar
           /\ Within(b, order, Min({MoveDayOf[t]}))
<1>1. MoveDayOf[t] \in Calendar
  BY DEF HistoryAssumption, Calendar
<1>2. Min({MoveDayOf[t]}) = MoveDayOf[t]
  <2>1. {MoveDayOf[t]} \in SUBSET Nat /\ {MoveDayOf[t]} # {}
    BY <1>1 DEF Calendar, HistoryAssumption
  <2>2. Min({MoveDayOf[t]}) \in {MoveDayOf[t]}
    BY <2>1, MinIsLeast, Zenon
  <2>3. QED
    BY <2>2
<1>3. ASSUME NEW h \in Holdings, NEW d \in Calendar,
             d < MoveDayOf[t] \/ \A i \in 1..Len(order) : order[i] # h
      PROVE  Agree(b, book, h, d)
  <2>1. ASSUME NEW m \in Transfers, OriginOf[m] = h \/ DestinationOf[m] = h,
               MoveDayOf[m] <= d
        PROVE  b.moved[m] = book.moved[m]
    <3>1. MoveDayOf[m] \in Nat /\ d \in Nat
      BY DEF HistoryAssumption, Calendar
    <3>2. m # t
      BY <1>3, <2>1, <3>1
    <3>3. QED
      BY <3>2
  <2>2. book \in Book
    BY DEF HistoryTypeOK
  <2>3. QED
    BY <2>1, <2>2, SameFactsAgree
<1>4. QED
  BY <1>1, <1>2, <1>3 DEF Within

\* Facts are of holdings that exist.
Booked ==
    /\ \A p \in book.bought : HoldingOf[p] \in opened
    /\ \A t \in Transfers : book.moved[t] # 0 => DestinationOf[t] \in opened

\* A capture in flight holds what the book holds of its day, but for what is in doubt.
CaptureKnows ==
    capture.open =>
        \A h \in Holdings \ capture.doubt :
            Shown(capture.rows[h]) = Held(book, h)[capture.day]

HistoryInv == HistoryTypeOK /\ Booked /\ CaptureKnows /\ HistoryFollowsBook

LEMMA HistoryInitInv == ASSUME HistoryAssumption PROVE HistoryInit => HistoryInv
<1> SUFFICES ASSUME HistoryInit PROVE HistoryInv
  OBVIOUS
<1>1. 0 \in Calendar
  BY DEF HistoryAssumption, Calendar
<1>2. NoRows \in Frozen /\ NoSnapshot \in Snapshot /\ NoSnapshot.rows = NoRows
  BY NothingTyped
<1>3. book \in Book
  BY DEF HistoryInit, Book, Units
<1>4. capture \in CaptureState
  BY <1>1, <1>2 DEF HistoryInit, NoCapture, CaptureState
<1>5. HistoryTypeOK
  BY <1>1, <1>2, <1>3, <1>4 DEF HistoryInit, HistoryTypeOK, CaptureState
<1>6. HistoryFollowsBook
  BY <1>2 DEF HistoryInit, HistoryFollowsBook
<1>7. Booked /\ CaptureKnows
  BY DEF HistoryInit, Booked, CaptureKnows, NoCapture
<1>8. QED
  BY <1>5, <1>6, <1>7 DEF HistoryInv

\* A band leaves a capture in flight knowing what it is not left in doubt of.
LEMMA BandKnows ==
    ASSUME HistoryAssumption, HistoryTypeOK, CaptureKnows,
           NEW b \in Book, NEW order, DOMAIN order = 1..Len(order),
           \A i \in DOMAIN order : order[i] \in Holdings,
           NEW dates \in SUBSET Calendar, dates # {}, NEW mode,
           Within(b, order, Min(dates)), Ripple(b, order, dates, mode)
    PROVE  CaptureKnows'
<1> DEFINE hs == {order[i] : i \in DOMAIN order}
<1>1. Min(dates) \in Nat
  <2>1. dates \in SUBSET Nat
    BY DEF Calendar, HistoryAssumption
  <2>2. QED
    BY <2>1, MinIsLeast
<1>2. /\ book' = b /\ book \in Book
      /\ capture \in CaptureState /\ capture.day \in Calendar /\ capture.day \in Nat
  BY RippleIs DEF HistoryTypeOK, CaptureState, Calendar, HistoryAssumption
<1>3. hs \in SUBSET Holdings
  OBVIOUS
<1>4. ASSUME NEW h \in Holdings \ capture.doubt, capture.open,
             Agree(b, book, h, capture.day)
      PROVE  Shown(capture.rows[h]) = Held(b, h)[capture.day]
  BY <1>2, <1>4, HeldLocal DEF CaptureKnows
<1>5. CASE /\ capture.open /\ Min(dates) <= capture.day
           /\ capture' = [capture EXCEPT !.doubt = capture.doubt \cup hs]
  <2>1. /\ capture'.doubt = capture.doubt \cup hs
        /\ capture'.day = capture.day /\ capture'.rows = capture.rows
    <3> HIDE DEF hs
    <3>1. QED
      BY <1>2, <1>3, <1>5, Doubting
  <2>2. ASSUME NEW h \in Holdings \ capture'.doubt
        PROVE  Shown(capture.rows[h]) = Held(b, h)[capture.day]
    <3>1. h \notin capture.doubt /\ \A i \in 1..Len(order) : order[i] # h
      BY <2>1
    <3>2. Agree(b, book, h, capture.day)
      BY <1>2, <3>1 DEF Within
    <3>3. QED
      BY <1>4, <1>5, <3>1, <3>2
  <2>3. QED
    BY <1>2, <2>1, <2>2 DEF CaptureKnows, Shown
<1>6. CASE ~ (capture.open /\ Min(dates) <= capture.day) /\ capture' = capture
  <2>1. ASSUME capture.open, NEW h \in Holdings \ capture.doubt
        PROVE  Shown(capture.rows[h]) = Held(b, h)[capture.day]
    <3>1. capture.day < Min(dates)
      BY <1>1, <1>2, <1>6, <2>1
    <3>2. Agree(b, book, h, capture.day)
      BY <1>2, <3>1 DEF Within
    <3>3. QED
      BY <1>4, <2>1, <3>2
  <2>2. QED
    BY <1>2, <1>6, <2>1 DEF CaptureKnows, Shown
<1>7. QED
  BY <1>5, <1>6, RippleCapture, Zenon

\* A command keeps the types and the agreement, whatever its band rewrites.
LEMMA BandInv ==
    ASSUME HistoryAssumption, HistoryInv,
           NEW b \in Book, NEW order, DOMAIN order = 1..Len(order),
           \A i \in DOMAIN order : order[i] \in Holdings,
           NEW dates \in SUBSET Calendar, dates # {}, NEW mode,
           Within(b, order, Min(dates)), Ripple(b, order, dates, mode),
           today' = today, opened' \subseteq Holdings,
           \A p \in b.bought : HoldingOf[p] \in opened',
           \A t \in Transfers : b.moved[t] # 0 => DestinationOf[t] \in opened'
    PROVE  HistoryInv'
<1>1. HistoryFollowsBook'
  BY RippleFollows DEF HistoryInv
<1>2. HistoryTypeOK'
  BY RippleTyped DEF HistoryInv, HistoryTypeOK, CaptureState
<1>3. CaptureKnows'
  BY BandKnows DEF HistoryInv
<1>4. Booked'
  BY RippleIs DEF Booked
<1>5. QED
  BY <1>1, <1>2, <1>3, <1>4 DEF HistoryInv

LEMMA RecordInv ==
    ASSUME HistoryAssumption, HistoryInv,
           NEW creates \in SUBSET Purchases, NEW deletes \in SUBSET Purchases,
           Record(creates, deletes)
    PROVE  HistoryInv'
<1> DEFINE touched == creates \cup deletes
           on == {HoldingOf[p] : p \in touched}
           dates == {DayOf[p] : p \in touched}
           b == [book EXCEPT !.bought = (@ \cup creates) \ deletes]
<1>1. PICK order \in Orders(on) : Ripple(b, order, dates, "record")
  BY Zenon DEF Record
<1>2. book \in Book /\ HistoryTypeOK
  BY DEF HistoryInv, HistoryTypeOK
<1>3. /\ b \in Book /\ b.moved = book.moved
      /\ b.bought = (book.bought \cup creates) \ deletes
  BY <1>2 DEF Book
<1>4. touched # {}
  <2>1. Cardinality(on) = 1
    BY DEF Record
  <2>2. SUFFICES ASSUME touched = {} PROVE FALSE
    OBVIOUS
  <2>3. on = {}
    BY <2>2
  <2>4. QED
    <3> HIDE DEF on
    <3>1. QED
      BY <2>1, <2>3, FS_EmptySet
<1>5. \A p \in Purchases \ touched : p \in b.bought <=> p \in book.bought
  BY <1>3
<1>6. today' = today /\ opened' = opened /\ opened \subseteq Holdings
  BY <1>2 DEF Record, HistoryTypeOK
<1>7. /\ \A p \in b.bought : HoldingOf[p] \in opened'
      /\ \A t \in Transfers : b.moved[t] # 0 => DestinationOf[t] \in opened'
  <2>1. on \subseteq opened
    BY DEF Record
  <2>2. \A p \in creates : HoldingOf[p] \in opened
    BY <2>1
  <2> HIDE DEF b
  <2>3. QED
    BY <1>3, <1>6, <2>2 DEF HistoryInv, Booked
<1>8. QED
  <2> HIDE DEF b, touched
  <2>1. /\ DOMAIN order = 1..Len(order) /\ dates \in SUBSET Calendar /\ dates # {}
        /\ \A i \in DOMAIN order : order[i] \in Holdings
        /\ Within(b, order, Min(dates))
    BY <1>1, <1>2, <1>3, <1>4, <1>5, PurchasesWithin DEF touched
  <2> HIDE DEF dates
  <2>2. QED
    BY <1>1, <1>3, <1>6, <1>7, <2>1, BandInv

LEMMA DeleteInv ==
    ASSUME HistoryAssumption, HistoryInv,
           NEW deletes \in SUBSET Purchases, Delete(deletes)
    PROVE  HistoryInv'
<1> DEFINE on == {HoldingOf[p] : p \in deletes}
           dates == {DayOf[p] : p \in deletes}
           b == [book EXCEPT !.bought = @ \ deletes]
<1>1. PICK order \in Orders(on) : Ripple(b, order, dates, "delete")
  BY Zenon DEF Delete
<1>2. book \in Book /\ HistoryTypeOK
  BY DEF HistoryInv, HistoryTypeOK
<1>3. /\ b \in Book /\ b.moved = book.moved
      /\ b.bought = book.bought \ deletes
  BY <1>2 DEF Book
<1>4. deletes # {}
  BY DEF Delete
<1>5. \A p \in Purchases \ deletes : p \in b.bought <=> p \in book.bought
  BY <1>3
<1>6. today' = today /\ opened' = opened /\ opened \subseteq Holdings
  BY <1>2 DEF Delete, HistoryTypeOK
<1>7. /\ \A p \in b.bought : HoldingOf[p] \in opened'
      /\ \A t \in Transfers : b.moved[t] # 0 => DestinationOf[t] \in opened'
  <2> HIDE DEF b
  <2>1. QED
    BY <1>3, <1>6 DEF HistoryInv, Booked
<1>8. QED
  <2> HIDE DEF b
  <2>1. /\ DOMAIN order = 1..Len(order) /\ dates \in SUBSET Calendar /\ dates # {}
        /\ \A i \in DOMAIN order : order[i] \in Holdings
        /\ Within(b, order, Min(dates))
    BY <1>1, <1>2, <1>3, <1>4, <1>5, PurchasesWithin
  <2> HIDE DEF dates
  <2>2. QED
    BY <1>1, <1>3, <1>6, <1>7, <2>1, BandInv

LEMMA TransferInv ==
    ASSUME HistoryAssumption, HistoryInv, NEW t \in Transfers, Transfer(t)
    PROVE  HistoryInv'
<1> DEFINE units == Held(book, OriginOf[t])[MoveDayOf[t]]
           order == <<OriginOf[t], DestinationOf[t]>>
           b == [book EXCEPT !.moved[t] = units]
<1>1. Ripple(b, order, {MoveDayOf[t]}, "record")
  BY Zenon DEF Transfer
<1>2. book \in Book /\ HistoryTypeOK
  BY DEF HistoryInv, HistoryTypeOK
<1>3. units \in Nat
  <2>1. MoveDayOf[t] \in Calendar
    BY DEF HistoryAssumption, Calendar
  <2>2. QED
    BY <1>2, <2>1, HeldTyped
<1>4. /\ b \in Book /\ b.bought = book.bought
      /\ \A m \in Transfers \ {t} : b.moved[m] = book.moved[m]
  <2> HIDE DEF units
  <2>1. QED
    BY <1>2, <1>3 DEF Book, Units
<1>5. /\ today' = today
      /\ opened' = opened \cup {DestinationOf[t]} /\ opened' \subseteq Holdings
  BY <1>2 DEF Transfer, HistoryTypeOK, HistoryAssumption
<1>6. /\ DOMAIN order = 1..Len(order)
      /\ \A h \in {OriginOf[t], DestinationOf[t]} : \E i \in 1..Len(order) : order[i] = h
      /\ \A i \in DOMAIN order : order[i] \in Holdings
  BY DEF HistoryAssumption
<1>7. /\ \A p \in b.bought : HoldingOf[p] \in opened'
      /\ \A m \in Transfers : b.moved[m] # 0 => DestinationOf[m] \in opened'
  <2> HIDE DEF b
  <2>1. QED
    BY <1>4, <1>5 DEF HistoryInv, Booked
<1>8. QED
  <2> HIDE DEF b, order
  <2>1. {MoveDayOf[t]} \in SUBSET Calendar /\ Within(b, order, Min({MoveDayOf[t]}))
    BY <1>2, <1>4, <1>6, TransferWithin
  <2>2. QED
    BY <1>1, <1>4, <1>5, <1>6, <1>7, <2>1, BandInv

LEMMA DeleteTransferInv ==
    ASSUME HistoryAssumption, HistoryInv, NEW t \in Transfers, DeleteTransfer(t)
    PROVE  HistoryInv'
<1> DEFINE hs == {OriginOf[t], DestinationOf[t]}
           b == [book EXCEPT !.moved[t] = 0]
<1>1. PICK order \in Orders(hs) : Ripple(b, order, {MoveDayOf[t]}, "delete")
  BY Zenon DEF DeleteTransfer
<1>2. book \in Book /\ HistoryTypeOK
  BY DEF HistoryInv, HistoryTypeOK
<1>3. /\ b \in Book /\ b.bought = book.bought
      /\ \A m \in Transfers \ {t} : b.moved[m] = book.moved[m]
      /\ b.moved[t] = 0
  BY <1>2 DEF Book, Units
<1>4. today' = today /\ opened' = opened /\ opened \subseteq Holdings
  BY <1>2 DEF DeleteTransfer, HistoryTypeOK
<1>5. IsFiniteSet(hs) /\ hs \in SUBSET Holdings
  <2>1. hs \in SUBSET Holdings
    BY DEF HistoryAssumption
  <2>2. QED
    BY <2>1, FS_Subset DEF HistoryAssumption
<1>6. /\ DOMAIN order = 1..Len(order)
      /\ \A h \in hs : \E i \in 1..Len(order) : order[i] = h
      /\ \A i \in DOMAIN order : order[i] \in Holdings
  <2> HIDE DEF hs
  <2>1. QED
    BY <1>5, OrderIs
<1>7. /\ \A p \in b.bought : HoldingOf[p] \in opened'
      /\ \A m \in Transfers : b.moved[m] # 0 => DestinationOf[m] \in opened'
  <2> HIDE DEF b
  <2>1. QED
    BY <1>3, <1>4 DEF HistoryInv, Booked
<1>8. QED
  <2> HIDE DEF b
  <2>1. {MoveDayOf[t]} \in SUBSET Calendar /\ Within(b, order, Min({MoveDayOf[t]}))
    BY <1>2, <1>3, <1>6, TransferWithin
  <2>2. QED
    BY <1>1, <1>3, <1>4, <1>6, <1>7, <2>1, BandInv

LEMMA CaptureReadsInv ==
    ASSUME HistoryAssumption, HistoryInv, NEW d \in Calendar, CaptureReads(d)
    PROVE  HistoryInv'
<1> DEFINE rows == [h \in Holdings |->
                      IF h \in opened THEN Held(book, h)[LastDay] ELSE Absent]
           doubt == {h \in Holdings : Later(book, h, d)}
<1>1. HistoryTypeOK /\ Booked /\ HistoryFollowsBook /\ book \in Book
  BY DEF HistoryInv, HistoryTypeOK
<1>2. LastDay \in Calendar
  BY DEF Calendar, HistoryAssumption
<1>3. \A h \in Holdings : Held(book, h)[LastDay] \in Nat
  BY <1>1, <1>2, HeldTyped
<1>4. rows \in Frozen /\ doubt \in SUBSET Holdings
  BY <1>3 DEF Frozen, Units
<1>5. capture' = [open |-> TRUE, day |-> d, rows |-> rows, doubt |-> doubt]
  BY DEF CaptureReads
<1>6. UNCHANGED <<today, opened, book, snapshots, astray>>
  BY DEF CaptureReads
<1>7. /\ capture' \in CaptureState
      /\ capture'.day = d /\ capture'.rows = rows /\ capture'.doubt = doubt
  <2> HIDE DEF rows, doubt
  <2>1. QED
    BY <1>4, <1>5 DEF CaptureState
<1>8. HistoryTypeOK'
  BY <1>1, <1>6, <1>7 DEF HistoryTypeOK, CaptureState
<1>9. Booked' /\ HistoryFollowsBook'
  BY <1>1, <1>6 DEF Booked, HistoryFollowsBook
<1>10. ASSUME NEW h \in Holdings \ doubt
       PROVE  Shown(rows[h]) = Held(book, h)[d]
  <2>1. CASE h \in opened
    <3>1. Held(book, h)[LastDay] = Held(book, h)[d]
      BY <1>1, NothingLater
    <3>2. rows[h] = Held(book, h)[LastDay] /\ rows[h] \in Nat
      BY <1>3, <2>1
    <3>3. QED
      BY <3>1, <3>2 DEF Shown, Absent
  <2>2. CASE h \notin opened
    <3>1. /\ \A p \in book.bought : HoldingOf[p] # h
          /\ \A t \in Transfers : DestinationOf[t] = h => book.moved[t] = 0
      BY <1>1, <2>2 DEF Booked
    <3>2. Held(book, h)[d] = 0
      BY <1>1, <3>1, NothingHeld
    <3>3. rows[h] = Absent
      BY <2>2
    <3>4. QED
      BY <3>2, <3>3 DEF Shown
  <2>3. QED
    BY <2>1, <2>2
<1>11. CaptureKnows'
  <2> HIDE DEF rows, doubt
  <2>1. QED
    BY <1>6, <1>7, <1>10 DEF CaptureKnows, Shown
<1>12. QED
  BY <1>8, <1>9, <1>11 DEF HistoryInv

LEMMA CaptureSavesInv ==
    ASSUME HistoryAssumption, HistoryInv, CaptureSaves
    PROVE  HistoryInv'
<1> DEFINE day == capture.day
           saved == [origin |-> "daily", rows |-> capture.rows]
<1>1. HistoryTypeOK /\ Booked /\ CaptureKnows /\ HistoryFollowsBook
  BY DEF HistoryInv
<1>2. /\ day \in Calendar /\ capture.rows \in Frozen
      /\ capture.open /\ capture.doubt \in SUBSET Holdings
  BY <1>1 DEF HistoryTypeOK, CaptureSaves
<1>3. saved \in Snapshot /\ saved.rows = capture.rows
  BY <1>2 DEF Snapshot
<1>4. snapshots' = [snapshots EXCEPT ![day] = saved]
  BY DEF CaptureSaves
<1>5. /\ \A d, h : <<d, h>> \in astray /\ d # day => <<d, h>> \in astray'
      /\ \A h \in capture.doubt : <<day, h>> \in astray'
      /\ astray' \subseteq Calendar \X Holdings
  BY <1>1, <1>2 DEF CaptureSaves, HistoryTypeOK
<1>6. /\ snapshots' \in [Calendar -> Snapshot]
      /\ snapshots'[day] = saved
      /\ \A d \in Calendar : d # day => snapshots'[d] = snapshots[d]
  <2> HIDE DEF day, saved
  <2>1. QED
    BY <1>1, <1>2, <1>3, <1>4 DEF HistoryTypeOK
<1>7. UNCHANGED <<today, opened, book>> /\ capture' = NoCapture
  BY DEF CaptureSaves
<1>8. capture' \in CaptureState /\ capture'.open = FALSE
  BY <1>7, NothingTyped DEF NoCapture, CaptureState, Calendar, HistoryAssumption
<1>9. HistoryTypeOK'
  BY <1>1, <1>5, <1>6, <1>7, <1>8 DEF HistoryTypeOK, CaptureState
<1>10. ASSUME NEW d \in Calendar, NEW h \in Holdings,
              snapshots'[d].rows # NoRows, <<d, h>> \notin astray'
       PROVE  Held(book, h)[d] = Shown(snapshots'[d].rows[h])
  <2>1. CASE d = day
    <3>1. h \notin capture.doubt
      BY <1>5, <1>10, <2>1
    <3>2. QED
      BY <1>1, <1>2, <1>3, <1>6, <2>1, <3>1 DEF CaptureKnows
  <2>2. CASE d # day
    <3>1. snapshots'[d] = snapshots[d] /\ <<d, h>> \notin astray
      BY <1>5, <1>6, <1>10, <2>2
    <3>2. QED
      BY <1>1, <1>10, <3>1 DEF HistoryFollowsBook, Shown
  <2>3. QED
    BY <2>1, <2>2
<1>11. HistoryFollowsBook'
  BY <1>7, <1>10 DEF HistoryFollowsBook, Shown
<1>12. Booked' /\ CaptureKnows'
  BY <1>1, <1>7, <1>8 DEF Booked, CaptureKnows
<1>13. QED
  BY <1>9, <1>11, <1>12 DEF HistoryInv

LEMMA HistoryStepInv ==
    ASSUME HistoryAssumption, HistoryInv, [HistoryNext]_historyVars
    PROVE  HistoryInv'
<1>1. CASE Tick
  BY <1>1 DEF Tick, HistoryInv, HistoryTypeOK, Booked, CaptureKnows, HistoryFollowsBook,
              Calendar, HistoryAssumption
<1>2. ASSUME NEW h \in Holdings, OpenHolding(h) PROVE HistoryInv'
  BY <1>2 DEF OpenHolding, HistoryInv, HistoryTypeOK, Booked, CaptureKnows,
              HistoryFollowsBook
<1>3. ASSUME NEW creates \in SUBSET Purchases, NEW deletes \in SUBSET Purchases,
             Record(creates, deletes)
      PROVE  HistoryInv'
  BY <1>3, RecordInv
<1>4. ASSUME NEW deletes \in SUBSET Purchases, Delete(deletes) PROVE HistoryInv'
  BY <1>4, DeleteInv
<1>5. ASSUME NEW t \in Transfers, Transfer(t) PROVE HistoryInv'
  BY <1>5, TransferInv
<1>6. ASSUME NEW t \in Transfers, DeleteTransfer(t) PROVE HistoryInv'
  BY <1>6, DeleteTransferInv
<1>7. ASSUME NEW d \in Calendar, CaptureReads(d) PROVE HistoryInv'
  BY <1>7, CaptureReadsInv
<1>8. CASE CaptureSaves
  BY <1>8, CaptureSavesInv
<1>9. CASE UNCHANGED historyVars
  BY <1>9 DEF historyVars, HistoryInv, HistoryTypeOK, Booked, CaptureKnows,
              HistoryFollowsBook
<1>10. QED
  BY <1>1, <1>2, <1>3, <1>4, <1>5, <1>6, <1>7, <1>8, <1>9 DEF HistoryNext

\* The types, the agreement and what a capture in flight knows are inductive together: a
\* capture that is not in doubt of a holding saves what the book holds of its day, and what
\* a step may assume of the snapshots it leaves alone is what it must prove of those it
\* rewrites.
THEOREM HistoryInvariant == ASSUME HistoryAssumption PROVE HistorySpec => []HistoryInv
<1>1. HistoryInit => HistoryInv
  BY HistoryInitInv
<1>2. HistoryInv /\ [HistoryNext]_historyVars => HistoryInv'
  BY HistoryStepInv
<1>3. QED
  BY <1>1, <1>2, PTL DEF HistorySpec

\* Every variable of History has its type: in particular a position is a natural, however
\* many units leave it.
THEOREM HistoryTypeCorrect ==
    ASSUME HistoryAssumption PROVE HistorySpec => []HistoryTypeOK
BY HistoryInvariant, PTL DEF HistoryInv

\* Whatever is recorded, deleted or moved, in any order and at any date, past or future,
\* every row shows what the book holds on its day, but for those a capture saved in doubt:
\* of a holding with facts after the captured day, or reached by a command between its read
\* and its save.
THEOREM HistoryHolds ==
    ASSUME HistoryAssumption PROVE HistorySpec => []HistoryFollowsBook
BY HistoryInvariant, PTL DEF HistoryInv

-----------------------------------------------------------------------------
(* What a band drops.  DropsOnlyTheEmpty fails where a band refolds two    *)
(* holdings; where it refolds one, it is kept.                             *)

Changed == (book.bought \ book'.bought) \cup (book'.bought \ book.bought)

\* A capture that a command about the operations of one holding drops was of a day on
\* which nothing is held, but for the rows that were astray already.
OneHoldingDropsOnlyTheEmpty ==
    [][\A d \in Calendar :
          /\ snapshots[d].origin = "daily" /\ snapshots'[d].origin = "none"
          /\ book'.moved = book.moved
          /\ \A p, q \in Changed : HoldingOf[p] = HoldingOf[q]
          => \A h \in Holdings : <<d, h>> \in astray \/ Held(book', h)[d] = 0]_historyVars

\* A day is dropped only where the fold of some prefix of the holdings leaves no row.
LEMMA DroppedIs ==
    ASSUME NEW b, NEW order, NEW dates, NEW mode, Ripple(b, order, dates, mode),
           NEW d \in Calendar,
           snapshots[d].origin = "daily", snapshots'[d].origin = "none"
    PROVE  /\ Min(dates) <= d
           /\ snapshots[d].rows # NoRows
           /\ \E n \in DOMAIN order :
                 Refolded(snapshots[d].rows, RowsAt(b, d), order, n) = NoRows
<1> DEFINE folded == Refolded(snapshots[d].rows, RowsAt(b, d), order, Len(order))
<1>1. /\ Min(dates) <= d
      /\ snapshots'[d] = NoSnapshot \/ snapshots'[d] = Rewritten(b, d, order)
      /\ snapshots'[d] = NoSnapshot => Rewritten(b, d, order) = NoSnapshot
  BY DEF Ripple, Reached
<1>2. Rewritten(b, d, order).origin = "none"
  BY <1>1, NothingTyped
<1>3. CASE snapshots[d].rows = NoRows
  BY <1>2, <1>3 DEF Rewritten
<1>4. CASE /\ snapshots[d].rows # NoRows
           /\ ~ \E n \in DOMAIN order :
                   Refolded(snapshots[d].rows, RowsAt(b, d), order, n) = NoRows
  <2>1. Rewritten(b, d, order) = [snapshots[d] EXCEPT !.rows = folded]
    BY <1>4 DEF Rewritten
  <2>2. Rewritten(b, d, order).origin = snapshots[d].origin
    BY <2>1
  <2>3. QED
    BY <1>2, <2>2
<1>5. QED
  BY <1>1, <1>3, <1>4

LEMMA OneHoldingDrops ==
    ASSUME HistoryAssumption, HistoryInv, NEW b \in Book,
           NEW touched \in SUBSET Purchases, touched # {},
           b.moved = book.moved,
           \A p \in Purchases \ touched : p \in b.bought <=> p \in book.bought,
           NEW g, \A p \in touched : HoldingOf[p] = g,
           NEW order \in Orders({HoldingOf[p] : p \in touched}), NEW mode,
           Ripple(b, order, {DayOf[p] : p \in touched}, mode),
           NEW d \in Calendar,
           snapshots[d].origin = "daily", snapshots'[d].origin = "none",
           NEW h \in Holdings, <<d, h>> \notin astray
    PROVE  Held(b, h)[d] = 0
<1> DEFINE dates == {DayOf[p] : p \in touched}
           rows == snapshots[d].rows
<1>1. HistoryTypeOK /\ HistoryFollowsBook /\ book \in Book
  BY DEF HistoryInv, HistoryTypeOK
<1>2. DOMAIN order = 1..Len(order) /\ Within(b, order, Min(dates))
  BY <1>1, PurchasesWithin
<1>3. {HoldingOf[p] : p \in touched} = {g}
  OBVIOUS
<1>4. Cardinality({g}) = 1
  BY FS_Singleton
<1>5. order \in [1..1 -> {g}]
  BY <1>3, <1>4 DEF Orders
<1>6. DOMAIN order = 1..1 /\ order[1] = g /\ Len(order) = 1
  <2>1. order \in Seq({g})
    BY <1>5, SeqDef
  <2>2. Len(order) \in Nat /\ DOMAIN order = 1..Len(order)
    BY <2>1, LenProperties
  <2>3. DOMAIN order = 1..1 /\ order[1] = g
    BY <1>5
  <2>4. Len(order) = 1
    <3> DEFINE n == Len(order)
    <3>1. n \in Nat /\ 1..n = 1..1
      BY <2>2, <2>3
    <3> HIDE DEF n
    <3>2. n = 1
      BY <3>1
    <3>3. QED
      BY <3>2 DEF n
  <2>5. QED
    BY <2>3, <2>4
<1>7. rows # NoRows /\ Refolded(rows, RowsAt(b, d), order, 1) = NoRows
  BY <1>6, DroppedIs
<1>8. (IF \E i \in 1..1 : order[i] = h THEN RowsAt(b, d)[h] ELSE rows[h]) = Absent
  BY <1>7 DEF Refolded, NoRows
<1>9. CASE h = g
  <2>1. RowAt(b, h, d) = Absent
    BY <1>6, <1>8, <1>9 DEF RowsAt
  <2>2. QED
    BY <2>1, RowsShow DEF Shown
<1>10. CASE h # g
  <2>1. rows[h] = Absent
    BY <1>6, <1>8, <1>10
  <2>2. Held(book, h)[d] = 0
    BY <1>1, <1>7, <2>1 DEF HistoryFollowsBook
  <2>3. \A i \in 1..Len(order) : order[i] # h
    BY <1>6, <1>10
  <2>4. Agree(b, book, h, d)
    BY <1>2, <2>3 DEF Within
  <2>5. QED
    BY <1>1, <2>2, <2>4, HeldLocal
<1>11. QED
  BY <1>9, <1>10

\* A command drops a captured day wrongly only when it refolds more than one holding: the
\* operations of one holding, however many are made and deleted, never do.
THEOREM OneHoldingDropsHold ==
    ASSUME HistoryAssumption PROVE HistorySpec => OneHoldingDropsOnlyTheEmpty
<1> DEFINE DropsEmpty ==
        \A d \in Calendar :
            /\ snapshots[d].origin = "daily" /\ snapshots'[d].origin = "none"
            /\ book'.moved = book.moved
            /\ \A p, q \in Changed : HoldingOf[p] = HoldingOf[q]
            => \A h \in Holdings : <<d, h>> \in astray \/ Held(book', h)[d] = 0
<1>1. ASSUME HistoryInv, [HistoryNext]_historyVars
      PROVE  [DropsEmpty]_historyVars
  <2> SUFFICES ASSUME NEW d \in Calendar,
                      snapshots[d].origin = "daily", snapshots'[d].origin = "none",
                      book'.moved = book.moved,
                      \A p, q \in Changed : HoldingOf[p] = HoldingOf[q],
                      NEW h \in Holdings, <<d, h>> \notin astray
               PROVE  Held(book', h)[d] = 0
    OBVIOUS
  <2>1. book \in Book /\ snapshots \in [Calendar -> Snapshot]
    BY <1>1 DEF HistoryInv, HistoryTypeOK
  <2>2. snapshots' # snapshots
    OBVIOUS
  <2>3. ASSUME NEW creates \in SUBSET Purchases, NEW deletes \in SUBSET Purchases,
               Record(creates, deletes)
        PROVE  Held(book', h)[d] = 0
    <3> DEFINE touched == creates \cup deletes
               b == [book EXCEPT !.bought = (@ \cup creates) \ deletes]
    <3>1. PICK order \in Orders({HoldingOf[p] : p \in touched}) :
              Ripple(b, order, {DayOf[p] : p \in touched}, "record")
      BY <2>3, Zenon DEF Record
    <3>2. /\ b \in Book /\ b.moved = book.moved
          /\ b.bought = (book.bought \cup creates) \ deletes
      BY <2>1 DEF Book
    <3>3. book' = b
      <4> HIDE DEF b, touched
      <4>1. QED
        BY <3>1, RippleIs
    <3>4. touched = Changed /\ touched \in SUBSET Purchases
      <4>1. creates \cap book.bought = {} /\ deletes \subseteq book.bought
        BY <2>3 DEF Record
      <4>2. book'.bought = (book.bought \cup creates) \ deletes
        BY <3>2, <3>3
      <4>3. QED
        BY <4>1, <4>2 DEF Changed
    <3>5. touched # {}
      <4>1. Cardinality({HoldingOf[p] : p \in touched}) = 1
        BY <2>3 DEF Record
      <4>2. SUFFICES ASSUME touched = {} PROVE FALSE
        OBVIOUS
      <4>3. {HoldingOf[p] : p \in touched} = {}
        BY <4>2
      <4>4. Cardinality({HoldingOf[p] : p \in touched}) = 0
        <5> HIDE DEF touched
        <5>1. QED
          BY <4>3, FS_EmptySet
      <4>5. QED
        <5> HIDE DEF touched
        <5>1. QED
          BY <4>1, <4>4
    <3>6. \A p \in Purchases \ touched : p \in b.bought <=> p \in book.bought
      BY <3>2
    <3> HIDE DEF b, touched
    <3>7. PICK q \in touched : TRUE
      BY <3>5
    <3>8. \A p \in touched : HoldingOf[p] = HoldingOf[q]
      BY <3>4
    <3>9. Held(b, h)[d] = 0
      BY <1>1, <3>1, <3>2, <3>4, <3>5, <3>6, <3>8, OneHoldingDrops
    <3>10. QED
      BY <3>3, <3>9
  <2>4. ASSUME NEW deletes \in SUBSET Purchases, Delete(deletes)
        PROVE  Held(book', h)[d] = 0
    <3> DEFINE b == [book EXCEPT !.bought = @ \ deletes]
    <3>1. PICK order \in Orders({HoldingOf[p] : p \in deletes}) :
              Ripple(b, order, {DayOf[p] : p \in deletes}, "delete")
      BY <2>4, Zenon DEF Delete
    <3>2. /\ b \in Book /\ b.moved = book.moved
          /\ b.bought = book.bought \ deletes
      BY <2>1 DEF Book
    <3>3. book' = b
      <4> HIDE DEF b
      <4>1. QED
        BY <3>1, RippleIs
    <3>4. deletes = Changed
      <4>1. deletes \subseteq book.bought
        BY <2>4 DEF Delete
      <4>2. QED
        BY <3>2, <3>3, <4>1 DEF Changed
    <3>5. deletes # {}
      BY <2>4 DEF Delete
    <3>6. \A p \in Purchases \ deletes : p \in b.bought <=> p \in book.bought
      BY <3>2
    <3> HIDE DEF b
    <3>7. PICK q \in deletes : TRUE
      BY <3>5
    <3>8. \A p \in deletes : HoldingOf[p] = HoldingOf[q]
      BY <3>4
    <3>9. Held(b, h)[d] = 0
      BY <1>1, <3>1, <3>2, <3>5, <3>6, <3>8, OneHoldingDrops
    <3>10. QED
      BY <3>3, <3>9
  <2>5. ASSUME NEW t \in Transfers, Transfer(t) PROVE FALSE
    <3> DEFINE units == Held(book, OriginOf[t])[MoveDayOf[t]]
    <3>1. units > 0 /\ book.moved[t] = 0 /\ book' = [book EXCEPT !.moved[t] = units]
      BY <2>5, Zenon DEF Transfer, Ripple
    <3> HIDE DEF units
    <3>2. book'.moved[t] = units
      BY <2>1, <3>1 DEF Book
    <3>3. QED
      BY <3>1, <3>2
  <2>6. ASSUME NEW t \in Transfers, DeleteTransfer(t) PROVE FALSE
    <3>1. book.moved[t] # 0 /\ book' = [book EXCEPT !.moved[t] = 0]
      BY <2>6, Zenon DEF DeleteTransfer, Ripple
    <3>2. book'.moved[t] = 0
      BY <2>1, <3>1 DEF Book
    <3>3. QED
      BY <3>1, <3>2
  <2>7. CASE CaptureSaves
    <3>1. snapshots' = [snapshots EXCEPT ![capture.day] =
                           [origin |-> "daily", rows |-> capture.rows]]
      BY <2>7 DEF CaptureSaves
    <3>2. snapshots'[d].origin = "daily"
      BY <2>1, <3>1
    <3>3. QED
      BY <3>2
  <2>8. QED
    BY <1>1, <2>2, <2>3, <2>4, <2>5, <2>6, <2>7
       DEF HistoryNext, historyVars, Tick, OpenHolding, CaptureReads
<1>2. QED
  BY <1>1, HistoryInvariant, PTL DEF HistorySpec, OneHoldingDropsOnlyTheEmpty

-----------------------------------------------------------------------------
(* The workspace whole.                                                    *)

\* Whatever part it starts in, the workspace behaves as the store, the proposals, the push
\* and the history specify.
THEOREM WorkspaceParts ==
    Spec => /\ StoreInit /\ [][StoreNext]_storeVars
            /\ ProposalSpec /\ PushSpec /\ HistorySpec
<1>1. Init => StoreInit /\ ProposalInit /\ PushInit /\ HistoryInit
  BY DEF Init
<1>2. [Next]_vars => /\ [StoreNext]_storeVars /\ [ProposalNext]_proposalVars
                     /\ [PushNext]_pushVars /\ [HistoryNext]_historyVars
  BY DEF Next, ImportsNext, RepaymentsNext, CardsNext, FundsNext, vars
<1>3. QED
  BY <1>1, <1>2, PTL DEF Spec, ProposalSpec, PushSpec, HistorySpec

\* The state of the part's component keeps its type.
THEOREM WorkspaceTypeCorrect == Spec => []TypeOK
<1>1. StoreAssumption /\ ProposalAssumption /\ SyncAssumption /\ HistoryAssumption
  BY MCWorkspaceAssumption
<1>2. (StoreInit => StoreInv) /\ (StoreInv /\ [StoreNext]_storeVars => StoreInv')
  BY <1>1, StoreInitInv, StoreStepInv
<1>3. /\ ProposalSpec => []ProposalTypeOK
      /\ PushSpec => []PushTypeOK
      /\ HistorySpec => []HistoryTypeOK
  BY <1>1, ProposalTypeCorrect, PushTypeCorrect, HistoryTypeCorrect
<1>4. StoreInv /\ ProposalTypeOK /\ PushTypeOK /\ HistoryTypeOK => TypeOK
  BY DEF TypeOK, StoreInv
<1>5. QED
  BY <1>2, <1>3, <1>4, WorkspaceParts, PTL

=============================================================================
