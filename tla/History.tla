------------------------------ MODULE History ------------------------------
(***************************************************************************)
(* History under backdated facts.  A snapshot freezes what the book showed *)
(* on its day, one row per holding; a command that writes or deletes a     *)
(* dated fact re-derives the snapshots it reaches in the transaction that  *)
(* writes it (rippleBand, packages/db/src/commands/ripple-band.ts); and    *)
(* the daily capture, which reads the book outside any transaction, saves  *)
(* its day later (captureDailySnapshotForWorkspace).                       *)
(*                                                                         *)
(* One scope and one family of facts, investment operations: purchases of  *)
(* one unit and transfers that move a whole position.  Prices are left     *)
(* out, so a row shows the units held; the purchases of a day fold before  *)
(* its transfers (the code orders them by id); an overwrite is a delete    *)
(* and a create of one date.  A command and its band commit as one step,   *)
(* which StoreTransaction justifies; a capture is two.                     *)
(***************************************************************************)
EXTENDS Integers, FiniteSets, FiniteSetsExt, Sequences

CONSTANTS
    Holdings,
    Purchases, HoldingOf, DayOf,                \* operations, with their holding and day
    Transfers, OriginOf, DestinationOf, MoveDayOf,
    LastDay                                     \* bound: the last day of the calendar

HistoryAssumption ==
    /\ IsFiniteSet(Holdings) /\ IsFiniteSet(Purchases) /\ IsFiniteSet(Transfers)
    /\ LastDay \in Nat
    /\ HoldingOf \in [Purchases -> Holdings]
    /\ DayOf \in [Purchases -> 0..LastDay]
    /\ OriginOf \in [Transfers -> Holdings] /\ DestinationOf \in [Transfers -> Holdings]
    /\ MoveDayOf \in [Transfers -> 0..LastDay]
    /\ \A t \in Transfers : OriginOf[t] # DestinationOf[t]

VARIABLES
    today,
    opened,     \* holdings that exist
    book,       \* operations: the purchases made, and the units each transfer moved
    snapshots,  \* the snapshot of each day
    capture,    \* the daily capture in flight
    astray      \* rows a capture saved without knowing its day's facts (history)

historyVars == <<today, opened, book, snapshots, capture, astray>>

-----------------------------------------------------------------------------
(* The book and what it shows of a day.                                    *)

Calendar == 0..LastDay
Units == Nat
Book == [bought: SUBSET Purchases, moved: [Transfers -> Units]]
Absent == -1
Frozen == [Holdings -> Units \cup {Absent}]
NoRows == [h \in Holdings |-> Absent]
Snapshot == [origin: {"none", "backfill", "daily"}, rows: Frozen]
NoSnapshot == [origin |-> "none", rows |-> NoRows]
NoCapture == [open |-> FALSE, day |-> 0, rows |-> NoRows, doubt |-> {}]

\* The units some transfers moved, and those that come to a holding and leave it on a day.
Shifted(b, ts) == Cardinality(UNION {{t} \X (1..b.moved[t]) : t \in ts})
Arrived(b, h, d) ==
    Cardinality({p \in b.bought : HoldingOf[p] = h /\ DayOf[p] = d})
    + Shifted(b, {t \in Transfers : DestinationOf[t] = h /\ MoveDayOf[t] = d})
Departed(b, h, d) == Shifted(b, {t \in Transfers : OriginOf[t] = h /\ MoveDayOf[t] = d})

\* What leaves is clamped to what is held.
Clamped(had, leaving) == IF leaving > had THEN 0 ELSE had - leaving

\* derivePosition over operationsUpTo, of each day.
Held(b, h) ==
    LET held[d \in Calendar] ==
            Clamped((IF d = 0 THEN 0 ELSE held[d - 1]) + Arrived(b, h, d), Departed(b, h, d))
    IN  held

\* valueAt: a holding with nothing held on the day has no row.
RowAt(b, h, d) == LET units == Held(b, h)[d] IN IF units = 0 THEN Absent ELSE units
RowsAt(b, d) == [h \in Holdings |-> RowAt(b, h, d)]

\* Some fact of a holding is dated after a day.
Later(b, h, d) ==
    \/ \E p \in b.bought : HoldingOf[p] = h /\ DayOf[p] > d
    \/ \E t \in Transfers :
           b.moved[t] # 0 /\ h \in {OriginOf[t], DestinationOf[t]} /\ MoveDayOf[t] > d

\* dateHasJustifyingFact: some operation falls on the day.
Justified(b, d) ==
    \/ \E p \in b.bought : DayOf[p] = d
    \/ \E t \in Transfers : b.moved[t] # 0 /\ MoveDayOf[t] = d

HistoryInit ==
    /\ today = 0
    /\ opened = {}
    /\ book = [bought |-> {}, moved |-> [t \in Transfers |-> 0]]
    /\ snapshots = [d \in Calendar |-> NoSnapshot]
    /\ capture = NoCapture
    /\ astray = {}

-----------------------------------------------------------------------------
(* The ripple band.  A band that reaches the day of a capture in flight    *)
(* leaves what the capture read of its holdings in doubt.                  *)

\* Faulty variant: the snapshot at the fact's own date is skipped.
Reached_OnlyAfter(d, floor) == floor < d
\* The snapshots a band walks: from its floor, the date itself included.
Reached(d, floor) == floor <= d

\* foldOperatedAssets: the holdings are refolded one after the other, and the fold
\* ends, with nothing, where one leaves no row.
Refolded(rows, fresh, order, n) ==
    [h \in Holdings |-> IF \E i \in 1..n : order[i] = h THEN fresh[h] ELSE rows[h]]

\* A snapshot without rows is left alone.
Rewritten(b, d, order) ==
    LET rows == snapshots[d].rows
        fresh == RowsAt(b, d)
    IN  IF rows = NoRows THEN snapshots[d]
        ELSE IF \E n \in DOMAIN order : Refolded(rows, fresh, order, n) = NoRows
             THEN NoSnapshot
        ELSE [snapshots[d] EXCEPT !.rows = Refolded(rows, fresh, order, Len(order))]

\* generateHistoricalBackfillIfMissing, of the whole portfolio.
Generated(b, d) ==
    LET rows == RowsAt(b, d)
    IN  IF rows = NoRows THEN NoSnapshot ELSE [origin |-> "backfill", rows |-> rows]

\* rippleHistoricalSnapshotsForOperations: record mode mints at the dates of the facts,
\* delete mode prunes there what nothing justifies.
Ripple(b, order, dates, mode) ==
    LET floor == Min(dates)
        pruned(d) == /\ mode = "delete" /\ d \in dates
                     /\ snapshots[d].origin = "backfill" /\ ~ Justified(b, d)
        minted(d) == mode = "record" /\ d \in dates /\ d < today
    IN  /\ book' = b
        /\ snapshots' = [d \in Calendar |->
               IF snapshots[d].origin = "none"
               THEN IF minted(d) THEN Generated(b, d) ELSE NoSnapshot
               ELSE IF ~ Reached(d, floor) THEN snapshots[d]
               ELSE IF pruned(d) THEN NoSnapshot
               ELSE Rewritten(b, d, order)]
        /\ astray' = {r \in astray :
               /\ snapshots'[r[1]].origin # "none"
               /\ ~ (Reached(r[1], floor) /\ \E i \in DOMAIN order : order[i] = r[2])}
        /\ capture' = IF capture.open /\ floor <= capture.day
                      THEN [capture EXCEPT !.doubt = @ \cup {order[i] : i \in DOMAIN order}]
                      ELSE capture

Orders(hs) == {s \in [1..Cardinality(hs) -> hs] : \A h \in hs : \E i \in DOMAIN s : s[i] = h}

-----------------------------------------------------------------------------
(* The commands.  They take facts of any date, later than today too.       *)

Tick ==
    /\ today < LastDay
    /\ today' = today + 1
    /\ UNCHANGED <<opened, book, snapshots, capture, astray>>

\* createInvestmentAsset: a holding without operations.
OpenHolding(h) ==
    /\ h \notin opened
    /\ opened' = opened \cup {h}
    /\ UNCHANGED <<today, book, snapshots, capture, astray>>

\* recordOperationAndRipple and recordOperationsAndRipple: some operations of one holding
\* are made and others deleted, all in record mode.
Record(creates, deletes) ==
    LET touched == creates \cup deletes
        on == {HoldingOf[p] : p \in touched} IN
    /\ creates \cap book.bought = {} /\ deletes \subseteq book.bought
    /\ Cardinality(on) = 1 /\ on \subseteq opened
    /\ \E order \in Orders(on) :
          Ripple([book EXCEPT !.bought = (@ \cup creates) \ deletes], order,
                 {DayOf[p] : p \in touched}, "record")
    /\ UNCHANGED <<today, opened>>

\* deleteOperationAndRipple and deleteOperationsAndRipple, of any holdings.
Delete(deletes) ==
    /\ deletes # {} /\ deletes \subseteq book.bought
    /\ \E order \in Orders({HoldingOf[p] : p \in deletes}) :
          Ripple([book EXCEPT !.bought = @ \ deletes], order, {DayOf[p] : p \in deletes},
                 "delete")
    /\ UNCHANGED <<today, opened>>

\* recordTransferAndRipple of the whole position, into a holding the command may open.
Transfer(t) ==
    LET units == Held(book, OriginOf[t])[MoveDayOf[t]] IN
    /\ book.moved[t] = 0
    /\ units > 0
    /\ opened' = opened \cup {DestinationOf[t]}
    /\ Ripple([book EXCEPT !.moved[t] = units], <<OriginOf[t], DestinationOf[t]>>,
              {MoveDayOf[t]}, "record")
    /\ UNCHANGED today

\* deleteTransferAndRipple: the rows of the pair are read in no stated order.
DeleteTransfer(t) ==
    /\ book.moved[t] # 0
    /\ \E order \in Orders({OriginOf[t], DestinationOf[t]}) :
          Ripple([book EXCEPT !.moved[t] = 0], order, {MoveDayOf[t]}, "delete")
    /\ UNCHANGED <<today, opened>>

-----------------------------------------------------------------------------
(* The daily capture.                                                      *)

\* buildSharedSnapshotInputs: the holdings as they are now, each by its whole ledger, for the
\* day of the pass, which may be drained after midnight.  What is dated after that day is in
\* doubt.  A holding with nothing in it has its row.
CaptureReads(d) ==
    /\ ~ capture.open
    /\ d \in {today, today - 1} \cap Calendar
    /\ capture' = [open |-> TRUE, day |-> d,
                   rows |-> [h \in Holdings |->
                       IF h \in opened THEN Held(book, h)[LastDay] ELSE Absent],
                   doubt |-> {h \in Holdings : Later(book, h, d)}]
    /\ UNCHANGED <<today, opened, book, snapshots, astray>>

\* saveSnapshot: the day's snapshot, whatever was there.
CaptureSaves ==
    LET d == capture.day IN
    /\ capture.open
    /\ snapshots' = [snapshots EXCEPT ![d] = [origin |-> "daily", rows |-> capture.rows]]
    /\ astray' = {r \in astray : r[1] # d}
                 \cup {<<d, h>> : h \in capture.doubt}
    /\ capture' = NoCapture
    /\ UNCHANGED <<today, opened, book>>

HistoryNext ==
    \/ Tick
    \/ \E h \in Holdings : OpenHolding(h)
    \/ \E creates, deletes \in SUBSET Purchases : Record(creates, deletes)
    \/ \E deletes \in SUBSET Purchases : Delete(deletes)
    \/ \E t \in Transfers : Transfer(t) \/ DeleteTransfer(t)
    \/ \E d \in Calendar : CaptureReads(d)
    \/ CaptureSaves

HistorySpec == HistoryInit /\ [][HistoryNext]_historyVars

-----------------------------------------------------------------------------
(* Properties.                                                             *)

\* Every variable has its type.
HistoryTypeOK ==
    /\ today \in Calendar
    /\ opened \subseteq Holdings
    /\ book \in Book
    /\ snapshots \in [Calendar -> Snapshot]
    /\ capture \in [open: BOOLEAN, day: Calendar, rows: Frozen, doubt: SUBSET Holdings]
    /\ astray \subseteq Calendar \X Holdings

\* History and the book, two sets of tables each written by many commands, agree:
\* whatever was recorded, deleted or moved, in any order and at any date, past or future,
\* every row of every snapshot that has rows shows what the book holds on its day
\* (rippleBand).  Only the row of a capture may not, when the ledger it read had facts of
\* the holding dated after the captured day (a future fact, or a pass drained the day
\* after), or when between its read and its save a command reached that day with facts of
\* the holding; and only until the holding is rippled there or the day captured again.
HistoryFollowsBook ==
    \A d \in Calendar, h \in Holdings :
        snapshots[d].rows # NoRows /\ <<d, h>> \notin astray =>
            Held(book, h)[d] = IF snapshots[d].rows[h] = Absent THEN 0 ELSE snapshots[d].rows[h]

(* What the code's comment says and a traspaso does not keep.              *)

\* "null -> no holdings remain, drop the snapshot": a past day's capture is dropped only
\* when the book holds nothing on that day.
DropsOnlyTheEmpty ==
    [][\A d \in Calendar :
          d < today /\ snapshots[d].origin = "daily" /\ snapshots'[d].origin = "none" =>
              \A h \in Holdings : Held(book', h)[d] = 0]_historyVars

=============================================================================
