----------------------------- MODULE UnitOfWork -----------------------------
(***************************************************************************)
(* What a unit of work of the workspace store promises its callers,        *)
(* without the clients, the gate, the joins or the hooks: one unit at a    *)
(* time; while it is open every statement of every call waits in it and    *)
(* the durable data stand still; it ends by making all of that durable at  *)
(* once, its own call complete, or none of it, and the caller hears of an  *)
(* end that kept it, or of a failure.  Only where no unit is open does a   *)
(* statement commit alone.                                                 *)
(***************************************************************************)
EXTENDS Naturals

CONSTANTS
    Calls,
    Writes  \* statements of a unit of work

VARIABLES
    durable,  \* statements committed
    staged,   \* statements waiting in the unit
    unit,     \* the call whose unit is open, or nobody
    fate,     \* what became of the unit of each call; unheard: kept, and reported to
              \* its caller as failed
    sent      \* statements of each call that were taken

unitVars == <<durable, staged, unit, fate, sent>>

Init ==
    /\ durable = {} /\ staged = {}
    /\ unit = {}
    /\ fate = [c \in Calls |-> "none"]
    /\ sent = [c \in Calls |-> 0]

Ends(c, how) == fate' = [fate EXCEPT ![c] = how]

Fresh(c) == unit = {} /\ fate[c] = "none" /\ sent[c] = 0

Open(c) ==
    /\ Fresh(c)
    /\ unit' = {c}
    /\ UNCHANGED <<durable, staged, fate, sent>>

\* The database opens no transaction: the call wrote nothing.
Refuse(c) ==
    /\ Fresh(c)
    /\ Ends(c, "dropped")
    /\ UNCHANGED <<durable, staged, unit, sent>>

\* The next statement of a call, whoever opened the unit.
Take(c) ==
    LET statement == <<c, sent[c] + 1>> IN
    /\ fate[c] = "none"
    /\ sent[c] < Writes
    /\ sent' = [sent EXCEPT ![c] = @ + 1]
    /\ IF unit = {} THEN durable' = durable \cup {statement} /\ staged' = staged
                    ELSE staged' = staged \cup {statement} /\ durable' = durable
    /\ UNCHANGED <<unit, fate>>

Commit(c) ==
    /\ unit = {c}
    /\ sent[c] = Writes
    /\ durable' = durable \cup staged
    /\ staged' = {}
    /\ unit' = {}
    /\ Ends(c, "kept") \/ Ends(c, "unheard")
    /\ UNCHANGED sent

Discard(c) ==
    /\ unit = {c}
    /\ staged' = {}
    /\ unit' = {}
    /\ Ends(c, "dropped")
    /\ UNCHANGED <<durable, sent>>

Next == \E c \in Calls : Open(c) \/ Refuse(c) \/ Take(c) \/ Commit(c) \/ Discard(c)

Spec == Init /\ [][Next]_unitVars

\* A unit kept, heard of or not, is durable to its last statement; one open or dropped
\* left no trace.
AllOrNothing ==
    \A c \in Calls :
        /\ fate[c] \in {"kept", "unheard"} => {c} \X (1..Writes) \subseteq durable
        /\ fate[c] = "dropped" \/ c \in unit => \A k \in 1..Writes : <<c, k>> \notin durable

=============================================================================
