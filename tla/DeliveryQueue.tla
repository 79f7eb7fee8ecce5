--------------------------- MODULE DeliveryQueue ---------------------------
(***************************************************************************)
(* What the durable queue promises whoever enqueues a job or handles one,  *)
(* without the statements its operations are made of: each is one step on  *)
(* the table.  At most one job of a key is active; each delivery counts,   *)
(* puts the job in one more pair of hands, and takes it from its owner     *)
(* only once the lease lapsed; each delivery is answered once or never.    *)
(* The owner alone acks.  A failure may come late, from hands the job was  *)
(* taken from since: it reopens or kills the job all the same.             *)
(***************************************************************************)
EXTENDS Naturals

CONSTANTS Jobs, Keys, Workers, NoOwner, NoKey

VARIABLES
    job,   \* the table
    hands  \* the workers each job was delivered to and that owe an answer

deliveryVars == <<job, hands>>

Absent == [status |-> "absent", key |-> NoKey, attempts |-> 0, due |-> FALSE,
           owner |-> NoOwner, lapsed |-> FALSE]

Init ==
    /\ job = [j \in Jobs |-> Absent]
    /\ hands = [j \in Jobs |-> {}]

Active(j) == job[j].status \in {"pending", "leased"}
OnlyOfItsKey(j, k) == \A i \in Jobs \ {j} : ~(Active(i) /\ job[i].key = k)

Enqueue(j, k) ==
    /\ job[j].status = "absent"
    /\ OnlyOfItsKey(j, k)
    /\ job' = [job EXCEPT ![j] = [Absent EXCEPT !.status = "pending", !.key = k, !.due = TRUE]]
    /\ UNCHANGED hands

Deliver(j, w) ==
    /\ job[j].due
    /\ job[j].status = "pending" \/ (job[j].status = "leased" /\ job[j].lapsed)
    /\ \A i \in Jobs : w \notin hands[i]
    /\ job' = [job EXCEPT ![j].status = "leased", ![j].owner = w, ![j].lapsed = FALSE,
                          ![j].attempts = @ + 1]
    /\ hands' = [hands EXCEPT ![j] = @ \cup {w}]

\* The lease of a leased job lapses, or its owner renews it.
Lapse(j) ==
    /\ job[j].status = "leased"
    /\ job' = [job EXCEPT ![j].lapsed = TRUE]
    /\ UNCHANGED hands

Renew(j, w) ==
    /\ job[j].owner = w
    /\ job' = [job EXCEPT ![j].lapsed = FALSE]
    /\ UNCHANGED hands

\* w answers for its delivery of j.
Answer(j, w) == hands' = [hands EXCEPT ![j] = @ \ {w}]

Ack(j, w) ==
    /\ Answer(j, w)
    /\ job[j].owner = w
    /\ job' = [job EXCEPT ![j].status = "done", ![j].owner = NoOwner, ![j].lapsed = FALSE]

Kill(j, w) ==
    /\ Answer(j, w)
    /\ job' = [job EXCEPT ![j].status = "dead", ![j].owner = NoOwner, ![j].lapsed = FALSE]

Reopen(j, w) ==
    /\ Answer(j, w)
    /\ OnlyOfItsKey(j, job[j].key)
    /\ job' = [job EXCEPT ![j].status = "pending", ![j].owner = NoOwner, ![j].lapsed = FALSE,
                          ![j].due = FALSE]

\* The worker dies, or answers and is not listened to.
Drop(j, w) == Answer(j, w) /\ UNCHANGED job

BackoffEnds(j) ==
    /\ job[j].status = "pending"
    /\ job' = [job EXCEPT ![j].due = TRUE]
    /\ UNCHANGED hands

Next ==
    \E j \in Jobs :
        \/ \E k \in Keys : Enqueue(j, k)
        \/ \E w \in Workers : Deliver(j, w)
        \/ \E w \in hands[j] :
              Renew(j, w) \/ Ack(j, w) \/ Kill(j, w) \/ Reopen(j, w) \/ Drop(j, w)
        \/ Lapse(j) \/ BackoffEnds(j)

Spec == Init /\ [][Next]_deliveryVars

\* One active job a key.
OneActivePerKey ==
    \A i, j \in Jobs : Active(i) /\ Active(j) /\ job[i].key = job[j].key => i = j

=============================================================================
