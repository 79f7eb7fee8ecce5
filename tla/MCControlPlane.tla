--------------------------- MODULE MCControlPlane --------------------------
(***************************************************************************)
(* Small instances of what runs over the control plane's database, for     *)
(* TLC.  Each is a state space of its own, chosen by part in the initial   *)
(* state: the job queue, sign-up races, sharing, the entitlement row and   *)
(* the trial e-mails.  What a part leaves out stands still in its initial  *)
(* state.                                                                  *)
(***************************************************************************)
EXTENDS JobQueue, Entitlements, TrialEmails, Provisioning, TLC

CONSTANTS r1, r2, r3, u1, u2, u3, h1, h2, d1, d2, admin, welcome, s1, s2, null, none,
    j1, j2, k1, w1, w2, p1

VARIABLE part

\* Two jobs of one key, two workers and a producer.
MCJobs == {j1, j2}
MCKeys == {k1}
MCWorkers == {w1, w2}
MCProducers == {p1}

\* Two sign-ins of one identity, another identity's, and two shares of the first with
\* that one and a third.
MCSignIns == {r1, r2, r3}
MCUsers == {u1, u2, u3}
MCUserOf == r1 :> u1 @@ r2 :> u1 @@ r3 :> u2
MCShares == {h1, h2}
MCOwnerOf == h1 :> u1 @@ h2 :> u1
MCViewerOf == h1 :> u2 @@ h2 :> u3

MCEvents ==
    {[type |-> "activated", at |-> 0, paid |-> 1],
     [type |-> "activated", at |-> 1, paid |-> 2],
     [type |-> "canceled", at |-> 0, paid |-> 1],
     [type |-> "lifetime", at |-> 1, paid |-> null],
     [type |-> "payment_failed", at |-> 0, paid |-> null]}

MCDeliveries == {d1, d2}
MCSweeps == {s1, s2}

\* The instances meet their components' assumptions; JobQueue and Provisioning state
\* their own.
ASSUME MCControlAssumption == EntitlementsAssumption /\ TrialEmailsAssumption

accountVars == <<signUpVars, billingVars, mailVars>>
controlVars == <<part, vars, accountVars>>

Parts == {"queue", "signup", "sharing", "billing", "mail"}

ControlInit ==
    /\ part \in Parts
    /\ Init
    /\ SignUpInit
    /\ BillingInit
    /\ part # "billing" => consumed = FALSE
    /\ MailInit

\* Idle webhook calls are interchangeable: of two, the first takes the next event.  After
\* two writes overlapped nothing is asked of the window any more: only the deliveries,
\* which must still write an event once, go on.
BillingStep ==
    /\ BillingNext
    /\ writer[d1] = Waiting /\ writer[d2] = Waiting => writer'[d2] = Waiting
    /\ raced => UNCHANGED <<now, grants, consumed, starting, writer[admin]>>

\* Two sign-ins of one identity race, with another identity at the cap's last place.
SignUpStep == SignUpNext /\ share' = share

\* An owner shares with two people at once, one of whom signs in as well; a day with
\* one failure.
SharingStep ==
    /\ SignUpNext
    /\ today' = today
    /\ signIn'[r2] = signIn[r2]
    /\ outages' <= 1

ControlNext ==
    /\ UNCHANGED part
    /\ \/ part = "queue" /\ Next /\ UNCHANGED accountVars
       \/ part = "signup" /\ SignUpStep /\ UNCHANGED <<vars, billingVars, mailVars>>
       \/ part = "sharing" /\ SharingStep /\ UNCHANGED <<vars, billingVars, mailVars>>
       \/ part = "billing" /\ BillingStep /\ UNCHANGED <<vars, signUpVars, mailVars>>
       \/ part = "mail" /\ MailNext /\ UNCHANGED <<vars, signUpVars, billingVars>>

\* QueueFairness, in the part of the queue; nothing else is asked to progress.
ControlSpec ==
    /\ ControlInit /\ [][ControlNext]_controlVars
    /\ \A w \in Workers : WF_vars(part = "queue" /\ WorkerStep(w))
    /\ \A j \in Jobs : WF_vars(part = "queue" /\ ClockStep(j))

\* The state of the part's component has its type.
TypeOK ==
    /\ part = "queue" => QueueTypeOK
    /\ part \in {"signup", "sharing"} => SignUpTypeOK
    /\ part = "billing" => BillingTypeOK
    /\ part = "mail" => MailTypeOK

=============================================================================
