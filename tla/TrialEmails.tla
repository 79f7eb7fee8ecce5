----------------------------- MODULE TrialEmails ----------------------------
(***************************************************************************)
(* The three e-mails of one identity's trial (apps/web/app/trial-emails    *)
(* over control-plane/trial-email-ledger.ts): the welcome sent at          *)
(* provisioning, and the passes of the capture cron, which read who is in  *)
(* a window, decide what is due, and deliver it: claim the mark, send,     *)
(* confirm or release.                                                     *)
(*                                                                         *)
(* The clock counts half days since the trial began; passes overlap within *)
(* one.  The provider may accept a message and still look as if it failed  *)
(* (a timeout); it drops a message whose idempotency key it accepted less  *)
(* than a day before.                                                      *)
(***************************************************************************)
EXTENDS Naturals

CONSTANTS
    Welcome,        \* the delivery scheduled at provisioning
    Sweeps,         \* passes of the cron
    MaxMishaps,      \* bound: failing calls and kills in a behaviour
    Never

\* What the instances satisfy and the proofs assume.
TrialEmailsAssumption ==
    /\ Welcome \notin Sweeps
    /\ MaxMishaps \in Nat
    /\ Never \notin Nat

VARIABLES
    clock,
    premium,        \* the workspace went premium
    optedOut,       \* email_preferences
    mark,           \* trial_email_sends: no row, claimed, or sent
    accepted,       \* when the provider last took each message as a new one
    inbox,          \* copies of each message the person received
    sender,         \* where each delivery is
    stranded,       \* claims whose holder died or could not settle (history)
    misreported,    \* messages accepted under a failed answer (history)
    mishaps

mailVars == <<clock, premium, optedOut, mark, accepted, inbox, sender, stranded, misreported,
          mishaps>>

-----------------------------------------------------------------------------

Senders == Sweeps \cup {Welcome}
Kinds == {"welcome", "trial_reminder", "trial_expired"}

\* In half days: dueTrialEmail's windows and the provider's memory of a key.
ReminderOpens == 2
ReminderCloses == 5
TrialEnds == 6
ExpiryCutoff == 10
KeyWindow == 2
LastTick == ExpiryCutoff
Ticks == 0..LastTick

Sender == [pc : {"idle", "claim", "send", "confirm", "release"}, kind : Kinds]
Resting == [pc |-> "idle", kind |-> "welcome"]

MailInit ==
    /\ clock = 0
    /\ premium = FALSE /\ optedOut = FALSE
    /\ mark = [k \in Kinds |-> "none"]
    /\ accepted = [k \in Kinds |-> Never]
    /\ inbox = [k \in Kinds |-> 0]
    /\ sender = [s \in Senders |-> IF s = Welcome THEN [Resting EXCEPT !.pc = "claim"]
                                                ELSE Resting]
    /\ stranded = {} /\ misreported = {}
    /\ mishaps = 0

Fault == mishaps < MaxMishaps /\ mishaps' = mishaps + 1
Goto(s, pc) == sender' = [sender EXCEPT ![s].pc = pc]
Leave(s) == sender' = [sender EXCEPT ![s] = Resting]

-----------------------------------------------------------------------------
(* The world.                                                              *)

\* Half a day passes between deliveries, which last minutes.
HalfDay ==
    /\ clock < LastTick
    /\ \A s \in Senders : sender[s].pc = "idle"
    /\ clock' = clock + 1
    /\ UNCHANGED <<premium, optedOut, mark, accepted, inbox, sender, stranded, misreported,
                   mishaps>>

GoPremium ==
    /\ ~premium
    /\ premium' = TRUE
    /\ UNCHANGED <<clock, optedOut, mark, accepted, inbox, sender, stranded, misreported,
                   mishaps>>

\* optOutOfTrialReminders: set once.
OptOut ==
    /\ ~optedOut
    /\ optedOut' = TRUE
    /\ UNCHANGED <<clock, premium, mark, accepted, inbox, sender, stranded, misreported,
                   mishaps>>

-----------------------------------------------------------------------------
(* The pass.                                                               *)

\* dueTrialEmail: windows that never overlap, in the order welcome, reminder, expiry.
Due(at, isPremium, declined, claimed) ==
    CASE isPremium -> {}
      [] ~isPremium /\ at < ReminderOpens -> {"welcome"} \ claimed
      [] ~isPremium /\ ReminderOpens <= at /\ at < ReminderCloses ->
            IF declined THEN {} ELSE {"trial_reminder"} \ claimed
      [] ~isPremium /\ TrialEnds <= at /\ at < ExpiryCutoff ->
            IF declined THEN {} ELSE {"trial_expired"} \ claimed
      [] OTHER -> {}

\* listTrialEmailCandidates and the decision, read once for the pass.
BeginPass(s) ==
    /\ s # Welcome
    /\ sender[s].pc = "idle"
    /\ \E k \in Due(clock, premium, optedOut, {c \in Kinds : mark[c] # "none"}) :
          sender' = [sender EXCEPT ![s] = [pc |-> "claim", kind |-> k]]
    /\ UNCHANGED <<clock, premium, optedOut, mark, accepted, inbox, stranded, misreported,
                   mishaps>>

\* Faulty variant: a mark that exists is taken over.
Claim_TakeOver(s) ==
    LET k == sender[s].kind IN
    /\ sender[s].pc = "claim"
    /\ mark' = [mark EXCEPT ![k] = "claimed"]
    /\ Goto(s, "send")
    /\ UNCHANGED <<clock, premium, optedOut, accepted, inbox, stranded, misreported, mishaps>>

\* claimTrialEmail: the insert wins or the mark is another's; a claim that fails sends
\* nothing.
Claim(s) ==
    LET k == sender[s].kind IN
    /\ sender[s].pc = "claim"
    /\ \/ /\ mark[k] = "none"
          /\ mark' = [mark EXCEPT ![k] = "claimed"]
          /\ Goto(s, "send")
          /\ UNCHANGED mishaps
       \/ mark[k] # "none" /\ Leave(s) /\ UNCHANGED <<mark, mishaps>>
       \/ Fault /\ Leave(s) /\ UNCHANGED mark
    /\ UNCHANGED <<clock, premium, optedOut, accepted, inbox, stranded, misreported>>

\* The provider's side: a key it remembers is not mailed again.
Remembered(k) == accepted[k] # Never /\ clock - accepted[k] < KeyWindow
Accept(k) ==
    IF Remembered(k) THEN UNCHANGED <<accepted, inbox>>
    ELSE accepted' = [accepted EXCEPT ![k] = clock] /\ inbox' = [inbox EXCEPT ![k] = @ + 1]

\* sendEmail: sent, refused, or taken without the answer arriving.
Send(s) ==
    LET k == sender[s].kind IN
    /\ sender[s].pc = "send"
    /\ \/ Accept(k) /\ Goto(s, "confirm") /\ UNCHANGED <<misreported, mishaps>>
       \/ Fault /\ Goto(s, "release") /\ UNCHANGED <<accepted, inbox, misreported>>
       \/ Fault /\ Accept(k) /\ Goto(s, "release")
          /\ misreported' = misreported \cup {k}
    /\ UNCHANGED <<clock, premium, optedOut, mark, stranded>>

\* confirmTrialEmail: a confirmation not recorded leaves the claim, never to be sent again.
Confirm(s) ==
    LET k == sender[s].kind IN
    /\ sender[s].pc = "confirm"
    /\ \/ mark' = [mark EXCEPT ![k] = IF @ = "none" THEN @ ELSE "sent"]
          /\ UNCHANGED <<stranded, mishaps>>
       \/ Fault /\ UNCHANGED mark /\ stranded' = stranded \cup {k}
    /\ Leave(s)
    /\ UNCHANGED <<clock, premium, optedOut, accepted, inbox, misreported>>

\* Faulty variant: a failed send keeps its claim.
Release_Keep(s) ==
    /\ sender[s].pc = "release"
    /\ Leave(s)
    /\ UNCHANGED <<clock, premium, optedOut, mark, accepted, inbox, stranded, misreported,
                   mishaps>>

\* releaseTrialEmail: an unsent claim goes back.
Release(s) ==
    LET k == sender[s].kind IN
    /\ sender[s].pc = "release"
    /\ \/ mark' = [mark EXCEPT ![k] = IF @ = "claimed" THEN "none" ELSE @]
          /\ UNCHANGED <<stranded, mishaps>>
       \/ Fault /\ UNCHANGED mark /\ stranded' = stranded \cup {k}
    /\ Leave(s)
    /\ UNCHANGED <<clock, premium, optedOut, accepted, inbox, misreported>>

\* The platform kills the function.
KillSender(s) ==
    /\ Fault
    /\ sender[s].pc \in {"claim", "send", "confirm", "release"}
    /\ stranded' = IF sender[s].pc = "claim" THEN stranded
                                            ELSE stranded \cup {sender[s].kind}
    /\ Leave(s)
    /\ UNCHANGED <<clock, premium, optedOut, mark, accepted, inbox, misreported>>

MailNext ==
    \/ HalfDay \/ GoPremium \/ OptOut
    \/ \E s \in Senders :
          BeginPass(s) \/ Claim(s) \/ Send(s) \/ Confirm(s) \/ Release(s) \/ KillSender(s)

MailSpec == MailInit /\ [][MailNext]_mailVars

-----------------------------------------------------------------------------
(* Properties.                                                             *)

\* Type correctness.
MailTypeOK ==
    /\ clock \in Ticks
    /\ premium \in BOOLEAN /\ optedOut \in BOOLEAN
    /\ mark \in [Kinds -> {"none", "claimed", "sent"}]
    /\ accepted \in [Kinds -> Ticks \cup {Never}]
    /\ inbox \in [Kinds -> Nat]
    /\ sender \in [Senders -> Sender]
    /\ stranded \subseteq Kinds /\ misreported \subseteq Kinds
    /\ mishaps \in 0..MaxMishaps

Holders(k) ==
    {s \in Senders : sender[s].kind = k /\ sender[s].pc \in {"send", "confirm", "release"}}

\* A claimed mark is held by exactly one delivery, which will settle it, or was left
\* behind by one that died: overlapping passes and retries after a released failure
\* never share one, and no failed send keeps its mark.
ClaimHeldByOne ==
    \A k \in Kinds :
        /\ \A s, o \in Holders(k) : s = o
        /\ Holders(k) # {} => mark[k] = "claimed"
        /\ (mark[k] = "claimed" /\ k \notin stranded) => Holders(k) # {}

\* «No reenviar nunca»: nobody receives a message twice, unless the provider took it,
\* the answer said it failed, and the retry came when the key was forgotten.  The
\* welcome is safe even then: its window closes before the key does.
MailedAtMostOnce ==
    \A k \in Kinds : inbox[k] > 1 => k \in misreported /\ k # "welcome"

=============================================================================
