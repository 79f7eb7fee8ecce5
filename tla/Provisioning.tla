---------------------------- MODULE Provisioning ----------------------------
(***************************************************************************)
(* Sign-up and sharing (packages/db/src/provisioner.ts, viewer-sharing.ts  *)
(* over the tenancy directory and the daily provisioning cap).  A sign-in  *)
(* of an identity that owns no workspace claims a place in the day's cap,  *)
(* creates a database, migrates it, writes the workspace row and the owner *)
(* grant, starts the trial and announces it.  The control plane is one     *)
(* database every serverless instance shares: a step is one statement, and *)
(* sign-ins of the same or of other identities interleave between them.    *)
(*                                                                         *)
(* A sign-in names its database and its workspace after itself: names are  *)
(* random in the code.  MintAndMigrate stands for the token and the        *)
(* migrations, which touch only the sign-in's own database.  A call to the *)
(* platform or to the control plane may fail before or after its effect.   *)
(***************************************************************************)
EXTENDS Naturals, FiniteSets

CONSTANTS
    SignIns,        \* sign-in requests; also names of databases and workspaces
    Users,
    UserOf,         \* [SignIns -> Users]
    Shares,         \* share requests
    OwnerOf,        \* [Shares -> Users]
    ViewerOf,       \* [Shares -> Users]
    CapLimit,       \* dailyProvisioningLimit of the cap in force
    MaxViewers,     \* MAX_VIEWERS_PER_WORKSPACE
    LastDay,        \* bound: the last day of the calendar
    MaxOutages,     \* bound: failed calls and killed requests in a behaviour
    None

ASSUME ProvisioningAssumption ==
    /\ UserOf \in [SignIns -> Users]
    /\ OwnerOf \in [Shares -> Users]
    /\ ViewerOf \in [Shares -> Users]
    /\ CapLimit \in Nat /\ MaxViewers \in Nat /\ LastDay \in Nat /\ MaxOutages \in Nat
    /\ None \notin SignIns

VARIABLES
    today,
    users,          \* rows of users
    workspaces,     \* rows of workspaces
    databases,      \* databases the platform bills
    owner,          \* the owner grant of each user: grants_one_owner_per_user
    viewers,        \* viewer grants of each workspace
    token,          \* the share whose read-only token each workspace has sealed
    counted,        \* daily_provisioning_cap
    trials,         \* workspaces a trial was started for
    announced,      \* welcome e-mails scheduled, per user
    signIn, share,  \* where each request is
    excused,        \* databases a failed call or a kill left behind (history)
    unread,         \* users whose grant was written and not read back (history)
    outages

signUpVars == <<today, users, workspaces, databases, owner, viewers, token, counted,
               trials, announced, signIn, share, excused, unread, outages>>

-----------------------------------------------------------------------------
(* Shapes and reads.                                                       *)

Days == 0..LastDay
Working == {"claim", "user", "recheck", "database", "migrate", "grant", "trial",
            "dropRow", "dropDatabase", "release"}
Ended == {"ready", "closed", "failed", "killed"}

\* lost: the sign-in lost the first-login race; got: the workspace it answers with.
SignIn == [pc: {"idle"} \cup Working \cup Ended, day: Days, got: SignIns \cup {None},
           lost: BOOLEAN]
Share == [pc: {"idle", "mint", "seal", "user", "record", "shared", "refused", "failed"},
          ws: SignIns \cup {None}]

\* listOwnedWorkspacesForUser: joined with the workspace rows, owner role only.
Owned(u) == IF owner[u] \in workspaces THEN owner[u] ELSE None

SignUpInit ==
    /\ today = 0
    /\ users = {} /\ workspaces = {} /\ databases = {}
    /\ owner = [u \in Users |-> None]
    /\ viewers = [w \in SignIns |-> {}]
    /\ token = [w \in SignIns |-> {}]
    /\ counted = [d \in Days |-> 0]
    /\ trials = {}
    /\ announced = [u \in Users |-> 0]
    /\ signIn = [r \in SignIns |-> [pc |-> "idle", day |-> 0, got |-> None, lost |-> FALSE]]
    /\ share = [h \in Shares |-> [pc |-> "idle", ws |-> None]]
    /\ excused = {} /\ unread = {}
    /\ outages = 0

Outage == outages < MaxOutages /\ outages' = outages + 1

GoTo(r, pc) == signIn' = [signIn EXCEPT ![r].pc = pc]
Answer(r, w) == signIn' = [signIn EXCEPT ![r].pc = "ready", ![r].got = w]

-----------------------------------------------------------------------------
(* provisionWorkspaceForUser.                                              *)

\* The read that creates nothing: a returning identity never meets the cap.
BeginSignIn(r) ==
    /\ signIn[r].pc = "idle"
    /\ IF UserOf[r] \in users /\ Owned(UserOf[r]) # None
       THEN Answer(r, Owned(UserOf[r]))
       ELSE signIn' = [signIn EXCEPT ![r].pc = "claim", ![r].day = today]
    /\ UNCHANGED <<today, users, workspaces, owner, viewers, token, databases, counted,
                   trials, announced, share, excused, unread, outages>>

\* Faulty variant: the count is checked before and not in the statement.
ClaimPlace_Unconditional(r) ==
    /\ signIn[r].pc = "claim"
    /\ counted' = [counted EXCEPT ![signIn[r].day] = @ + 1]
    /\ GoTo(r, "user")
    /\ UNCHANGED <<today, users, workspaces, owner, viewers, token, databases, trials,
                   announced, share, excused, unread, outages>>

\* claimDailyProvisioning: the check and the increment are one statement.
ClaimPlace(r) ==
    LET d == signIn[r].day IN
    /\ signIn[r].pc = "claim"
    /\ IF counted[d] < CapLimit
       THEN counted' = [counted EXCEPT ![d] = @ + 1] /\ GoTo(r, "user")
       ELSE UNCHANGED counted /\ GoTo(r, "closed")
    /\ UNCHANGED <<today, users, workspaces, owner, viewers, token, databases, trials,
                   announced, share, excused, unread, outages>>

FindOrCreateUser(r) ==
    /\ signIn[r].pc = "user"
    /\ users' = users \cup {UserOf[r]}
    /\ GoTo(r, "recheck")
    /\ UNCHANGED <<today, workspaces, owner, viewers, token, databases, counted, trials,
                   announced, share, excused, unread, outages>>

\* A concurrent first login of the same identity may have finished.
Recheck(r) ==
    LET w == Owned(UserOf[r]) IN
    /\ signIn[r].pc = "recheck"
    /\ signIn' = IF w = None THEN [signIn EXCEPT ![r].pc = "database"]
                 ELSE [signIn EXCEPT ![r].pc = "release", ![r].got = w]
    /\ UNCHANGED <<today, users, workspaces, owner, viewers, token, databases, counted,
                   trials, announced, share, excused, unread, outages>>

CreateDatabase(r) ==
    /\ signIn[r].pc = "database"
    /\ databases' = databases \cup {r}
    /\ GoTo(r, "migrate")
    /\ UNCHANGED <<today, users, workspaces, owner, viewers, token, counted, trials,
                   announced, share, excused, unread, outages>>

\* Token, migrations and the workspace row.
MintAndMigrate(r) ==
    /\ signIn[r].pc = "migrate"
    /\ workspaces' = workspaces \cup {r}
    /\ GoTo(r, "grant")
    /\ UNCHANGED <<today, users, owner, viewers, token, databases, counted, trials,
                   announced, share, excused, unread, outages>>

\* Faulty variant: the owner grant is not unique per user.
RecordGrant_NotUnique(r) ==
    /\ signIn[r].pc = "grant"
    /\ owner' = [owner EXCEPT ![UserOf[r]] = r]
    /\ GoTo(r, "trial")
    /\ UNCHANGED <<today, users, workspaces, viewers, token, databases, counted, trials,
                   announced, share, excused, unread, outages>>

\* recordGrant under grants_one_owner_per_user: the loser cleans up after itself.
RecordGrant(r) ==
    LET u == UserOf[r] IN
    /\ signIn[r].pc = "grant"
    /\ IF owner[u] = None
       THEN owner' = [owner EXCEPT ![u] = r] /\ GoTo(r, "trial")
       ELSE UNCHANGED owner
            /\ signIn' = [signIn EXCEPT ![r].pc = "dropRow", ![r].lost = TRUE]
    /\ UNCHANGED <<today, users, workspaces, viewers, token, databases, counted, trials,
                   announced, share, excused, unread, outages>>

\* startTrialBestEffort and announceTrialBestEffort: no failure reaches the login.
WelcomeTrial(r) ==
    LET first == \A w \in trials : UserOf[w] # UserOf[r] IN
    /\ signIn[r].pc = "trial"
    /\ \/ /\ trials' = IF first THEN trials \cup {r} ELSE trials
          /\ announced' = IF first THEN [announced EXCEPT ![UserOf[r]] = @ + 1] ELSE announced
          /\ UNCHANGED outages
       \/ Outage /\ UNCHANGED <<trials, announced>>
    /\ Answer(r, r)
    /\ UNCHANGED <<today, users, workspaces, owner, viewers, token, databases, counted,
                   share, excused, unread>>

-----------------------------------------------------------------------------
(* Failure and cleanup.                                                    *)

\* A call throws.  createDatabase and recordGrant may have done their work all the
\* same (an answer lost, a grant whose read-back failed), and so may the workspace row.
CallFails(r) ==
    LET u == UserOf[r] IN
    /\ Outage
    /\ \/ /\ signIn[r].pc = "claim" /\ GoTo(r, "failed")
          /\ UNCHANGED <<workspaces, owner, databases, excused, unread>>
       \/ /\ signIn[r].pc \in {"user", "recheck"} /\ GoTo(r, "release")
          /\ UNCHANGED <<workspaces, owner, databases, excused, unread>>
       \/ /\ signIn[r].pc = "database" /\ GoTo(r, "release")
          /\ \/ databases' = databases \cup {r} /\ excused' = excused \cup {r}
             \/ UNCHANGED <<databases, excused>>
          /\ UNCHANGED <<workspaces, owner, unread>>
       \/ /\ signIn[r].pc = "migrate" /\ GoTo(r, "dropDatabase")
          /\ workspaces' \in {workspaces, workspaces \cup {r}}
          /\ UNCHANGED <<owner, databases, excused, unread>>
       \/ /\ signIn[r].pc = "grant" /\ GoTo(r, "dropRow")
          /\ \/ owner[u] = None /\ owner' = [owner EXCEPT ![u] = r]
                /\ unread' = unread \cup {u}
             \/ UNCHANGED <<owner, unread>>
          /\ UNCHANGED <<workspaces, databases, excused>>
    /\ UNCHANGED <<today, users, viewers, token, counted, trials, announced, share>>

\* deleteWorkspace of the orphan row, best effort.
DropRow(r) ==
    /\ signIn[r].pc = "dropRow"
    /\ \/ workspaces' = workspaces \ {r} /\ UNCHANGED outages
       \/ Outage /\ UNCHANGED workspaces
    /\ GoTo(r, "dropDatabase")
    /\ UNCHANGED <<today, users, owner, viewers, token, databases, counted, trials,
                   announced, share, excused, unread>>

\* Faulty variant: only a failed provision deletes its database, not a lost race.
DropDatabase_OnlyFailed(r) ==
    LET winner == Owned(UserOf[r]) IN
    /\ signIn[r].pc = "dropDatabase"
    /\ databases' = IF signIn[r].lost THEN databases ELSE databases \ {r}
    /\ signIn' = [signIn EXCEPT ![r].pc = "release",
                                ![r].got = IF signIn[r].lost THEN winner ELSE None]
    /\ UNCHANGED <<today, users, workspaces, owner, viewers, token, counted, trials,
                   announced, share, excused, unread, outages>>

\* deleteDatabaseBestEffort; a loser then answers with the winner's workspace.
DropDatabase(r) ==
    LET winner == Owned(UserOf[r]) IN
    /\ signIn[r].pc = "dropDatabase"
    /\ \/ databases' = databases \ {r} /\ UNCHANGED <<excused, outages>>
       \/ Outage /\ excused' = excused \cup {r} /\ UNCHANGED databases
    /\ signIn' = [signIn EXCEPT ![r].pc = "release",
                                ![r].got = IF signIn[r].lost THEN winner ELSE None]
    /\ UNCHANGED <<today, users, workspaces, owner, viewers, token, counted, trials,
                   announced, share, unread>>

\* Faulty variant: the place goes back to today and not to the day of the claim.
ReleasePlace_Today(r) ==
    /\ signIn[r].pc = "release"
    /\ counted' = [counted EXCEPT ![today] = IF @ > 0 THEN @ - 1 ELSE @]
    /\ IF signIn[r].got = None THEN GoTo(r, "failed") ELSE GoTo(r, "ready")
    /\ UNCHANGED <<today, users, workspaces, owner, viewers, token, databases, trials,
                   announced, share, excused, unread, outages>>

\* releaseClaimBestEffort, on the day the place was claimed.
ReleasePlace(r) ==
    /\ signIn[r].pc = "release"
    /\ \/ /\ counted' = [counted EXCEPT ![signIn[r].day] = IF @ > 0 THEN @ - 1 ELSE @]
          /\ UNCHANGED outages
       \/ Outage /\ UNCHANGED counted
    /\ IF signIn[r].got = None THEN GoTo(r, "failed") ELSE GoTo(r, "ready")
    /\ UNCHANGED <<today, users, workspaces, owner, viewers, token, databases, trials,
                   announced, share, excused, unread>>

\* The serverless instance is killed.
Kill(r) ==
    /\ Outage
    /\ signIn[r].pc \in Working
    /\ excused' = IF r \in databases THEN excused \cup {r} ELSE excused
    /\ GoTo(r, "killed")
    /\ UNCHANGED <<today, users, workspaces, owner, viewers, token, databases, counted,
                   trials, announced, share, unread>>

Midnight ==
    /\ today < LastDay
    /\ today' = today + 1
    /\ UNCHANGED <<users, workspaces, owner, viewers, token, databases, counted, trials,
                   announced, signIn, share, excused, unread, outages>>

-----------------------------------------------------------------------------
(* shareWorkspaceReadOnly and revokeWorkspaceReadOnly.                     *)

ShareAt(h, pc) == share' = [share EXCEPT ![h].pc = pc]

\* The owner's workspace is resolved from the owner's grant; an existing viewer or a
\* visibly full workspace answers at once.
BeginShare(h) ==
    LET w == Owned(OwnerOf[h]) IN
    /\ share[h].pc = "idle"
    /\ share' = [share EXCEPT ![h].ws = w,
         ![h].pc = IF OwnerOf[h] = ViewerOf[h] \/ OwnerOf[h] \notin users \/ w = None
                   THEN "refused"
                   ELSE IF ViewerOf[h] \in viewers[w] THEN "shared"
                   ELSE IF Cardinality(viewers[w]) >= MaxViewers THEN "refused"
                   ELSE IF token[w] = {} THEN "mint" ELSE "user"]
    /\ UNCHANGED <<today, users, workspaces, owner, viewers, token, databases, counted,
                   trials, announced, signIn, excused, unread, outages>>

\* createDatabaseToken: a failure leaves no grant and no user row.
MintToken(h) ==
    /\ share[h].pc = "mint"
    /\ \/ ShareAt(h, "seal") /\ UNCHANGED outages
       \/ Outage /\ ShareAt(h, "failed")
    /\ UNCHANGED <<today, users, workspaces, owner, viewers, token, databases, counted,
                   trials, announced, signIn, excused, unread>>

\* setWorkspaceReadOnlyToken: sealed once.
SealToken(h) ==
    LET w == share[h].ws IN
    /\ share[h].pc = "seal"
    /\ IF w \in workspaces
       THEN token' = [token EXCEPT ![w] = IF @ = {} THEN {h} ELSE @] /\ ShareAt(h, "user")
       ELSE UNCHANGED token /\ ShareAt(h, "failed")
    /\ UNCHANGED <<today, users, workspaces, owner, viewers, databases, counted, trials,
                   announced, signIn, excused, unread, outages>>

\* findOrCreateUser: no database, no trial, no place in the cap.
CreateViewer(h) ==
    /\ share[h].pc = "user"
    /\ users' = users \cup {ViewerOf[h]}
    /\ ShareAt(h, "record")
    /\ UNCHANGED <<today, workspaces, owner, viewers, token, databases, counted, trials,
                   announced, signIn, excused, unread, outages>>

\* Faulty variant: the viewers counted at the start decide.
RecordViewer_Unchecked(h) ==
    /\ share[h].pc = "record"
    /\ viewers' = [viewers EXCEPT ![share[h].ws] = @ \cup {ViewerOf[h]}]
    /\ ShareAt(h, "shared")
    /\ UNCHANGED <<today, users, workspaces, owner, token, databases, counted, trials,
                   announced, signIn, excused, unread, outages>>

\* recordViewerGrant: the count and the insert are one statement.
RecordViewer(h) ==
    LET w == share[h].ws IN
    /\ share[h].pc = "record"
    /\ IF ViewerOf[h] \in viewers[w]
       THEN ShareAt(h, "shared") /\ UNCHANGED viewers
       ELSE IF Cardinality(viewers[w]) < MaxViewers
       THEN ShareAt(h, "shared") /\ viewers' = [viewers EXCEPT ![w] = @ \cup {ViewerOf[h]}]
       ELSE ShareAt(h, "refused") /\ UNCHANGED viewers
    /\ UNCHANGED <<today, users, workspaces, owner, token, databases, counted, trials,
                   announced, signIn, excused, unread, outages>>

\* revokeViewerGrant, from the owner's own workspace.
Revoke(h) ==
    LET w == Owned(OwnerOf[h]) IN
    /\ share[h].pc = "shared"
    /\ w # None /\ ViewerOf[h] \in viewers[w]
    /\ viewers' = [viewers EXCEPT ![w] = @ \ {ViewerOf[h]}]
    /\ UNCHANGED <<today, users, workspaces, owner, token, databases, counted, trials,
                   announced, signIn, share, excused, unread, outages>>

-----------------------------------------------------------------------------

SignUpNext ==
    \/ Midnight
    \/ \E r \in SignIns :
          \/ BeginSignIn(r) \/ ClaimPlace(r) \/ FindOrCreateUser(r) \/ Recheck(r)
          \/ CreateDatabase(r) \/ MintAndMigrate(r) \/ RecordGrant(r) \/ WelcomeTrial(r)
          \/ CallFails(r) \/ DropRow(r) \/ DropDatabase(r) \/ ReleasePlace(r) \/ Kill(r)
    \/ \E h \in Shares :
          \/ BeginShare(h) \/ MintToken(h) \/ SealToken(h) \/ CreateViewer(h)
          \/ RecordViewer(h) \/ Revoke(h)

SignUpSpec == SignUpInit /\ [][SignUpNext]_signUpVars

-----------------------------------------------------------------------------
(* Properties.                                                             *)

\* Type correctness, with every owner grant held by a user of the directory, for a
\* workspace that user's sign-in made.
SignUpTypeOK ==
    /\ today \in Days
    /\ users \subseteq Users /\ workspaces \subseteq SignIns /\ databases \subseteq SignIns
    /\ owner \in [Users -> SignIns \cup {None}]
    /\ viewers \in [SignIns -> SUBSET Users]
    /\ token \in [SignIns -> SUBSET Shares]
    /\ counted \in [Days -> 0..CapLimit]
    /\ trials \subseteq SignIns
    /\ announced \in [Users -> Nat]
    /\ signIn \in [SignIns -> SignIn]
    /\ share \in [Shares -> Share]
    /\ excused \subseteq SignIns /\ unread \subseteq Users
    /\ outages \in 0..MaxOutages

\* Holding a place in the cap of day d: a workspace came of it, or may still.
HoldsPlace(r, d) ==
    /\ signIn[r].day = d
    /\ \/ signIn[r].pc \in Working \ {"claim"}
       \/ signIn[r].pc = "ready" /\ signIn[r].got = r

\* The cap is never looser than it says: the workspaces a day let in, with those
\* still being made, are all counted, and never past the limit, whatever places were
\* given back by failures, lost races and sign-ins that straddle midnight.
CapNeverLooser ==
    \A d \in Days :
        /\ Cardinality({r \in SignIns : HoldsPlace(r, d)}) <= counted[d]
        /\ counted[d] <= CapLimit

\* Concurrent first logins converge: whoever is let in holds the one workspace its
\* identity owns, with its row and its database still there, and no trial was started
\* for another or welcomed twice.  Only a grant that was written and could not be read
\* back breaks it: its cleanup deletes what the grant points to.
LoginsConverge ==
    /\ \A r \in SignIns : LET u == UserOf[r] IN
          signIn[r].pc = "ready" /\ u \notin unread =>
              /\ signIn[r].got = owner[u]
              /\ owner[u] \in workspaces /\ owner[u] \in databases
    /\ \A w \in trials : w = owner[UserOf[w]]
    /\ \A u \in Users : announced[u] <= 1

\* No database outlives its sign-in unowned, other than those a failed call or a kill
\* left behind.
NoOrphanDatabase ==
    \A r \in databases \ excused :
        signIn[r].pc \in Ended \cup {"release"} => owner[UserOf[r]] = r

\* A viewer has something safe to open and the cap of viewers holds, however shares,
\* revocations and sign-ins interleave, and no viewer grant passes for ownership.
SharedReadOnly ==
    \A w \in SignIns : viewers[w] # {} =>
        /\ w = owner[UserOf[w]] /\ UserOf[w] \notin viewers[w]
        /\ Cardinality(token[w]) = 1
        /\ Cardinality(viewers[w]) <= MaxViewers

=============================================================================
