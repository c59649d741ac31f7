-------------------------- MODULE AccountLifecycle --------------------------
(***************************************************************************)
(* The status and the credential of one account, and the three parties     *)
(* that write them: the user (API), the sync cycles and the janitor.       *)
(*                                                                         *)
(* Sync cycles set the status with an unconditional UPDATE.  The user and  *)
(* the janitor load the row, work on the loaded copy (expire_on_commit is  *)
(* off and no row is locked), and their commit writes the columns that     *)
(* differ from what was loaded.  The worker keeps an IMAP pool per account *)
(* that does not notice a new password (AccountImapConfig.fingerprint).    *)
(*                                                                         *)
(* One worker process runs the cycles and the janitor, as deployed.        *)
(***************************************************************************)
EXTENDS Integers

CONSTANTS
    Credentials,    \* passwords, or refresh tokens
    Grace,          \* janitor_account_grace_days
    MaxUser,        \* bound on what the user does
    MaxRotations,   \* bound on the changes of the accepted credential
    MaxFaults       \* bound on outages and failing jobs

NoStamp == -1             \* invalid_since IS NULL
None == "none"

\* No credential is mistaken for a status, or for the lack of one.
ASSUME AccountAssumption ==
    /\ {Grace, MaxUser, MaxRotations, MaxFaults} \subseteq Nat
    /\ Credentials \cap {None, "active", "disabled"} = {}

Statuses == {"active", "error", "auth_error", "disabled", "gone"}
Ages == NoStamp..Grace    \* the age of invalid_since, up to the grace period

VARIABLES
    provider,    \* "imap" or "graph"
    status,      \* accounts.status; "gone" once the row is deleted
    age,         \* how long ago invalid_since was stamped, or NoStamp
    credential,  \* what imap_settings or graph_settings stores
    accepted,    \* the credential the provider accepts
    pool,        \* the credential of the worker's IMAP pool, or None
    loggedIn,    \* that pool holds a connection that logged in
    spc,         \* sync: "idle", "cycle", "mark" (what it found is to be recorded)
    scred,       \* sync: the credential the cycle works with
    found,       \* sync: "ok", "rejected" or "outage"
    jpc,         \* janitor: "idle", "loaded", "check", "commit"
    jage,        \* janitor: the age it loaded
    jcred,       \* janitor: the credential it checked
    verdict,     \* janitor: "valid" or "invalid"
    upc,         \* user: "idle", "patch", "oauth"
    want,        \* user: what the request asks for
    uloaded,     \* user: the status and age it loaded
    counts,      \* user actions, rotations and faults so far
    stale,       \* parties whose loaded copy is out of date (history)
    raced,       \* a stale copy was committed since the account was last set
                 \* active by a party that was up to date (history)
    sinceOk      \* time since the account was last set active (history)

row == <<status, age, credential>>
poolVars == <<pool, loggedIn>>
syncVars == <<spc, scred, found>>
janitorVars == <<jpc, jage, jcred, verdict>>
userVars == <<upc, want, uloaded>>
historyVars == <<stale, raced, sinceOk>>
vars == <<provider, row, accepted, poolVars, syncVars, janitorVars, userVars,
          counts, historyVars>>

Init ==
    /\ provider \in {"imap", "graph"}
    /\ status = "active"
    /\ age = NoStamp
    /\ credential \in Credentials
    /\ accepted \in Credentials
    /\ pool = None /\ loggedIn = FALSE
    /\ spc = "idle" /\ scred = None /\ found = None
    /\ jpc = "idle" /\ jage = NoStamp /\ jcred = None /\ verdict = None
    /\ upc = "idle" /\ want = None
    /\ uloaded = [status |-> "active", age |-> NoStamp]
    /\ counts = [user |-> 0, rotations |-> 0, faults |-> 0]
    /\ stale = {} /\ raced = FALSE /\ sinceOk = 0

Count(what, bound) ==
    /\ counts[what] < bound
    /\ counts' = [counts EXCEPT ![what] = @ + 1]

\* The parties that work on a loaded copy of the row.
Loaded == {p \in {"janitor", "user"} : IF p = "janitor" THEN jpc # "idle" ELSE upc = "patch"}

\* `who` writes the row (a deleted row takes no UPDATE), which outdates what
\* the others have loaded.
Write(who, newStatus, newAge, newCredential) ==
    /\ IF status = "gone"
       THEN UNCHANGED <<row, raced>>
       ELSE /\ status' = newStatus
            /\ age' = newAge
            /\ credential' = newCredential
            /\ raced' = IF newStatus = "active" /\ newAge = NoStamp /\ who \notin stale
                        THEN FALSE
                        ELSE raced \/ who \in stale
    /\ stale' = (stale \cup Loaded) \ {who}

\* `who` stores tokens and keeps its copy of the account, if it has one.
StoreTokens(who, c) ==
    /\ credential' = IF status = "gone" THEN credential ELSE c
    /\ stale' = stale \cup (Loaded \ {who})
    /\ UNCHANGED <<status, age, raced>>

-----------------------------------------------------------------------------
(***************************************************************************)
(* The user: PATCH and DELETE /accounts/{id}, the Microsoft consent.       *)
(***************************************************************************)

\* A PATCH asks for a status or, for an IMAP account, brings a new password.
PatchLoad(w) ==
    /\ upc = "idle" /\ status # "gone"
    /\ w \in {"active", "disabled"} \/ provider = "imap"
    /\ Count("user", MaxUser)
    /\ upc' = "patch" /\ want' = w
    /\ uloaded' = [status |-> status, age |-> age]
    /\ stale' = stale \ {"user"}
    /\ UNCHANGED <<provider, row, accepted, poolVars, syncVars, janitorVars, raced, sinceOk>>

\* Setting `active` or a password clears invalid_since.  The pool that is
\* reset is the one of the API process.
PatchCommit ==
    LET newStatus == IF want \in Credentials THEN "active" ELSE want
    IN  /\ upc = "patch"
        /\ Write("user",
                 IF newStatus = uloaded.status THEN status ELSE newStatus,
                 IF newStatus = "active" /\ uloaded.age # NoStamp THEN NoStamp ELSE age,
                 IF want \in Credentials THEN want ELSE credential)
        /\ sinceOk' = IF newStatus = "active" THEN 0 ELSE sinceOk
        /\ upc' = "idle" /\ want' = None
        /\ UNCHANGED <<provider, accepted, poolVars, syncVars, janitorVars, uloaded, counts>>

DeleteAccount ==
    /\ upc = "idle" /\ status # "gone"
    /\ Count("user", MaxUser)
    /\ Write("user", "gone", age, credential)
    /\ UNCHANGED <<provider, accepted, poolVars, syncVars, janitorVars, userVars, sinceOk>>

\* oauth_callback: the tokens are committed first, the status second.  A code
\* that cannot be exchanged marks the account, whatever its status.
OauthStore(c) ==
    /\ upc = "idle" /\ status # "gone" /\ provider = "graph"
    /\ Count("user", MaxUser)
    /\ upc' = "oauth"
    /\ StoreTokens("user", c)
    /\ UNCHANGED <<provider, accepted, poolVars, syncVars, janitorVars, want, uloaded, sinceOk>>

OauthMark ==
    /\ upc = "oauth"
    /\ upc' = "idle"
    /\ Write("user", "active", NoStamp, credential)
    /\ sinceOk' = 0
    /\ UNCHANGED <<provider, accepted, poolVars, syncVars, janitorVars, want, uloaded, counts>>

OauthRefused ==
    /\ upc = "idle" /\ status # "gone" /\ provider = "graph"
    /\ Count("user", MaxUser)
    /\ Write("user", "auth_error", age, credential)
    /\ UNCHANGED <<provider, accepted, poolVars, syncVars, janitorVars, userVars, sinceOk>>

\* The password is changed, or the consent revoked, at the provider.
Rotate(c) ==
    /\ c # accepted
    /\ Count("rotations", MaxRotations)
    /\ accepted' = c
    /\ UNCHANGED <<provider, row, poolVars, syncVars, janitorVars, userVars, historyVars>>

-----------------------------------------------------------------------------
(***************************************************************************)
(* The sync cycle (one at a time: SyncJobs).                               *)
(***************************************************************************)

\* What the worker logs in with: an IMAP pool that exists keeps the password
\* it was made with, Graph reads the stored tokens.
InUse == IF provider = "imap" /\ pool # None THEN pool ELSE credential

\* get_account_pool.
UsePool ==
    IF provider = "imap"
    THEN /\ pool' = InUse
         /\ loggedIn' = (loggedIn /\ pool # None)
    ELSE UNCHANGED poolVars

\* The provider answers a party that uses credential c; an IMAP connection
\* that is open may outlive its password.
Accepts(c) == c = accepted \/ (provider = "imap" /\ loggedIn /\ pool = c)
Rejects(c) == c # accepted

SyncBegin ==
    /\ spc = "idle"
    /\ status \in {"active", "error"}
    /\ spc' = "cycle"
    /\ scred' = InUse
    /\ UsePool
    /\ UNCHANGED <<provider, row, accepted, found, janitorVars, userVars, counts, historyVars>>

\* The `finally` of a Graph cycle stores its token cache when it has changed,
\* over whatever tokens were stored meanwhile.
SaveTokens ==
    \/ UNCHANGED <<row, stale, raced>>
    \/ provider = "graph" /\ StoreTokens("sync", scred)

SyncFinds(outcome) ==
    /\ spc = "cycle"
    /\ spc' = "mark"
    /\ found' = outcome
    /\ SaveTokens
    /\ UNCHANGED <<provider, accepted, pool, scred, janitorVars, userVars, sinceOk>>

SyncAnswered ==
    /\ Accepts(scred)
    /\ SyncFinds("ok")
    /\ loggedIn' = (loggedIn \/ (provider = "imap" /\ pool = scred))
    /\ UNCHANGED counts

SyncRejected ==
    /\ Rejects(scred)
    /\ SyncFinds("rejected")
    /\ UNCHANGED <<loggedIn, counts>>

SyncOutage ==
    /\ Count("faults", MaxFaults)
    /\ SyncFinds("outage")
    /\ UNCHANGED loggedIn

SyncEnds == spc' = "idle" /\ scred' = None /\ found' = None

\* A cycle that raises, or whose job is cancelled, records nothing.
SyncRaises ==
    /\ spc # "idle"
    /\ Count("faults", MaxFaults)
    /\ SyncEnds
    /\ IF spc = "cycle" THEN SaveTokens ELSE UNCHANGED <<row, stale, raced>>
    /\ UNCHANGED <<provider, accepted, poolVars, janitorVars, userVars, sinceOk>>

\* As SyncMarksActive, leaving invalid_since alone.
SyncMarksActiveOnly ==
    /\ spc = "mark" /\ found = "ok"
    /\ Write("sync", "active", age, credential)
    /\ sinceOk' = 0
    /\ SyncEnds
    /\ UNCHANGED <<provider, accepted, poolVars, janitorVars, userVars, counts>>

\* mark_account_status: active also clears invalid_since.
SyncMarksActive ==
    /\ spc = "mark" /\ found = "ok"
    /\ Write("sync", "active", NoStamp, credential)
    /\ sinceOk' = 0
    /\ SyncEnds
    /\ UNCHANGED <<provider, accepted, poolVars, janitorVars, userVars, counts>>

SyncMarksFailure ==
    /\ spc = "mark" /\ found # "ok"
    /\ Write("sync", IF found = "rejected" THEN "auth_error" ELSE "error", age, credential)
    /\ SyncEnds
    /\ UNCHANGED <<provider, accepted, poolVars, janitorVars, userVars, counts, sinceOk>>

-----------------------------------------------------------------------------
(***************************************************************************)
(* The janitor: sweep_accounts.                                            *)
(***************************************************************************)

JanitorLoad ==
    /\ jpc = "idle"
    /\ status = "auth_error"
    /\ jpc' = "loaded" /\ jage' = age
    /\ stale' = stale \ {"janitor"}
    /\ UNCHANGED <<provider, row, accepted, poolVars, syncVars, jcred, verdict, userVars,
                   counts, raced, sinceOk>>

\* check_account takes the pool, or builds a Graph client.
JanitorConnect ==
    /\ jpc = "loaded"
    /\ jpc' = "check"
    /\ jcred' = InUse
    /\ UsePool
    /\ UNCHANGED <<provider, row, accepted, syncVars, jage, verdict, userVars,
                   counts, historyVars>>

\* The account answers; Graph may store refreshed tokens right away.
JanitorValid ==
    /\ jpc = "check"
    /\ Accepts(jcred)
    /\ jpc' = "commit" /\ verdict' = "valid"
    /\ loggedIn' = (loggedIn \/ (provider = "imap" /\ pool = jcred))
    /\ \/ UNCHANGED <<row, stale, raced>>
       \/ provider = "graph" /\ StoreTokens("janitor", jcred)
    /\ UNCHANGED <<provider, accepted, pool, syncVars, jage, jcred, userVars,
                   counts, sinceOk>>

\* As JanitorInvalid, without resetting the pool.
JanitorInvalidKeepsPool ==
    /\ jpc = "check"
    /\ Rejects(jcred)
    /\ jpc' = "commit" /\ verdict' = "invalid"
    /\ UNCHANGED <<provider, row, accepted, poolVars, syncVars, jage, jcred, userVars,
                   counts, historyVars>>

JanitorInvalid ==
    /\ jpc = "check"
    /\ Rejects(jcred)
    /\ jpc' = "commit" /\ verdict' = "invalid"
    /\ pool' = None /\ loggedIn' = FALSE
    /\ UNCHANGED <<provider, row, accepted, syncVars, jage, jcred, userVars,
                   counts, historyVars>>

JanitorEnds == jpc' = "idle" /\ jage' = NoStamp /\ jcred' = None /\ verdict' = None

\* An outage leaves the row as it is, and an exception ends the sweep.
JanitorFault ==
    /\ jpc \in {"check", "commit"}
    /\ Count("faults", MaxFaults)
    /\ JanitorEnds
    /\ UNCHANGED <<provider, row, accepted, poolVars, syncVars, userVars, historyVars>>

\* The commit at the end of the sweep, after the other accounts' checks.
JanitorRecovers ==
    /\ jpc = "commit" /\ verdict = "valid"
    /\ Write("janitor", "active", IF jage = NoStamp THEN age ELSE NoStamp, credential)
    /\ sinceOk' = 0
    /\ JanitorEnds
    /\ UNCHANGED <<provider, accepted, poolVars, syncVars, userVars, counts>>

JanitorStamps ==
    /\ jpc = "commit" /\ verdict = "invalid" /\ jage = NoStamp
    /\ Write("janitor", status, 0, credential)
    /\ JanitorEnds
    /\ UNCHANGED <<provider, accepted, poolVars, syncVars, userVars, counts, sinceOk>>

JanitorWaits ==
    /\ jpc = "commit" /\ verdict = "invalid" /\ jage \in 0..(Grace - 1)
    /\ JanitorEnds
    /\ UNCHANGED <<provider, row, accepted, poolVars, syncVars, userVars, counts, historyVars>>

\* As JanitorRetires, with the action's name as the status.
JanitorRetiresByAction ==
    /\ jpc = "commit" /\ verdict = "invalid" /\ jage = Grace
    /\ \E retired \in {"disable", "gone"} : Write("janitor", retired, age, credential)
    /\ JanitorEnds
    /\ UNCHANGED <<provider, accepted, poolVars, syncVars, userVars, counts, sinceOk>>

\* janitor_account_action is `disable` or `delete`.
JanitorRetires ==
    /\ jpc = "commit" /\ verdict = "invalid" /\ jage = Grace
    /\ \E retired \in {"disabled", "gone"} : Write("janitor", retired, age, credential)
    /\ JanitorEnds
    /\ UNCHANGED <<provider, accepted, poolVars, syncVars, userVars, counts, sinceOk>>

Older(t, floor) == IF t = floor THEN t ELSE IF t < Grace THEN t + 1 ELSE t

Tick ==
    /\ age' = Older(age, NoStamp)
    /\ sinceOk' = Older(sinceOk, Grace)
    /\ UNCHANGED <<provider, status, credential, accepted, poolVars, syncVars, janitorVars,
                   userVars, counts, stale, raced>>

-----------------------------------------------------------------------------
UserStep ==
    \/ \E w \in Credentials \cup {"active", "disabled"} : PatchLoad(w)
    \/ PatchCommit
    \/ DeleteAccount
    \/ \E c \in Credentials : OauthStore(c)
    \/ OauthMark
    \/ OauthRefused

SyncStep ==
    \/ SyncBegin
    \/ SyncAnswered
    \/ SyncRejected
    \/ SyncOutage
    \/ SyncRaises
    \/ SyncMarksActive
    \/ SyncMarksFailure

JanitorStep ==
    \/ JanitorLoad
    \/ JanitorConnect
    \/ JanitorValid
    \/ JanitorInvalid
    \/ JanitorFault
    \/ JanitorRecovers
    \/ JanitorStamps
    \/ JanitorWaits
    \/ JanitorRetires

Next ==
    \/ UserStep
    \/ SyncStep
    \/ JanitorStep
    \/ \E c \in Credentials : Rotate(c)
    \/ Tick

Spec == Init /\ [][Next]_vars

\* The crons run cycles and sweeps, and a request that was accepted is served.
FairSpec ==
    /\ Spec
    /\ WF_vars(SyncStep)
    /\ WF_vars(JanitorStep)
    /\ WF_vars(PatchCommit \/ OauthMark)

-----------------------------------------------------------------------------
TypeOK ==
    /\ provider \in {"imap", "graph"}
    /\ status \in Statuses
    /\ age \in Ages
    /\ {credential, accepted} \subseteq Credentials
    /\ pool \in Credentials \cup {None} /\ loggedIn \in BOOLEAN
    /\ spc \in {"idle", "cycle", "mark"} /\ scred \in Credentials \cup {None}
    /\ found \in {None, "ok", "rejected", "outage"}
    /\ jpc \in {"idle", "loaded", "check", "commit"}
    /\ jage \in Ages
    /\ jcred \in Credentials \cup {None}
    /\ verdict \in {None, "valid", "invalid"}
    /\ upc \in {"idle", "patch", "oauth"}
    /\ want \in Credentials \cup {None, "active", "disabled"}
    /\ uloaded \in [status : Statuses, age : Ages]
    /\ counts \in [{"user", "rotations", "faults"} -> Nat]
    /\ stale \in SUBSET {"janitor", "user"}
    /\ raced \in BOOLEAN
    /\ sinceOk \in 0..Grace

Retires == jpc = "commit" /\ jpc' = "idle" /\ verdict = "invalid"
           /\ status' # status /\ status' \in {"disabled", "gone"}

\* An account is retired for the credential it has: what the janitor found
\* rejected is what is stored, although the worker's pool may hold an older
\* password, unless a stale copy was committed since the account last worked.
RetiresStoredCredential == [][Retires /\ ~raced' => jcred = credential]_vars

\* The grace period starts from scratch whenever the account is set active: it
\* is never retired earlier (mark_account_status), with the same exception.
GraceIsHonoured == [][Retires /\ ~raced' => sinceOk = Grace]_vars

\* An account whose stored credential the provider accepts leaves `auth_error`
\* for work, whatever pool the worker holds: no sweep that checks it from then
\* on retires it, unless a party commits over somebody's write.
FixedAccountRecovers ==
    (status = "auth_error" /\ credential = accepted /\ verdict # "invalid")
      ~> (\/ status \in {"active", "error", "gone"}
          \/ credential # accepted
          \/ raced
          \/ want = "disabled")
=============================================================================
