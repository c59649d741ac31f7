------------------------------- MODULE Outbox -------------------------------
(***************************************************************************)
(* The outbox of one account: rows of the table `outbox`, the API handlers *)
(* that store and approve them, the arq queue of deliver_outbox jobs and   *)
(* the worker slots that run sync/outbox.py::send_pending.                 *)
(*                                                                         *)
(* Every query of send_pending filters on account_id, so accounts do not   *)
(* meet and one account is enough.  Rows are numbered in created_at order. *)
(* A row the sender holds in its session is never read again (the session  *)
(* keeps loaded attributes over a commit, db.py), so a sender works on the *)
(* set of rows it claimed and writes their final status by primary key.    *)
(***************************************************************************)
EXTENDS Integers, FiniteSets

CONSTANTS
    NumRows,       \* rows that can be created
    Workers,       \* job slots of the worker processes
    Handlers,      \* API request handlers
    Limit,         \* rows one send_pending call claims at most (10)
    ClaimTimeout,  \* CLAIM_TIMEOUT_S
    JobTimeout,    \* worker_job_timeout_s
    MaxNow,        \* bound on the clock
    MaxJobs,       \* bound on waiting deliver_outbox jobs
    MaxFaults,     \* bound on crashes, errors and lost answers
    MaxApprovals   \* bound on approve requests

ASSUME OutboxAssumption ==
    /\ {NumRows, Limit, ClaimTimeout, JobTimeout,
        MaxNow, MaxJobs, MaxFaults, MaxApprovals} \subseteq Nat
    /\ IsFiniteSet(Workers)
    /\ JobTimeout <= ClaimTimeout     \* both are 900 s

Rows == 1..NumRows
NoLock == -1                          \* locked_at IS NULL
Statuses == {"pending_approval", "queued", "sending", "sent", "failed"}
Absent == "absent"

VARIABLES
    status,     \* [Rows -> Statuses], or Absent before the row exists
    lockedAt,   \* [Rows -> time of the claim, or NoLock]
    jobs,       \* deliver_outbox jobs waiting in Redis
    now,        \* the clock
    hpc,        \* handler: "idle", "approve" (row loaded), "enqueue" (committed)
    hrow,       \* handler: the row it works on
    hloaded,    \* handler: the status it read
    wpc,        \* worker: "idle", "release", "claim", "send", "accepted"
    started,    \* worker: when its job started (0 in a free slot)
    todo,       \* worker: rows it claimed and has not finished
    faults,     \* crashes, errors and lost answers so far
    approvals,  \* approve requests so far
    cleared,    \* rows queued without approval or approved (history)
    delivered,  \* how often the provider accepted the row (history)
    excuses     \* how often a repeated delivery became possible (history)

rowVars == <<status, lockedAt>>
apiVars == <<hpc, hrow, hloaded, approvals>>
workerVars == <<wpc, started, todo>>
historyVars == <<cleared, delivered, excuses>>
vars == <<rowVars, jobs, now, apiVars, workerVars, faults, historyVars>>

Init ==
    /\ status = [r \in Rows |-> Absent]
    /\ lockedAt = [r \in Rows |-> NoLock]
    /\ jobs = 0
    /\ now = 0
    /\ hpc = [h \in Handlers |-> "idle"]
    /\ hrow = [h \in Handlers |-> 0]
    /\ hloaded = [h \in Handlers |-> Absent]
    /\ wpc = [w \in Workers |-> "idle"]
    /\ started = [w \in Workers |-> 0]
    /\ todo = [w \in Workers |-> {}]
    /\ faults = 0
    /\ approvals = 0
    /\ cleared = {}
    /\ delivered = [r \in Rows |-> 0]
    /\ excuses = [r \in Rows |-> 0]

-----------------------------------------------------------------------------
(***************************************************************************)
(* API: POST /accounts/{id}/outbox, MCP send_message, POST .../approve.    *)
(* The row is committed before the job is enqueued, in two systems.        *)
(***************************************************************************)
Oldest(S) == CHOOSE r \in S : \A q \in S : r <= q
Excuse(r) == excuses' = [excuses EXCEPT ![r] = @ + 1]

Queue(h, requiresApproval) ==
    LET missing == {r \in Rows : status[r] = Absent}
        r == Oldest(missing)
    IN  /\ hpc[h] = "idle"
        /\ missing # {}
        /\ status' = [status EXCEPT ![r] =
               IF requiresApproval THEN "pending_approval" ELSE "queued"]
        /\ cleared' = IF requiresApproval THEN cleared ELSE cleared \cup {r}
        /\ hpc' = [hpc EXCEPT ![h] = IF requiresApproval THEN "idle" ELSE "enqueue"]
        /\ UNCHANGED <<lockedAt, jobs, now, hrow, hloaded, approvals,
                       workerVars, faults, delivered, excuses>>

ApproveLoad(h, r) ==
    /\ hpc[h] = "idle"
    /\ status[r] # Absent
    /\ approvals < MaxApprovals
    /\ approvals' = approvals + 1
    /\ hpc' = [hpc EXCEPT ![h] = "approve"]
    /\ hrow' = [hrow EXCEPT ![h] = r]
    /\ hloaded' = [hloaded EXCEPT ![h] = status[r]]
    /\ UNCHANGED <<rowVars, jobs, now, workerVars, faults, historyVars>>

\* As ApproveCommit, with a status the column does not know.
ApproveAsApproved(h) ==
    /\ hpc[h] = "approve"
    /\ hpc' = [hpc EXCEPT ![h] = "enqueue"]
    /\ hrow' = [hrow EXCEPT ![h] = 0]
    /\ hloaded' = [hloaded EXCEPT ![h] = Absent]
    /\ status' = [status EXCEPT ![hrow[h]] = "approved"]
    /\ cleared' = cleared \cup {hrow[h]}
    /\ UNCHANGED <<lockedAt, jobs, now, approvals, workerVars, faults,
                   delivered, excuses>>

\* approve() assigns `queued` whatever the row holds; the session writes the
\* column only when it differs from the status that was loaded.
ApproveCommit(h) ==
    LET r == hrow[h] IN
    /\ hpc[h] = "approve"
    /\ hpc' = [hpc EXCEPT ![h] = "enqueue"]
    /\ hrow' = [hrow EXCEPT ![h] = 0]
    /\ hloaded' = [hloaded EXCEPT ![h] = Absent]
    /\ IF hloaded[h] = "queued"
       THEN UNCHANGED <<status, excuses>>
       ELSE /\ status' = [status EXCEPT ![r] = "queued"]
            /\ IF status[r] \in {"sending", "sent"}
               THEN Excuse(r)
               ELSE UNCHANGED excuses
    /\ cleared' = cleared \cup {r}
    /\ UNCHANGED <<lockedAt, jobs, now, approvals, workerVars, faults, delivered>>

EnqueueJob(h) ==
    /\ hpc[h] = "enqueue"
    /\ jobs < MaxJobs
    /\ jobs' = jobs + 1
    /\ hpc' = [hpc EXCEPT ![h] = "idle"]
    /\ UNCHANGED <<rowVars, now, hrow, hloaded, approvals,
                   workerVars, faults, historyVars>>

\* The request ends before the job is enqueued: API killed, Redis down, or
\* the MCP server has no queue connection.  The row stays as committed.
EnqueueLost(h) ==
    /\ hpc[h] = "enqueue"
    /\ faults < MaxFaults
    /\ faults' = faults + 1
    /\ hpc' = [hpc EXCEPT ![h] = "idle"]
    /\ UNCHANGED <<rowVars, jobs, now, hrow, hloaded, approvals,
                   workerVars, historyVars>>

-----------------------------------------------------------------------------
(***************************************************************************)
(* Worker: one deliver_outbox job.                                         *)
(***************************************************************************)
StartJob(w) ==
    /\ wpc[w] = "idle"
    /\ jobs > 0
    /\ jobs' = jobs - 1
    /\ wpc' = [wpc EXCEPT ![w] = "release"]
    /\ started' = [started EXCEPT ![w] = now]
    /\ UNCHANGED <<rowVars, now, apiVars, todo, faults, historyVars>>

\* As StaleClaim, without the cutoff.
StaleAtAnyAge(r) ==
    /\ status[r] = "sending"
    /\ lockedAt[r] # NoLock

StaleClaim(r) ==
    /\ status[r] = "sending"
    /\ lockedAt[r] # NoLock
    /\ lockedAt[r] + ClaimTimeout < now

\* As ReleaseStaleClaims, clearing the lock but not the status.
ReleaseLocksOnly(w) ==
    /\ wpc[w] = "release"
    /\ wpc' = [wpc EXCEPT ![w] = "claim"]
    /\ lockedAt' = [r \in Rows |-> IF StaleClaim(r) THEN NoLock ELSE lockedAt[r]]
    /\ UNCHANGED <<status, jobs, now, apiVars, started, todo, faults, historyVars>>

ReleaseStaleClaims(w) ==
    /\ wpc[w] = "release"
    /\ wpc' = [wpc EXCEPT ![w] = "claim"]
    /\ status' = [r \in Rows |-> IF StaleClaim(r) THEN "queued" ELSE status[r]]
    /\ lockedAt' = [r \in Rows |-> IF StaleClaim(r) THEN NoLock ELSE lockedAt[r]]
    /\ UNCHANGED <<jobs, now, apiVars, started, todo, faults, historyVars>>

\* As Claimable, for every row that is not sent yet, or newest first, or with
\* the rows that wait for approval.
ClaimableUnsent ==
    LET unsent == {r \in Rows : status[r] \in {"queued", "sending"}}
    IN  {r \in unsent : Cardinality({q \in unsent : q < r}) < Limit}

ClaimableNewest ==
    LET queued == {r \in Rows : status[r] = "queued"}
    IN  {r \in queued : Cardinality({q \in queued : q > r}) < Limit}

ClaimableUnapproved ==
    LET open == {r \in Rows : status[r] \in {"queued", "pending_approval"}}
    IN  {r \in open : Cardinality({q \in open : q < r}) < Limit}

\* The oldest queued rows, at most Limit of them.  Selecting FOR UPDATE SKIP
\* LOCKED and committing the claim is one step: a row another claim holds
\* locked is one that claim has already turned to `sending`.
Claimable ==
    LET queued == {r \in Rows : status[r] = "queued"}
    IN  {r \in queued : Cardinality({q \in queued : q < r}) < Limit}

\* As Claim, without stamping locked_at.
ClaimUnstamped(w) ==
    /\ wpc[w] = "claim"
    /\ todo' = [todo EXCEPT ![w] = Claimable]
    /\ wpc' = [wpc EXCEPT ![w] = IF Claimable = {} THEN "idle" ELSE "send"]
    /\ started' = [started EXCEPT ![w] = IF Claimable = {} THEN 0 ELSE @]
    /\ status' = [r \in Rows |-> IF r \in Claimable THEN "sending" ELSE status[r]]
    /\ UNCHANGED <<lockedAt, jobs, now, apiVars, faults, historyVars>>

Claim(w) ==
    /\ wpc[w] = "claim"
    /\ todo' = [todo EXCEPT ![w] = Claimable]
    /\ wpc' = [wpc EXCEPT ![w] = IF Claimable = {} THEN "idle" ELSE "send"]
    /\ started' = [started EXCEPT ![w] = IF Claimable = {} THEN 0 ELSE @]
    /\ status' = [r \in Rows |-> IF r \in Claimable THEN "sending" ELSE status[r]]
    /\ lockedAt' = [r \in Rows |-> IF r \in Claimable THEN now ELSE lockedAt[r]]
    /\ UNCHANGED <<jobs, now, apiVars, faults, historyVars>>

\* The provider accepts the message; the answer is still on its way, and for
\* IMAP accounts the copy to the Sent folder (whose failure is ignored).
Accept(w) ==
    LET r == Oldest(todo[w]) IN
    /\ wpc[w] = "send"
    /\ wpc' = [wpc EXCEPT ![w] = "accepted"]
    /\ delivered' = [delivered EXCEPT ![r] = @ + 1]
    /\ UNCHANGED <<rowVars, jobs, now, apiVars, started, todo, faults, cleared, excuses>>

\* send_one writes the outcome of the row it works on, and the loop goes on.
Finish(w, outcome) ==
    LET r == Oldest(todo[w])
        rest == todo[w] \ {r}
    IN  /\ status' = [status EXCEPT ![r] = outcome]
        /\ todo' = [todo EXCEPT ![w] = rest]
        /\ wpc' = [wpc EXCEPT ![w] = IF rest = {} THEN "idle" ELSE "send"]
        /\ started' = [started EXCEPT ![w] = IF rest = {} THEN 0 ELSE @]
        /\ UNCHANGED <<lockedAt, jobs, now, apiVars, cleared, delivered>>

RecordSent(w) ==
    /\ wpc[w] = "accepted"
    /\ Finish(w, "sent")
    /\ UNCHANGED <<faults, excuses>>

\* As RecordFailed, also when the copy to the Sent folder fails.
FailedWithoutSentCopy(w) ==
    /\ wpc[w] \in {"send", "accepted"}
    /\ faults < MaxFaults
    /\ faults' = faults + 1
    /\ Finish(w, "failed")
    /\ UNCHANGED excuses

\* MailAuthError or MailPermanentError: the provider refused the message.
RecordFailed(w) ==
    /\ wpc[w] = "send"
    /\ faults < MaxFaults
    /\ faults' = faults + 1
    /\ Finish(w, "failed")
    /\ UNCHANGED excuses

\* MailTransientError, before the message was accepted or because the answer
\* to an accepted message was lost.
RecordTransient(w) ==
    /\ wpc[w] \in {"send", "accepted"}
    /\ faults < MaxFaults
    /\ faults' = faults + 1
    /\ Finish(w, "queued")
    /\ IF wpc[w] = "accepted" THEN Excuse(Oldest(todo[w])) ELSE UNCHANGED excuses

\* GraphClient.request repeats the POST after a lost or 5xx answer.
ResendInClient(w) ==
    /\ wpc[w] = "accepted"
    /\ faults < MaxFaults
    /\ faults' = faults + 1
    /\ wpc' = [wpc EXCEPT ![w] = "send"]
    /\ Excuse(Oldest(todo[w]))
    /\ UNCHANGED <<rowVars, jobs, now, apiVars, started, todo, cleared, delivered>>

\* The job stops in the send loop and its remaining rows stay as they are.
Abandon(w) ==
    /\ wpc' = [wpc EXCEPT ![w] = "idle"]
    /\ started' = [started EXCEPT ![w] = 0]
    /\ todo' = [todo EXCEPT ![w] = {}]
    /\ IF wpc[w] = "accepted" THEN Excuse(Oldest(todo[w])) ELSE UNCHANGED excuses
    /\ UNCHANGED <<rowVars, now, apiVars, cleared, delivered>>

\* An exception send_one does not translate (no Graph settings, a database
\* error while the tokens are saved) ends the job, and arq does not repeat it.
JobRaises(w) ==
    /\ wpc[w] \in {"send", "accepted"}
    /\ faults < MaxFaults
    /\ faults' = faults + 1
    /\ Abandon(w)
    /\ UNCHANGED jobs

\* arq cancels the job at its deadline and does not repeat it.
CancelAtDeadline(w) ==
    /\ wpc[w] \in {"send", "accepted"}
    /\ now = started[w] + JobTimeout
    /\ Abandon(w)
    /\ UNCHANGED <<jobs, faults>>

\* The worker process dies or is shut down: arq runs the job again later.
Crash(w) ==
    /\ wpc[w] # "idle"
    /\ faults < MaxFaults
    /\ faults' = faults + 1
    /\ jobs' = jobs + 1
    /\ Abandon(w)

\* Time stands still at a job's deadline until arq has cancelled the job; the
\* database steps before the send loop take less time than the deadline.
Tick ==
    /\ now < MaxNow
    /\ \A w \in Workers : wpc[w] # "idle" => now < started[w] + JobTimeout
    /\ now' = now + 1
    /\ UNCHANGED <<rowVars, jobs, apiVars, workerVars, faults, historyVars>>

-----------------------------------------------------------------------------
HandlerStep(h) ==
    \/ \E requiresApproval \in BOOLEAN : Queue(h, requiresApproval)
    \/ \E r \in Rows : ApproveLoad(h, r)
    \/ ApproveCommit(h)
    \/ EnqueueJob(h)
    \/ EnqueueLost(h)

WorkerStep(w) ==
    \/ StartJob(w)
    \/ ReleaseStaleClaims(w)
    \/ Claim(w)
    \/ Accept(w)
    \/ RecordSent(w)
    \/ RecordFailed(w)
    \/ RecordTransient(w)
    \/ ResendInClient(w)
    \/ JobRaises(w)
    \/ CancelAtDeadline(w)

Next ==
    \/ \E h \in Handlers : HandlerStep(h)
    \/ \E w \in Workers : WorkerStep(w) \/ Crash(w)
    \/ Tick

Spec == Init /\ [][Next]_vars

\* arq takes a waiting job whenever a slot is free and a running job goes on;
\* neither users, nor crashes, nor the clock are fair.
FairSpec == Spec /\ \A w \in Workers : WF_vars(WorkerStep(w))

-----------------------------------------------------------------------------
TypeOK ==
    /\ status \in [Rows -> Statuses \cup {Absent}]
    /\ lockedAt \in [Rows -> Nat \cup {NoLock}]
    /\ jobs \in Nat
    /\ now \in Nat
    /\ hpc \in [Handlers -> {"idle", "approve", "enqueue"}]
    /\ hrow \in [Handlers -> Rows \cup {0}]
    /\ hloaded \in [Handlers -> Statuses \cup {Absent}]
    /\ wpc \in [Workers -> {"idle", "release", "claim", "send", "accepted"}]
    /\ started \in [Workers -> Nat]
    /\ todo \in [Workers -> SUBSET Rows]
    /\ faults \in Nat
    /\ approvals \in Nat
    /\ cleared \in SUBSET Rows
    /\ delivered \in [Rows -> Nat]
    /\ excuses \in [Rows -> Nat]

\* A live job holds the rows it claimed until it has written their outcome;
\* of those, it has yet to hand over all but the one already accepted.
Holders(r) == {w \in Workers : r \in todo[w]}
Senders(r) == {w \in Holders(r) : ~(wpc[w] = "accepted" /\ r = Oldest(todo[w]))}

\* A claim nobody works on any more: a later release sends the row again.
Orphaned(r) == status[r] = "sending" /\ Holders(r) = {}

\* Deliveries made, under way and still to come, were nothing else to go wrong.
Claims(r) ==
    delivered[r] + Cardinality(Senders(r))
      + (IF status[r] \in {"pending_approval", "queued"} \/ Orphaned(r) THEN 1 ELSE 0)

(***************************************************************************)
(* Two workers cannot deliver the same message twice (README), as far as   *)
(* the claim protocol can promise it: every delivery past the first, made  *)
(* or merely possible, is owed to a lost outcome or to an approval of a    *)
(* message that was already going out.  A failed message has nothing left  *)
(* to send and leaves room for the approval that retries it.               *)
(***************************************************************************)
DeliveriesAccountedFor ==
    \A r \in Rows :
        /\ Claims(r) <= 1 + excuses[r]
        /\ status[r] = "failed" => Claims(r) <= excuses[r]

\* CLAIM_TIMEOUT_S against the job timeout: the claim of a live job is never
\* old enough for another job to release it.
HeldClaimIsFresh ==
    \A r \in Rows : Holders(r) # {} =>
        /\ lockedAt[r] # NoLock
        /\ now <= lockedAt[r] + ClaimTimeout

\* FOR UPDATE SKIP LOCKED: two live jobs share a row only after an approval
\* returned a row to the queue that was already being sent.
SoleHolder ==
    \A r \in Rows : excuses[r] = 0 => Cardinality(Holders(r)) <= 1

\* send_one reports what happened: `sent` was accepted by the provider, and
\* `failed` was not, unless an earlier outcome of the row was lost.
HonestOutcome ==
    \A r \in Rows :
        /\ status[r] = "sent" => delivered[r] > 0
        /\ status[r] = "failed" /\ excuses[r] = 0 => delivered[r] = 0

\* The abstract promise: nothing is delivered before it is released by a
\* direct send or an approval, nor more often than the excuses allow.
Promise == INSTANCE Delivery WITH
    submitted <- {r \in Rows : status[r] # Absent},
    released <- cleared

ImplementsDelivery == Promise!Spec

-----------------------------------------------------------------------------
(***************************************************************************)
(* Liveness.  A waiting job picks up every row that is among the first     *)
(* Limit rows of the account, whatever else happens.                       *)
(***************************************************************************)
FirstBatchIsServed ==
    \A r \in 1..Limit \cap Rows :
        (status[r] = "queued" /\ jobs > 0) ~> (status[r] # "queued")

\* A claim whose job died is recovered by the next job that starts after it
\* went stale (_release_stale_claims).
StaleClaimIsRecovered ==
    \A r \in Rows :
        (StaleClaim(r) /\ jobs > 0) ~> (status[r] # "sending")

\* README.md:36, "two workers cannot deliver the same message twice", as it
\* stands: it does not hold, not even where nothing fails.
NeverDeliveredTwice == \A r \in Rows : delivered[r] <= 1
=============================================================================
