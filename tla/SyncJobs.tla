------------------------------ MODULE SyncJobs ------------------------------
(***************************************************************************)
(* How the sync cycles of one IMAP account are started and kept apart:     *)
(* the cron that queues due accounts, the manual request, the IDLE watcher *)
(* that syncs inline, and the three Redis keys `sync:queued:`,             *)
(* `sync:lock:` and `idle:watch:` with their expiry.                       *)
(*                                                                         *)
(* Keys and deadlines count the whole ticks they have left, so the model   *)
(* needs no clock.  What has 0 ticks left ends before the next tick: a job *)
(* at its deadline first, then a key, because every key is set after the   *)
(* job that sets it has started.                                           *)
(* The cron jobs themselves are short and run outside the modelled slots.  *)
(***************************************************************************)
EXTENDS Integers, Sequences, FiniteSets

CONSTANTS
    Slots,         \* job slots of the worker processes (worker_max_jobs)
    LockTTL,       \* SYNC_LOCK_TTL_S
    QueuedTTL,     \* SYNC_QUEUED_TTL_S
    WatchTTL,      \* IDLE_WATCH_LOCK_TTL_S
    JobTimeout,    \* worker_job_timeout_s
    WatchTimeout,  \* IDLE_WATCH_TIMEOUT_S
    Interval,      \* sync_interval_s of the account
    Reconnects,    \* Len(IDLE_RECONNECT_BACKOFFS_S)
    MaxCron,       \* bound on sync jobs of the cron that wait
    MaxIdle,       \* bound on watchers that wait
    MaxManual,     \* bound on manual sync requests
    MaxFaults      \* bound on crashes, shutdowns and Redis errors

ASSUME SyncJobsAssumption ==
    /\ {LockTTL, QueuedTTL, WatchTTL, JobTimeout, WatchTimeout, Interval,
        Reconnects, MaxCron, MaxIdle, MaxManual, MaxFaults} \subseteq Nat
    /\ IsFiniteSet(Slots)
    /\ JobTimeout <= LockTTL      \* both are 900 s

NoKey == -1    \* the key does not exist in Redis

VARIABLES
    status,    \* accounts.status; "stopped" is auth_error or disabled
    due,       \* time until last_sync_at is older than the interval
    waiting,   \* the arq queue: "cron" and "manual" sync jobs, "idle" watchers
    job,       \* slot: the job it runs; "race" is a watcher between connections
    pc,        \* slot: where the job stands
    left,      \* slot: time until arq cancels the job
    attempt,   \* slot: failed reconnects of a watcher
    beating,   \* slots whose heartbeat task is alive
    queued,    \* time left of `sync:queued:`, or NoKey
    lock,      \* time left of `sync:lock:`
    watchKey,  \* time left of `idle:watch:`
    marking,   \* the cron has set the marker and not queued the job yet
    manual,    \* manual requests so far
    faults,    \* crashes, shutdowns and Redis errors so far
    lapsed,    \* the lock expired under a cycle that still runs (history)
    unmarked   \* a cron job waits that has lost its marker (history)

slotVars == <<job, pc, left, attempt, beating>>
keyVars == <<queued, lock, watchKey>>
historyVars == <<lapsed, unmarked>>
vars == <<status, due, waiting, slotVars, keyVars, marking, manual, faults, historyVars>>

Jobs == {"cron", "manual", "idle", "race"}
Watchers == {s \in Slots : job[s] \in {"idle", "race"}}
Running == {s \in Slots : pc[s] \in {"check", "cycle"}}
Pending(kinds) == Cardinality({i \in DOMAIN waiting : waiting[i] \in kinds})

Init ==
    /\ status = "active"
    /\ due = 0
    /\ waiting = <<>>
    /\ job = [s \in Slots |-> "none"]
    /\ pc = [s \in Slots |-> "free"]
    /\ left = [s \in Slots |-> 0]
    /\ attempt = [s \in Slots |-> 0]
    /\ beating = {}
    /\ queued = NoKey /\ lock = NoKey /\ watchKey = NoKey
    /\ marking = FALSE
    /\ manual = 0
    /\ faults = 0
    /\ lapsed = FALSE
    /\ unmarked = FALSE

Fault ==
    /\ faults < MaxFaults
    /\ faults' = faults + 1

-----------------------------------------------------------------------------
(***************************************************************************)
(* Users and crons.                                                        *)
(***************************************************************************)

\* POST /accounts/{id}/sync, and the creation of the account: no marker.
TriggerSync ==
    /\ manual < MaxManual
    /\ manual' = manual + 1
    /\ waiting' = Append(waiting, "manual")
    /\ UNCHANGED <<status, due, slotVars, keyVars, marking, faults, historyVars>>

\* PATCH status, PATCH password, OAuth: the user stops or revives the account.
SetStatus ==
    /\ manual < MaxManual
    /\ manual' = manual + 1
    /\ status' \in {"active", "stopped"} \ {status}
    /\ UNCHANGED <<due, waiting, slotVars, keyVars, marking, faults, historyVars>>

\* As MarkQueued, without NX.
MarkAlways ==
    /\ ~marking
    /\ status \in {"active", "error"}
    /\ due = 0
    /\ Pending({"cron"}) < MaxCron
    /\ queued' = QueuedTTL
    /\ marking' = TRUE
    /\ UNCHANGED <<status, due, waiting, slotVars, lock, watchKey, manual, faults, historyVars>>

\* sync_all_accounts: the marker is set with NX, then the job is queued.
MarkQueued ==
    /\ ~marking
    /\ status \in {"active", "error"}
    /\ due = 0
    /\ Pending({"cron"}) < MaxCron
    /\ queued = NoKey
    /\ queued' = QueuedTTL
    /\ marking' = TRUE
    /\ UNCHANGED <<status, due, waiting, slotVars, lock, watchKey, manual, faults, historyVars>>

QueueSync ==
    /\ marking
    /\ marking' = FALSE
    /\ waiting' = Append(waiting, "cron")
    /\ unmarked' = (unmarked \/ queued = NoKey)
    /\ UNCHANGED <<status, due, slotVars, keyVars, manual, faults, lapsed>>

\* The cron job dies, or Redis fails, between the two calls.
QueueSyncLost ==
    /\ marking
    /\ Fault
    /\ marking' = FALSE
    /\ UNCHANGED <<status, due, waiting, slotVars, keyVars, manual, historyVars>>

\* ensure_idle_watchers: a job that still waits has no key yet, so the next
\* run of the cron queues another one.
EnsureIdleWatcher ==
    /\ status = "active"
    /\ watchKey = NoKey
    /\ Pending({"idle"}) < MaxIdle
    /\ waiting' = Append(waiting, "idle")
    /\ UNCHANGED <<status, due, slotVars, keyVars, marking, manual, faults, historyVars>>

-----------------------------------------------------------------------------
(***************************************************************************)
(* Job slots.                                                              *)
(***************************************************************************)
StartJob(s) ==
    /\ pc[s] = "free"
    /\ waiting # <<>>
    /\ waiting' = Tail(waiting)
    /\ job' = [job EXCEPT ![s] = Head(waiting)]
    /\ IF Head(waiting) = "idle"
       THEN /\ pc' = [pc EXCEPT ![s] = "begin"]
            /\ left' = [left EXCEPT ![s] = WatchTimeout]
            /\ beating' = beating \cup {s}
       ELSE /\ pc' = [pc EXCEPT ![s] = "marker"]
            /\ left' = [left EXCEPT ![s] = JobTimeout]
            /\ UNCHANGED beating
    /\ unmarked' = (unmarked /\ \E i \in DOMAIN waiting' : waiting'[i] = "cron")
    /\ UNCHANGED <<status, due, attempt, keyVars, marking, manual, faults, lapsed>>

\* The slot goes back to the worker.
Free(s) ==
    /\ job' = [job EXCEPT ![s] = "none"]
    /\ pc' = [pc EXCEPT ![s] = "free"]
    /\ left' = [left EXCEPT ![s] = 0]
    /\ attempt' = [attempt EXCEPT ![s] = 0]
    /\ beating' = beating \ {s}

\* The watcher's `finally`: the key goes although another watcher may be alive;
\* it stays when the heartbeat died, whose exception is raised again.
ExitWatcher(s) ==
    /\ Free(s)
    /\ watchKey' = IF s \in beating THEN NoKey ELSE watchKey

\* sync_account: this job no longer waits.
ClearMarker(s) ==
    /\ pc[s] = "marker"
    /\ queued' = NoKey
    /\ pc' = [pc EXCEPT ![s] = "lock"]
    /\ unmarked' = (unmarked \/ (queued # NoKey /\ Pending({"cron"}) > 0))
    /\ UNCHANGED <<status, due, waiting, job, left, attempt, beating, lock, watchKey,
                   marking, manual, faults, lapsed>>

\* What follows sync_account: a queued job is over; a watcher waits for the
\* next change, or reconnects after the handshake race with attempt = 0.
AfterSync(s) ==
    CASE job[s] \in {"cron", "manual"} -> Free(s)
      [] job[s] = "idle" ->
           /\ pc' = [pc EXCEPT ![s] = "idle"]
           /\ UNCHANGED <<job, left, attempt, beating>>
      [] job[s] = "race" ->
           /\ pc' = [pc EXCEPT ![s] = "begin"]
           /\ job' = [job EXCEPT ![s] = "idle"]
           /\ attempt' = [attempt EXCEPT ![s] = 0]
           /\ UNCHANGED <<left, beating>>

\* As TakeLock, expiring before the job's own deadline.
TakeShortLock(s) ==
    /\ pc[s] = "lock"
    /\ lock = NoKey
    /\ lock' = JobTimeout - 1
    /\ pc' = [pc EXCEPT ![s] = "check"]
    /\ UNCHANGED <<job, left, attempt, beating, status, due, waiting, queued, watchKey,
                   marking, manual, faults, historyVars>>

TakeLock(s) ==
    /\ pc[s] = "lock"
    /\ lock = NoKey
    /\ lock' = LockTTL
    /\ pc' = [pc EXCEPT ![s] = "check"]
    /\ UNCHANGED <<job, left, attempt, beating, status, due, waiting, queued, watchKey,
                   marking, manual, faults, historyVars>>

\* As SkipLocked, running the `finally` of the cycle it skips.
SkipLockedReleasing(s) ==
    /\ pc[s] = "lock"
    /\ lock # NoKey
    /\ AfterSync(s)
    /\ lock' = NoKey
    /\ UNCHANGED <<status, due, waiting, queued, watchKey, marking, manual, faults, historyVars>>

\* A cycle is running already, or died and left its lock: step aside.
SkipLocked(s) ==
    /\ pc[s] = "lock"
    /\ lock # NoKey
    /\ AfterSync(s)
    /\ UNCHANGED <<status, due, waiting, keyVars, marking, manual, faults, historyVars>>

\* The `finally` of a cycle deletes the lock, whoever holds it by now.
ReleaseLock(s) ==
    /\ lock' = NoKey
    /\ lapsed' = (lapsed /\ Running # {s})

SkipStopped(s) ==
    /\ pc[s] = "check"
    /\ status = "stopped"
    /\ AfterSync(s)
    /\ ReleaseLock(s)
    /\ UNCHANGED <<status, due, waiting, queued, watchKey, marking, manual, faults, unmarked>>

EnterCycle(s) ==
    /\ pc[s] = "check"
    /\ status # "stopped"
    /\ pc' = [pc EXCEPT ![s] = "cycle"]
    /\ UNCHANGED <<status, due, waiting, job, left, attempt, beating, keyVars,
                   marking, manual, faults, historyVars>>

\* mark_account_status, and stamp_last_sync after a cycle that went well.  A
\* cycle that raises (the first outcome) records nothing.
EndCycle(s) ==
    /\ pc[s] = "cycle"
    /\ \/ UNCHANGED <<status, due>>
       \/ status' \in {"error", "stopped"} /\ UNCHANGED due
       \/ status' = "active" /\ due' = Interval
    /\ AfterSync(s)
    /\ ReleaseLock(s)
    /\ UNCHANGED <<waiting, queued, watchKey, marking, manual, faults, unmarked>>

\* idle_watch: the account and the folder are read before every connection.
BeginWatch(s) ==
    /\ pc[s] = "begin"
    /\ \/ /\ status # "stopped"
          /\ pc' = [pc EXCEPT ![s] = "open"]
          /\ UNCHANGED <<job, left, attempt, beating, watchKey>>
       \/ ExitWatcher(s)   \* stopped, no folder to watch yet, or no pool
    /\ UNCHANGED <<status, due, waiting, queued, lock, marking, manual, faults, historyVars>>

\* IDLE is accepted.
OpenWatch(s) ==
    /\ pc[s] = "open"
    /\ pc' = [pc EXCEPT ![s] = "idle"]
    /\ attempt' = [attempt EXCEPT ![s] = 0]
    /\ UNCHANGED <<status, due, waiting, job, left, beating, keyVars,
                   marking, manual, faults, historyVars>>

\* The server announces a change while it waits, or instead of accepting IDLE.
NoticeChange(s) ==
    /\ pc[s] \in {"open", "idle"}
    /\ pc' = [pc EXCEPT ![s] = "marker"]
    /\ job' = [job EXCEPT ![s] = IF pc[s] = "idle" THEN "idle" ELSE "race"]
    /\ UNCHANGED <<status, due, waiting, left, attempt, beating, keyVars,
                   marking, manual, faults, historyVars>>

\* The connection fails: back off and reconnect, or give up.
LoseConnection(s) ==
    /\ pc[s] \in {"open", "idle"}
    /\ IF attempt[s] < Reconnects
       THEN /\ attempt' = [attempt EXCEPT ![s] = @ + 1]
            /\ pc' = [pc EXCEPT ![s] = "begin"]
            /\ UNCHANGED <<job, left, beating, watchKey>>
       ELSE ExitWatcher(s)
    /\ UNCHANGED <<status, due, waiting, queued, lock, marking, manual, faults, historyVars>>

\* The stored credentials cannot be read, or the server refuses them.
WatchAuthError(s) ==
    /\ pc[s] \in {"begin", "open", "idle"}
    /\ pc[s] = "begin" => status # "stopped"
    /\ status' = "stopped"
    /\ ExitWatcher(s)
    /\ UNCHANGED <<due, waiting, queued, lock, marking, manual, faults, historyVars>>

\* The heartbeat sets the key on its first turn, and again well within its TTL.
Heartbeat(s) ==
    /\ s \in beating
    /\ watchKey < WatchTTL
    /\ watchKey' = WatchTTL
    /\ UNCHANGED <<status, due, waiting, slotVars, queued, lock, marking, manual, faults, historyVars>>

\* A Redis error ends the heartbeat task; the watcher goes on without it.
HeartbeatDies(s) ==
    /\ s \in beating
    /\ Fault
    /\ beating' = beating \ {s}
    /\ UNCHANGED <<status, due, waiting, job, pc, left, attempt, keyVars,
                   marking, manual, historyVars>>

\* The `finally` clauses of a job that is cancelled.
Unwind(s) ==
    /\ Free(s)
    /\ watchKey' = IF s \in beating THEN NoKey ELSE watchKey
    /\ IF s \in Running THEN ReleaseLock(s) ELSE UNCHANGED <<lock, lapsed>>

\* arq cancels a job at its deadline and does not repeat it.
CancelAtDeadline(s) ==
    /\ pc[s] # "free"
    /\ left[s] = 0
    /\ Unwind(s)
    /\ UNCHANGED <<status, due, waiting, queued, marking, manual, faults, unmarked>>

\* arq runs the job of a dead or stopped worker again, ahead of later ones.
Requeue(s) ==
    LET again == IF job[s] = "race" THEN "idle" ELSE job[s]
    IN  /\ waiting' = <<again>> \o waiting
        /\ unmarked' = (unmarked \/ again = "cron")

Shutdown(s) ==
    /\ pc[s] # "free"
    /\ Fault
    /\ Requeue(s)
    /\ Unwind(s)
    /\ UNCHANGED <<status, due, queued, marking, manual>>

\* A killed worker runs no `finally`: its keys stay until they expire.
Crash(s) ==
    /\ pc[s] # "free"
    /\ Fault
    /\ Requeue(s)
    /\ Free(s)
    /\ lapsed' = (lapsed /\ Running # {s})
    /\ UNCHANGED <<status, due, keyVars, marking, manual>>

\* One tick less of a counter that stops at `end`.
Less(n, end) == IF n = end THEN end ELSE n - 1

\* As LockAfterTick and WatchKeyAfterTick, of keys set without expiry.
LockForever == lock
WatchKeyForever == IF beating # {} THEN WatchTTL ELSE watchKey

LockAfterTick == Less(lock, NoKey)
WatchKeyAfterTick == IF beating # {} THEN WatchTTL ELSE Less(watchKey, NoKey)

\* Redis and database calls take no time next to a sync interval; jobs spend
\* theirs in a cycle, in IDLE and between connections.
TakesTime == {"cycle", "open", "idle"}

\* Time stands still at a deadline until arq has cancelled the job.
Tick ==
    /\ \A s \in Slots : pc[s] # "free" => pc[s] \in TakesTime /\ left[s] > 0
    /\ left' = [s \in Slots |-> Less(left[s], 0)]
    /\ due' = Less(due, 0)
    /\ queued' = Less(queued, NoKey)
    /\ lock' = LockAfterTick
    /\ watchKey' = WatchKeyAfterTick
    /\ lapsed' = (lapsed \/ (lock = 0 /\ Running # {}))
    /\ unmarked' = (unmarked \/ (queued = 0 /\ Pending({"cron"}) > 0))
    /\ UNCHANGED <<status, waiting, job, pc, attempt, beating, marking, manual, faults>>

-----------------------------------------------------------------------------
\* Steps a running job takes without waiting for anything outside.
Advance(s) ==
    \/ ClearMarker(s)
    \/ TakeLock(s)
    \/ SkipLocked(s)
    \/ SkipStopped(s)
    \/ EnterCycle(s)
    \/ BeginWatch(s)
    \/ Heartbeat(s)

SlotStep(s) ==
    \/ StartJob(s)
    \/ Advance(s)
    \/ EndCycle(s)
    \/ OpenWatch(s)
    \/ NoticeChange(s)
    \/ LoseConnection(s)
    \/ WatchAuthError(s)
    \/ HeartbeatDies(s)
    \/ CancelAtDeadline(s)
    \/ Shutdown(s)
    \/ Crash(s)

SyncAll == MarkQueued \/ QueueSync

Next ==
    \/ TriggerSync
    \/ SetStatus
    \/ SyncAll
    \/ QueueSyncLost
    \/ EnsureIdleWatcher
    \/ \E s \in Slots : SlotStep(s)
    \/ Tick

Spec == Init /\ [][Next]_vars

\* Time passes, however often a watcher reconnects; the crons run, arq starts
\* and cancels jobs, and jobs go on.  Servers need not answer: a cycle or
\* a watcher may last to its deadline.
FairSpec ==
    /\ Spec
    /\ SF_vars(Tick)
    /\ WF_vars(SyncAll)
    /\ WF_vars(EnsureIdleWatcher)
    /\ \A s \in Slots :
         /\ WF_vars(StartJob(s))
         /\ WF_vars(Advance(s))
         /\ WF_vars(CancelAtDeadline(s))

-----------------------------------------------------------------------------
TypeOK ==
    /\ status \in {"active", "error", "stopped"}
    /\ due \in 0..Interval
    /\ waiting \in Seq({"cron", "manual", "idle"})
    /\ job \in [Slots -> Jobs \cup {"none"}]
    /\ pc \in [Slots -> {"free", "marker", "lock", "check", "cycle", "begin", "open", "idle"}]
    /\ left \in [Slots -> Nat]
    /\ attempt \in [Slots -> 0..Reconnects]
    /\ beating \in SUBSET Slots
    /\ queued \in NoKey..QueuedTTL
    /\ lock \in NoKey..LockTTL
    /\ watchKey \in NoKey..WatchTTL
    /\ marking \in BOOLEAN
    /\ manual \in Nat
    /\ faults \in Nat
    /\ lapsed \in BOOLEAN
    /\ unmarked \in BOOLEAN

\* The state is well typed, and two cycles overlap only after the lock expired
\* under one that still ran, and until all of them are over (sync_account).
SoleCycle ==
    /\ TypeOK
    /\ ~lapsed => Cardinality(Running) <= 1

\* The lock of a queued cycle lasts as long as its job may (900 s each): it
\* first expires under a cycle that a watcher runs inline.
OnlyInlineOutlivesLock ==
    [][(lapsed' /\ ~lapsed) => \E s \in Running : job[s] \in {"idle", "race"}]_vars

\* At most one pending job per account (sync_all_accounts), unless the marker
\* expired or was deleted by another cycle while the job still waited, or arq
\* put a job that had started back into the queue.
OnePendingJob == ~unmarked => Pending({"cron"}) <= 1

\* A worker killed mid-cycle cannot lock an account out for good: a due
\* account gets its cycle.
DueAccountIsSynced ==
    (due = 0 /\ status # "stopped") ~> (Running # {} \/ status = "stopped")

\* An active account without a watcher gets one.
WatcherReturns ==
    (status = "active" /\ Watchers = {}) ~> (Watchers # {} \/ status # "active")
=============================================================================
