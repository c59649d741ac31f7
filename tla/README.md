# TLA+ models of Lenovmail

Lenovmail synchronises mail accounts (IMAP and Microsoft Graph) into PostgreSQL and
sends mail for users and agents.  An API process, an MCP server and an arq worker share
PostgreSQL and Redis.  The models here are about what happens *between* those processes:
who may write a row, hold a key or send a message, in which order, and what is left when
one of them stops half-way.  Paths below are relative to the repository; `lenovmail/` is
`src/lenovmail/`.

## 1. Inventory

| Component | State it keeps | Operations and partners | What makes it correct |
|---|---|---|---|
| Outbox (`sync/outbox.py`, routes, MCP `send_message`) | rows of `outbox`: status, `locked_at`; waiting `deliver_outbox` jobs | queue, approve (API, MCP); claim, send, record, release of stale claims (worker) | a message goes out once unless an outcome was lost; nothing goes out unapproved; a dead sender's claim is recovered |
| Sync job coordination (`workers/tasks.py`, `workers/main.py`) | Redis keys `sync:queued:`, `sync:lock:`, `idle:watch:`; arq queue and slots | cron fan-out, manual sync, IDLE watchers that sync inline; arq deadlines, retries | one cycle per account at a time; one pending job; accounts are served again after crashes |
| Account lifecycle (`maintenance.py`, `routes/accounts.py`, `providers/accounts.py`) | `accounts.status`, `invalid_since`, stored credentials; the worker's pool | PATCH, DELETE, OAuth; end of a cycle; janitor sweep | retirement only for the stored credential and after the grace period; a repaired account works again |
| IMAP pool (`providers/imap_pool.py`) | idle connections, semaphore, registry | borrow, return, reset, close | borrowed + idle never exceed the limit; no use of a closed pool's connections |
| IMAP folder cycle (`sync/imap_sync.py`) | folder cursor (uidvalidity, uidnext, modseq, pass), placements | full, incremental, flag refresh, deletion; rollback on error | after a quiet cycle the local folder equals the server's |
| Message store (`sync/store.py`), threads (`sync/threads.py`) | `messages`, `mailbox_messages`, `message_refs`, `threads`, `message_search` | upsert from headers, bodies, dedup and merge of twins, orphan purge, thread merge | copies of a message share a row; conversations share a thread; accounts stay apart; a body arrives and stays |
| Message actions (`sync/actions.py`) | none of its own | flag, move, delete on server and locally, then resync | local state converges to the server's |
| Graph cycle and client (`sync/graph_sync.py`, `providers/graph.py`) | delta links of the list and of each folder, token cache | delta pages, expired links, retries, backoff | a stored link claims no more than the copy has; no folder is forgotten |
| Paging (`sync/queries.py`) | cursor held by the client | next page | no message skipped or repeated |
| Agent send limit (`sync/outbox.py`, `routes/agent.py`) | count of rows per token and hour | check, insert | at most the limit per hour, but for requests served at the same time |
| Sessions (`api/security.py`, `routes/auth.py`) | session keys, index set, metadata hash, counter of failed logins | login (with a new hash when its parameters are outdated), touch, list, revoke, change of the password | a change of the password leaves no older session; list and index know every session; few guesses |
| Blob store (`blobs.py`) | files by digest, temporary files named after the process | put, get, in threads of several processes | a file that can be read holds the whole content |
| Autoconfig (`autoconfig/`) | `autoconfig_cache`, a row per domain | discover, cache | best candidate first |
| Parsing, mining, events, encryption, statistics, GUI | – | pure functions, fire-and-forget messages, reads | – |

The hard behaviour is in the first rows: independent writers without row versions, an
unreliable provider, keys that expire, jobs that are cancelled at a deadline or run again.
`PROJECT.json` lists the hazards with the line where each one bites and the properties that
cover it.

## 2. Modules

| Module | Models | Used by |
|---|---|---|
| `Delivery` | the abstract promise of the outbox | instantiated by `Outbox` |
| `Outbox` | outbox rows, API handlers, arq queue, `send_pending` in several job slots | `MCOutbox`, `OutboxProofs` |
| `SyncJobs` | starting and excluding sync cycles of one account, IDLE watcher, Redis keys | `MCSyncJobs`, `SyncJobsProofs` |
| `AccountLifecycle` | status, `invalid_since`, credential of one account under user, cycle, janitor | `MCAccountLifecycle`, `AccountLifecycleProofs` |
| `ImapFolder` | one IMAP folder: the mailbox, its local copy, the cycles that follow it, the actions of the user | `MCImapFolder`, `ImapFolderProofs` |
| `GraphCycle` | the folders of one Graph account, their delta links, cycles and actions | `MCGraphCycle`, `GraphCycleProofs` |
| `MessageStore` | message rows, placements, dedup and threads under listings and body jobs | `MCMessageStore`, `StoreProofs` |
| `ImapPool` | registry, pools and borrowers of one account in one process | `MCImapPool`, `ImapPoolProofs` |
| `Access` | sessions, failed logins and the allowance of an agent token | `MCAccess`, `AccessProofs` |
| `Blobs` | one blob, stored by threads of several processes | `MCBlobs`, `StoreProofs` |
| `OutboxProofs`, `SyncJobsProofs`, `AccountLifecycleProofs`, `ImapFolderProofs`, `GraphCycleProofs`, `ImapPoolProofs`, `AccessProofs`, `StoreProofs` | theorems and their proofs | – |

Accounts do not interact in these components, because every query and every key carries the
account id; so each module models one account (or one folder of it).  `MessageStore` is the
exception, for one lookup does not ask for the account.  The modules meet at narrow points:
`SyncJobs` decides when a cycle runs, `ImapFolder` and `GraphCycle` what it does to cursor and
placements, `MessageStore` what it does to the rows behind them, `ImapPool` what it runs on.

### Outbox

`status` and `lockedAt` are the columns; an absent row has status `Absent`.  Rows are numbered
in `created_at` order.  API handlers run `Queue` or `ApproveLoad`/`ApproveCommit` (the load and
the commit of `approve_outbox` are two steps, and SQLAlchemy writes the column only if it
differs from what was loaded), then `EnqueueJob`.  A job slot runs `ReleaseStaleClaims`, `Claim`,
and for each claimed row `Accept` (the provider takes the message) and one of the outcomes.
`SELECT ... FOR UPDATE SKIP LOCKED` plus the commit of the claim is one step: a concurrent
claim skips exactly the rows which that step takes.  The sender never reads a claimed row again
(`expire_on_commit=False`), so it works on the set `todo` it claimed.  Failures: lost answers,
the Graph client's own resend, untranslated exceptions, the arq deadline, a worker crash (arq
runs the job again), a lost enqueue.

`delivered`, `cleared` and `excuses` are history variables.  An *excuse* is an event after
which a repeated delivery cannot be avoided by the claim protocol: an outcome that was lost
after the provider accepted the message, or an approval of a row in `sending` or `sent`.

### SyncJobs

Slots run "cron", "manual" and "idle" jobs; "race" marks a watcher that syncs between two
connections.  `pc` follows `sync_account` (marker, lock, status check, cycle) and `idle_watch`
(begin, open, idle).  Redis keys and arq deadlines are counters of the ticks they have left;
Redis and database calls take no time against a tick.  The cron jobs run outside the modelled
slots.  `lapsed` (the lock expired under a running cycle) and `unmarked` (a waiting cron job has
lost its marker) are history variables that name the two ways in which the coordination fails.

### AccountLifecycle

Sync cycles set the status with an unconditional `UPDATE`; the user's PATCH and the janitor
work on a loaded copy and write the columns they changed.  `Write` is that commit; `stale`
remembers who holds a copy that somebody has overwritten, and `raced` that such a copy was
committed (until somebody up to date sets the account active).  `pool` and `loggedIn` are the
worker's IMAP pool, which keeps the password it was created with.  Graph accounts read the
stored tokens at the start of a cycle and may write them back at its end.  One worker process
runs cycles and janitor, as in `docker-compose.yml`.

### ImapFolder

`box`, `uidnext`, `highest` and `validity` are the mailbox on the server, `placed` and `folder`
the rows of `mailbox_messages` and `folders`.  A cycle takes one step per IMAP command, so the
mailbox can change between SELECT, the two searches and the fetches; its writes take effect
together at `Commit`, and `Refreshed` is what a cycle makes of the flags.  The cycle holds the
cursor it loaded and SQLAlchemy writes the columns that differ from it (`Column`), which
matters as soon as two cycles overlap: "worker" is the cycle under the account's lock, "api" the
one `_resync` runs without it.  An action looks up the UID, then goes to the server and to the
database, in the order of the code; one action is under way at a time.  For a move into the
folder the row was loaded before the move (`MoveInto`), because the session returns the object
it already has.  On a CONDSTORE server every change of the mailbox raises HIGHESTMODSEQ; a
mailbox that was recreated fails the commands of whoever has the old one selected.  Flags are
one bit, `\Seen`.

`excuses` names what the code does not guard against: overlapping cycles, a local flag that
never reached the server, and a placement dropped by its UID after the UIDs changed meaning.  A
full cycle clears them.

### GraphCycle

The server (external) keeps for every item a state and a version; a delta link is what it stands
for, the version of each item the server has told. `news` are the folders the next delta of the
folder list will mention. `SyncFolders` takes the list and commits its new link at once, so what
happens to the folders afterwards (`todo`) is not asked for again; `BeginFolder`, `Page` for
page after page, `LastPage` and `Commit` are `sync_folder`, which writes placements and link in
one transaction. `LastPage` is the moment when nothing is left to tell; after it the cycle is
"done" and does not ask the server again, and `Commit` writes its round whatever has changed and
whoever has committed since, as the code does between `messages_delta` and its commit. Which
unused id a new item gets makes no difference (`NewId`). A page tells items as they are when it
is made, so two pages of a round may mention the same item, and PostgreSQL rejects the upsert
(`Reject`). `Expire` is the restart without a link, `FailFolder` and `GiveUp` the errors that
leave one folder, or all that remain. The `api` cycle is `_resync` of an action; it takes no
lock, and a move loads the row of its destination before it goes to the server.

`missed` are the folders whose visit failed, or where an action's cycle put an older round over a
newer one, and which nobody will visit until the server mentions them again.  `excuses` says why
the copy of a folder may differ.  An older round over a newer link is no excuse by itself: the
older link makes the server tell again what the older round has undone.  It is one ("overtaken")
when a further cycle had already begun from the newer link and commits what builds on it.
"unseen" is a row that another round inserts after the deletions of this one (`Passed` keeps who
may: rounds that write a common row wait for each other).

### MessageStore

`rows` is `messages` with `message_refs`: account, `dedup_hash`, `body_state`, thread and
references; a row is named after the handle (UID or Graph item) that created it.  `placed` is
`mailbox_messages`.  `List` is one message of a header listing with everything the code does
for it (`upsert_messages`, `upsert_placements`, `upsert_search_rows`, `assign_subject_thread`);
`Drop` is any of the three functions that remove placements, with `purge_orphan_messages`.  A
body job chooses rows (`SelectRows`), and for each message reads what it needs from the tables
(`Read`: the twin with the same hash, the threads of the references), then writes and commits
(`WriteContent`).  Between the two steps any other transaction may commit; `Conflicts` are
the constraints that then fail, `Abort` the rollback.  A mail without a Message-ID has a
provisional hash until its body is hashed; a "large" one is read in part, a "refused" one
(Graph) has no raw message and no references.

`relisted` are rows that a later listing wrote over (their references and search text are
gone), `loose` rows that were threaded on a stale lookup or in another account.

### ImapPool

Connections of a pool are counted: `idle[p]` on the list, and the tasks that have taken one or
open one (`Holders`).  `GetPool`, `ResetPool` and `ClosePool` are the registry; `Enter` is the
semaphore, `Pop`, `Connected` and `ProbeFails` are `_acquire`, `Release` is `_release`.  The locks
of the code cover single steps.  A task of the worker leaves the pool for the next one, a task
of the API closes it (`owner`).  A pool may be closed, reset or replaced under a task that
borrowed from it.

### Access

A request is a handler; each Redis command (or transaction of commands) and each database
transaction is one step. `sessions`, `index` and `meta` are the three kinds of keys (the list
leaves out a session without metadata), `fails` the counter of failed logins, `recent` the count
of outbox rows an agent token has made in the last hour. A password is represented by the number
of the change that set it (`changes` counts them), so "a session of an older password" is a
comparison of numbers. `params` are the parameters of the stored hash: when they are those of an
earlier release of the library, which a hash in the database may have when the API starts, a
login hashes the password it has verified again and commits it (`RehashPassword`), over whatever
password the row has by then. `made`, `ended`, `crossed` and `revived` are history: which
password a session was given for, which change of the password has run to its end, which
sessions were stored while another request was dropping sessions or for a password that had been
replaced by then, and which passwords a login has written back over a later change (until
another change has run to its end).

### Blobs

The threads of a process share the name of the temporary file; a descriptor follows its inode
when the file is renamed.  Content is two halves, and a file is whole when it has both.  `Open`
truncates a file that exists, `Replace` renames whatever has the temporary name by then,
`Unlink` is the `finally` clause.  `collided` records that two threads of one process wrote at
the same time.

## 3. Runs

| Run | Instance | Shows | Size |
|---|---|---|---|
| `Outbox` | 2 rows, 2 slots, 1 handler, batch of 1, 1 fault, 1 approval, clock to 2 with timeouts 1 | `DeliveriesAccountedFor`, `HeldClaimIsFresh`, `SoleHolder`, `HonestOutcome`, refinement of `Delivery`; `FirstBatchIsServed`, `StaleClaimIsRecovered` | 132 k states |
| `OutboxTwice` | 1 row, 2 handlers, no fault | violates `NeverDeliveredTwice` | seconds |
| `SyncJobs` | 2 slots, 1 fault, no manual request | `SoleCycle`, `OnePendingJob`, `OnlyInlineOutlivesLock` | 1.0 M |
| `SyncJobsLive` | 1 slot, 1 fault, 2 user actions | `DueAccountIsSynced`, `WatcherReturns` | 210 k |
| `AccountLifecycle` | 2 credentials, grace of 2 ticks, 1 user action, 1 rotation, 1 fault | `RetiresStoredCredential`, `GraceIsHonoured`, `FixedAccountRecovers` | 174 k |
| `ImapFolder` | 2 UIDs, 2 values of UIDVALIDITY, 2 changes by others, 1 action, 1 fault, refresh every 2nd cycle | `NoMessageMissed`, `NoFlagMissed`, `CopyFollows` | 1.6 M |
| `GraphCycle` | 2 folders of 2 items, 1 item at first, 3 events (changes by others, actions, faults) | `LinkTellsTruth`, `NothingForgotten`, `FollowedFoldersAgree` | 715 k |
| `MessageStore` | 5 handles in 3 folders of 2 accounts, 2 body jobs, 3 mentions | `CopiesShareRow`, `ConversationsMeet`, `AccountsApart`, `BodyStays` | 307 k |
| `MessageStoreLive` | 3 handles, 2 jobs, 3 mentions | `BodiesArrive` | 126 k |
| `ImapPool` | 3 tasks, limit 2, 2 pools, 1 fault | `WithinLimit`, `ClosedPoolsAreEmpty`, `BorrowersServed` | 124 k |
| `Access` | 2 handlers, limits of 1, 2 sessions, 2 changes of the password | `ChangeEndsSessions`, `SessionsAreIndexed`, `GuessesBounded`, `AllowanceBounded` | 1.9 M |
| `Blobs` | 3 threads in one process and 1 in another, 5 calls, 1 fault | `ReadableIsWhole`, `FailureIsHarmless` | 598 k |

`TypeOK` is an invariant of `Outbox`, `AccountLifecycle`, `MessageStore`, `ImapPool` and
`Access`; in the other modules it is the first conjunct of a safety invariant (`SoleCycle`,
`NoMessageMissed`, `LinkTellsTruth`, `ReadableIsWhole`).

Bounds.  Two of each kind of actor are what a race needs, and a third row, slot, handler or
folder would only repeat the role of the second; for the safety properties the proofs remove the
bounds altogether.  Timeouts of one tick with a clock that passes them twice give every order of
deadline, expiry and step; the watcher's deadline is longer than the job's and the lock's, as in
the code.  One fault is enough to reach every error path, and its combination with another
actor's steps is what the properties are about.

* `ImapFolder`: two UIDs give an older and a newer message on both sides of the cursor; two
  passes give a refreshing and a plain cycle.
* `GraphCycle`: two items give rounds of one and of two pages.  Changes, actions and faults share
  one bound: with three, an item changes twice during a round, and a change with two actions is
  the shortest way to a round that is based on an overwritten link ("overtaken").
* `MessageStore`: a question, and a mail without a Message-ID that refers to it and that two
  folders of one account hold; another account has the same mail, and the question in a form
  whose raw message the server refuses.  Three mentions let a message be listed twice, and any
  three handles meet; a handle then creates three rows at most (`MaxRows`), so there is always a
  name for the next one.  The live run leaves the other account out.
* `ImapPool`: three tasks exceed the limit of two; two pools give an old and a new one.
* `Access`: with limits of one, two requests already pass the limit by what the property allows.
  Two changes of the password are needed for one that ends what another left behind.
* `Blobs`: three threads are needed for the third to unlink what the second is about to rename.

Symmetry is used for slots, body jobs and handlers, in safety runs only.  Deadlock is checked in
`SyncJobs`, `AccountLifecycle` and `ImapFolder`; in the other models the inputs are bounded (rows,
mentions, changes, sessions, calls of `put`) and the system comes to rest when they are used up.

Fairness.  `Outbox`: arq takes a waiting job when a slot is free and the running coroutine
goes on (weak fairness per slot); users, crashes and the clock are not fair.  `SyncJobs`: time
passes (strong fairness of `Tick`, because a reconnecting watcher can disable it again and
again), the crons fire, arq starts and cancels jobs, and steps that wait for nobody are taken;
a server need never answer, so the end of a cycle is *not* fair and the deadline has to save
it.  `AccountLifecycle`: cycles, sweeps and accepted requests make progress.
`ImapFolder`, `GraphCycle`: the crons keep the worker's cycles coming, and cycles and requests
run to their end (weak fairness of each cycle and of the action under way); other clients are
not fair, and failures are bounded.  `MessageStore`: the cycles delete what is missing (weak),
and some body job is started again and again while there is a body to fetch (strong, because a
job that fails takes the candidates away for a moment); a job that runs goes on.  `ImapPool`:
`asyncio.Semaphore` serves its waiters in turn (strong fairness of `Enter`), and connecting,
probing and using a connection end, because each has a timeout.

What the runs say beyond "no error".  One documented promise is refuted by a run:
two workers *can* deliver one message twice, when an approval hits a row that is being sent.
Elsewhere the property states exactly how far a promise holds, and its excuse is the
disagreement, which `findings` describes: cycles overlap only when a watcher's inline cycle
outlives the lock (`OnlyInlineOutlivesLock`); a message is lost from the list for good when a
flag-refresh cycle crosses the cycle of an action (`NoMessageMissed`, excuse `overlapped`); a
Graph folder whose cycle failed once is not visited until it changes again
(`FollowedFoldersAgree`, `missed`); what a body brought is wiped by the next listing that
mentions the message (`ConversationsMeet`, `relisted`); two accounts with the same mail without
Message-ID share a row (`AccountsApart`); a torn blob stays when threads of one process collide
and the process dies (`ReadableIsWhole`); a session stored while the sessions are being revoked
survives (`SessionsAreIndexed`, `crossed`); a login that makes its hash anew can bring back the
password that a change has just replaced (`ChangeEndsSessions`, `revived`); an older Graph round
written over a newer one can leave the copy wrong for good, when a third cycle was already under
way (`LinkTellsTruth`, `overtaken`).  Without `revived`, `overtaken` or `unseen` TLC finds
the violation within the bounds of its run.

## 4. Proofs

The proofs hold for every value of the constants that the named assumptions admit.

`OutboxProofs` proves, for every number of rows, slots and handlers and all bounds:
`TypeOK`, `HeldClaimIsFresh`, `DeliveriesAccountedFor`, `SoleHolder`, `HonestOutcome`, and
that `Outbox` implements `Delivery`.  The assumptions are those of `OutboxAssumption`: natural
bounds, finitely many slots, and `JobTimeout <= ClaimTimeout` (both 900 s in the code).

None of the safety properties is inductive.  The invariant is built in two layers.

* `Control` is about each slot and claim alone: a slot holds rows only while it sends, its job
  is within its deadline, the claim of a held row was made after the job started, unapproved
  rows are not claimed.  It gives `TypeOK` and `HeldClaimIsFresh`; the latter is where
  `JobTimeout <= ClaimTimeout` is used, and it is what stops `ReleaseStaleClaims` from
  touching a row somebody holds.
* `Accounted(r)`, for every row, says that deliveries made, deliveries under way and the next
  delivery the row is due for never exceed one plus its excuses.  Deliveries under way are
  counted as the cardinality of a set of slots, so every step needs to know how that set
  changes: lemmas about adding and removing one element come first, then one lemma per
  action.

`SoleHolder`, `HonestOutcome` and the step simulation of `Delivery` follow from the two layers.

`ImapPoolProofs` proves `TypeOK`, `ClosedPoolsAreEmpty` and `WithinLimit`, for every number of
tasks and pools and every limit (`PoolAssumption`).  `WithinLimit` is not inductive: a task that
has passed the semaphore and not yet taken a connection would be free to push the count over
the limit.  What is added is `Places`, that at most `Max` tasks are inside the semaphore of a
pool.  A task that opens a new connection does so because the list was empty at that step, so the
pool has then only holders, who are inside; a task that takes or gives back a connection moves it
between list and holders.  `ClosedPoolsAreEmpty` needs nothing but types.

`AccessProofs` proves `TypeOK`, `GuessesBounded`, `AllowanceBounded`, `SessionsAreIndexed` and
`ChangeEndsSessions`, for every number of handlers and all limits and bounds
(`AccessAssumption`).  The counters need the requests that have read the counter and not yet
acted on it: the count and these requests together stay within the limit and one for each
other handler, because whoever joins them has just read a count below the limit.  The
sessions need `Found` and `Dropped`: every session is in the index or `crossed`; while a request
drops sessions, every session that still exists is one it has seen in the index or one that is
`crossed`; once it has deleted those, only crossed ones are left.  So it may delete the index
and raise `ended`.  A login may store a session later for the password in place, and that is
either the one of the last change or one that was written back (`Revived`).  `Shown` says that
every session has its metadata.

`SyncJobsProofs` proves `SoleCycle`, `OnlyInlineOutlivesLock` and `OnePendingJob`, for every
number of slots and faults and all time-outs (`SyncJobsAssumption`: natural numbers, finitely
many slots, and `JobTimeout <= LockTTL`, both 900 s).  There are two invariants.

* `LockInv` adds to the types that, until the lock has lapsed, whoever runs a cycle holds the
  lock and runs alone (`RunsUnderLock`), and that a queued cycle ends, by its job's deadline,
  before its lock does (`EndsInTime`).  The second is where `JobTimeout <= LockTTL` is needed:
  only a watcher's inline cycle, whose deadline is another, can be there when the lock expires.
* `QueueInv` says that a job of the cron waits under its marker, alone, while no marker has
  been lost (`WaitsUnderMarker`).

`AccountLifecycleProofs` proves `TypeOK`, `RetiresStoredCredential` and `GraceIsHonoured`, for all
credentials, any grace period and any number of requests, rotations and faults.  The writers
work on copies, so the invariant says what a copy that nobody has overwritten still tells:
whether the account is stamped (`CopiesTellStamp`), that what the janitor found rejected of a
stamped account is what is stored (`ChecksStored`), that the stamp is no older than the time
since the account was last active (`StampIsRecent`).  Between the two lies the pool, which keeps
the password it was made with: `StampResetsPool`, that the pool of a stamped account is gone or
holds the stored password, because the janitor resets it when it stamps.  `AccountAssumption`
keeps credentials apart from the words for "nothing" and for the two statuses a user may set.

`ImapFolderProofs` proves `NoMessageMissed` (with `TypeOK`) and `NoFlagMissed`, for every number of
UIDs and of values of UIDVALIDITY, every refresh interval and all bounds
(`ImapFolderAssumption`).  The argument has three parts.

* `Knows(c)`: what a cycle holds after SELECT, after each search and after each fetch is true
  of the mailbox as it is *now*, in the form the commit needs: whatever the mailbox had below the
  UIDNEXT that SELECT reported and still has is in `all`, in `new` if it is new, in `headers`; a
  flag read is the flag the message has, or the message has changed above the MODSEQ that
  SELECT reported.  Every step of the mailbox keeps this (`BoxAdvances`: UIDs and MODSEQs only
  grow while UIDVALIDITY stays), which is the reason why the cursor must be what SELECT reported
  before anything was read.
* `OvertakenOnce`: the cursor a cycle loaded is the stored one, unless another cycle has
  committed in between, and of two running cycles this happens to one at most.
* `PlacedHere` and `ActionHere` are about UIDs of a former mailbox: placements and actions of
  the present UIDVALIDITY name UIDs that the mailbox has handed out, so a message that arrives
  never meets a placement or an action with its UID.  The exception is `Muddled`: a cycle that
  was overtaken across a change of UIDVALIDITY has stored UIDs of the old mailbox.  That excuse
  stays as long as the UIDVALIDITY does, which had to be part of the invariant.

`MessagesKept` and `FlagsKept` are inductive with these.  `FlagsKept` says a little more than
`NoFlagMissed`: the flag under way is the one that is placed, or a STORE that changes nothing
would lose it.

`GraphCycleProofs` proves `LinkTellsTruth` (with `TypeOK`) and `NothingForgotten`, for any
folders and items and all bounds (`GraphAssumption`: NULL is neither a folder nor a link). A
stored link alone is not enough, since a cycle starts from a link that another may replace, and
a move keeps one until it is done: `Known(f)` is the set of links stored or in use.  They are in
the past of the server (`KnownIsPast`).  The copy accounts for what the stored one knows
(`KnownIsAccounted`) and has nothing that it does not know (`UnknownIsExcused`); of a link that a
cycle began from this cannot be said, as an older round may be written over it.  `Gathers(c)`
relates the pages a cycle has read to the items they told, version by version; items may change
between two pages and after the last one, so it only claims what is told of the latest version.
At the commit, what the round was told beyond its base is therefore in the copy, and what it
takes from its base is accounted for because the stored link claims as much, or else the round
is "overtaken".  `MovedIsGone` lets a move drop its row.

`NothingForgotten` is inductive together with what is known of finished rounds.  What a round of
the worker leaves due has been mentioned again (`WorkerHears`), because the worker takes the next
folder list only after its commit.  Of an action's round that holds only as long as no other
round was committed since its last page (`ActionHears`); afterwards its commit makes the folder
`missed`, unless nothing is due.

`StoreProofs` is about what is kept on disk, rows and files.  For the rows it proves `TypeOK`,
`CopiesShareRow`, `ConversationsMeet`, `AccountsApart` and `BodyStays`, for any handles, mails,
folders, accounts and body jobs and all bounds (`StoreAssumption`: NULL is no row, no thread and
no reference).  The invariant, `StoreInv`, has two parts.

* Identity. A row stands for a message if its hash is the one that the header gave or the one
  that the body gives (`Fits`); placements and jobs only point at such rows (`PlacedFit`,
  `JobsFit`), and the twin a job has found has the hash of the body it has read (`TwinsFit`). A
  hash changes only from a provisional one, which is one handle's, to the body's; so whoever
  reached the row before may still have it (`BodySettles`), and a hash from a body or a
  Message-ID is final (`SettledStays`). Since no account has two rows of one hash (`UniqueHash`,
  the unique key that makes a stale writer fail), copies are one row, and a listing of a message
  that is placed finds the row it has, so its body stays.
* Conversations.  A row holds the references of its mail unless a listing wrote over them
  (`RefsKept`), and rows of an account that share a reference are in one thread (`Connected`).  A
  step that threads a row finds every row that shares a reference with it and moves these along,
  and a merge of threads keeps together what was together (`ConnectedAfter`).  What a body job
  looked up may be stale when it writes: then the row becomes `loose`, and neither property
  speaks of it.

For the files it proves `ReadableIsWhole` (with `BlobTypeOK`) and `FailureIsHarmless`, for any
threads and processes and any number of calls and faults (`BlobAssumption`).  Without a collision
a thread has the temporary file of its process to itself and has written it as far as it has
come (`HasFileAlone`).  With collisions but without faults, what a file lacks is still to be
written by one of the threads that have it open (`SomebodyWrites`), and a thread that finds no
temporary file was overtaken by one that stored the blob (`OvertakenByBlob`).  `EnoughInodes`
counts inodes against calls, so that `Open` always finds a new one.

Only model-checked: all liveness (the prover does not handle fairness and `ENABLED`).  Every
invariant and every action property of the passing runs is stated by a theorem.

## 5. Not modelled, and why

* `mine_values_backfill` takes part in no lock and no marker and writes only what it mined.
  (`backfill_bodies` takes no lock either; its jobs are the body jobs of `MessageStore`.)
* Partial recipient refusals by SMTP, which `send_message` ignores.
* In `ImapFolder`: `COPY`+`EXPUNGE` on servers without MOVE, chunked fetches, `force_full` (no
  caller sets it).  Actions on a message that sits in several folders, IMAP and Graph.
* In `GraphCycle`: folders removed on the server (the code skips them, see `findings`), a delta
  that ends without a link, token refresh and backoff inside `request()`.
* In `MessageStore`: attachment rows, the contents of search rows, counters of folders and
  threads, the folder statistics.
* In `Access`: `create_token`, `revoke_token` (single statements), audit rows, the roles of users.
* Paging: a keyset query whose one defect (a cursor that falls back to a column the ordering
  does not use) is a property of data; it is listed under `hazards`.
* Autoconfig, MIME parsing, value mining, events, encryption, statistics, GUI, `GET` handlers.
* The purges of tokens and audit rows: single `DELETE` statements.
* The CLI `sync` command, which runs a cycle without Redis and so without any lock.
* More than one worker process in `AccountLifecycle` (each would have its own pool).

## 6. Plan

Done, in the order of importance: `Outbox`, `SyncJobs`, `AccountLifecycle`, `ImapFolder`,
`MessageStore`, `GraphCycle`, `ImapPool`, `Access` and `Blobs`; proofs of the safety properties of
all of them.

Left:

1. An abstract specification "the copy follows the mailbox" that both `ImapFolder` and
   `GraphCycle` implement.
2. Actions on messages in several folders; removed folders on Graph.
3. `Paging` as an operator, checked against the sorted list over all small tables.
