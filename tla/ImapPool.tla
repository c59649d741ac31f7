------------------------------ MODULE ImapPool ------------------------------
(* The IMAP connections of one account in one process                        *)
(* (providers/imap_pool.py): the registry, the pools it has made so far, and *)
(* the tasks that borrow from them.  Connections of a pool are counted; a    *)
(* task that holds one, or a place for the one it opens, is a holder.        *)
(* The registry's lock and the pool's lock cover single steps.  The          *)
(* dedicated IDLE connection is outside the pool.                            *)
EXTENDS Naturals, FiniteSets

CONSTANTS
    Users,          \* tasks that work with the account
    Max,            \* imap_max_conn_per_account
    MaxPools,       \* bound: pools made
    MaxFaults,      \* bound: lost connections, refused logins, cancelled tasks
    None

ASSUME PoolAssumption ==
    /\ IsFiniteSet(Users) /\ Max \in Nat \ {0} /\ {MaxPools, MaxFaults} \subseteq Nat
    /\ None \notin Nat

VARIABLES
    registered,     \* _pools[account_id], or None
    outdated,       \* the registered pool has another fingerprint than the account
    made,           \* pools made so far; they are numbered from 1
    closed,         \* pools with _closed set
    idle,           \* length of a pool's idle list
    pc,             \* a task's place in connection()
    at,             \* the pool a task has
    owner,          \* the task closes its pool when it is done (API, MCP)
    faults

vars == <<registered, outdated, made, closed, idle, pc, at, owner, faults>>

Pools == 1..MaxPools

Init ==
    /\ registered = None /\ outdated = FALSE
    /\ made = 0 /\ closed = {} /\ idle = [p \in Pools |-> 0]
    /\ pc = [u \in Users |-> "away"]
    /\ at = [u \in Users |-> None]
    /\ owner = [u \in Users |-> FALSE]
    /\ faults = 0

Fault == faults < MaxFaults /\ faults' = faults + 1

\* As Inside, with the tasks that wait.
InsideOrWaiting(p) == {u \in Users : at[u] = p}

\* Tasks inside `async with self._sem`, and those of them that have taken a
\* connection off the list or open one.
Inside(p)  == {u \in Users : at[u] = p /\ pc[u] \in {"entered", "probing", "opening", "using"}}
Holders(p) == {u \in Inside(p) : pc[u] # "entered"}

Goes(u, place) == pc' = [pc EXCEPT ![u] = place]

-----------------------------------------------------------------------------
\* The registry.
ClosePool(p) ==
    /\ closed' = closed \cup {p}
    /\ idle' = [idle EXCEPT ![p] = 0]

\* get_pool: the registered pool, closed or not, unless its settings are
\* outdated; else a new one.
GetPool(u) ==
    /\ pc[u] = "away"
    /\ Goes(u, "ready")
    /\ owner' \in {[owner EXCEPT ![u] = own] : own \in BOOLEAN}
    /\ \/ /\ registered # None /\ ~outdated
          /\ at' = [at EXCEPT ![u] = registered]
          /\ UNCHANGED <<registered, outdated, made, closed, idle>>
       \/ /\ registered = None \/ outdated
          /\ made < MaxPools
          /\ made' = made + 1
          /\ registered' = made + 1 /\ outdated' = FALSE
          /\ at' = [at EXCEPT ![u] = made + 1]
          /\ IF registered # None THEN ClosePool(registered) ELSE UNCHANGED <<closed, idle>>
    /\ UNCHANGED faults

\* The account's host, port, security or user name changes.
ChangeSettings ==
    /\ registered # None /\ ~outdated
    /\ outdated' = TRUE
    /\ UNCHANGED <<registered, made, closed, idle, pc, at, owner, faults>>

\* As ResetPool, without a look whether there is one.
ResetAnyhow ==
    /\ registered' = None /\ outdated' = FALSE
    /\ ClosePool(registered)
    /\ UNCHANGED <<made, pc, at, owner, faults>>

ResetPool ==
    /\ registered # None
    /\ registered' = None /\ outdated' = FALSE
    /\ ClosePool(registered)
    /\ UNCHANGED <<made, pc, at, owner, faults>>

-----------------------------------------------------------------------------
\* connection().
Enter(u) ==
    /\ pc[u] = "ready"
    /\ Cardinality(Inside(at[u])) < Max
    /\ Goes(u, "entered")
    /\ UNCHANGED <<registered, outdated, made, closed, idle, at, owner, faults>>

\* As Pop, opening a connection while the list is not empty.
PopNothing(u) ==
    /\ pc[u] = "entered"
    /\ Goes(u, "opening")
    /\ UNCHANGED <<registered, outdated, made, closed, idle, at, owner, faults>>

\* _acquire: the last of the list, or a new one.
Pop(u) ==
    /\ pc[u] = "entered"
    /\ IF idle[at[u]] > 0
       THEN Goes(u, "probing") /\ idle' = [idle EXCEPT ![at[u]] = @ - 1]
       ELSE Goes(u, "opening") /\ UNCHANGED idle
    /\ UNCHANGED <<registered, outdated, made, closed, at, owner, faults>>

\* NOOP, or login, succeeds.
Connected(u) ==
    /\ pc[u] \in {"probing", "opening"}
    /\ Goes(u, "using")
    /\ UNCHANGED <<registered, outdated, made, closed, idle, at, owner, faults>>

\* The connection was dropped by the server: it is closed, and the next one
\* of the list is tried.
ProbeFails(u) ==
    /\ pc[u] = "probing" /\ Fault
    /\ Goes(u, "entered")
    /\ UNCHANGED <<registered, outdated, made, closed, idle, at, owner>>

\* As Release, without a look at _closed.
ReleaseAlways(u) ==
    /\ pc[u] = "using"
    /\ Goes(u, "ready")
    /\ idle' = IF idle[at[u]] < Max THEN [idle EXCEPT ![at[u]] = @ + 1] ELSE idle
    /\ UNCHANGED <<registered, outdated, made, closed, at, owner, faults>>

\* _release: back on the list, unless the pool has been closed meanwhile.
Release(u) ==
    /\ pc[u] = "using"
    /\ Goes(u, "ready")
    /\ idle' = IF at[u] \notin closed /\ idle[at[u]] < Max
               THEN [idle EXCEPT ![at[u]] = @ + 1] ELSE idle
    /\ UNCHANGED <<registered, outdated, made, closed, at, owner, faults>>

\* Done: the worker keeps the pool for the next cycle, the API closes it.
Leaves(u) ==
    /\ Goes(u, "away")
    /\ at' = [at EXCEPT ![u] = None]
    /\ IF owner[u] THEN ClosePool(at[u]) ELSE UNCHANGED <<closed, idle>>
    /\ UNCHANGED <<registered, outdated, made, owner>>

Finish(u) == pc[u] = "ready" /\ Leaves(u) /\ UNCHANGED faults

\* A refused login, an error in use, a cancelled task: the connection is not
\* used again, and the exception ends the task.
Break(u) == pc[u] \in {"ready", "entered", "probing", "opening", "using"} /\ Fault /\ Leaves(u)

-----------------------------------------------------------------------------
Borrow(u) == Pop(u) \/ Connected(u) \/ ProbeFails(u) \/ Release(u)

Next ==
    \/ ChangeSettings \/ ResetPool
    \/ \E u \in Users : GetPool(u) \/ Enter(u) \/ Borrow(u) \/ Finish(u) \/ Break(u)

Spec == Init /\ [][Next]_vars

\* Requests have timeouts, and asyncio's semaphore lets waiters in, in turn.
FairSpec ==
    /\ Spec
    /\ \A u \in Users :
         /\ SF_vars(Enter(u))
         /\ WF_vars(Pop(u)) /\ WF_vars(Connected(u)) /\ WF_vars(Release(u))

-----------------------------------------------------------------------------
TypeOK ==
    /\ registered \in (1..made) \cup {None} /\ outdated \in BOOLEAN
    /\ made \in 0..MaxPools /\ closed \subseteq 1..made
    /\ idle \in [Pools -> Nat]
    /\ pc \in [Users -> {"away", "ready", "entered", "probing", "opening", "using"}]
    /\ at \in [Users -> (1..made) \cup {None}]
    /\ \A u \in Users : pc[u] # "away" => at[u] # None
    /\ owner \in [Users -> BOOLEAN]
    /\ faults \in 0..MaxFaults

\* docs/configuration.md:66: the connections of an account that a pool holds,
\* borrowed, being opened and idle together, stay within the limit.
WithinLimit == \A p \in Pools : idle[p] + Cardinality(Holders(p)) <= Max

\* A closed pool collects no connections, whoever still works with it.
ClosedPoolsAreEmpty == \A p \in closed : idle[p] = 0

\* Who waits for a connection gets one, or gives up.
BorrowersServed == \A u \in Users : pc[u] = "ready" ~> pc[u] \in {"using", "away"}
=============================================================================
