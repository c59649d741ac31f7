------------------------------- MODULE Access -------------------------------
(* Who may act for one user: browser sessions and the counter of failed      *)
(* logins in Redis (api/security.py, api/routes/auth.py, api/deps.py), one   *)
(* agent token with its hourly allowance in PostgreSQL (sync/outbox.py,      *)
(* api/routes/agent.py).  A request is a handler; every command to Redis and *)
(* every transaction is a step, and other requests run in between.           *)
(* A password is the number of the change that set it; a login that makes    *)
(* the hash anew writes the password it has verified back.                   *)
EXTENDS Naturals, Sequences, FiniteSets

CONSTANTS
    Handlers,       \* requests that are served at the same time
    FailLimit,      \* LOGIN_FAIL_LIMIT
    SendLimit,      \* send_limit_per_hour of the token
    MaxSessions,    \* bound: sessions stored
    MaxChanges      \* bound: password changes

ASSUME AccessAssumption ==
    /\ IsFiniteSet(Handlers)
    /\ {FailLimit, SendLimit} \subseteq Nat \ {0}
    /\ {MaxSessions, MaxChanges} \subseteq Nat

VARIABLES
    handler,        \* [pc, token, seen, pw]: a request, its session, what it read
    password,       \* users.password_hash: the password it is made of
    params,         \* and the parameters it is made with: "new", those of the library
                    \* the API runs with, or "old", those of an earlier release
    sessions,       \* tokens with a key session:<token>
    index,          \* sessions:user:<id>
    meta,           \* tokens with metadata, session:meta:<token>
    fails,          \* login:fail:<email>
    recent,         \* outbox rows that the token created within the last hour
    changes,        \* history: password changes committed so far
    made,           \* history: token -> password its request had verified
    ended,          \* history: password of the last change that ran to its end
    crossed,        \* history: tokens stored while somebody dropped sessions,
                    \* or after the password they were given for was replaced
    revived         \* history: passwords a login wrote back over a later change
                    \* (those no more in place go when a change has run to its end)

redis   == <<sessions, index, meta>>
hash    == <<password, params, changes, revived>>
history == <<made, ended, crossed>>
vars == <<handler, hash, redis, fails, recent, history>>

Free  == [pc |-> "free", token |-> 0, seen |-> {}, pw |-> 0]
Steps == {"free", "counted", "wrong", "verified", "outdated", "rehash", "store", "known", "touch",
          "fill", "in", "drop", "unindex", "list", "changed", "dropping", "dropped", "agent", "allowed"}

Init ==
    /\ handler = [h \in Handlers |-> Free]
    /\ password = 0 /\ params \in {"new", "old"} /\ changes = 0 /\ fails = 0
    /\ sessions = {} /\ index = {} /\ meta = {}
    /\ recent = 0
    /\ made = <<>> /\ ended = 0 /\ crossed = {} /\ revived = {}

At(h, pc)    == handler[h].pc = pc
Goes(h, pc)  == handler' = [handler EXCEPT ![h].pc = pc]
Ends(h)      == handler' = [handler EXCEPT ![h] = Free]
With(h, pc, token, seen) ==
    handler' = [handler EXCEPT ![h] = [@ EXCEPT !.pc = pc, !.token = token, !.seen = seen]]

-----------------------------------------------------------------------------
\* As CheckFailures, with one failure more.
CheckFailuresLoosely(h) ==
    /\ At(h, "free") /\ fails <= FailLimit
    /\ Goes(h, "counted")
    /\ UNCHANGED <<hash, redis, fails, recent, history>>

\* POST /login: the counter is read; at the limit the answer is 429.
CheckFailures(h) ==
    /\ At(h, "free") /\ fails < FailLimit
    /\ Goes(h, "counted")
    /\ UNCHANGED <<hash, redis, fails, recent, history>>

VerifyPassword(h) ==
    /\ At(h, "counted")
    /\ \/ handler' = [handler EXCEPT ![h] =
                         [@ EXCEPT !.pc = IF params = "old" THEN "outdated" ELSE "verified",
                                   !.pw = password]]
       \/ Goes(h, "wrong")
    /\ UNCHANGED <<hash, redis, fails, recent, history>>

\* INCR and EXPIRE.
CountFailure(h) ==
    /\ At(h, "wrong")
    /\ fails' = fails + 1
    /\ Ends(h)
    /\ UNCHANGED <<hash, redis, recent, history>>

\* DEL; then the row that was loaded decides whether a new hash is made.
ClearFailures(h) ==
    /\ \/ At(h, "verified") /\ Goes(h, "store")
       \/ At(h, "outdated") /\ Goes(h, "rehash")
    /\ fails' = 0
    /\ UNCHANGED <<hash, redis, recent, history>>

\* The password that was verified is hashed and committed, whatever password
\* the row has by now.
RehashPassword(h) ==
    LET pw == handler[h].pw
    IN /\ At(h, "rehash")
       /\ password' = pw /\ params' = "new"
       /\ revived' = IF pw < changes THEN revived \cup {pw} ELSE revived
       /\ Goes(h, "store")
       /\ UNCHANGED <<changes, redis, fails, recent, history>>

\* LOGIN_FAIL_WINDOW_S after the last failure.
FailuresExpire ==
    /\ fails > 0 /\ fails' = 0
    /\ UNCHANGED <<handler, hash, redis, recent, history>>

\* As Indexed, without SADD for an index that exists.
IndexedOnce(token) == IF index = {} THEN {token} ELSE index
Indexed(token)     == index \cup {token}

Dropping == {h \in Handlers : handler[h].pc \in {"dropping", "dropped"}}

\* store_session, one Redis transaction, at the end of a login and of a change
\* of the password.
StoreSession(h) ==
    LET token == Len(made) + 1
    IN /\ At(h, "store") /\ Len(made) < MaxSessions
       /\ sessions' = sessions \cup {token}
       /\ index' = Indexed(token)
       /\ meta' = meta \cup {token}
       /\ made' = Append(made, handler[h].pw)
       /\ crossed' = IF Dropping # {} \/ handler[h].pw # password
                     THEN crossed \cup {token} ELSE crossed
       /\ Ends(h)
       /\ UNCHANGED <<hash, fails, recent, ended>>

-----------------------------------------------------------------------------
\* As Authenticate, with a principal that does not know its session.
AuthenticateNameless(h, token) ==
    /\ At(h, "free") /\ token \in sessions
    /\ With(h, "known", 0, {})
    /\ UNCHANGED <<hash, redis, fails, recent, history>>

\* current_principal with a cookie: the session's user, then touch_session.
Authenticate(h, token) ==
    /\ At(h, "free") /\ token \in sessions
    /\ With(h, "known", token, {})
    /\ UNCHANGED <<hash, redis, fails, recent, history>>

\* The metadata are read: missing, old, or fresh enough.
ReadMeta(h) ==
    /\ At(h, "known")
    /\ \/ handler[h].token \notin meta /\ Goes(h, "fill")
       \/ handler[h].token \in meta /\ \E pc \in {"touch", "in"} : Goes(h, pc)
    /\ UNCHANGED <<hash, redis, fails, recent, history>>

\* HSET makes the metadata anew if they went away with the session meanwhile.
Touch(h) ==
    /\ handler[h].pc \in {"touch", "fill"}
    /\ meta' = meta \cup {handler[h].token}
    /\ Goes(h, "in")
    /\ UNCHANGED <<hash, sessions, index, fails, recent, history>>

\* Any other route.
Answer(h) ==
    /\ At(h, "in")
    /\ Ends(h)
    /\ UNCHANGED <<hash, redis, fails, recent, history>>

\* POST /logout drops the session of the cookie, DELETE /sessions/<id> one that
\* the index has.
ChooseSession(h) ==
    /\ At(h, "in")
    /\ \E token \in {handler[h].token} \cup index : With(h, "drop", token, {})
    /\ UNCHANGED <<hash, redis, fails, recent, history>>

\* drop_session.
DropKeys(h) ==
    /\ At(h, "drop")
    /\ sessions' = sessions \ {handler[h].token}
    /\ meta' = meta \ {handler[h].token}
    /\ Goes(h, "unindex")
    /\ UNCHANGED <<hash, index, fails, recent, history>>

Unindex(h) ==
    /\ At(h, "unindex")
    /\ index' = index \ {handler[h].token}
    /\ Ends(h)
    /\ UNCHANGED <<hash, sessions, meta, fails, recent, history>>

\* list_sessions prunes what has expired.
ReadSessions(h) ==
    /\ At(h, "in")
    /\ With(h, "list", 0, index)
    /\ UNCHANGED <<hash, redis, fails, recent, history>>

PruneSession(h) ==
    /\ At(h, "list")
    /\ \E token \in handler[h].seen :
         /\ With(h, "list", 0, handler[h].seen \ {token})
         /\ index' = IF token \in sessions THEN index ELSE index \ {token}
         /\ meta' = IF token \in sessions THEN meta ELSE meta \ {token}
    /\ UNCHANGED <<hash, sessions, fails, recent, history>>

Listed(h) == At(h, "list") /\ handler[h].seen = {} /\ Ends(h)
             /\ UNCHANGED <<hash, redis, fails, recent, history>>

-----------------------------------------------------------------------------
\* POST /password, for a request that knows the password it was loaded with.
ChangePassword(h) ==
    /\ At(h, "in") /\ changes < MaxChanges
    /\ changes' = changes + 1
    /\ password' = changes + 1 /\ params' = "new"
    /\ handler' = [handler EXCEPT ![h] = [@ EXCEPT !.pc = "changed", !.pw = changes + 1]]
    /\ UNCHANGED <<revived, redis, fails, recent, history>>

\* As ReadIndex, for the session of the request only.
ReadOwn(h) ==
    /\ At(h, "changed")
    /\ With(h, "dropping", handler[h].token, index \cap {handler[h].token})
    /\ UNCHANGED <<hash, redis, fails, recent, history>>

\* drop_user_sessions: SMEMBERS, DEL of the keys, DEL of the index.
ReadIndex(h) ==
    /\ At(h, "changed")
    /\ With(h, "dropping", handler[h].token, index)
    /\ UNCHANGED <<hash, redis, fails, recent, history>>

DropSessions(h) ==
    /\ At(h, "dropping")
    /\ sessions' = sessions \ handler[h].seen
    /\ meta' = meta \ handler[h].seen
    /\ With(h, "dropped", 0, {})
    /\ UNCHANGED <<hash, index, fails, recent, history>>

DropIndex(h) ==
    /\ At(h, "dropped")
    /\ index' = {}
    /\ ended' = IF handler[h].pw > ended THEN handler[h].pw ELSE ended
    /\ revived' = revived \cap {password}
    /\ Goes(h, "store")
    /\ UNCHANGED <<password, params, changes, sessions, meta, fails, recent, made, crossed>>

\* session_ttl_days after the login: the metadata have the same expiry as the
\* key; the index goes with the last of the sessions.
SessionExpires(token) ==
    /\ token \in sessions
    /\ sessions' = sessions \ {token} /\ meta' = meta \ {token}
    /\ index' \in {index} \cup (IF sessions' = {} THEN {{}} ELSE {})
    /\ UNCHANGED <<handler, hash, fails, recent, history>>

-----------------------------------------------------------------------------
\* load_agent: a token that is revoked or expired is refused instead.
LoadAgent(h) ==
    /\ At(h, "free")
    /\ Goes(h, "agent")
    /\ UNCHANGED <<hash, redis, fails, recent, history>>

\* As CheckLimit, with the limit itself allowed.
CheckLimitLoosely(h) ==
    /\ At(h, "agent")
    /\ IF recent <= SendLimit THEN Goes(h, "allowed") ELSE Ends(h)
    /\ UNCHANGED <<hash, redis, fails, recent, history>>

\* enforce_agent_send_limit: the rows of the last hour are counted.
CheckLimit(h) ==
    /\ At(h, "agent")
    /\ IF recent < SendLimit THEN Goes(h, "allowed") ELSE Ends(h)
    /\ UNCHANGED <<hash, redis, fails, recent, history>>

\* queue, in a transaction of its own.
QueueMessage(h) ==
    /\ At(h, "allowed")
    /\ recent' = recent + 1
    /\ Ends(h)
    /\ UNCHANGED <<hash, redis, fails, history>>

\* The oldest row is an hour old.
RowAges ==
    /\ recent > 0 /\ recent' = recent - 1
    /\ UNCHANGED <<handler, hash, redis, fails, history>>

\* The client goes away, or the process dies.
Abort(h) ==
    /\ ~At(h, "free")
    /\ Ends(h)
    /\ UNCHANGED <<hash, redis, fails, recent, history>>

-----------------------------------------------------------------------------
Login(h) ==
    \/ CheckFailures(h) \/ VerifyPassword(h) \/ CountFailure(h)
    \/ ClearFailures(h) \/ RehashPassword(h)

Browse(h) ==
    \/ \E token \in sessions : Authenticate(h, token)
    \/ ReadMeta(h) \/ Touch(h) \/ Answer(h)
    \/ ChooseSession(h) \/ DropKeys(h) \/ Unindex(h)
    \/ ReadSessions(h) \/ PruneSession(h) \/ Listed(h)

Replace(h) == ChangePassword(h) \/ ReadIndex(h) \/ DropSessions(h) \/ DropIndex(h)

Send(h) == LoadAgent(h) \/ CheckLimit(h) \/ QueueMessage(h)

Next ==
    \/ \E h \in Handlers :
         Login(h) \/ StoreSession(h) \/ Browse(h) \/ Replace(h) \/ Send(h) \/ Abort(h)
    \/ FailuresExpire \/ RowAges
    \/ \E token \in sessions : SessionExpires(token)

Spec == Init /\ [][Next]_vars

-----------------------------------------------------------------------------
Issued == 1..Len(made)

Requests ==
    [pc : Steps, token : 0..MaxSessions, seen : SUBSET (1..MaxSessions), pw : 0..MaxChanges]

\* Steps at which a request names a session.
Asking == {"known", "touch", "fill", "in", "drop", "unindex"}

TypeOK ==
    /\ handler \in [Handlers -> Requests]
    /\ \A h \in Handlers :
         /\ handler[h].pw <= changes
         /\ handler[h].pc \in Asking => handler[h].token \in Issued
    /\ changes \in 0..MaxChanges /\ {password, ended} \cup revived \subseteq 0..changes
    /\ params \in {"new", "old"}
    /\ made \in Seq(0..changes) /\ Len(made) <= MaxSessions
    /\ sessions \cup index \cup meta \cup crossed \subseteq Issued
    /\ fails \in Nat /\ recent \in Nat

Waiting(pc) == {h \in Handlers : handler[h].pc = pc}

\* The list shows every live session (it leaves out those without metadata), and
\* revoking all of them finds it in the index, unless it was stored while
\* another request was dropping sessions.
SessionsAreIndexed == sessions \subseteq meta /\ sessions \subseteq index \cup crossed

\* auth.py:149: a change of the password that has run to its end leaves no
\* session of an older password, and none comes after it: but for one stored
\* while it ran, or for a password that a login had verified before the change
\* and wrote back over it (auth.py:72-74).  The next change that runs to its end
\* ends the sessions of such a password as well.
ChangeEndsSessions == \A t \in sessions : made[t] < ended => t \in crossed \/ made[t] \in revived

\* However the requests of the user interleave, the wrong passwords counted and
\* about to be counted since the counter expired or a login succeeded are at
\* most the limit and one less than the requests served at the same time.  A
\* request that ends between its password check and INCR is not counted.
GuessesBounded == fails + Cardinality(Waiting("wrong")) <= FailLimit + Cardinality(Handlers) - 1

\* The hourly allowance is exceeded by the requests served at the same time at
\* most (enforce_agent_send_limit and queue are two transactions).
AllowanceBounded == recent + Cardinality(Waiting("allowed")) <= SendLimit + Cardinality(Handlers) - 1
=============================================================================
