---------------------------- MODULE AccessProofs ----------------------------
(***************************************************************************)
(* The properties of Access, proved for any number of concurrent requests  *)
(* and any limits: what is counted stays within its limit, and the index   *)
(* and a change of the password reach the sessions they should.            *)
(***************************************************************************)
EXTENDS Access, FiniteSetTheorems, TLAPS

-----------------------------------------------------------------------------
(***************************************************************************)
(* A step of a request: the others stay where they are.                    *)
(***************************************************************************)
Turns(h, pc) ==
    /\ handler' \in [Handlers -> Requests]
    /\ handler'[h].pc = pc
    /\ \A g \in Handlers \ {h} : handler'[g] = handler[g]

LEMMA GoesTurns ==
  ASSUME TypeOK, NEW h \in Handlers, NEW pc \in Steps, Goes(h, pc)
  PROVE  Turns(h, pc) /\ handler'[h].pw = handler[h].pw /\ handler'[h].token = handler[h].token
BY DEF Goes, Turns, TypeOK, Requests

LEMMA EndsTurns ==
  ASSUME TypeOK, NEW h \in Handlers, Ends(h)
  PROVE  Turns(h, "free") /\ handler'[h].pw = 0
<1>1. Free \in Requests /\ Free.pc = "free" /\ Free.pw = 0
  BY AccessAssumption DEF Free, Requests, Steps
<1> QED BY <1>1 DEF Ends, Turns, TypeOK

LEMMA WithTurns ==
  ASSUME TypeOK, NEW h \in Handlers, NEW pc \in Steps, NEW token \in 0..MaxSessions,
         NEW seen \in SUBSET (1..MaxSessions), With(h, pc, token, seen)
  PROVE  /\ Turns(h, pc) /\ handler'[h].pw = handler[h].pw
         /\ handler'[h].token = token /\ handler'[h].seen = seen
BY DEF With, Turns, TypeOK, Requests

\* Tokens are what a request may remember.
LEMMA Remembered ==
  ASSUME TypeOK
  PROVE  /\ sessions \subseteq 1..MaxSessions /\ index \subseteq 1..MaxSessions
         /\ meta \subseteq 1..MaxSessions
         /\ Len(made) \in Nat /\ MaxSessions \in Nat
BY AccessAssumption DEF TypeOK, Issued

-----------------------------------------------------------------------------
(***************************************************************************)
(* Where each operation takes its request.                                 *)
(***************************************************************************)
Settled == Steps \ {"counted", "wrong", "allowed"}

LEMMA StepNames ==
  /\ {"counted", "wrong", "verified", "outdated", "rehash", "store", "known", "touch", "fill", "in", "drop", "unindex",
      "list", "changed", "dropping", "dropped", "agent", "allowed", "free"} \subseteq Steps
  /\ {"verified", "outdated", "rehash", "store", "known", "touch", "fill", "in", "drop", "unindex", "list", "changed",
      "dropping", "dropped", "agent", "free"} \subseteq Settled
  /\ Asking \cap {"counted", "wrong", "verified", "outdated", "rehash", "store", "list", "changed",
                  "dropping", "dropped", "agent", "allowed", "free"} = {}
BY DEF Steps, Settled, Asking

LEMMA LoginTurns ==
  ASSUME TypeOK, NEW h \in Handlers
  PROVE  /\ CheckFailures(h) => Turns(h, "counted") /\ handler'[h].pw <= changes
         /\ VerifyPassword(h) => \E pc \in {"wrong", "verified", "outdated"} : Turns(h, pc) /\ handler'[h].pw <= changes
         /\ CountFailure(h) => Turns(h, "free") /\ handler'[h].pw <= changes
         /\ ClearFailures(h) => \E pc \in {"store", "rehash"} : Turns(h, pc) /\ handler'[h].pw <= changes
         /\ RehashPassword(h) => Turns(h, "store") /\ handler'[h].pw <= changes
         /\ StoreSession(h) => Turns(h, "free") /\ handler'[h].pw <= changes
<1>p. changes \in 0..MaxChanges /\ password \in 0..changes /\ MaxChanges \in Nat /\ handler[h].pw <= changes
  BY AccessAssumption DEF TypeOK
<1>1. CheckFailures(h) => Turns(h, "counted") /\ handler'[h].pw <= changes
  BY <1>p, GoesTurns, StepNames DEF CheckFailures
<1>2. ASSUME VerifyPassword(h)
      PROVE  \E pc \in {"wrong", "verified", "outdated"} : Turns(h, pc) /\ handler'[h].pw <= changes
  <2>1. CASE Goes(h, "wrong")
    BY <1>p, <2>1, GoesTurns, StepNames
  <2>2. ASSUME NEW pc \in {"verified", "outdated"},
               handler' = [handler EXCEPT ![h] = [@ EXCEPT !.pc = pc, !.pw = password]]
        PROVE  Turns(h, pc) /\ handler'[h].pw <= changes
    <3>1. pc \in Steps /\ password \in 0..MaxChanges
      BY <1>p, StepNames
    <3>2. handler[h] \in Requests /\ handler \in [Handlers -> Requests]
      BY DEF TypeOK
    <3>3. /\ [handler[h] EXCEPT !.pc = pc, !.pw = password] \in Requests
          /\ [handler[h] EXCEPT !.pc = pc, !.pw = password].pc = pc
          /\ [handler[h] EXCEPT !.pc = pc, !.pw = password].pw = password
      BY <3>1, <3>2 DEF Requests
    <3> QED BY <1>p, <2>2, <3>2, <3>3 DEF Turns
  <2> QED BY <1>2, <2>1, <2>2 DEF VerifyPassword
<1>3. CountFailure(h) => Turns(h, "free") /\ handler'[h].pw <= changes
  BY <1>p, EndsTurns DEF CountFailure
<1>4. /\ ClearFailures(h) => \E pc \in {"store", "rehash"} : Turns(h, pc) /\ handler'[h].pw <= changes
      /\ RehashPassword(h) => Turns(h, "store") /\ handler'[h].pw <= changes
  BY <1>p, GoesTurns, StepNames DEF ClearFailures, RehashPassword
<1>5. StoreSession(h) => Turns(h, "free") /\ handler'[h].pw <= changes
  BY <1>p, EndsTurns DEF StoreSession
<1> QED BY <1>1, <1>2, <1>3, <1>4, <1>5

LEMMA BrowseTurns ==
  ASSUME TypeOK, NEW h \in Handlers, Browse(h)
  PROVE  \E pc \in Settled :
           /\ Turns(h, pc) /\ handler'[h].pw <= changes
           /\ pc \in Asking => handler'[h].token \in Issued
<1>p. /\ changes \in 0..MaxChanges /\ password \in 0..changes /\ MaxChanges \in Nat /\ handler[h].pw <= changes
      /\ sessions \subseteq Issued
      /\ handler[h].pc \in Asking => handler[h].token \in Issued
  BY AccessAssumption DEF TypeOK
<1>1. ASSUME NEW token \in sessions, Authenticate(h, token)
      PROVE  \E pc \in Settled :
               /\ Turns(h, pc) /\ handler'[h].pw <= changes
               /\ pc \in Asking => handler'[h].token \in Issued
  <2>1. token \in 0..MaxSessions /\ {} \in SUBSET (1..MaxSessions)
    BY Remembered
  <2> QED BY <1>p, <1>1, <2>1, WithTurns, StepNames DEF Authenticate
<1>2. CASE ReadMeta(h)
  <2>1. handler[h].pc \in Asking /\ \E pc \in {"fill", "touch", "in"} : Goes(h, pc)
    BY <1>2 DEF ReadMeta, At, Asking
  <2> QED BY <1>p, <2>1, GoesTurns, StepNames
<1>7. CASE Touch(h) \/ DropKeys(h)
  <2>1. handler[h].pc \in Asking /\ \E pc \in {"in", "unindex"} : Goes(h, pc)
    BY <1>7 DEF Touch, DropKeys, At, Asking
  <2> QED BY <1>p, <2>1, GoesTurns, StepNames
<1>3. CASE Answer(h) \/ Unindex(h) \/ Listed(h)
  BY <1>p, <1>3, EndsTurns, StepNames DEF Answer, Unindex, Listed
<1>4. CASE ChooseSession(h)
  <2>1. PICK token \in {handler[h].token} \cup index : With(h, "drop", token, {})
    BY <1>4 DEF ChooseSession
  <2>2. token \in 0..MaxSessions /\ {} \in SUBSET (1..MaxSessions)
    BY Remembered DEF TypeOK, Requests
  <2>3. token \in Issued
    BY <1>4, <2>1 DEF ChooseSession, At, Asking, TypeOK
  <2> QED BY <1>p, <2>1, <2>2, <2>3, WithTurns, StepNames
<1>5. CASE ReadSessions(h)
  <2>1. With(h, "list", 0, index) /\ 0 \in 0..MaxSessions /\ index \in SUBSET (1..MaxSessions)
    BY <1>5, Remembered DEF ReadSessions
  <2> QED BY <1>p, <2>1, WithTurns, StepNames
<1>6. CASE PruneSession(h)
  <2>1. PICK token \in handler[h].seen : With(h, "list", 0, handler[h].seen \ {token})
    BY <1>6 DEF PruneSession
  <2>2. 0 \in 0..MaxSessions /\ handler[h].seen \ {token} \in SUBSET (1..MaxSessions)
    BY Remembered DEF TypeOK, Requests
  <2> QED BY <1>p, <2>1, <2>2, WithTurns, StepNames
<1> QED BY <1>1, <1>2, <1>3, <1>4, <1>5, <1>6, <1>7 DEF Browse

LEMMA ReplaceTurns ==
  ASSUME TypeOK, NEW h \in Handlers, Replace(h)
  PROVE  \E pc \in Settled : Turns(h, pc) /\ handler'[h].pw <= changes' /\ pc \notin Asking
<1>p. /\ changes \in 0..MaxChanges /\ password \in 0..changes /\ MaxChanges \in Nat /\ handler[h].pw <= changes
      /\ handler[h].pw \in Nat
  BY AccessAssumption DEF TypeOK, Requests
<1>1. CASE ChangePassword(h)
  <2>1. changes' = changes + 1 /\ changes + 1 \in 0..MaxChanges
    BY <1>p, <1>1 DEF ChangePassword
  <2>2. [handler[h] EXCEPT !.pc = "changed", !.pw = changes + 1] \in Requests
    BY <2>1, StepNames DEF TypeOK, Requests
  <2>3. handler' = [handler EXCEPT ![h] = [handler[h] EXCEPT !.pc = "changed", !.pw = changes + 1]]
    BY <1>1 DEF ChangePassword
  <2>4. Turns(h, "changed") /\ handler'[h].pw = changes + 1
    BY <2>2, <2>3 DEF Turns, TypeOK, Requests
  <2> QED BY <1>p, <2>1, <2>4, StepNames
<1>2. CASE ReadIndex(h)
  <2>1. /\ With(h, "dropping", handler[h].token, index) /\ changes' = changes
        /\ handler[h].token \in 0..MaxSessions /\ index \in SUBSET (1..MaxSessions)
    BY <1>2, Remembered DEF ReadIndex, hash, TypeOK, Requests
  <2> QED BY <1>p, <2>1, WithTurns, StepNames
<1>3. CASE DropSessions(h)
  <2>1. /\ With(h, "dropped", 0, {}) /\ changes' = changes
        /\ 0 \in 0..MaxSessions /\ {} \in SUBSET (1..MaxSessions)
    BY <1>3, Remembered DEF DropSessions, hash
  <2> QED BY <1>p, <2>1, WithTurns, StepNames
<1>4. CASE DropIndex(h)
  BY <1>p, <1>4, GoesTurns, StepNames DEF DropIndex
<1> QED BY <1>1, <1>2, <1>3, <1>4 DEF Replace

LEMMA SendTurns ==
  ASSUME TypeOK, NEW h \in Handlers
  PROVE  /\ LoadAgent(h) => Turns(h, "agent") /\ handler'[h].pw <= changes
         /\ CheckLimit(h) => \E pc \in {"allowed", "free"} :
                               /\ Turns(h, pc) /\ handler'[h].pw <= changes
                               /\ pc = "allowed" => recent < SendLimit
         /\ QueueMessage(h) => Turns(h, "free") /\ handler'[h].pw <= changes
         /\ Abort(h) => Turns(h, "free") /\ handler'[h].pw <= changes
<1>p. changes \in 0..MaxChanges /\ password \in 0..changes /\ MaxChanges \in Nat /\ handler[h].pw <= changes
  BY AccessAssumption DEF TypeOK
<1>1. LoadAgent(h) => Turns(h, "agent") /\ handler'[h].pw <= changes
  BY <1>p, GoesTurns, StepNames DEF LoadAgent
<1>2. ASSUME CheckLimit(h)
      PROVE  \E pc \in {"allowed", "free"} :
               /\ Turns(h, pc) /\ handler'[h].pw <= changes
               /\ pc = "allowed" => recent < SendLimit
  <2>1. CASE recent < SendLimit
    BY <1>p, <1>2, <2>1, GoesTurns, StepNames DEF CheckLimit
  <2>2. CASE ~(recent < SendLimit)
    BY <1>p, <1>2, <2>2, EndsTurns, StepNames DEF CheckLimit
  <2> QED BY <2>1, <2>2
<1>3. QueueMessage(h) \/ Abort(h) => Turns(h, "free") /\ handler'[h].pw <= changes
  BY <1>p, EndsTurns DEF QueueMessage, Abort
<1> QED BY <1>1, <1>2, <1>3

-----------------------------------------------------------------------------
(***************************************************************************)
(* Types: of the requests, and of what they work on.                       *)
(***************************************************************************)
HandlerType ==
    /\ handler \in [Handlers -> Requests]
    /\ \A h \in Handlers :
         /\ handler[h].pw <= changes
         /\ handler[h].pc \in Asking => handler[h].token \in Issued

RedisType ==
    sessions \cup index \cup meta \cup crossed \subseteq Issued

RestType ==
    /\ changes \in 0..MaxChanges /\ {password, ended} \cup revived \subseteq 0..changes
    /\ params \in {"new", "old"}
    /\ made \in Seq(0..changes) /\ Len(made) <= MaxSessions
    /\ fails \in Nat /\ recent \in Nat

LEMMA TypeParts == (TypeOK <=> HandlerType /\ RedisType /\ RestType)
                   /\ (TypeOK' <=> HandlerType' /\ RedisType' /\ RestType')
BY DEF TypeOK, HandlerType, RedisType, RestType, Issued

LEMMA TypeInit == Init => TypeOK
<1> SUFFICES ASSUME Init PROVE TypeOK
  OBVIOUS
<1>1. MaxSessions \in Nat /\ MaxChanges \in Nat
  BY AccessAssumption
<1>2. Free \in Requests /\ Free.pw <= 0 /\ Free.pc \notin Asking
  BY <1>1 DEF Free, Requests, Steps, Asking
<1>3. HandlerType
  BY <1>2 DEF Init, HandlerType
<1>4. RedisType
  BY DEF Init, RedisType, Issued
<1>5. RestType
  BY <1>1 DEF Init, RestType
<1> QED BY <1>3, <1>4, <1>5, TypeParts

\* What leaves Redis, and what was made of it, alone.
Idle(h) ==
    \/ Login(h) \/ Send(h) \/ Abort(h) \/ ReadMeta(h) \/ Answer(h) \/ ChooseSession(h)
    \/ ReadSessions(h) \/ Listed(h) \/ ChangePassword(h) \/ ReadIndex(h)
    \/ \E token \in sessions : Authenticate(h, token)

LEMMA IdleRedis ==
  ASSUME NEW h \in Handlers, Idle(h)
  PROVE  UNCHANGED <<sessions, index, meta, made, crossed, ended>> /\ revived \subseteq revived'
BY DEF Idle, Login, Send, CheckFailures, VerifyPassword, CountFailure, ClearFailures, RehashPassword, LoadAgent,
       CheckLimit, QueueMessage, Abort, ReadMeta, Answer, ChooseSession, ReadSessions, Listed,
       ChangePassword, ReadIndex, Authenticate, redis, history, hash

LEMMA HandlerStep == TypeOK /\ [Next]_vars => HandlerType'
<1> SUFFICES ASSUME TypeOK, [Next]_vars PROVE HandlerType'
  OBVIOUS
<1>0. changes \in 0..MaxChanges /\ password \in 0..changes /\ MaxChanges \in Nat /\ \A h \in Handlers : handler[h].pw \in Nat
  BY AccessAssumption DEF TypeOK, Requests
<1>i. Issued \subseteq Issued'
  <2>1. made' = made \/ \E h \in Handlers : made' = Append(made, handler[h].pw)
    BY IdleRedis DEF Next, Idle, Browse, Replace, StoreSession, Touch, DropKeys, Unindex, PruneSession,
           DropSessions, DropIndex, FailuresExpire, RowAges, SessionExpires, vars, history
  <2>2. made \in Seq(0..changes) /\ \A h \in Handlers : handler[h].pw \in 0..changes
    BY <1>0 DEF TypeOK
  <2> QED BY <2>1, <2>2 DEF Issued
<1>1. ASSUME NEW h \in Handlers, NEW pc, Turns(h, pc), handler'[h].pw <= changes',
             changes' = changes \/ changes' = changes + 1,
             pc \in Asking => handler'[h].token \in Issued
      PROVE  HandlerType'
  <2>1. \A g \in Handlers : /\ handler'[g].pw <= changes'
                            /\ handler'[g].pc \in Asking => handler'[g].token \in Issued'
    BY <1>0, <1>1, <1>i DEF Turns, TypeOK
  <2> QED BY <1>1, <2>1 DEF Turns, HandlerType
<1>2. ASSUME NEW h \in Handlers, Login(h) \/ StoreSession(h) PROVE HandlerType'
  <2>1. changes' = changes
    BY <1>2 DEF Login, CheckFailures, VerifyPassword, CountFailure, ClearFailures, RehashPassword, StoreSession, hash
  <2>2. \E pc \in Steps : Turns(h, pc) /\ handler'[h].pw <= changes /\ pc \notin Asking
    BY <1>2, LoginTurns, StepNames DEF Login
  <2> QED BY <1>1, <2>1, <2>2
<1>3. ASSUME NEW h \in Handlers, Browse(h) PROVE HandlerType'
  <2>1. changes' = changes
    BY <1>3 DEF Browse, Authenticate, ReadMeta, Touch, Answer, ChooseSession, DropKeys, Unindex,
                ReadSessions, PruneSession, Listed, hash
  <2> QED BY <1>1, <1>3, <2>1, BrowseTurns
<1>4. ASSUME NEW h \in Handlers, Replace(h) PROVE HandlerType'
  <2>1. changes' = changes \/ changes' = changes + 1
    BY <1>4 DEF Replace, ChangePassword, ReadIndex, DropSessions, DropIndex, hash
  <2> QED BY <1>1, <1>4, <2>1, ReplaceTurns
<1>5. ASSUME NEW h \in Handlers, Send(h) \/ Abort(h) PROVE HandlerType'
  <2>1. changes' = changes
    BY <1>5 DEF Send, LoadAgent, CheckLimit, QueueMessage, Abort, hash
  <2>2. \E pc \in Steps : Turns(h, pc) /\ handler'[h].pw <= changes /\ pc \notin Asking
    BY <1>5, SendTurns, StepNames DEF Send
  <2> QED BY <1>1, <2>1, <2>2
<1>6. CASE UNCHANGED <<handler, changes>>
  BY <1>6, <1>i DEF HandlerType, TypeOK
<1>7. FailuresExpire \/ RowAges \/ (\E token \in sessions : SessionExpires(token))
      \/ UNCHANGED vars => UNCHANGED <<handler, changes>>
  BY DEF FailuresExpire, RowAges, SessionExpires, vars, hash
<1> QED BY <1>2, <1>3, <1>4, <1>5, <1>6, <1>7 DEF Next

LEMMA RedisStep == TypeOK /\ [Next]_vars => RedisType'
<1> SUFFICES ASSUME TypeOK, [Next]_vars PROVE RedisType'
  OBVIOUS
<1>0. RedisType /\ RestType /\ Len(made) \in Nat
  BY TypeParts, Remembered
<1>1. CASE UNCHANGED <<sessions, index, meta, made, crossed>>
  BY <1>0, <1>1 DEF RedisType, Issued
<1>2. ASSUME NEW h \in Handlers, StoreSession(h) PROVE RedisType'
  <2> DEFINE token == Len(made) + 1
  <2>1. /\ sessions' = sessions \cup {token} /\ index' = index \cup {token} /\ meta' = meta \cup {token}
        /\ made' = Append(made, handler[h].pw)
        /\ crossed' \subseteq crossed \cup {token}
    BY <1>2 DEF StoreSession, Indexed
  <2>2. Len(made') = token
    BY <2>1, <1>0 DEF RestType
  <2>3. Issued \cup {token} \subseteq Issued'
    BY <1>0, <2>2 DEF Issued
  <2> QED BY <1>0, <2>1, <2>3 DEF RedisType
<1>3. ASSUME NEW h \in Handlers, Touch(h) PROVE RedisType'
  <2>1. handler[h].token \in Issued
    BY <1>3 DEF Touch, TypeOK, Asking
  <2>2. meta' = meta \cup {handler[h].token} /\ UNCHANGED <<sessions, index, crossed, made>>
    BY <1>3 DEF Touch, history
  <2> QED BY <1>0, <2>1, <2>2 DEF RedisType, Issued
<1>4. ASSUME NEW h \in Handlers, DropKeys(h) \/ Unindex(h) \/ PruneSession(h) \/ DropSessions(h) \/ DropIndex(h)
      PROVE  RedisType'
  <2>1. /\ sessions' \subseteq sessions /\ index' \subseteq index /\ meta' \subseteq meta
        /\ UNCHANGED <<crossed, made>>
    BY <1>4 DEF DropKeys, Unindex, PruneSession, DropSessions, DropIndex, history
  <2> QED BY <1>0, <2>1 DEF RedisType, Issued
<1>5. ASSUME NEW token \in sessions, SessionExpires(token) PROVE RedisType'
  <2>1. /\ sessions' \subseteq sessions /\ index' \subseteq index /\ meta' \subseteq meta
        /\ UNCHANGED <<crossed, made>>
    BY <1>5 DEF SessionExpires, history
  <2> QED BY <1>0, <2>1 DEF RedisType, Issued
<1>6. CASE FailuresExpire \/ RowAges \/ UNCHANGED vars
  BY <1>1, <1>6 DEF FailuresExpire, RowAges, vars, redis, history
<1> QED
  BY <1>1, <1>2, <1>3, <1>4, <1>5, <1>6, IdleRedis DEF Next, Idle, Browse, Replace

LEMMA RestStep == TypeOK /\ [Next]_vars => RestType'
<1> SUFFICES ASSUME TypeOK, [Next]_vars PROVE RestType'
  OBVIOUS
<1>0. RestType /\ MaxChanges \in Nat /\ Len(made) \in Nat /\ MaxSessions \in Nat
  BY TypeParts, AccessAssumption, Remembered
<1>p. \A h \in Handlers : handler[h].pw \in 0..changes
  BY <1>0 DEF TypeOK, Requests
<1>1. ASSUME UNCHANGED <<hash, ended, made>>, fails' \in Nat, recent' \in Nat
      PROVE  RestType'
  BY <1>0, <1>1 DEF RestType, hash
<1>2. ASSUME NEW h \in Handlers, Login(h) PROVE RestType'
  <2>1. CASE RehashPassword(h)
    <3>1. /\ password' = handler[h].pw /\ params' = "new" /\ revived' \subseteq revived \cup {handler[h].pw}
          /\ UNCHANGED <<changes, fails, recent, ended, made>>
      BY <2>1 DEF RehashPassword, history
    <3> QED BY <1>0, <1>p, <3>1 DEF RestType
  <2>2. CASE ~RehashPassword(h)
    <3>1. UNCHANGED <<hash, ended, made, recent>> /\ fails' \in {fails, fails + 1, 0}
      BY <1>2, <2>2 DEF Login, CheckFailures, VerifyPassword, CountFailure, ClearFailures, history
    <3>2. fails' \in Nat /\ recent' \in Nat
      BY <1>0, <3>1 DEF RestType
    <3> QED BY <1>1, <3>1, <3>2
  <2> QED BY <2>1, <2>2
<1>3. ASSUME NEW h \in Handlers, StoreSession(h) PROVE RestType'
  <2>1. /\ made' = Append(made, handler[h].pw) /\ Len(made) < MaxSessions
        /\ UNCHANGED <<password, params, changes, revived, ended, fails, recent>>
    BY <1>3 DEF StoreSession, hash
  <2>2. made' \in Seq(0..changes) /\ Len(made') = Len(made) + 1
    BY <1>0, <1>p, <2>1 DEF RestType
  <2> QED BY <1>0, <2>1, <2>2 DEF RestType
<1>4. ASSUME NEW h \in Handlers, Browse(h) PROVE RestType'
  <2>1. UNCHANGED <<hash, ended, made, fails, recent>>
    BY <1>4 DEF Browse, Authenticate, ReadMeta, Touch, Answer, ChooseSession, DropKeys,
         Unindex, ReadSessions, PruneSession, Listed, history
  <2> QED BY <1>0, <1>1, <2>1 DEF RestType
<1>5. ASSUME NEW h \in Handlers, Replace(h) PROVE RestType'
  <2>1. CASE ReadIndex(h) \/ DropSessions(h)
    <3>1. UNCHANGED <<hash, ended, made, fails, recent>>
      BY <2>1 DEF ReadIndex, DropSessions, history
    <3> QED BY <1>0, <1>1, <3>1 DEF RestType
  <2>2. CASE ChangePassword(h)
    <3>1. /\ changes' = changes + 1 /\ changes < MaxChanges /\ password' = changes + 1 /\ params' = "new"
          /\ UNCHANGED <<revived, ended, made, fails, recent>>
      BY <2>2 DEF ChangePassword, history
    <3>2. 0..changes \subseteq 0..changes' /\ changes' \in 0..MaxChanges /\ password' \in 0..changes'
      BY <1>0, <3>1 DEF RestType
    <3> QED BY <1>0, <3>1, <3>2 DEF RestType
  <2>3. CASE DropIndex(h)
    <3>1. /\ ended' \in {handler[h].pw, ended} /\ revived' \subseteq revived
          /\ UNCHANGED <<password, params, changes, made, fails, recent>>
      BY <2>3 DEF DropIndex
    <3>2. ended' \in 0..changes
      BY <1>0, <1>p, <3>1 DEF RestType
    <3> QED BY <1>0, <3>1, <3>2 DEF RestType
  <2> QED BY <1>5, <2>1, <2>2, <2>3 DEF Replace
<1>6. ASSUME NEW h \in Handlers, Send(h) \/ Abort(h) PROVE RestType'
  <2>1. UNCHANGED <<hash, ended, made, fails>> /\ recent' \in {recent, recent + 1}
    BY <1>6 DEF Send, LoadAgent, CheckLimit, QueueMessage, Abort, history
  <2>2. fails' \in Nat /\ recent' \in Nat
    BY <1>0, <2>1 DEF RestType
  <2> QED BY <1>1, <2>1, <2>2
<1>7. CASE FailuresExpire \/ RowAges
  <2>1. /\ UNCHANGED <<hash, ended, made>>
        /\ fails' \in {fails, 0} /\ (recent' = recent \/ (recent > 0 /\ recent' = recent - 1))
    BY <1>7 DEF FailuresExpire, RowAges, history
  <2>2. fails' \in Nat /\ recent' \in Nat
    BY <1>0, <2>1 DEF RestType
  <2> QED BY <1>1, <2>1, <2>2
<1>8. CASE (\E token \in sessions : SessionExpires(token)) \/ UNCHANGED vars
  <2>1. UNCHANGED <<hash, ended, made, fails, recent>>
    BY <1>8 DEF SessionExpires, vars, history
  <2> QED BY <1>0, <1>1, <2>1 DEF RestType
<1> QED BY <1>2, <1>3, <1>4, <1>5, <1>6, <1>7, <1>8 DEF Next

\* TypeOK holds however the requests of a user interleave.
THEOREM AccessTypeCorrect == Spec => []TypeOK
<1>1. TypeOK /\ [Next]_vars => TypeOK'
  BY HandlerStep, RedisStep, RestStep, TypeParts
<1> QED BY <1>1, TypeInit, PTL DEF Spec

-----------------------------------------------------------------------------
(***************************************************************************)
(* The counters.  A request that has read the counter and not yet answered *)
(* may still raise it: counted together they keep the bound, since the one *)
(* that reads the counter below its limit is one of Handlers.              *)
(***************************************************************************)
Guessing == {h \in Handlers : handler[h].pc \in {"counted", "wrong"}}

FewGuesses  == fails + Cardinality(Guessing) <= FailLimit + Cardinality(Handlers) - 1
FewMessages == recent + Cardinality(Waiting("allowed")) <= SendLimit + Cardinality(Handlers) - 1

LEMMA SomeHandlers ==
  ASSUME NEW S, S \subseteq Handlers
  PROVE  /\ Cardinality(S) \in Nat /\ Cardinality(S) <= Cardinality(Handlers)
         /\ \A T \in SUBSET S : Cardinality(T) \in Nat /\ Cardinality(T) <= Cardinality(S)
         /\ \A u \in S : \A T \in SUBSET (S \ {u}) : Cardinality(T) <= Cardinality(S) - 1
<1>1. IsFiniteSet(S) /\ Cardinality(S) \in Nat /\ Cardinality(S) <= Cardinality(Handlers)
  BY AccessAssumption, FS_Subset, FS_CardinalityType
<1>2. \A T \in SUBSET S : Cardinality(T) \in Nat /\ Cardinality(T) <= Cardinality(S)
  BY <1>1, FS_Subset, FS_CardinalityType
<1>3. ASSUME NEW u \in S, NEW T \in SUBSET (S \ {u}) PROVE Cardinality(T) <= Cardinality(S) - 1
  <2>1. Cardinality(S \ {u}) = Cardinality(S) - 1 /\ IsFiniteSet(S \ {u})
    BY <1>1, FS_RemoveElement, FS_Subset
  <2> QED BY <2>1, FS_Subset
<1> QED BY <1>1, <1>2, <1>3

\* A step that adds no request to those that guess or send.
LEMMA CountersKept ==
  ASSUME TypeOK, TypeOK', FewGuesses, FewMessages, fails' <= fails, recent' <= recent,
         Guessing' \subseteq Guessing, Waiting("allowed")' \subseteq Waiting("allowed")
  PROVE  FewGuesses' /\ FewMessages'
<1>1. /\ Guessing \subseteq Handlers /\ Waiting("allowed") \subseteq Handlers /\ Handlers \subseteq Handlers
      /\ {fails, fails', recent, recent', FailLimit, SendLimit} \subseteq Nat
  BY AccessAssumption DEF Guessing, Waiting, TypeOK
<1>2. /\ Cardinality(Guessing') <= Cardinality(Guessing)
      /\ Cardinality(Waiting("allowed")') <= Cardinality(Waiting("allowed"))
      /\ {Cardinality(Guessing), Cardinality(Guessing'), Cardinality(Handlers),
          Cardinality(Waiting("allowed")), Cardinality(Waiting("allowed")')} \subseteq Nat
  BY <1>1, SomeHandlers
<1> QED BY <1>1, <1>2 DEF FewGuesses, FewMessages

LEMMA CountersStep == TypeOK /\ TypeOK' /\ FewGuesses /\ FewMessages /\ [Next]_vars => FewGuesses' /\ FewMessages'
<1> SUFFICES ASSUME TypeOK, TypeOK', FewGuesses, FewMessages, [Next]_vars
             PROVE  FewGuesses' /\ FewMessages'
  OBVIOUS
<1>0. /\ Guessing \subseteq Handlers /\ Guessing' \subseteq Handlers
      /\ Waiting("allowed") \subseteq Handlers /\ Waiting("allowed")' \subseteq Handlers
      /\ {fails, fails', recent, recent', FailLimit, SendLimit} \subseteq Nat
  BY AccessAssumption DEF Guessing, Waiting, TypeOK
<1>c. /\ {Cardinality(Guessing), Cardinality(Guessing'), Cardinality(Handlers),
          Cardinality(Waiting("allowed")), Cardinality(Waiting("allowed")')} \subseteq Nat
      /\ Cardinality(Guessing') <= Cardinality(Handlers)
      /\ Cardinality(Waiting("allowed")') <= Cardinality(Handlers)
  BY <1>0, SomeHandlers
<1>1. ASSUME NEW h \in Handlers, NEW pc \in Settled, Turns(h, pc), fails' <= fails, recent' <= recent
      PROVE  FewGuesses' /\ FewMessages'
  <2>1. Guessing' \subseteq Guessing /\ Waiting("allowed")' \subseteq Waiting("allowed")
    BY <1>1 DEF Turns, Guessing, Waiting, Settled
  <2> QED BY <1>1, <2>1, CountersKept
<1>2. ASSUME NEW h \in Handlers, CheckFailures(h) PROVE FewGuesses' /\ FewMessages'
  <2>1. Turns(h, "counted") /\ fails' = fails /\ recent' = recent /\ fails < FailLimit
    BY <1>2, LoginTurns DEF CheckFailures
  <2>2. Waiting("allowed")' \subseteq Waiting("allowed")
    BY <2>1 DEF Turns, Waiting
  <2>3. Cardinality(Waiting("allowed")') <= Cardinality(Waiting("allowed"))
    BY <1>0, <2>2, SomeHandlers
  <2> QED BY <1>0, <1>c, <2>1, <2>3 DEF FewGuesses, FewMessages
<1>3. ASSUME NEW h \in Handlers, VerifyPassword(h) PROVE FewGuesses' /\ FewMessages'
  <2>1. fails' = fails /\ recent' = recent /\ h \in Guessing
    BY <1>3 DEF VerifyPassword, Guessing, At
  <2>2. \E pc \in {"wrong", "verified", "outdated"} : Turns(h, pc)
    BY <1>3, LoginTurns
  <2>3. Guessing' \subseteq Guessing /\ Waiting("allowed")' \subseteq Waiting("allowed")
    BY <2>1, <2>2 DEF Turns, Guessing, Waiting
  <2> QED BY <1>0, <2>1, <2>3, CountersKept
<1>4. ASSUME NEW h \in Handlers, CountFailure(h) PROVE FewGuesses' /\ FewMessages'
  <2>1. Turns(h, "free") /\ fails' = fails + 1 /\ recent' = recent /\ h \in Guessing
    BY <1>4, LoginTurns DEF CountFailure, Guessing, At
  <2>2. Guessing' \subseteq Guessing \ {h} /\ Waiting("allowed")' \subseteq Waiting("allowed")
    BY <2>1 DEF Turns, Guessing, Waiting
  <2>3. /\ Cardinality(Guessing') <= Cardinality(Guessing) - 1
        /\ Cardinality(Waiting("allowed")') <= Cardinality(Waiting("allowed"))
    BY <1>0, <2>1, <2>2, SomeHandlers
  <2> QED BY <1>0, <1>c, <2>1, <2>3 DEF FewGuesses, FewMessages
<1>5. ASSUME NEW h \in Handlers, ClearFailures(h) \/ RehashPassword(h) \/ StoreSession(h)
      PROVE  FewGuesses' /\ FewMessages'
  <2>1. fails' <= fails /\ recent' = recent
    BY <1>0, <1>5 DEF ClearFailures, RehashPassword, StoreSession
  <2> QED BY <1>0, <1>1, <1>5, <2>1, LoginTurns, StepNames
<1>6. ASSUME NEW h \in Handlers, Browse(h) PROVE FewGuesses' /\ FewMessages'
  <2>1. fails' = fails /\ recent' = recent
    BY <1>6 DEF Browse, Authenticate, ReadMeta, Touch, Answer, ChooseSession, DropKeys,
       Unindex, ReadSessions, PruneSession, Listed
  <2> QED BY <1>0, <1>1, <1>6, <2>1, BrowseTurns
<1>7. ASSUME NEW h \in Handlers, Replace(h) PROVE FewGuesses' /\ FewMessages'
  <2>1. fails' = fails /\ recent' = recent
    BY <1>7 DEF Replace, ChangePassword, ReadIndex, DropSessions, DropIndex
  <2> QED BY <1>0, <1>1, <1>7, <2>1, ReplaceTurns
<1>8. ASSUME NEW h \in Handlers, LoadAgent(h) \/ Abort(h) PROVE FewGuesses' /\ FewMessages'
  <2>1. fails' = fails /\ recent' = recent
    BY <1>8 DEF LoadAgent, Abort
  <2> QED BY <1>0, <1>1, <1>8, <2>1, SendTurns, StepNames
<1>9. ASSUME NEW h \in Handlers, CheckLimit(h) PROVE FewGuesses' /\ FewMessages'
  <2>1. fails' = fails /\ recent' = recent
    BY <1>9 DEF CheckLimit
  <2>2. PICK pc \in {"allowed", "free"} : Turns(h, pc) /\ (pc = "allowed" => recent < SendLimit)
    BY <1>9, SendTurns
  <2>3. CASE pc = "free"
    BY <1>0, <1>1, <2>1, <2>2, <2>3, StepNames
  <2>4. CASE pc = "allowed"
    <3>1. Guessing' \subseteq Guessing
      BY <2>2, <2>4 DEF Turns, Guessing
    <3>2. Cardinality(Guessing') <= Cardinality(Guessing)
      BY <1>0, <3>1, SomeHandlers
    <3> QED BY <1>0, <1>c, <2>1, <2>2, <2>4, <3>2 DEF FewGuesses, FewMessages
  <2> QED BY <2>3, <2>4
<1>10. ASSUME NEW h \in Handlers, QueueMessage(h) PROVE FewGuesses' /\ FewMessages'
  <2>1. Turns(h, "free") /\ fails' = fails /\ recent' = recent + 1 /\ h \in Waiting("allowed")
    BY <1>10, SendTurns DEF QueueMessage, Waiting, At
  <2>2. Guessing' \subseteq Guessing /\ Waiting("allowed")' \subseteq Waiting("allowed") \ {h}
    BY <2>1 DEF Turns, Guessing, Waiting
  <2>3. /\ Cardinality(Guessing') <= Cardinality(Guessing)
        /\ Cardinality(Waiting("allowed")') <= Cardinality(Waiting("allowed")) - 1
    BY <1>0, <2>1, <2>2, SomeHandlers
  <2> QED BY <1>0, <1>c, <2>1, <2>3 DEF FewGuesses, FewMessages
<1>11. CASE FailuresExpire \/ RowAges \/ (\E token \in sessions : SessionExpires(token))
            \/ UNCHANGED vars
  <2>1. handler' = handler /\ fails' <= fails /\ recent' <= recent
    <3>1. fails \in Nat /\ recent \in Nat
      BY <1>0
    <3>2. CASE FailuresExpire
      BY <3>1, <3>2 DEF FailuresExpire
    <3>3. CASE RowAges
      BY <3>1, <3>3 DEF RowAges
    <3>4. CASE (\E token \in sessions : SessionExpires(token)) \/ UNCHANGED vars
      <4>1. UNCHANGED <<handler, fails, recent>>
        BY <3>4 DEF SessionExpires, vars
      <4> QED BY <3>1, <4>1
    <3> QED BY <1>11, <3>2, <3>3, <3>4
  <2>2. Guessing' \subseteq Guessing /\ Waiting("allowed")' \subseteq Waiting("allowed")
    BY <2>1 DEF Guessing, Waiting
  <2> QED BY <2>1, <2>2, CountersKept
<1> QED
  BY <1>2, <1>3, <1>4, <1>5, <1>6, <1>7, <1>8, <1>9, <1>10, <1>11 DEF Next, Login, Send

LEMMA CountersInit == Init => FewGuesses /\ FewMessages
<1> SUFFICES ASSUME Init PROVE FewGuesses /\ FewMessages
  OBVIOUS
<1>1. /\ \A h \in Handlers : handler[h].pc = "free"
      /\ fails = 0 /\ recent = 0
  BY DEF Init, Free
<1>4. Guessing = {} /\ Waiting("allowed") = {}
  BY <1>1 DEF Guessing, Waiting
<1>2. Cardinality({}) = 0 /\ Cardinality(Handlers) \in Nat
  <2>1. IsFiniteSet(Handlers)
    BY AccessAssumption
  <2> QED BY <2>1, FS_EmptySet, FS_CardinalityType
<1>3. FailLimit \in Nat /\ SendLimit \in Nat /\ FailLimit >= 1 /\ SendLimit >= 1
  BY AccessAssumption
<1>5. fails + Cardinality(Guessing) = 0 /\ recent + Cardinality(Waiting("allowed")) = 0
  BY <1>1, <1>2, <1>4
<1>6. 0 <= FailLimit + Cardinality(Handlers) - 1 /\ 0 <= SendLimit + Cardinality(Handlers) - 1
  BY <1>2, <1>3
<1> QED BY <1>5, <1>6 DEF FewGuesses, FewMessages

LEMMA Counted == Spec => [](TypeOK /\ FewGuesses /\ FewMessages)
BY AccessTypeCorrect, CountersInit, CountersStep, PTL DEF Spec

\* GuessesBounded: the login limit is overrun by the requests served at the
\* same time at most (POST /login reads the counter before it raises it).
THEOREM GuessesAreBounded == Spec => []GuessesBounded
<1>1. TypeOK /\ FewGuesses => GuessesBounded
  <2> SUFFICES ASSUME TypeOK, FewGuesses PROVE GuessesBounded
    OBVIOUS
  <2>1. Waiting("wrong") \subseteq Guessing /\ Guessing \subseteq Handlers
    BY DEF Waiting, Guessing
  <2>2. /\ Cardinality(Waiting("wrong")) <= Cardinality(Guessing)
        /\ Cardinality(Waiting("wrong")) \in Nat /\ Cardinality(Guessing) \in Nat
        /\ Cardinality(Handlers) \in Nat
    BY <2>1, SomeHandlers
  <2>3. fails \in Nat /\ FailLimit \in Nat
    BY AccessAssumption DEF TypeOK
  <2> QED BY <2>2, <2>3 DEF FewGuesses, GuessesBounded
<1> QED BY <1>1, Counted, PTL

\* AllowanceBounded: so is the hourly allowance of an agent token
\* (enforce_agent_send_limit counts, queue inserts).
THEOREM AllowanceIsBounded == Spec => []AllowanceBounded
<1>1. FewMessages => AllowanceBounded
  BY DEF FewMessages, AllowanceBounded
<1> QED BY <1>1, Counted, PTL

-----------------------------------------------------------------------------
(***************************************************************************)
(* The sessions.  What a request that drops sessions has yet to drop, and  *)
(* what it need not, is in what it read of the index or crossed it; after  *)
(* that nothing is left but what crossed it.                               *)
(***************************************************************************)
Found == sessions \subseteq index \cup crossed

Dropped ==
    \A h \in Handlers :
      /\ At(h, "dropping") => sessions \subseteq handler[h].seen \cup crossed
      /\ At(h, "dropped")  => sessions \subseteq crossed
      /\ At(h, "unindex")  => handler[h].token \notin sessions

SessionsInv == Found /\ Dropped /\ ChangeEndsSessions

\* A password in place that is not of the last change was written back.
Revived == password < changes => password \in revived

Shown == sessions \subseteq meta

\* A step that adds no session and begins to drop none.
LEMMA SessionsKept ==
  ASSUME TypeOK, SessionsInv, NEW h \in Handlers, NEW pc \in Steps \ {"dropping", "dropped", "unindex"},
         Turns(h, pc), sessions' \subseteq sessions, sessions' \cap index \subseteq index',
         UNCHANGED <<made, crossed, ended>>, revived \subseteq revived'
  PROVE  SessionsInv'
<1>1. Found' /\ ChangeEndsSessions'
  BY DEF SessionsInv, Found, ChangeEndsSessions
<1>2. Dropped'
  BY DEF SessionsInv, Dropped, At, Turns
<1> QED BY <1>1, <1>2 DEF SessionsInv

LEMMA SessionsOfStore ==
  ASSUME TypeOK, Revived, SessionsInv, NEW h \in Handlers, StoreSession(h)
  PROVE  SessionsInv'
<1> DEFINE token == Len(made) + 1
<1>1. /\ Turns(h, "free") /\ sessions' = sessions \cup {token} /\ index' = index \cup {token}
      /\ made' = Append(made, handler[h].pw) /\ ended' = ended
      /\ crossed' = IF Dropping # {} \/ handler[h].pw # password THEN crossed \cup {token} ELSE crossed
      /\ revived' = revived
  BY LoginTurns DEF StoreSession, Indexed, hash
<1>2. /\ handler[h].pw \in Nat /\ changes \in Nat /\ ended \in Nat /\ ended <= changes
      /\ made \in Seq(0..changes) /\ Len(made) \in Nat
      /\ sessions \subseteq Issued /\ token \notin Issued
  BY Remembered DEF TypeOK, Requests, Issued
<1>3. Found'
  BY <1>1 DEF SessionsInv, Found
<1>4. ASSUME NEW t \in sessions', made'[t] < ended PROVE t \in crossed' \/ made'[t] \in revived
  <2>1. CASE t = token
    <3>1. made'[t] = handler[h].pw
      BY <1>1, <1>2, <2>1
    <3>2. CASE handler[h].pw # password
      BY <1>1, <2>1, <3>2
    <3>3. CASE handler[h].pw = password
      BY <1>2, <1>4, <3>1, <3>3 DEF Revived
    <3> QED BY <3>2, <3>3
  <2>2. CASE t # token
    <3>1. t \in sessions /\ t \in 1..Len(made)
      BY <1>1, <1>2, <1>4, <2>2 DEF Issued
    <3>2. made'[t] = made[t]
      BY <1>1, <1>2, <3>1
    <3> QED BY <1>1, <1>4, <3>1, <3>2 DEF SessionsInv, ChangeEndsSessions
  <2> QED BY <2>1, <2>2
<1>5. ASSUME NEW g \in Handlers
      PROVE  /\ At(g, "dropping")' => sessions' \subseteq handler'[g].seen \cup crossed'
             /\ At(g, "dropped")'  => sessions' \subseteq crossed'
             /\ At(g, "unindex")'  => handler'[g].token \notin sessions'
  <2>1. CASE g = h
    BY <1>1, <2>1 DEF Turns, At
  <2>2. CASE g # h
    <3>1. handler'[g] = handler[g]
      BY <1>1, <2>2 DEF Turns
    <3>2. ASSUME handler[g].pc \in {"dropping", "dropped"} PROVE crossed' = crossed \cup {token}
      BY <1>1, <3>2 DEF Dropping
    <3>3. At(g, "dropping")' => sessions' \subseteq handler'[g].seen \cup crossed'
      BY <1>1, <3>1, <3>2 DEF At, SessionsInv, Dropped
    <3>4. At(g, "dropped")' => sessions' \subseteq crossed'
      BY <1>1, <3>1, <3>2 DEF At, SessionsInv, Dropped
    <3>5. At(g, "unindex")' => handler'[g].token \notin sessions'
      <4>1. At(g, "unindex") => handler[g].token \in Issued
        BY DEF At, Asking, TypeOK
      <4> QED BY <1>1, <1>2, <3>1, <4>1 DEF At, SessionsInv, Dropped
    <3> QED BY <3>3, <3>4, <3>5
  <2> QED BY <2>1, <2>2
<1>6. Dropped'
  BY <1>5 DEF Dropped
<1>7. ChangeEndsSessions'
  BY <1>1, <1>4 DEF ChangeEndsSessions
<1> QED BY <1>3, <1>6, <1>7 DEF SessionsInv

LEMMA SessionsOfBrowse ==
  ASSUME TypeOK, SessionsInv, NEW h \in Handlers, Browse(h)
  PROVE  SessionsInv'
<1>1. CASE \/ \E token \in sessions : Authenticate(h, token)
           \/ ReadMeta(h) \/ Touch(h) \/ Answer(h) \/ ChooseSession(h) \/ ReadSessions(h) \/ Listed(h)
  <2>1. UNCHANGED <<sessions, index, made, crossed, ended>> /\ revived \subseteq revived'
    BY <1>1, IdleRedis DEF Idle, Touch, history, hash
  <2>2. PICK pc \in Settled : Turns(h, pc)
    BY BrowseTurns
  <2>3. handler'[h].pc \notin {"dropping", "dropped", "unindex"}
    <3>1. ASSUME NEW token \in sessions, Authenticate(h, token) PROVE handler'[h].pc = "known"
      BY <3>1 DEF Authenticate, With, TypeOK, Requests
    <3>2. ReadMeta(h) => handler'[h].pc \in {"fill", "touch", "in"}
      BY DEF ReadMeta, Goes, TypeOK, Requests
    <3>3. Touch(h) => handler'[h].pc = "in"
      BY DEF Touch, Goes, TypeOK, Requests
    <3>4. Answer(h) \/ Listed(h) => handler'[h].pc = "free"
      BY DEF Answer, Listed, Ends, Free, TypeOK, Requests
    <3>5. ChooseSession(h) \/ ReadSessions(h) => handler'[h].pc \in {"drop", "list"}
      BY DEF ChooseSession, ReadSessions, With, TypeOK, Requests
    <3> QED BY <1>1, <3>1, <3>2, <3>3, <3>4, <3>5
  <2>4. pc \in Steps \ {"dropping", "dropped", "unindex"}
    BY <2>2, <2>3 DEF Turns, Settled
  <2> QED BY <2>1, <2>2, <2>4, SessionsKept
<1>2. CASE DropKeys(h)
  <2>1. /\ sessions' = sessions \ {handler[h].token} /\ UNCHANGED <<index, made, crossed, ended, revived>>
        /\ Turns(h, "unindex") /\ handler'[h].token = handler[h].token
    BY <1>2, GoesTurns, StepNames DEF DropKeys, history, hash
  <2>2. Found' /\ ChangeEndsSessions'
    BY <2>1 DEF SessionsInv, Found, ChangeEndsSessions
  <2>3. Dropped'
    BY <2>1 DEF SessionsInv, Dropped, At, Turns
  <2> QED BY <2>2, <2>3 DEF SessionsInv
<1>3. CASE Unindex(h)
  <2>1. /\ index' = index \ {handler[h].token} /\ handler[h].token \notin sessions
        /\ UNCHANGED <<sessions, made, crossed, ended, revived>> /\ Turns(h, "free")
    BY <1>3, EndsTurns DEF Unindex, history, hash, SessionsInv, Dropped
  <2> QED BY <2>1, StepNames, SessionsKept
<1>4. CASE PruneSession(h)
  <2>1. PICK token \in handler[h].seen :
          /\ With(h, "list", 0, handler[h].seen \ {token})
          /\ index' = IF token \in sessions THEN index ELSE index \ {token}
    BY <1>4 DEF PruneSession
  <2>2. 0 \in 0..MaxSessions /\ handler[h].seen \ {token} \in SUBSET (1..MaxSessions)
    BY Remembered DEF TypeOK, Requests
  <2>3. Turns(h, "list")
    BY <2>1, <2>2, WithTurns, StepNames
  <2>4. UNCHANGED <<sessions, made, crossed, ended, revived>>
    BY <1>4 DEF PruneSession, history, hash
  <2> QED BY <2>1, <2>3, <2>4, StepNames, SessionsKept
<1> QED BY <1>1, <1>2, <1>3, <1>4 DEF Browse

LEMMA SessionsOfReplace ==
  ASSUME TypeOK, SessionsInv, NEW h \in Handlers, Replace(h)
  PROVE  SessionsInv'
<1>1. CASE ChangePassword(h)
  <2>1. UNCHANGED <<sessions, index, made, crossed, ended, revived>> /\ handler'[h].pc = "changed"
    BY <1>1 DEF ChangePassword, redis, history, TypeOK, Requests
  <2>2. PICK pc \in Settled : Turns(h, pc)
    BY ReplaceTurns
  <2>3. pc \in Steps \ {"dropping", "dropped", "unindex"}
    BY <2>1, <2>2, StepNames DEF Turns
  <2> QED BY <2>1, <2>2, <2>3, SessionsKept
<1>2. CASE ReadIndex(h)
  <2>1. /\ With(h, "dropping", handler[h].token, index)
        /\ handler[h].token \in 0..MaxSessions /\ index \in SUBSET (1..MaxSessions)
        /\ UNCHANGED <<sessions, index, made, crossed, ended, revived>>
    BY <1>2, Remembered DEF ReadIndex, TypeOK, Requests, redis, history, hash
  <2>2. Turns(h, "dropping") /\ handler'[h].seen = index
    BY <2>1, WithTurns, StepNames
  <2>3. Found' /\ ChangeEndsSessions'
    BY <2>1 DEF SessionsInv, Found, ChangeEndsSessions
  <2>4. Dropped'
    BY <2>1, <2>2 DEF SessionsInv, Found, Dropped, At, Turns
  <2> QED BY <2>3, <2>4 DEF SessionsInv
<1>3. CASE DropSessions(h)
  <2>1. /\ With(h, "dropped", 0, {}) /\ 0 \in 0..MaxSessions /\ {} \in SUBSET (1..MaxSessions)
        /\ At(h, "dropping") /\ sessions' = sessions \ handler[h].seen
        /\ UNCHANGED <<index, made, crossed, ended, revived>>
    BY <1>3, Remembered DEF DropSessions, history, hash
  <2>2. Turns(h, "dropped")
    BY <2>1, WithTurns, StepNames
  <2>3. Found' /\ ChangeEndsSessions'
    BY <2>1 DEF SessionsInv, Found, ChangeEndsSessions
  <2>4. sessions' \subseteq crossed
    BY <2>1 DEF SessionsInv, Dropped
  <2>5. Dropped'
    BY <2>1, <2>2, <2>4 DEF SessionsInv, Dropped, At, Turns
  <2> QED BY <2>3, <2>5 DEF SessionsInv
<1>4. CASE DropIndex(h)
  <2>1. /\ index' = {} /\ sessions \subseteq crossed /\ Turns(h, "store")
        /\ UNCHANGED <<sessions, made, crossed>>
    BY <1>4, GoesTurns, StepNames DEF DropIndex, SessionsInv, Dropped
  <2>2. Found' /\ ChangeEndsSessions'
    BY <2>1 DEF Found, ChangeEndsSessions
  <2>3. Dropped'
    BY <2>1 DEF SessionsInv, Dropped, At, Turns
  <2> QED BY <2>2, <2>3 DEF SessionsInv
<1> QED BY <1>1, <1>2, <1>3, <1>4 DEF Replace

LEMMA SessionsStep == TypeOK /\ Revived /\ SessionsInv /\ [Next]_vars => SessionsInv'
<1> SUFFICES ASSUME TypeOK, Revived, SessionsInv, [Next]_vars PROVE SessionsInv'
  OBVIOUS
<1>1. ASSUME NEW h \in Handlers, Login(h) \/ Send(h) \/ Abort(h) PROVE SessionsInv'
  <2>1. UNCHANGED <<sessions, index, made, crossed, ended>> /\ revived \subseteq revived'
    BY <1>1, IdleRedis DEF Idle
  <2>2. \E pc \in {"counted", "wrong", "verified", "outdated", "rehash", "free", "store",
                  "agent", "allowed"} : Turns(h, pc)
    BY <1>1, LoginTurns, SendTurns DEF Login, Send
  <2> QED BY <2>1, <2>2, StepNames, SessionsKept
<1>2. ASSUME NEW token \in sessions, SessionExpires(token) PROVE SessionsInv'
  <2>1. /\ sessions' \subseteq sessions /\ (index' = index \/ sessions' = {})
        /\ UNCHANGED <<handler, made, crossed, ended, revived>>
    BY <1>2 DEF SessionExpires, history, hash
  <2>2. Found' /\ ChangeEndsSessions'
    BY <2>1 DEF SessionsInv, Found, ChangeEndsSessions
  <2>3. Dropped'
    BY <2>1 DEF SessionsInv, Dropped, At
  <2> QED BY <2>2, <2>3 DEF SessionsInv
<1>3. CASE FailuresExpire \/ RowAges \/ UNCHANGED vars
  <2>1. UNCHANGED <<handler, sessions, index, made, crossed, ended, revived>>
    BY <1>3 DEF FailuresExpire, RowAges, vars, redis, history, hash
  <2> QED BY <2>1 DEF SessionsInv, Found, ChangeEndsSessions, Dropped, At
<1> QED BY <1>1, <1>2, <1>3, SessionsOfStore, SessionsOfBrowse, SessionsOfReplace DEF Next

LEMMA RevivedStep == TypeOK /\ Revived /\ [Next]_vars => Revived'
<1> SUFFICES ASSUME TypeOK, Revived, [Next]_vars PROVE Revived'
  OBVIOUS
<1>1. CASE UNCHANGED <<password, changes, revived>>
  BY <1>1 DEF Revived
<1>2. ASSUME NEW h \in Handlers, RehashPassword(h) PROVE Revived'
  BY <1>2 DEF RehashPassword, Revived
<1>3. ASSUME NEW h \in Handlers, ChangePassword(h) PROVE Revived'
  <2>1. changes \in Nat
    BY DEF TypeOK
  <2> QED BY <1>3, <2>1 DEF ChangePassword, Revived
<1>4. ASSUME NEW h \in Handlers, DropIndex(h) PROVE Revived'
  BY <1>4 DEF DropIndex, Revived
<1>5. ASSUME NEW h \in Handlers,
             \/ Login(h) /\ ~RehashPassword(h)
             \/ StoreSession(h) \/ Browse(h) \/ ReadIndex(h)
             \/ DropSessions(h) \/ Send(h) \/ Abort(h)
      PROVE  UNCHANGED <<password, changes, revived>>
  BY <1>5 DEF Login, CheckFailures, VerifyPassword, CountFailure, ClearFailures, StoreSession, Browse,
       Authenticate, ReadMeta, Touch, Answer, ChooseSession, DropKeys, Unindex, ReadSessions, PruneSession,
       Listed, ReadIndex, DropSessions, Send, LoadAgent, CheckLimit, QueueMessage, Abort, hash
<1>6. FailuresExpire \/ RowAges \/ (\E token \in sessions : SessionExpires(token))
      \/ UNCHANGED vars => UNCHANGED <<password, changes, revived>>
  BY DEF FailuresExpire, RowAges, SessionExpires, vars, hash
<1> QED BY <1>1, <1>2, <1>3, <1>4, <1>5, <1>6 DEF Next, Replace

\* Keys and metadata are stored together; the metadata are deleted with the
\* key, or after it.
LEMMA ShownStep == Shown /\ [Next]_vars => Shown'
<1> SUFFICES ASSUME Shown, [Next]_vars PROVE Shown'
  OBVIOUS
<1>1. CASE UNCHANGED <<sessions, meta>>
  BY <1>1 DEF Shown
<1>2. ASSUME NEW h \in Handlers,
             StoreSession(h) \/ Touch(h) \/ DropKeys(h) \/ Unindex(h) \/ PruneSession(h)
               \/ DropSessions(h) \/ DropIndex(h)
      PROVE  Shown'
  <2>1. StoreSession(h) \/ Touch(h) \/ Unindex(h) \/ DropIndex(h) => Shown'
    BY DEF StoreSession, Touch, Unindex, DropIndex, Shown
  <2>2. DropKeys(h) \/ DropSessions(h) => Shown'
    BY DEF DropKeys, DropSessions, Shown
  <2>3. ASSUME PruneSession(h) PROVE Shown'
    BY <2>3 DEF PruneSession, Shown
  <2> QED BY <1>2, <2>1, <2>2, <2>3
<1>3. (\E token \in sessions : SessionExpires(token)) => Shown'
  BY DEF SessionExpires, Shown
<1>4. FailuresExpire \/ RowAges \/ UNCHANGED vars => UNCHANGED <<sessions, meta>>
  BY DEF FailuresExpire, RowAges, vars, redis
<1> QED BY <1>1, <1>2, <1>3, <1>4, IdleRedis DEF Next, Idle, Browse, Replace

LEMMA SessionsInvariant == Spec => [](SessionsInv /\ Shown)
<1>1. Init => SessionsInv /\ Shown /\ Revived
  BY DEF Init, Free, SessionsInv, Found, Shown, Revived, ChangeEndsSessions, Dropped, At
<1> QED BY <1>1, SessionsStep, RevivedStep, ShownStep, AccessTypeCorrect, PTL DEF Spec

\* SessionsAreIndexed: the list shows every live session, and to revoke all of
\* them finds every one that was not stored while sessions were being dropped
\* (store_session, touch_session, drop_user_sessions).
THEOREM SessionsStayIndexed == Spec => []SessionsAreIndexed
<1>1. SessionsInv /\ Shown => SessionsAreIndexed
  BY DEF SessionsInv, Found, Shown, SessionsAreIndexed
<1> QED BY <1>1, SessionsInvariant, PTL

\* ChangeEndsSessions: a change of the password that has run to its end has
\* revoked the sessions of older passwords, and later ones are only of a
\* password that a login wrote back over the change (change_password, login).
THEOREM ChangesEndSessions == Spec => []ChangeEndsSessions
<1>1. SessionsInv => ChangeEndsSessions
  BY DEF SessionsInv
<1> QED BY <1>1, SessionsInvariant, PTL
=============================================================================
