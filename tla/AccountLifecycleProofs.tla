----------------------- MODULE AccountLifecycleProofs -----------------------
(***************************************************************************)
(* The safety properties of AccountLifecycle, proved for any credentials,  *)
(* any grace period and any number of requests, rotations and faults.      *)
(***************************************************************************)
EXTENDS AccountLifecycle, TLAPS

-----------------------------------------------------------------------------
(***************************************************************************)
(* The inductive invariant.                                                *)
(***************************************************************************)

\* Who is under way knows what with.
Equipped ==
    /\ upc = "patch" => want # None
    /\ spc = "cycle" => scred \in Credentials
    /\ jpc = "check" => jcred \in Credentials

\* A copy that is up to date tells whether the account is stamped.
CopiesTellStamp ==
    /\ upc = "patch" /\ "user" \notin stale => (uloaded.age = NoStamp <=> age = NoStamp)
    /\ jpc # "idle" /\ "janitor" \notin stale => (jage = NoStamp <=> age = NoStamp)

PoolIsCurrent == provider = "imap" => pool \in {None, credential}

\* The pool of a stamped account holds the stored password, or is gone: the
\* janitor has reset it when it found the account invalid, and nobody has
\* stored another password since.
StampResetsPool ==
    /\ age # NoStamp /\ ~raced => PoolIsCurrent
    /\ jpc = "commit" /\ verdict = "invalid" /\ "janitor" \notin stale => PoolIsCurrent

\* What the janitor finds rejected of a stamped account is what is stored.
ChecksStored ==
    /\ jpc = "check" \/ (jpc = "commit" /\ verdict = "invalid")
    /\ "janitor" \notin stale /\ ~raced /\ jage # NoStamp
    => jcred = credential

\* The stamp is no older than the time since the account was last active.
StampIsRecent ==
    status # "gone" /\ ~raced =>
        /\ age <= sinceOk
        /\ jpc # "idle" /\ "janitor" \notin stale => jage <= sinceOk

IInv == TypeOK /\ Equipped /\ CopiesTellStamp /\ StampResetsPool /\ ChecksStored /\ StampIsRecent

-----------------------------------------------------------------------------
(***************************************************************************)
(* Types.                                                                  *)
(***************************************************************************)
RowTyped ==
    /\ status \in Statuses
    /\ age \in Ages
    /\ credential \in Credentials

RestTyped ==
    /\ provider \in {"imap", "graph"}
    /\ accepted \in Credentials
    /\ counts \in [{"user", "rotations", "faults"} -> Nat]
    /\ sinceOk \in 0..Grace

PoolTyped == pool \in Credentials \cup {None} /\ loggedIn \in BOOLEAN

SyncTyped ==
    /\ spc \in {"idle", "cycle", "mark"} /\ scred \in Credentials \cup {None}
    /\ found \in {None, "ok", "rejected", "outage"}
    /\ spc = "cycle" => scred \in Credentials

JanitorTyped ==
    /\ jpc \in {"idle", "loaded", "check", "commit"}
    /\ jage \in Ages
    /\ jcred \in Credentials \cup {None}
    /\ verdict \in {None, "valid", "invalid"}
    /\ jpc = "check" => jcred \in Credentials

UserTyped ==
    /\ upc \in {"idle", "patch", "oauth"}
    /\ want \in Credentials \cup {None, "active", "disabled"}
    /\ uloaded \in [status : Statuses, age : Ages]
    /\ upc = "patch" => want # None

HistoryTyped == stale \in SUBSET {"janitor", "user"} /\ raced \in BOOLEAN

AllTyped ==
    RowTyped /\ RestTyped /\ PoolTyped /\ SyncTyped /\ JanitorTyped /\ UserTyped /\ HistoryTyped

LEMMA TypeParts == (TypeOK /\ Equipped) <=> AllTyped
BY DEF TypeOK, Equipped, AllTyped, RowTyped, RestTyped, PoolTyped, SyncTyped, JanitorTyped,
   UserTyped, HistoryTyped

LEMMA AgeFacts == Grace \in Nat /\ NoStamp \in Ages /\ 0 \in Ages /\ Grace # NoStamp /\ Ages \subseteq Int
BY AccountAssumption DEF Ages, NoStamp

LEMMA TypeInit == Init => TypeOK /\ Equipped
<1> SUFFICES ASSUME Init PROVE AllTyped
  BY TypeParts
<1> USE AgeFacts
<1>1. RowTyped /\ UserTyped
  BY DEF Init, RowTyped, UserTyped, Statuses
<1>2. RestTyped
  BY DEF Init, RestTyped
<1>3. PoolTyped /\ SyncTyped /\ JanitorTyped /\ HistoryTyped
  BY DEF Init, PoolTyped, SyncTyped, JanitorTyped, HistoryTyped
<1> QED BY <1>1, <1>2, <1>3 DEF AllTyped

LEMMA TypeWrite ==
  ASSUME RowTyped, HistoryTyped, NEW who, NEW newStatus \in Statuses, NEW newAge \in Ages,
         NEW newCredential \in Credentials, Write(who, newStatus, newAge, newCredential)
  PROVE  RowTyped' /\ HistoryTyped'
<1>1. RowTyped'
  BY DEF Write, RowTyped, row
<1>2. stale' \in SUBSET {"janitor", "user"}
  BY DEF Write, HistoryTyped, Loaded
<1>3. raced' \in BOOLEAN
  BY DEF Write, HistoryTyped
<1> QED BY <1>1, <1>2, <1>3 DEF HistoryTyped

LEMMA TypeTokens ==
  ASSUME RowTyped, HistoryTyped, NEW who, NEW c \in Credentials, StoreTokens(who, c)
  PROVE  RowTyped' /\ HistoryTyped'
<1>1. RowTyped'
  BY DEF StoreTokens, RowTyped
<1>2. HistoryTyped'
  BY DEF StoreTokens, HistoryTyped, Loaded
<1> QED BY <1>1, <1>2

LEMMA TypeInUse ==
  ASSUME RowTyped, PoolTyped
  PROVE  InUse \in Credentials
BY DEF InUse, RowTyped, PoolTyped

LEMMA TypeUsePool ==
  ASSUME RowTyped, PoolTyped, UsePool
  PROVE  PoolTyped'
<1>1. pool' \in Credentials \cup {None}
  BY TypeInUse DEF UsePool, PoolTyped, poolVars
<1>2. loggedIn' \in BOOLEAN
  BY DEF UsePool, PoolTyped, poolVars
<1> QED BY <1>1, <1>2 DEF PoolTyped

LEMMA TypeCount ==
  ASSUME RestTyped, NEW what \in {"user", "rotations", "faults"}, NEW bound, Count(what, bound)
  PROVE  counts' \in [{"user", "rotations", "faults"} -> Nat]
BY DEF Count, RestTyped

LEMMA TypeUser ==
  ASSUME AllTyped, UserStep
  PROVE  AllTyped'
<1> USE AgeFacts DEF AllTyped
<1>1. ASSUME NEW w \in Credentials \cup {"active", "disabled"}, PatchLoad(w)
      PROVE  AllTyped'
  <2>1. RestTyped'
    BY <1>1, TypeCount DEF PatchLoad, RestTyped
  <2>2. UserTyped'
    BY <1>1, AccountAssumption DEF PatchLoad, UserTyped, RowTyped, None
  <2>3. HistoryTyped'
    BY <1>1 DEF PatchLoad, HistoryTyped
  <2> QED BY <1>1, <2>1, <2>2, <2>3 DEF PatchLoad, RowTyped, PoolTyped, SyncTyped, JanitorTyped,
                                    row, poolVars, syncVars, janitorVars
<1>2. CASE PatchCommit
  <2> DEFINE newStatus == IF want \in Credentials THEN "active" ELSE want
             toStatus == IF newStatus = uloaded.status THEN status ELSE newStatus
             toAge == IF newStatus = "active" /\ uloaded.age # NoStamp THEN NoStamp ELSE age
             toCredential == IF want \in Credentials THEN want ELSE credential
  <2>1. toStatus \in Statuses /\ toAge \in Ages /\ toCredential \in Credentials
    BY <1>2 DEF PatchCommit, UserTyped, RowTyped, Statuses
  <2>2. Write("user", toStatus, toAge, toCredential)
    BY <1>2 DEF PatchCommit
  <2>3. RowTyped' /\ HistoryTyped'
    <3> HIDE DEF toStatus, toAge, toCredential
    <3> QED BY <2>1, <2>2, TypeWrite
  <2>4. RestTyped' /\ UserTyped'
    BY <1>2 DEF PatchCommit, RestTyped, UserTyped
  <2> QED BY <1>2, <2>3, <2>4 DEF PatchCommit, PoolTyped, SyncTyped, JanitorTyped,
                              poolVars, syncVars, janitorVars
<1>3. CASE DeleteAccount
  <2>1. RestTyped'
    BY <1>3, TypeCount DEF DeleteAccount, RestTyped
  <2>2. RowTyped' /\ HistoryTyped'
    <3>1. "gone" \in Statuses /\ age \in Ages /\ credential \in Credentials /\ Write("user", "gone", age, credential)
      BY <1>3 DEF DeleteAccount, RowTyped, Statuses
    <3> QED BY <3>1, TypeWrite
  <2> QED BY <1>3, <2>1, <2>2 DEF DeleteAccount, PoolTyped, SyncTyped, JanitorTyped, UserTyped,
                              poolVars, syncVars, janitorVars, userVars
<1>4. ASSUME NEW c \in Credentials, OauthStore(c)
      PROVE  AllTyped'
  <2>1. RestTyped'
    BY <1>4, TypeCount DEF OauthStore, RestTyped
  <2>2. RowTyped' /\ HistoryTyped'
    BY <1>4, TypeTokens DEF OauthStore
  <2> QED BY <1>4, <2>1, <2>2 DEF OauthStore, PoolTyped, SyncTyped, JanitorTyped, UserTyped,
                              poolVars, syncVars, janitorVars
<1>5. CASE OauthMark
  <2>1. RowTyped' /\ HistoryTyped'
    <3>1. "active" \in Statuses /\ credential \in Credentials /\ Write("user", "active", NoStamp, credential)
      BY <1>5 DEF OauthMark, RowTyped, Statuses
    <3> QED BY <3>1, TypeWrite
  <2> QED BY <1>5, <2>1 DEF OauthMark, RestTyped, PoolTyped, SyncTyped, JanitorTyped, UserTyped,
                        poolVars, syncVars, janitorVars
<1>6. CASE OauthRefused
  <2>1. RestTyped'
    BY <1>6, TypeCount DEF OauthRefused, RestTyped
  <2>2. RowTyped' /\ HistoryTyped'
    <3>1. "auth_error" \in Statuses /\ age \in Ages /\ credential \in Credentials
          /\ Write("user", "auth_error", age, credential)
      BY <1>6 DEF OauthRefused, RowTyped, Statuses
    <3> QED BY <3>1, TypeWrite
  <2> QED BY <1>6, <2>1, <2>2 DEF OauthRefused, PoolTyped, SyncTyped, JanitorTyped, UserTyped,
                              poolVars, syncVars, janitorVars, userVars
<1> QED BY <1>1, <1>2, <1>3, <1>4, <1>5, <1>6 DEF UserStep

LEMMA TypeFinds ==
  ASSUME AllTyped, NEW outcome \in {"ok", "rejected", "outage"}, SyncFinds(outcome)
  PROVE  /\ RowTyped' /\ HistoryTyped' /\ SyncTyped' /\ JanitorTyped' /\ UserTyped'
         /\ pool' = pool /\ provider' = provider /\ accepted' = accepted /\ sinceOk' = sinceOk
<1> USE DEF AllTyped
<1>1. scred \in Credentials
  BY DEF SyncFinds, SyncTyped
<1>2. RowTyped' /\ HistoryTyped'
  <2>1. CASE UNCHANGED <<row, stale, raced>>
    BY <2>1 DEF RowTyped, HistoryTyped, row
  <2>2. CASE StoreTokens("sync", scred)
    BY <1>1, <2>2, TypeTokens
  <2> QED BY <2>1, <2>2 DEF SyncFinds, SaveTokens
<1> QED BY <1>2 DEF SyncFinds, SyncTyped, JanitorTyped, UserTyped, janitorVars, userVars

LEMMA TypeSync ==
  ASSUME AllTyped, SyncStep
  PROVE  AllTyped'
<1> USE AgeFacts DEF AllTyped
<1>1. CASE SyncBegin
  <2>1. PoolTyped' /\ SyncTyped'
    BY <1>1, TypeInUse, TypeUsePool DEF SyncBegin, SyncTyped
  <2> QED BY <1>1, <2>1 DEF SyncBegin, RowTyped, RestTyped, JanitorTyped, UserTyped, HistoryTyped,
                        row, janitorVars, userVars, historyVars
<1>2. CASE SyncAnswered
  <2>1. loggedIn' \in BOOLEAN
    BY <1>2 DEF SyncAnswered, PoolTyped
  <2> QED BY <1>2, <2>1, TypeFinds DEF SyncAnswered, PoolTyped, RestTyped
<1>3. CASE SyncRejected
  BY <1>3, TypeFinds DEF SyncRejected, PoolTyped, RestTyped
<1>4. CASE SyncOutage
  BY <1>4, TypeFinds, TypeCount DEF SyncOutage, PoolTyped, RestTyped
<1>5. CASE SyncRaises
  <2>1. RowTyped' /\ HistoryTyped'
    <3>1. CASE UNCHANGED <<row, stale, raced>>
      BY <3>1 DEF RowTyped, HistoryTyped, row
    <3>2. CASE spc = "cycle" /\ StoreTokens("sync", scred)
      BY <3>2, TypeTokens DEF SyncTyped
    <3> QED BY <1>5, <3>1, <3>2 DEF SyncRaises, SaveTokens
  <2>2. RestTyped'
    BY <1>5, TypeCount DEF SyncRaises, RestTyped
  <2> QED BY <1>5, <2>1, <2>2 DEF SyncRaises, SyncEnds, PoolTyped, SyncTyped, JanitorTyped, UserTyped,
                              poolVars, janitorVars, userVars
<1>6. CASE SyncMarksActive
  <2>1. RowTyped' /\ HistoryTyped'
    <3>1. "active" \in Statuses /\ credential \in Credentials /\ Write("sync", "active", NoStamp, credential)
      BY <1>6 DEF SyncMarksActive, RowTyped, Statuses
    <3> QED BY <3>1, TypeWrite
  <2> QED BY <1>6, <2>1 DEF SyncMarksActive, SyncEnds, RestTyped, PoolTyped, SyncTyped, JanitorTyped,
                        UserTyped, poolVars, janitorVars, userVars
<1>7. CASE SyncMarksFailure
  <2>1. RowTyped' /\ HistoryTyped'
    <3>1. /\ "auth_error" \in Statuses /\ "error" \in Statuses /\ age \in Ages /\ credential \in Credentials
          /\ \/ Write("sync", "auth_error", age, credential)
             \/ Write("sync", "error", age, credential)
      BY <1>7 DEF SyncMarksFailure, RowTyped, Statuses
    <3> QED BY <3>1, TypeWrite
  <2> QED BY <1>7, <2>1 DEF SyncMarksFailure, SyncEnds, RestTyped, PoolTyped, SyncTyped, JanitorTyped,
                        UserTyped, poolVars, janitorVars, userVars
<1> QED BY <1>1, <1>2, <1>3, <1>4, <1>5, <1>6, <1>7 DEF SyncStep

LEMMA TypeJanitor ==
  ASSUME AllTyped, JanitorStep
  PROVE  AllTyped'
<1> USE AgeFacts DEF AllTyped
<1>0. JanitorEnds => JanitorTyped'
  BY DEF JanitorEnds, JanitorTyped
<1>1. CASE JanitorLoad
  <2>1. HistoryTyped'
    BY <1>1 DEF JanitorLoad, HistoryTyped
  <2> QED BY <1>1, <2>1 DEF JanitorLoad, RowTyped, RestTyped, PoolTyped, SyncTyped, JanitorTyped,
                        UserTyped, row, poolVars, syncVars, userVars
<1>2. CASE JanitorConnect
  <2>1. PoolTyped' /\ JanitorTyped'
    BY <1>2, TypeInUse, TypeUsePool DEF JanitorConnect, JanitorTyped
  <2> QED BY <1>2, <2>1 DEF JanitorConnect, RowTyped, RestTyped, SyncTyped, UserTyped, HistoryTyped,
                        row, syncVars, userVars, historyVars
<1>3. CASE JanitorValid
  <2>1. RowTyped' /\ HistoryTyped'
    <3>1. CASE UNCHANGED <<row, stale, raced>>
      BY <3>1 DEF RowTyped, HistoryTyped, row
    <3>2. CASE StoreTokens("janitor", jcred)
      BY <1>3, <3>2, TypeTokens DEF JanitorValid, JanitorTyped
    <3> QED BY <1>3, <3>1, <3>2 DEF JanitorValid
  <2>2. PoolTyped'
    <3>1. loggedIn' \in BOOLEAN
      BY <1>3 DEF JanitorValid, PoolTyped
    <3> QED BY <1>3, <3>1 DEF JanitorValid, PoolTyped
  <2> QED BY <1>3, <2>1, <2>2 DEF JanitorValid, RestTyped, SyncTyped, JanitorTyped, UserTyped,
                              syncVars, userVars
<1>4. CASE JanitorInvalid
  BY <1>4 DEF JanitorInvalid, RowTyped, RestTyped, PoolTyped, SyncTyped, JanitorTyped, UserTyped,
     HistoryTyped, row, syncVars, userVars, historyVars
<1>5. CASE JanitorFault
  <2>1. RestTyped'
    BY <1>5, TypeCount DEF JanitorFault, RestTyped, historyVars
  <2> QED BY <1>0, <1>5, <2>1 DEF JanitorFault, RowTyped, PoolTyped, SyncTyped, UserTyped, HistoryTyped,
                              row, poolVars, syncVars, userVars, historyVars
<1>6. CASE JanitorRecovers
  <2>1. RowTyped' /\ HistoryTyped'
    <3>1. /\ "active" \in Statuses /\ credential \in Credentials /\ age \in Ages
          /\ \/ Write("janitor", "active", age, credential)
             \/ Write("janitor", "active", NoStamp, credential)
      BY <1>6 DEF JanitorRecovers, RowTyped, Statuses
    <3> QED BY <3>1, TypeWrite
  <2> QED BY <1>0, <1>6, <2>1 DEF JanitorRecovers, RestTyped, PoolTyped, SyncTyped, UserTyped,
                              poolVars, syncVars, userVars
<1>7. CASE JanitorStamps
  <2>1. RowTyped' /\ HistoryTyped'
    <3>1. status \in Statuses /\ credential \in Credentials /\ Write("janitor", status, 0, credential)
      BY <1>7 DEF JanitorStamps, RowTyped
    <3> QED BY <3>1, TypeWrite
  <2> QED BY <1>0, <1>7, <2>1 DEF JanitorStamps, RestTyped, PoolTyped, SyncTyped, UserTyped,
                              poolVars, syncVars, userVars
<1>8. CASE JanitorWaits
  BY <1>0, <1>8 DEF JanitorWaits, RowTyped, RestTyped, PoolTyped, SyncTyped, UserTyped, HistoryTyped,
     row, poolVars, syncVars, userVars, historyVars
<1>9. CASE JanitorRetires
  <2>1. RowTyped' /\ HistoryTyped'
    <3>1. PICK retired \in {"disabled", "gone"} : Write("janitor", retired, age, credential)
      BY <1>9 DEF JanitorRetires
    <3>2. retired \in Statuses /\ age \in Ages /\ credential \in Credentials
      BY DEF RowTyped, Statuses
    <3> QED BY <3>1, <3>2, TypeWrite
  <2> QED BY <1>0, <1>9, <2>1 DEF JanitorRetires, RestTyped, PoolTyped, SyncTyped, UserTyped,
                              poolVars, syncVars, userVars
<1> QED BY <1>1, <1>2, <1>3, <1>4, <1>5, <1>6, <1>7, <1>8, <1>9 DEF JanitorStep

LEMMA TypeStep ==
  ASSUME TypeOK, Equipped, [Next]_vars
  PROVE  TypeOK' /\ Equipped'
<1>0. AllTyped
  BY TypeParts
<1> SUFFICES AllTyped'
  BY TypeParts DEF TypeOK, Equipped, AllTyped, RowTyped, RestTyped, PoolTyped, SyncTyped, JanitorTyped,
     UserTyped, HistoryTyped
<1>1. ASSUME NEW c \in Credentials, Rotate(c)
      PROVE  AllTyped'
  <2>1. RestTyped'
    BY <1>0, <1>1, TypeCount DEF AllTyped, Rotate, RestTyped, historyVars
  <2> QED BY <1>0, <1>1, <2>1 DEF AllTyped, Rotate, RowTyped, PoolTyped, SyncTyped, JanitorTyped,
             UserTyped, HistoryTyped, row, poolVars, syncVars, janitorVars, userVars, historyVars
<1>2. CASE Tick
  <2>1. age' \in Ages /\ sinceOk' \in 0..Grace
    BY <1>0, <1>2, AgeFacts DEF AllTyped, Tick, Older, RowTyped, RestTyped, Ages, NoStamp
  <2> QED BY <1>0, <1>2, <2>1 DEF AllTyped, Tick, RowTyped, RestTyped, PoolTyped, SyncTyped,
             JanitorTyped, UserTyped, HistoryTyped, poolVars, syncVars, janitorVars, userVars
<1>3. CASE UNCHANGED vars
  BY <1>0, <1>3 DEF AllTyped, vars, RowTyped, RestTyped, PoolTyped, SyncTyped, JanitorTyped, UserTyped,
     HistoryTyped, row, poolVars, syncVars, janitorVars, userVars, historyVars
<1> QED BY <1>0, <1>1, <1>2, <1>3, TypeUser, TypeSync, TypeJanitor DEF Next

\* The state of an account is well typed, whatever the three parties do.
THEOREM AccountTyped == Spec => []TypeOK
BY TypeInit, TypeStep, PTL DEF Spec

-----------------------------------------------------------------------------
(***************************************************************************)
(* What the stamp, the pool and the copies have to do with each other.     *)
(***************************************************************************)
StampInv == CopiesTellStamp /\ StampResetsPool /\ ChecksStored /\ StampIsRecent

LEMMA StampInit == Init => StampInv
<1> SUFFICES ASSUME Init PROVE StampInv
  OBVIOUS
<1>1. CopiesTellStamp /\ ChecksStored
  BY DEF Init, CopiesTellStamp, ChecksStored
<1>2. StampResetsPool /\ StampIsRecent
  BY DEF Init, StampResetsPool, StampIsRecent, NoStamp
<1> QED BY <1>1, <1>2 DEF StampInv

\* A write of somebody else outdates what the janitor has loaded.
LEMMA WriteOutdates ==
  ASSUME NEW who \in {"user", "sync"}, NEW s, NEW a, NEW c, Write(who, s, a, c)
  PROVE  /\ jpc # "idle" => "janitor" \in stale'
         /\ who = "sync" /\ upc = "patch" => "user" \in stale'
BY DEF Write, Loaded

\* Of what a write leaves behind when nothing stale was committed.
LEMMA WriteRaces ==
  ASSUME HistoryTyped, NEW who, NEW s, NEW a, NEW c, Write(who, s, a, c), ~raced'
  PROVE  \/ status = "gone" /\ UNCHANGED <<row, raced>>
         \/ /\ status # "gone" /\ who \notin stale
            /\ status' = s /\ age' = a /\ credential' = c
            /\ ~raced \/ (s = "active" /\ a = NoStamp)
BY DEF Write, HistoryTyped

\* A write by the user or the sync either clears the stamp, or keeps it and
\* the credential; it resets the clock only of an account without a stamp.
LEMMA StampWrite ==
  ASSUME AllTyped, AllTyped', StampInv, NEW who \in {"user", "sync"}, NEW s, NEW a, NEW c,
         Write(who, s, a, c), UNCHANGED <<provider, poolVars, janitorVars>>,
         who \notin stale => a = NoStamp \/ (a = age /\ c = credential),
         sinceOk' = sinceOk \/ (sinceOk' = 0 /\ (who \notin stale => a = NoStamp)),
         upc' = "patch" => upc = "patch" /\ who = "sync"
  PROVE  StampInv'
<1>1. (jpc' # "idle" => "janitor" \in stale') /\ (upc' = "patch" => "user" \in stale')
  BY WriteOutdates DEF janitorVars
<1>2. ChecksStored' /\ CopiesTellStamp'
  BY <1>1 DEF ChecksStored, CopiesTellStamp
<1>3. ASSUME ~raced'
      PROVE  \/ status = "gone" /\ UNCHANGED <<row, raced>>
             \/ /\ status # "gone" /\ who \notin stale
                /\ status' = s /\ age' = a /\ credential' = c
                /\ ~raced \/ (s = "active" /\ a = NoStamp)
  BY <1>3, WriteRaces DEF AllTyped
<1>4. StampResetsPool'
  BY <1>1, <1>3 DEF StampInv, StampResetsPool, PoolIsCurrent, row, poolVars
<1>5. StampIsRecent'
  BY <1>1, <1>3, AgeFacts DEF StampInv, StampIsRecent, row, AllTyped, RowTyped, RestTyped, NoStamp
<1> QED BY <1>2, <1>4, <1>5 DEF StampInv

\* Tokens are stored for Graph accounts only, and outdate the janitor's check.
LEMMA StampTokens ==
  ASSUME AllTyped, StampInv, NEW who, NEW c, StoreTokens(who, c), provider = "graph",
         UNCHANGED <<provider, jpc, jage, sinceOk, upc, uloaded>>,
         jpc' \in {"check", "commit"} => who # "janitor"
  PROVE  StampInv'
<1>1. /\ UNCHANGED <<status, age, raced>> /\ stale \subseteq stale'
      /\ jpc' \in {"check", "commit"} => "janitor" \in stale'
  BY DEF StoreTokens, Loaded
<1>2. CopiesTellStamp' /\ StampIsRecent'
  BY <1>1 DEF StampInv, CopiesTellStamp, StampIsRecent
<1>3. StampResetsPool' /\ ChecksStored'
  BY <1>1 DEF StampResetsPool, ChecksStored, PoolIsCurrent
<1> QED BY <1>2, <1>3 DEF StampInv

LEMMA StampUser ==
  ASSUME AllTyped, AllTyped', StampInv, UserStep
  PROVE  StampInv'
<1>1. ASSUME NEW w \in Credentials \cup {"active", "disabled"}, PatchLoad(w)
      PROVE  StampInv'
  <2>1. CopiesTellStamp'
    BY <1>1 DEF PatchLoad, StampInv, CopiesTellStamp, row, janitorVars
  <2>2. StampResetsPool' /\ ChecksStored' /\ StampIsRecent'
    BY <1>1 DEF PatchLoad, StampInv, StampResetsPool, ChecksStored, StampIsRecent, PoolIsCurrent,
       row, poolVars, janitorVars
  <2> QED BY <2>1, <2>2 DEF StampInv
<1>2. CASE PatchCommit
  <2> DEFINE newStatus == IF want \in Credentials THEN "active" ELSE want
             s == IF newStatus = uloaded.status THEN status ELSE newStatus
             a == IF newStatus = "active" /\ uloaded.age # NoStamp THEN NoStamp ELSE age
             c == IF want \in Credentials THEN want ELSE credential
  <2>1. /\ Write("user", s, a, c) /\ UNCHANGED <<provider, poolVars, janitorVars>>
        /\ upc = "patch" /\ upc' = "idle"
        /\ sinceOk' = IF newStatus = "active" THEN 0 ELSE sinceOk
    BY <1>2 DEF PatchCommit
  <2>2. "user" \notin stale => /\ newStatus = "active" => a = NoStamp
                               /\ newStatus # "active" => a = age /\ c = credential
    BY <2>1 DEF StampInv, CopiesTellStamp
  <2> HIDE DEF s, a, c
  <2> QED BY <2>1, <2>2, StampWrite
<1>3. CASE DeleteAccount
  BY <1>3, StampWrite DEF DeleteAccount, userVars
<1>4. ASSUME NEW c \in Credentials, OauthStore(c)
      PROVE  StampInv'
  <2>1. upc' # "patch" /\ upc # "patch"
    BY <1>4 DEF OauthStore
  <2>2. /\ UNCHANGED <<status, age, raced, jpc, jage, jcred, verdict, sinceOk, provider>>
        /\ stale \subseteq stale' /\ provider = "graph"
        /\ jpc' # "idle" => "janitor" \in stale'
    BY <1>4 DEF OauthStore, StoreTokens, Loaded, janitorVars
  <2>3. CopiesTellStamp' /\ StampIsRecent' /\ StampResetsPool' /\ ChecksStored'
    BY <2>1, <2>2 DEF StampInv, CopiesTellStamp, StampIsRecent, StampResetsPool, ChecksStored, PoolIsCurrent
  <2> QED BY <2>3 DEF StampInv
<1>5. CASE OauthMark
  BY <1>5, StampWrite DEF OauthMark
<1>6. CASE OauthRefused
  BY <1>6, StampWrite DEF OauthRefused, userVars
<1> QED BY <1>1, <1>2, <1>3, <1>4, <1>5, <1>6 DEF UserStep

LEMMA StampSync ==
  ASSUME AllTyped, AllTyped', StampInv, SyncStep
  PROVE  StampInv'
\* The cycle's end stores tokens, or nothing.
<1>0. ASSUME SaveTokens, UNCHANGED <<provider, pool, janitorVars, userVars, sinceOk>>
      PROVE  StampInv'
  <2>1. CASE UNCHANGED <<row, stale, raced>>
    BY <1>0, <2>1 DEF StampInv, CopiesTellStamp, StampIsRecent, StampResetsPool, ChecksStored,
       PoolIsCurrent, row, janitorVars, userVars
  <2>2. CASE provider = "graph" /\ StoreTokens("sync", scred)
    BY <1>0, <2>2, StampTokens DEF janitorVars, userVars
  <2> QED BY <1>0, <2>1, <2>2 DEF SaveTokens
<1>1. CASE SyncBegin
  <2>1. provider = "imap" => pool' = InUse
    BY <1>1 DEF SyncBegin, UsePool
  <2>2. StampResetsPool'
    BY <1>1, <2>1 DEF SyncBegin, InUse, StampInv, StampResetsPool, PoolIsCurrent, row, janitorVars, historyVars
  <2>3. CopiesTellStamp' /\ StampIsRecent' /\ ChecksStored'
    BY <1>1 DEF SyncBegin, StampInv, CopiesTellStamp, StampIsRecent, ChecksStored,
       row, janitorVars, userVars, historyVars
  <2> QED BY <2>2, <2>3 DEF StampInv
<1>2. CASE SyncAnswered \/ SyncRejected \/ SyncOutage
  BY <1>0, <1>2 DEF SyncAnswered, SyncRejected, SyncOutage, SyncFinds
<1>3. CASE SyncRaises
  <2>1. SaveTokens
    BY <1>3 DEF SyncRaises, SaveTokens
  <2> QED BY <1>0, <1>3, <2>1 DEF SyncRaises, poolVars
<1>4. CASE SyncMarksActive
  BY <1>4, StampWrite DEF SyncMarksActive, userVars
<1>5. CASE SyncMarksFailure
  <2>1. PICK s \in {"auth_error", "error"} : Write("sync", s, age, credential)
    BY <1>5 DEF SyncMarksFailure
  <2> QED BY <1>5, <2>1, StampWrite DEF SyncMarksFailure, userVars
<1> QED BY <1>1, <1>2, <1>3, <1>4, <1>5 DEF SyncStep

LEMMA StampJanitor ==
  ASSUME AllTyped, AllTyped', StampInv, JanitorStep
  PROVE  StampInv'
<1> USE AgeFacts
\* The janitor ends without a write.
<1>quiet. ASSUME JanitorEnds, UNCHANGED <<provider, row, poolVars, userVars, historyVars>>
      PROVE  StampInv'
  BY <1>quiet DEF JanitorEnds, StampInv, CopiesTellStamp, StampIsRecent, StampResetsPool, ChecksStored,
     PoolIsCurrent, row, poolVars, userVars, historyVars
\* Or with a write, which keeps the credential, and its copy is forgotten.
<1>write. ASSUME JanitorEnds, NEW s, NEW a, Write("janitor", s, a, credential),
              UNCHANGED <<provider, poolVars, userVars>>, sinceOk' \in {0, sinceOk},
              sinceOk' = sinceOk \/ ("janitor" \notin stale => a = NoStamp),
              "janitor" \notin stale =>
                  a = NoStamp \/ ((a = age \/ (a = 0 /\ verdict = "invalid")) /\ jpc = "commit")
       PROVE  StampInv'
  <2>1. jpc' = "idle" /\ (upc' = "patch" => "user" \in stale')
    BY <1>write DEF JanitorEnds, Write, Loaded, userVars
  <2>2. ASSUME ~raced'
        PROVE  \/ status = "gone" /\ UNCHANGED <<row, raced>>
               \/ /\ status # "gone" /\ "janitor" \notin stale
                  /\ status' = s /\ age' = a /\ credential' = credential
                  /\ ~raced \/ (s = "active" /\ a = NoStamp)
    BY <1>write, <2>2, WriteRaces DEF AllTyped
  <2>3. CopiesTellStamp' /\ ChecksStored'
    BY <2>1 DEF CopiesTellStamp, ChecksStored
  <2>4. StampResetsPool'
    BY <1>write, <2>1, <2>2 DEF StampInv, StampResetsPool, PoolIsCurrent, row, poolVars
  <2>5. StampIsRecent'
    BY <1>write, <2>1, <2>2 DEF StampInv, StampIsRecent, row, AllTyped, RowTyped, RestTyped, NoStamp
  <2> QED BY <2>3, <2>4, <2>5 DEF StampInv
<1>1. CASE JanitorLoad
  BY <1>1 DEF JanitorLoad, StampInv, CopiesTellStamp, StampIsRecent, StampResetsPool, ChecksStored,
     PoolIsCurrent, row, poolVars, userVars
<1>2. CASE JanitorConnect
  <2>1. provider = "imap" => pool' = InUse
    BY <1>2 DEF JanitorConnect, UsePool
  <2>2. StampResetsPool'
    BY <1>2, <2>1 DEF JanitorConnect, InUse, StampInv, StampResetsPool, PoolIsCurrent, row, historyVars
  <2>3. CopiesTellStamp' /\ StampIsRecent'
    BY <1>2 DEF JanitorConnect, StampInv, CopiesTellStamp, StampIsRecent, row, userVars, historyVars
  <2>4. ChecksStored'
    BY <1>2, <2>3 DEF JanitorConnect, InUse, StampInv, CopiesTellStamp, StampResetsPool, PoolIsCurrent,
       ChecksStored, row, historyVars, AllTyped, RestTyped
  <2> QED BY <2>2, <2>3, <2>4 DEF StampInv
<1>3. CASE JanitorValid
  <2>1. CASE UNCHANGED <<row, stale, raced>>
    BY <1>3, <2>1 DEF JanitorValid, StampInv, CopiesTellStamp, StampIsRecent, StampResetsPool, ChecksStored,
       PoolIsCurrent, row, userVars
  <2>2. CASE provider = "graph" /\ StoreTokens("janitor", jcred)
    <3>1. /\ UNCHANGED <<status, age, raced, jage, sinceOk, upc, uloaded, provider>> /\ stale \subseteq stale'
          /\ jpc = "check" /\ jpc' = "commit" /\ verdict' = "valid"
      BY <1>3, <2>2 DEF JanitorValid, StoreTokens, userVars
    <3>2. CopiesTellStamp' /\ StampIsRecent' /\ StampResetsPool' /\ ChecksStored'
      BY <2>2, <3>1 DEF StampInv, CopiesTellStamp, StampIsRecent, StampResetsPool, ChecksStored, PoolIsCurrent
    <3> QED BY <3>2 DEF StampInv
  <2> QED BY <1>3, <2>1, <2>2 DEF JanitorValid
<1>4. CASE JanitorInvalid
  BY <1>4 DEF JanitorInvalid, StampInv, CopiesTellStamp, StampIsRecent, StampResetsPool, ChecksStored,
     PoolIsCurrent, row, userVars, historyVars
<1>5. CASE JanitorFault
  BY <1>quiet, <1>5 DEF JanitorFault
<1>6. CASE JanitorRecovers
  <2> DEFINE a == IF jage = NoStamp THEN age ELSE NoStamp
  <2>1. Write("janitor", "active", a, credential)
    BY <1>6 DEF JanitorRecovers
  <2>2. "janitor" \notin stale => a = NoStamp
    BY <1>6 DEF JanitorRecovers, StampInv, CopiesTellStamp
  <2> HIDE DEF a
  <2> QED BY <1>write, <1>6, <2>1, <2>2 DEF JanitorRecovers
<1>7. CASE JanitorStamps
  BY <1>write, <1>7 DEF JanitorStamps
<1>8. CASE JanitorWaits
  BY <1>quiet, <1>8 DEF JanitorWaits
<1>9. CASE JanitorRetires
  <2>1. PICK s \in {"disabled", "gone"} : Write("janitor", s, age, credential)
    BY <1>9 DEF JanitorRetires
  <2> QED BY <1>write, <1>9, <2>1 DEF JanitorRetires
<1> QED BY <1>1, <1>2, <1>3, <1>4, <1>5, <1>6, <1>7, <1>8, <1>9 DEF JanitorStep

LEMMA StampStep ==
  ASSUME IInv, [Next]_vars
  PROVE  IInv'
<1>0. AllTyped /\ AllTyped' /\ StampInv
  BY TypeStep, TypeParts DEF IInv, StampInv, TypeOK, Equipped, AllTyped, RowTyped, RestTyped, PoolTyped,
     SyncTyped, JanitorTyped, UserTyped, HistoryTyped
<1> SUFFICES StampInv'
  BY TypeStep DEF IInv, StampInv
<1>1. ASSUME NEW c \in Credentials, Rotate(c)
      PROVE  StampInv'
  BY <1>0, <1>1 DEF Rotate, StampInv, CopiesTellStamp, StampIsRecent, StampResetsPool, ChecksStored,
     PoolIsCurrent, row, poolVars, janitorVars, userVars, historyVars
<1>2. CASE Tick
  <2>1. /\ age' = NoStamp <=> age = NoStamp
        /\ age \in Ages /\ sinceOk \in 0..Grace /\ jage \in Ages
    BY <1>0, <1>2, AgeFacts DEF Tick, Older, Ages, NoStamp, AllTyped, RowTyped, RestTyped, JanitorTyped
  <2>2. CopiesTellStamp' /\ StampResetsPool' /\ ChecksStored'
    BY <1>0, <1>2, <2>1 DEF Tick, StampInv, CopiesTellStamp, StampResetsPool, ChecksStored, PoolIsCurrent,
       poolVars, janitorVars, userVars
  <2>3. (age <= sinceOk => age' <= sinceOk') /\ (jage <= sinceOk => jage <= sinceOk')
    BY <1>2, <2>1, AgeFacts DEF Tick, Older, Ages, NoStamp
  <2>4. StampIsRecent'
    BY <1>0, <1>2, <2>3 DEF Tick, StampInv, StampIsRecent, janitorVars
  <2> QED BY <2>2, <2>4 DEF StampInv
<1>3. CASE UNCHANGED vars
  BY <1>0, <1>3 DEF vars, StampInv, CopiesTellStamp, StampIsRecent, StampResetsPool, ChecksStored,
     PoolIsCurrent, row, poolVars, janitorVars, userVars, historyVars
<1> QED BY <1>0, <1>1, <1>2, <1>3, StampUser, StampSync, StampJanitor DEF Next

LEMMA AlwaysStamped == Spec => []IInv
<1>1. Init => IInv
  BY TypeInit, StampInit DEF IInv, StampInv
<1> QED BY <1>1, StampStep, PTL DEF Spec

-----------------------------------------------------------------------------
(***************************************************************************)
(* What retires an account.                                                *)
(***************************************************************************)
LEMMA OnlyJanitorRetires ==
  ASSUME AllTyped, [Next]_vars, Retires, ~raced'
  PROVE  /\ jpc = "commit" /\ verdict = "invalid" /\ jage = Grace /\ status # "gone"
         /\ "janitor" \notin stale /\ ~raced /\ sinceOk' = sinceOk /\ credential' = credential
<1>1. JanitorStep
  BY DEF Retires, Next, UserStep, SyncStep, PatchLoad, PatchCommit, DeleteAccount, OauthStore, OauthMark,
     OauthRefused, SyncBegin, SyncAnswered, SyncRejected, SyncOutage, SyncFinds, SyncRaises,
     SyncMarksActive, SyncMarksFailure, Rotate, Tick, vars, janitorVars
<1>2. JanitorRetires
  BY <1>1 DEF Retires, JanitorStep, JanitorLoad, JanitorConnect, JanitorValid, JanitorInvalid, JanitorFault,
     JanitorRecovers, JanitorStamps, JanitorWaits, Write, row
<1>3. PICK s \in {"disabled", "gone"} : Write("janitor", s, age, credential)
  BY <1>2 DEF JanitorRetires
<1>4. status # "gone" /\ "janitor" \notin stale /\ ~raced /\ credential' = credential
  BY <1>3, WriteRaces DEF AllTyped, Retires, row
<1> QED BY <1>2, <1>4 DEF JanitorRetires

\* An account is retired for the credential it stores, not for the older
\* password of the worker's pool: the janitor has reset the pool before it
\* stamps, and no password is stored without clearing the stamp.
THEOREM RetiredForStoredCredential == Spec => RetiresStoredCredential
<1>1. ASSUME IInv, [Next]_vars, Retires, ~raced'
      PROVE  jcred = credential
  <2>1. AllTyped
    BY <1>1, TypeParts DEF IInv
  <2> QED BY <1>1, <2>1, OnlyJanitorRetires, AgeFacts DEF IInv, ChecksStored
<1>2. IInv /\ [Next]_vars => [Retires /\ ~raced' => jcred = credential]_vars
  BY <1>1
<1> QED BY <1>2, AlwaysStamped, PTL DEF Spec, RetiresStoredCredential

\* An account is never retired earlier than a whole grace period after it was
\* last set active, because every party that sets it active clears the stamp.
THEOREM GraceBeforeRetirement == Spec => GraceIsHonoured
<1>1. ASSUME IInv, IInv', [Next]_vars, Retires, ~raced'
      PROVE  sinceOk = Grace
  <2>1. AllTyped
    BY <1>1, TypeParts DEF IInv
  <2>2. jpc = "commit" /\ "janitor" \notin stale /\ ~raced /\ status # "gone" /\ jage = Grace
    BY <1>1, <2>1, OnlyJanitorRetires
  <2>3. jage <= sinceOk /\ sinceOk \in 0..Grace
    BY <1>1, <2>1, <2>2 DEF IInv, StampIsRecent, AllTyped, RestTyped
  <2> QED BY <2>2, <2>3, AgeFacts
<1>2. IInv /\ IInv' /\ [Next]_vars => [Retires /\ ~raced' => sinceOk = Grace]_vars
  BY <1>1
<1> QED BY <1>2, AlwaysStamped, PTL DEF Spec, GraceIsHonoured
=============================================================================
