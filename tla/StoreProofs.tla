----------------------------- MODULE StoreProofs -----------------------------
(***************************************************************************)
(* The safety properties of what is kept on disk: first the rows of        *)
(* MessageStore, for any handles, mails, folders and body jobs, then the   *)
(* files of Blobs, for any threads and processes and any number of calls   *)
(* and faults.                                                             *)
(***************************************************************************)
EXTENDS MessageStore, Blobs, FiniteSetTheorems, TLAPS

-----------------------------------------------------------------------------
(***************************************************************************)
(* Rows: the inductive invariant of MessageStore.                          *)
(***************************************************************************)
Accounts == {Account(h) : h \in Handles}
Mails    == {Mail[h] : h \in Handles}
Hashes   == {HeaderHash(h) : h \in Handles} \cup {BodyHash(m) : m \in Mails}
Ids      == UNION {Own(m) \cup m.refs : m \in Mails}
States   == {None, "partial", "full"}

Row   == [account : Accounts, hash : Hashes, state : States, mail : Mails, thread : Names,
          refs : SUBSET Ids]
Draft == [account : Accounts, hash : Hashes, state : States, mail : Mails, thread : Names \cup {None},
          refs : SUBSET Ids]
Work  == [row : Names, handle : Handles]

JobRecord == [pc : {"idle", "fetching", "read"}, todo : SUBSET Work, row : Names \cup {None},
              handle : Handles \cup {None}, twin : Names \cup {None}, into : Names \cup {None},
              found : SUBSET Names]

RowsTyped == DOMAIN rows \subseteq Names /\ rows \in [DOMAIN rows -> Row]

PlacesTyped == DOMAIN placed \subseteq Handles /\ placed \in [DOMAIN placed -> DOMAIN rows]

ThreadsTyped == threads \subseteq Names /\ \A r \in DOMAIN rows : rows[r].thread \in threads

MarksTyped == relisted \cup loose \subseteq DOMAIN rows

CountsTyped == box \subseteq Handles /\ mentions \in 0..MaxMentions

\* A body that was read has a thread to join, if there was one.
JobsTyped ==
    /\ job \in [Jobs -> JobRecord]
    /\ \A j \in Jobs : job[j].pc = "read" =>
         /\ job[j].row \in Names /\ job[j].handle \in Handles
         /\ job[j].into \in job[j].found \cup {None}
         /\ job[j].into = None <=> job[j].found = {}

UniqueHash ==
    \A r, s \in DOMAIN rows :
        rows[r].account = rows[s].account /\ rows[r].hash = rows[s].hash => r = s

\* The identity is the one that the header gave or that the body gives.
Identifies(hash, h) ==
    \/ hash = HeaderHash(h)
    \/ hash = BodyHash(Mail[h]) /\ Mail[h].kind # "refused"

\* The row may stand for the message.
Fits(r, h) == Identifies(rows[r].hash, h)

PlacedFit ==
    \A h \in DOMAIN placed :
        Fits(placed[h], h) /\ (rows[placed[h]].account = Account(h) \/ Mail[h].id = None)

\* So do the rows that the jobs work on, as long as they exist.
JobsFit ==
    \A j \in Jobs :
        /\ \A c \in job[j].todo : c.row \in DOMAIN rows => Fits(c.row, c.handle)
        /\ job[j].pc = "read" /\ job[j].row \in DOMAIN rows => Fits(job[j].row, job[j].handle)

\* A twin has the identity of the body; only a row without a Message-ID, or one
\* that is gone, is merged into a twin.
TwinsFit ==
    \A j \in Jobs : job[j].pc = "read" /\ job[j].twin # None =>
        /\ job[j].twin # job[j].row /\ Mail[job[j].handle].kind # "refused"
        /\ job[j].twin \in DOMAIN rows => rows[job[j].twin].hash = BodyHash(Mail[job[j].handle])
        /\ job[j].row \in DOMAIN rows => Mail[job[j].handle].id = None

\* A row with the identity of a header has that mail; if the identity is
\* provisional, it has no body, or one that was refused.
MailsFit ==
    \A r \in DOMAIN rows, h \in Handles : rows[r].hash = HeaderHash(h) =>
        /\ rows[r].mail.id = Mail[h].id
        /\ Mail[h].id = None => /\ rows[r].mail = Mail[h]
                                /\ rows[r].state # None /\ r \notin loose => Mail[h].kind = "refused"

\* A row holds the references of its mail, unless a listing wrote over them.
RefsKept ==
    \A r \in DOMAIN rows :
        /\ Own(rows[r].mail) \subseteq rows[r].refs
        /\ rows[r].state # None /\ r \notin relisted \cup loose => BodyRefs(rows[r].mail) \subseteq rows[r].refs

\* Rows of an account with a reference in common are in one thread.
Connected ==
    \A r, s \in DOMAIN rows \ loose :
        rows[r].account = rows[s].account /\ rows[r].refs \cap rows[s].refs # {}
        => rows[r].thread = rows[s].thread

StoreTyped == RowsTyped /\ PlacesTyped /\ ThreadsTyped /\ MarksTyped /\ CountsTyped /\ JobsTyped

StoreInv ==
    /\ StoreTyped /\ UniqueHash /\ PlacedFit /\ JobsFit /\ TwinsFit /\ MailsFit /\ RefsKept /\ Connected

-----------------------------------------------------------------------------
(***************************************************************************)
(* Identities.                                                             *)
(***************************************************************************)
LEMMA HashFacts ==
  ASSUME NEW h \in Handles, NEW k \in Handles
  PROVE  /\ Mail[h].id # None => HeaderHash(h) = BodyHash(Mail[h])
         /\ HeaderHash(h) = HeaderHash(k) => Mail[h].id = Mail[k].id /\ (Mail[h].id = None => h = k)
         /\ HeaderHash(h) = BodyHash(Mail[k]) => Mail[h].id # None /\ Mail[k].id = Mail[h].id
         /\ BodyHash(Mail[h]) = BodyHash(Mail[k]) => Mail[k].id = Mail[h].id
<1>1. \A x, y : <<"id", x>> # <<"at", y>> /\ <<"part", x>> # <<"at", y>> /\ <<"raw", x>> # <<"at", y>>
  OBVIOUS
<1>2. \A x, y : <<"id", x>> # <<"part", y>> /\ <<"id", x>> # <<"raw", y>>
  OBVIOUS
<1>3. \A x, y : (<<"id", x>> = <<"id", y>> => x = y) /\ (<<"at", x>> = <<"at", y>> => x = y)
  OBVIOUS
<1>4. Mail[h].id # None => HeaderHash(h) = BodyHash(Mail[h])
  BY DEF HeaderHash, BodyHash
<1>5. HeaderHash(h) = HeaderHash(k) => Mail[h].id = Mail[k].id /\ (Mail[h].id = None => h = k)
  BY <1>1, <1>3 DEF HeaderHash
<1>6. HeaderHash(h) = BodyHash(Mail[k]) => Mail[h].id # None /\ Mail[k].id = Mail[h].id
  BY <1>1, <1>2, <1>3 DEF HeaderHash, BodyHash
<1>7. BodyHash(Mail[h]) = BodyHash(Mail[k]) => Mail[k].id = Mail[h].id
  BY <1>1, <1>2, <1>3 DEF BodyHash
<1> QED BY <1>4, <1>5, <1>6, <1>7

\* A row that stands for two messages stands for the second with the identity
\* that the body of the first gives it.
LEMMA BodySettles ==
  ASSUME NEW h \in Handles, NEW k \in Handles, NEW hash,
         Identifies(hash, h), Identifies(hash, k), Mail[h].kind # "refused"
  PROVE  Identifies(BodyHash(Mail[h]), k) /\ Mail[h].id = Mail[k].id
<1>1. CASE hash = BodyHash(Mail[h])
  <2>1. Mail[h].id = Mail[k].id
    BY <1>1, HashFacts DEF Identifies
  <2> QED BY <1>1, <2>1
<1>2. CASE hash = HeaderHash(h) /\ Mail[h].id # None
  BY <1>1, <1>2, HashFacts
<1>3. CASE hash = HeaderHash(h) /\ Mail[h].id = None
  <2>1. hash # BodyHash(Mail[k])
    BY <1>3, HashFacts
  <2>2. h = k
    BY <1>3, <2>1, HashFacts DEF Identifies
  <2> QED BY <2>2 DEF Identifies
<1> QED BY <1>1, <1>2, <1>3 DEF Identifies

\* An identity that a body gave, or a Message-ID, is final.
LEMMA SettledStays ==
  ASSUME NEW h \in Handles, NEW k \in Handles, NEW hash,
         Identifies(hash, h), hash = BodyHash(Mail[k])
  PROVE  hash = BodyHash(Mail[h])
<1>1. CASE hash = HeaderHash(h)
  BY <1>1, HashFacts
<1> QED BY <1>1 DEF Identifies

LEMMA MailFacts ==
  ASSUME NEW h \in Handles
  PROVE  /\ HeaderHash(h) \in Hashes /\ BodyHash(Mail[h]) \in Hashes /\ Account(h) \in Accounts
         /\ Mail[h] \in Mails /\ Own(Mail[h]) \subseteq Ids /\ BodyRefs(Mail[h]) \subseteq Ids
         /\ None \notin Own(Mail[h]) /\ None \notin BodyRefs(Mail[h])
<1>1. Mail[h] \in Mails /\ Account(h) \in Accounts
  BY DEF Mails, Accounts
<1>2. HeaderHash(h) \in Hashes /\ BodyHash(Mail[h]) \in Hashes
  BY <1>1 DEF Hashes
<1>3. Own(Mail[h]) \subseteq Ids /\ Mail[h].refs \subseteq Ids
  BY <1>1 DEF Ids
<1>4. None \notin Own(Mail[h]) /\ None \notin Mail[h].refs
  BY StoreAssumption DEF Own
<1> QED BY <1>1, <1>2, <1>3, <1>4 DEF BodyRefs

LEMMA RowIs ==
  ASSUME RowsTyped, NEW r \in DOMAIN rows
  PROVE  /\ r \in Names /\ rows[r] \in Row /\ rows[r] \in Draft
         /\ rows[r].account \in Accounts /\ rows[r].hash \in Hashes /\ rows[r].state \in States
         /\ rows[r].mail \in Mails /\ rows[r].thread \in Names /\ rows[r].refs \in SUBSET Ids
<1>1. r \in Names /\ rows[r] \in Row
  BY DEF RowsTyped
<1> QED BY <1>1 DEF Row, Draft

LEMMA JobIs ==
  ASSUME JobsTyped, NEW j \in Jobs
  PROVE  /\ job[j] \in JobRecord /\ job[j].todo \subseteq Work /\ job[j].found \subseteq Names
         /\ \A c \in job[j].todo : c.row \in Names /\ c.handle \in Handles
         /\ job[j].pc \in {"idle", "fetching", "read"}
<1>1. job[j] \in JobRecord
  BY DEF JobsTyped
<1>2. job[j].todo \subseteq Work /\ job[j].found \subseteq Names /\ job[j].pc \in {"idle", "fetching", "read"}
  BY <1>1 DEF JobRecord
<1> QED BY <1>1, <1>2 DEF Work

-----------------------------------------------------------------------------
(***************************************************************************)
(* Writing a row.                                                          *)
(***************************************************************************)
Moved(row, t, refs) ==
    [account |-> row.account, hash |-> row.hash, state |-> row.state, mail |-> row.mail,
     thread |-> t, refs |-> refs]

LEMMA MovedIs ==
  ASSUME NEW row \in Draft, NEW t \in Names, NEW refs \in SUBSET Ids
  PROVE  /\ [row EXCEPT !.thread = t, !.refs = refs] = Moved(row, t, refs)
         /\ Moved(row, t, refs) \in Row
<1> DEFINE moved == [row EXCEPT !.thread = t]
<1>1. [row EXCEPT !.thread = t, !.refs = refs] = [moved EXCEPT !.refs = refs]
  BY DEF Draft
<1>2. moved = Moved(row, t, row.refs)
  BY DEF Draft, Moved
<1>3. [Moved(row, t, row.refs) EXCEPT !.refs = refs] = Moved(row, t, refs)
  BY DEF Moved
<1> HIDE DEF moved
<1>4. Moved(row, t, refs) \in Row
  BY DEF Moved, Row, Draft
<1> QED BY <1>1, <1>2, <1>3, <1>4

LEMMA MovedAlong ==
  ASSUME NEW row \in Row, NEW t \in Names
  PROVE  /\ [row EXCEPT !.thread = t] = Moved(row, t, row.refs)
         /\ Moved(row, t, row.refs) \in Row
<1>1. [row EXCEPT !.thread = t] = Moved(row, t, row.refs)
  BY DEF Row, Moved
<1>2. Moved(row, t, row.refs) \in Row
  BY DEF Row, Moved
<1> QED BY <1>1, <1>2

\* Row r joined thread t, the rows of found went along, and no other row came
\* or changed anything but its thread.
Joined(r, t, found) ==
    /\ RowsTyped' /\ r \in DOMAIN rows' /\ DOMAIN rows' \subseteq DOMAIN rows \cup {r}
    /\ rows'[r].thread = t
    /\ \A x \in DOMAIN rows' \ {r} :
         /\ rows'[x].account = rows[x].account /\ rows'[x].hash = rows[x].hash
         /\ rows'[x].state = rows[x].state /\ rows'[x].mail = rows[x].mail
         /\ rows'[x].refs = rows[x].refs
         /\ rows'[x].thread = IF rows[x].thread \in found THEN t ELSE rows[x].thread

LEMMA AssignJoins ==
  ASSUME NEW S \in SUBSET Names, NEW table, DOMAIN table = S, NEW r \in S, table[r] \in Draft,
         \A x \in S \ {r} : x \in DOMAIN rows /\ table[x] = rows[x], RowsTyped,
         NEW t \in Names, NEW found, NEW refs \in SUBSET Ids,
         rows' = Assign(table, r, t, found, refs)
  PROVE  /\ DOMAIN rows' = S /\ Joined(r, t, found) /\ rows'[r].refs = refs
         /\ rows'[r].account = table[r].account /\ rows'[r].hash = table[r].hash
         /\ rows'[r].state = table[r].state /\ rows'[r].mail = table[r].mail
<1> DEFINE own == Moved(table[r], t, refs)
           along(x) == IF rows[x].thread \in found THEN Moved(rows[x], t, rows[x].refs) ELSE rows[x]
<1>1. [table[r] EXCEPT !.thread = t, !.refs = refs] = own /\ own \in Row
  BY MovedIs
<1>2. ASSUME NEW x \in S \ {r}
      PROVE  /\ (IF table[x].thread \in found THEN [table[x] EXCEPT !.thread = t] ELSE table[x]) = along(x)
             /\ along(x) \in Row
  <2>1. table[x] = rows[x] /\ rows[x] \in Row
    BY <1>2, RowIs
  <2>2. [rows[x] EXCEPT !.thread = t] = Moved(rows[x], t, rows[x].refs) /\ Moved(rows[x], t, rows[x].refs) \in Row
    BY <2>1, MovedAlong
  <2> QED BY <2>1, <2>2
<1> HIDE DEF own, along
<1>3. rows' = [x \in S |-> IF x = r THEN own ELSE along(x)]
  BY <1>1, <1>2 DEF Assign
<1>4. \A x \in S : (IF x = r THEN own ELSE along(x)) \in Row
  BY <1>1, <1>2
<1>5. DOMAIN rows' = S /\ rows' \in [S -> Row]
  BY <1>3, <1>4
<1>6. RowsTyped'
  BY <1>5 DEF RowsTyped
<1>7. rows'[r] = own /\ \A x \in S \ {r} : rows'[x] = along(x)
  BY <1>3
<1>8. /\ rows'[r].thread = t /\ rows'[r].refs = refs
      /\ rows'[r].account = table[r].account /\ rows'[r].hash = table[r].hash
      /\ rows'[r].state = table[r].state /\ rows'[r].mail = table[r].mail
  BY <1>7 DEF own, Moved
<1>9. ASSUME NEW x \in S \ {r}
      PROVE  /\ rows'[x].account = rows[x].account /\ rows'[x].hash = rows[x].hash
             /\ rows'[x].state = rows[x].state /\ rows'[x].mail = rows[x].mail
             /\ rows'[x].refs = rows[x].refs
             /\ rows'[x].thread = IF rows[x].thread \in found THEN t ELSE rows[x].thread
  <2>1. rows'[x] = along(x)
    BY <1>7, <1>9
  <2>2. CASE rows[x].thread \in found
    BY <2>1, <2>2 DEF along, Moved
  <2>3. CASE rows[x].thread \notin found
    BY <2>1, <2>3 DEF along
  <2> QED BY <2>2, <2>3
<1>10. DOMAIN rows' \subseteq DOMAIN rows \cup {r} /\ r \in DOMAIN rows'
  BY <1>5
<1> QED BY <1>5, <1>6, <1>8, <1>9, <1>10 DEF Joined

-----------------------------------------------------------------------------
(***************************************************************************)
(* Names.                                                                  *)
(***************************************************************************)
LEMMA FreeThreadIs ==
  ASSUME FreeThreads # {}, NEW r
  PROVE  NewThread(r) \in FreeThreads /\ NewThread(r) \in Names
BY DEF NewThread, FreeThreads

LEMMA RowForIs ==
  ASSUME StoreTyped, NEW h \in Handles, FreeRows(h) # {}
  PROVE  /\ RowFor(h) \in Names
         /\ RowFor(h) \in DOMAIN rows => /\ rows[RowFor(h)].account = Account(h)
                                         /\ rows[RowFor(h)].hash = HeaderHash(h)
         /\ RowFor(h) \notin DOMAIN rows =>
              /\ RowFor(h) \notin HeldRows
              /\ \A x \in DOMAIN rows : rows[x].account # Account(h) \/ rows[x].hash # HeaderHash(h)
<1> DEFINE same == {r \in DOMAIN rows : rows[r].account = Account(h) /\ rows[r].hash = HeaderHash(h)}
<1>1. CASE same # {}
  <2>1. RowFor(h) = CHOOSE r \in same : TRUE
    BY <1>1 DEF RowFor
  <2>2. RowFor(h) \in same
    BY <1>1, <2>1
  <2> QED BY <2>2 DEF StoreTyped, RowsTyped
<1>2. CASE same = {}
  <2>1. RowFor(h) = NewRow(h)
    BY <1>2 DEF RowFor
  <2>2. NewRow(h) \in FreeRows(h)
    BY DEF NewRow
  <2>3. NewRow(h) \in Names /\ NewRow(h) \notin DOMAIN rows /\ NewRow(h) \notin HeldRows
    BY <2>2 DEF FreeRows, Names
  <2> QED BY <1>2, <2>1, <2>3
<1> QED BY <1>1, <1>2

LEMMA LiveThreads ==
  ASSUME RowsTyped', threads \subseteq Names, NEW jobs, NEW merged, threads' = Live(rows', jobs, merged)
  PROVE  ThreadsTyped'
<1>1. \A r \in DOMAIN rows' : rows'[r].thread \in Names /\ rows'[r].thread \in threads'
  BY DEF RowsTyped, Row, Live
<1>2. ASSUME NEW t \in threads' PROVE t \in Names
  BY <1>1, <1>2 DEF Live
<1> QED BY <1>1, <1>2 DEF ThreadsTyped

-----------------------------------------------------------------------------
(***************************************************************************)
(* Steps that write no references and no thread.                           *)
(***************************************************************************)
\* The rows that stay are what they were; one whose body changed is loose.
Kept ==
    /\ RowsTyped' /\ DOMAIN rows' \subseteq DOMAIN rows
    /\ \A x \in DOMAIN rows' :
         /\ rows'[x].account = rows[x].account /\ rows'[x].hash = rows[x].hash
         /\ rows'[x].mail = rows[x].mail /\ rows'[x].thread = rows[x].thread
         /\ rows'[x].refs = rows[x].refs
         /\ x \notin loose' => x \notin loose /\ rows'[x].state = rows[x].state
         /\ x \notin relisted' \cup loose' => x \notin relisted

LEMMA KeptRows ==
  ASSUME StoreInv, Kept
  PROVE  UniqueHash' /\ MailsFit' /\ RefsKept' /\ Connected'
<1>1. UniqueHash'
  BY DEF StoreInv, UniqueHash, Kept
<1>2. ASSUME NEW x \in DOMAIN rows', NEW h \in Handles, rows'[x].hash = HeaderHash(h)
      PROVE  /\ rows'[x].mail.id = Mail[h].id
             /\ Mail[h].id = None =>
                  /\ rows'[x].mail = Mail[h]
                  /\ rows'[x].state # None /\ x \notin loose' => Mail[h].kind = "refused"
  BY <1>2 DEF StoreInv, MailsFit, Kept
<1>3. ASSUME NEW x \in DOMAIN rows'
      PROVE  /\ Own(rows'[x].mail) \subseteq rows'[x].refs
             /\ rows'[x].state # None /\ x \notin relisted' \cup loose'
                  => BodyRefs(rows'[x].mail) \subseteq rows'[x].refs
  BY <1>3 DEF StoreInv, RefsKept, Kept
<1>4. ASSUME NEW x \in DOMAIN rows' \ loose', NEW y \in DOMAIN rows' \ loose',
             rows'[x].account = rows'[y].account, rows'[x].refs \cap rows'[y].refs # {}
      PROVE  rows'[x].thread = rows'[y].thread
  BY <1>4 DEF StoreInv, Connected, Kept
<1> QED BY <1>1, <1>2, <1>3, <1>4 DEF MailsFit, RefsKept, Connected

LEMMA KeptPlaces ==
  ASSUME StoreInv, Kept, PlacesTyped', DOMAIN placed' \subseteq DOMAIN placed,
         \A h \in DOMAIN placed' : placed'[h] = placed[h]
  PROVE  PlacedFit'
<1>1. ASSUME NEW h \in DOMAIN placed'
      PROVE  Fits(placed[h], h)' /\ (rows'[placed'[h]].account = Account(h) \/ Mail[h].id = None)
  <2>1. placed'[h] = placed[h] /\ placed[h] \in DOMAIN rows'
    BY <1>1 DEF PlacesTyped
  <2>2. rows'[placed[h]].hash = rows[placed[h]].hash /\ rows'[placed[h]].account = rows[placed[h]].account
    BY <2>1 DEF Kept
  <2>3. Identifies(rows[placed[h]].hash, h) /\ (rows[placed[h]].account = Account(h) \/ Mail[h].id = None)
    BY <1>1 DEF StoreInv, PlacedFit, Fits
  <2> QED BY <2>1, <2>2, <2>3 DEF Fits
<1> QED BY <1>1 DEF PlacedFit, Fits

\* A row that a job has in hand, or merges into.
Held(j, x) == x \in {job[j].row, job[j].twin} \cup {c.row : c \in job[j].todo}

LEMMA HeldIs ==
  ASSUME NEW x
  PROVE  x \in HeldRows <=> \E j \in Jobs : Held(j, x)
BY DEF HeldRows, Held

\* Jobs that take up no new row, while the identities they rely on stay.
LEMMA JobsKept ==
  ASSUME StoreInv,
         \A j \in Jobs : /\ job'[j].todo \subseteq job[j].todo
                         /\ job'[j].pc = "read" => job'[j] = job[j],
         \A x \in DOMAIN rows' : x \in HeldRows =>
             /\ x \in DOMAIN rows
             /\ \A k \in Handles :
                  /\ Identifies(rows[x].hash, k) => Identifies(rows'[x].hash, k)
                  /\ rows[x].hash = BodyHash(Mail[k]) => rows'[x].hash = BodyHash(Mail[k])
  PROVE  JobsFit' /\ TwinsFit'
<1>1. ASSUME NEW j \in Jobs, NEW c \in job'[j].todo, c.row \in DOMAIN rows'
      PROVE  Identifies(rows'[c.row].hash, c.handle)
  <2>1. c \in job[j].todo /\ c.handle \in Handles
    BY <1>1, JobIs DEF StoreInv, StoreTyped
  <2>2. c.row \in HeldRows
    BY <2>1, HeldIs DEF Held
  <2>3. Identifies(rows[c.row].hash, c.handle)
    BY <1>1, <2>1, <2>2 DEF StoreInv, JobsFit, Fits
  <2> QED BY <1>1, <2>1, <2>2, <2>3
<1>2. ASSUME NEW j \in Jobs, job'[j].pc = "read", job'[j].row \in DOMAIN rows'
      PROVE  job[j].row \in DOMAIN rows /\ Identifies(rows'[job'[j].row].hash, job'[j].handle)
  <2>1. job'[j] = job[j] /\ job[j].pc = "read" /\ job[j].handle \in Handles
    BY <1>2 DEF StoreInv, StoreTyped, JobsTyped
  <2>2. job[j].row \in HeldRows
    BY HeldIs DEF Held
  <2>3. job[j].row \in DOMAIN rows /\ Identifies(rows[job[j].row].hash, job[j].handle)
    BY <1>2, <2>1, <2>2 DEF StoreInv, JobsFit, Fits
  <2> QED BY <1>2, <2>1, <2>2, <2>3
<1>3. ASSUME NEW j \in Jobs, job'[j].pc = "read", job'[j].twin # None
      PROVE  /\ job'[j].twin # job'[j].row /\ Mail[job'[j].handle].kind # "refused"
             /\ job'[j].twin \in DOMAIN rows' => rows'[job'[j].twin].hash = BodyHash(Mail[job'[j].handle])
             /\ job'[j].row \in DOMAIN rows' => Mail[job'[j].handle].id = None
  <2>1. job'[j] = job[j] /\ job[j].pc = "read" /\ job[j].handle \in Handles
    BY <1>3 DEF StoreInv, StoreTyped, JobsTyped
  <2>2. /\ job[j].twin # job[j].row /\ Mail[job[j].handle].kind # "refused"
        /\ job[j].twin \in DOMAIN rows => rows[job[j].twin].hash = BodyHash(Mail[job[j].handle])
        /\ job[j].row \in DOMAIN rows => Mail[job[j].handle].id = None
    BY <1>3, <2>1 DEF StoreInv, TwinsFit
  <2>3. job[j].twin \in HeldRows
    BY HeldIs DEF Held
  <2>4. job[j].twin \in DOMAIN rows' => rows'[job[j].twin].hash = BodyHash(Mail[job[j].handle])
    BY <2>1, <2>2, <2>3
  <2> QED BY <1>2, <1>3, <2>1, <2>2, <2>4
<1> QED BY <1>1, <1>2, <1>3 DEF JobsFit, TwinsFit, Fits

JobAt(pc, todo) ==
    [pc |-> pc, todo |-> todo, row |-> None, handle |-> None, twin |-> None, into |-> None, found |-> {}]

LEMMA JobAtIs ==
  ASSUME NEW pc \in {"idle", "fetching"}, NEW todo \in SUBSET Work
  PROVE  [Idle EXCEPT !.pc = pc, !.todo = todo] = JobAt(pc, todo) /\ JobAt(pc, todo) \in JobRecord
<1> DEFINE started == [Idle EXCEPT !.pc = pc]
<1>1. Idle \in JobRecord
  BY DEF Idle, JobRecord
<1>2. [Idle EXCEPT !.pc = pc, !.todo = todo] = [started EXCEPT !.todo = todo]
  BY <1>1 DEF JobRecord
<1>3. started = JobAt(pc, {})
  BY DEF Idle, JobAt
<1>4. [JobAt(pc, {}) EXCEPT !.todo = todo] = JobAt(pc, todo)
  BY DEF JobAt
<1> HIDE DEF started
<1>5. JobAt(pc, todo) \in JobRecord
  BY DEF JobAt, JobRecord
<1> QED BY <1>2, <1>3, <1>4, <1>5

LEMMA RestIs ==
  ASSUME StoreTyped, NEW j \in Jobs, NEW todo \in SUBSET Work, job' = Rest(j, todo)
  PROVE  /\ JobsTyped'
         /\ \A i \in Jobs \ {j} : job'[i] = job[i]
         /\ job'[j].todo = todo /\ job'[j].pc # "read"
<1> DEFINE rest == JobAt(IF todo = {} THEN "idle" ELSE "fetching", todo)
<1>1. [Idle EXCEPT !.pc = IF todo = {} THEN "idle" ELSE "fetching", !.todo = todo] = rest
  BY JobAtIs
<1>2. rest \in JobRecord /\ rest.todo = todo /\ rest.pc # "read"
  BY JobAtIs DEF JobAt
<1> HIDE DEF rest
<1>3. job \in [Jobs -> JobRecord]
  BY DEF StoreTyped, JobsTyped
<1>4. job' = [job EXCEPT ![j] = rest]
  BY <1>1 DEF Rest
<1>5. job' \in [Jobs -> JobRecord] /\ job'[j] = rest /\ \A i \in Jobs \ {j} : job'[i] = job[i]
  BY <1>2, <1>3, <1>4
<1>6. ASSUME NEW i \in Jobs, job'[i].pc = "read"
      PROVE  /\ job'[i].row \in Names /\ job'[i].handle \in Handles
             /\ job'[i].into \in job'[i].found \cup {None}
             /\ job'[i].into = None <=> job'[i].found = {}
  <2>1. job'[i] = job[i]
    BY <1>2, <1>5, <1>6
  <2> QED BY <1>6, <2>1 DEF StoreTyped, JobsTyped
<1> QED BY <1>2, <1>5, <1>6 DEF JobsTyped

LEMMA SameRows ==
  ASSUME StoreTyped, rows' = rows, loose' = loose, relisted' = relisted
  PROVE  Kept
BY DEF StoreTyped, RowsTyped, Kept

LEMMA DropKeeps ==
  ASSUME StoreInv, NEW gone, NEW account, Drop(gone, account), box' \subseteq Handles
  PROVE  StoreInv' /\ Kept /\ \A x \in DOMAIN rows' : rows'[x] = rows[x]
<1>1. /\ job' = job /\ mentions' = mentions /\ placed' = Without(placed, gone)
      /\ rows' = Without(rows, Orphans(rows, placed', account))
      /\ threads' = Live(rows', job', {})
      /\ relisted' = relisted \cap DOMAIN rows' /\ loose' = loose \cap DOMAIN rows'
  BY DEF Drop
<1> DEFINE orphans == Orphans(rows, placed', account)
<1>2. /\ DOMAIN rows' = DOMAIN rows \ orphans
      /\ \A x \in DOMAIN rows' : rows'[x] = rows[x]
      /\ rows' = [x \in DOMAIN rows' |-> rows[x]]
  BY <1>1 DEF Without
<1>3. /\ DOMAIN placed' = DOMAIN placed \ gone
      /\ \A h \in DOMAIN placed' : placed'[h] = placed[h]
      /\ placed' = [h \in DOMAIN placed' |-> placed[h]]
  BY <1>1 DEF Without
<1>4. RowsTyped'
  <2>1. \A x \in DOMAIN rows' : x \in Names /\ rows[x] \in Row
    BY <1>2, RowIs DEF StoreInv, StoreTyped
  <2> QED BY <1>2, <2>1 DEF RowsTyped
<1>5. Kept
  BY <1>1, <1>2, <1>4 DEF Kept
<1>6. PlacesTyped'
  <2>1. ASSUME NEW h \in DOMAIN placed' PROVE placed[h] \in DOMAIN rows'
    <3>1. placed[h] \in DOMAIN rows /\ placed'[h] = placed[h]
      BY <1>3, <2>1 DEF StoreInv, StoreTyped, PlacesTyped
    <3>2. placed[h] \notin orphans
      BY <2>1, <3>1 DEF Orphans
    <3> QED BY <1>2, <3>1, <3>2
  <2>2. DOMAIN placed' \subseteq Handles
    BY <1>3 DEF StoreInv, StoreTyped, PlacesTyped
  <2> QED BY <1>3, <2>1, <2>2 DEF PlacesTyped
<1>7. ThreadsTyped'
  BY <1>1, <1>4, LiveThreads DEF StoreInv, StoreTyped, ThreadsTyped
<1>8. MarksTyped' /\ CountsTyped' /\ JobsTyped'
  BY <1>1 DEF StoreInv, StoreTyped, MarksTyped, CountsTyped, JobsTyped
<1>9. JobsFit' /\ TwinsFit'
  <2>1. \A x \in DOMAIN rows' : x \in DOMAIN rows /\ rows'[x].hash = rows[x].hash
    BY <1>2
  <2> QED BY <1>1, <2>1, JobsKept
<1>10. PlacedFit'
  BY <1>3, <1>5, <1>6, KeptPlaces
<1> QED BY <1>2, <1>4, <1>5, <1>6, <1>7, <1>8, <1>9, <1>10, KeptRows DEF StoreInv, StoreTyped

-----------------------------------------------------------------------------
(***************************************************************************)
(* A message vanishes; the steps of a body job but the last.               *)
(***************************************************************************)
LEMMA VanishKeeps ==
  ASSUME StoreInv, NEW h \in Handles, Vanish(h)
  PROVE  StoreInv' /\ Kept
<1>1. /\ box' = box \ {h} /\ rows' = rows /\ placed' = placed /\ threads' = threads /\ job' = job
      /\ relisted' = relisted /\ loose' = loose /\ mentions' = mentions
  BY DEF Vanish
<1>2. StoreTyped'
  BY <1>1 DEF StoreInv, StoreTyped, RowsTyped, PlacesTyped, ThreadsTyped, MarksTyped, CountsTyped, JobsTyped
<1>3. Kept
  BY <1>1, SameRows DEF StoreInv
<1>4. PlacedFit'
  BY <1>1, <1>2, <1>3, KeptPlaces DEF StoreTyped
<1>5. JobsFit' /\ TwinsFit'
  BY <1>1, JobsKept
<1> QED BY <1>2, <1>3, <1>4, <1>5, KeptRows DEF StoreInv

LEMMA SelectRowsKeeps ==
  ASSUME StoreInv, NEW j \in Jobs, NEW f, SelectRows(j, f)
  PROVE  StoreInv' /\ UNCHANGED <<rows, placed>>
<1>1. /\ box' = box /\ rows' = rows /\ placed' = placed /\ threads' = threads
      /\ relisted' = relisted /\ loose' = loose /\ mentions' = mentions
  BY DEF SelectRows
<1>2. PICK chosen \in SUBSET Candidates(f) :
        job' = [job EXCEPT ![j] = [Idle EXCEPT !.pc = "fetching", !.todo = chosen]]
  BY DEF SelectRows
<1>3. ASSUME NEW c \in chosen
      PROVE  c \in Work /\ c.handle \in DOMAIN placed /\ c.row = placed[c.handle]
  <2>1. PICK h \in DOMAIN placed : c = [row |-> placed[h], handle |-> h]
    BY <1>3 DEF Candidates
  <2>2. placed[h] \in Names /\ h \in Handles
    BY DEF StoreInv, StoreTyped, PlacesTyped, RowsTyped
  <2> QED BY <2>1, <2>2 DEF Work
<1>4. job' = [job EXCEPT ![j] = JobAt("fetching", chosen)] /\ JobAt("fetching", chosen) \in JobRecord
  BY <1>2, <1>3, JobAtIs
<1>5. job \in [Jobs -> JobRecord]
  BY DEF StoreInv, StoreTyped, JobsTyped
<1>6. /\ job' \in [Jobs -> JobRecord] /\ \A i \in Jobs \ {j} : job'[i] = job[i]
      /\ job'[j].pc = "fetching" /\ job'[j].todo = chosen
  BY <1>4, <1>5 DEF JobAt
<1>7. JobsTyped'
  <2>1. ASSUME NEW i \in Jobs, job'[i].pc = "read"
        PROVE  /\ job'[i].row \in Names /\ job'[i].handle \in Handles
               /\ job'[i].into \in job'[i].found \cup {None}
               /\ job'[i].into = None <=> job'[i].found = {}
    <3>1. job'[i] = job[i]
      BY <1>6, <2>1
    <3> QED BY <2>1, <3>1 DEF StoreInv, StoreTyped, JobsTyped
  <2> QED BY <1>6, <2>1 DEF JobsTyped
<1>8. JobsFit'
  <2>1. ASSUME NEW c \in chosen PROVE Fits(c.row, c.handle)
    BY <1>3, <2>1 DEF StoreInv, PlacedFit
  <2>2. ASSUME NEW i \in Jobs
        PROVE  /\ \A c \in job'[i].todo : c.row \in DOMAIN rows => Fits(c.row, c.handle)
               /\ job'[i].pc = "read" /\ job'[i].row \in DOMAIN rows => Fits(job'[i].row, job'[i].handle)
    <3>1. CASE i = j
      BY <1>6, <2>1, <3>1
    <3>2. CASE i # j
      BY <1>6, <3>2 DEF StoreInv, JobsFit
    <3> QED BY <3>1, <3>2
  <2> QED BY <1>1, <2>2 DEF JobsFit, Fits
<1>9. TwinsFit'
  <2>1. ASSUME NEW i \in Jobs, job'[i].pc = "read" PROVE job'[i] = job[i]
    BY <1>6, <2>1
  <2> QED BY <1>1, <2>1 DEF StoreInv, TwinsFit
<1>10. StoreTyped'
  BY <1>1, <1>7 DEF StoreInv, StoreTyped, RowsTyped, PlacesTyped, ThreadsTyped, MarksTyped, CountsTyped
<1>11. Kept
  BY <1>1, SameRows DEF StoreInv
<1>12. PlacedFit'
  BY <1>1, <1>10, <1>11, KeptPlaces DEF StoreTyped
<1> QED BY <1>1, <1>8, <1>9, <1>10, <1>11, <1>12, KeptRows DEF StoreInv

\* Of a row without a message, at most the mark that it has its body changes.
LEMMA MissingRows ==
  ASSUME StoreInv, NEW r,
         rows' = rows \/ (r \in DOMAIN rows /\ rows' = [rows EXCEPT ![r].state = "partial"]),
         loose' = IF rows' # rows THEN loose \cup {r} ELSE loose, relisted' = relisted
  PROVE  /\ Kept /\ DOMAIN rows' = DOMAIN rows /\ MarksTyped'
         /\ \A x \in DOMAIN rows : rows[x].state # None => rows'[x].state # None
<1>1. CASE rows' = rows
  BY <1>1, SameRows DEF StoreInv, StoreTyped, MarksTyped
<1>2. CASE rows' # rows
  <2>1. r \in DOMAIN rows /\ rows' = [rows EXCEPT ![r] = [rows[r] EXCEPT !.state = "partial"]]
    BY <1>2
  <2> DEFINE marked == [rows[r] EXCEPT !.state = "partial"]
  <2>2. /\ rows[r] \in Row
        /\ \A x \in DOMAIN rows : x \in Names /\ rows[x] \in Row
    BY <2>1, RowIs DEF StoreInv, StoreTyped
  <2>3. /\ marked \in Row /\ marked.account = rows[r].account /\ marked.hash = rows[r].hash
        /\ marked.mail = rows[r].mail /\ marked.thread = rows[r].thread /\ marked.refs = rows[r].refs
        /\ marked.state = "partial"
    BY <2>2 DEF Row, States
  <2> HIDE DEF marked
  <2>4. /\ DOMAIN rows' = DOMAIN rows /\ rows'[r] = marked /\ \A x \in DOMAIN rows \ {r} : rows'[x] = rows[x]
        /\ rows' = [x \in DOMAIN rows |-> IF x = r THEN marked ELSE rows[x]]
    BY <2>1 DEF marked
  <2>5. RowsTyped'
    BY <2>2, <2>3, <2>4 DEF RowsTyped
  <2>6. loose' = loose \cup {r}
    BY <1>2
  <2>7. Kept
    BY <2>3, <2>4, <2>5, <2>6 DEF Kept
  <2>8. MarksTyped'
    BY <2>1, <2>4, <2>6 DEF StoreInv, StoreTyped, MarksTyped
  <2>9. "partial" # None
    BY StoreAssumption
  <2> QED BY <2>3, <2>4, <2>7, <2>8, <2>9
<1> QED BY <1>1, <1>2

LEMMA MissingKeeps ==
  ASSUME StoreInv, NEW j \in Jobs, NEW c \in job[j].todo, Missing(j, c)
  PROVE  /\ StoreInv' /\ placed' = placed /\ DOMAIN rows' = DOMAIN rows
         /\ \A x \in DOMAIN rows : rows[x].state # None => rows'[x].state # None
<1>1. /\ box' = box /\ placed' = placed /\ threads' = threads /\ relisted' = relisted /\ mentions' = mentions
      /\ loose' = IF rows' # rows THEN loose \cup {c.row} ELSE loose
  BY DEF Missing
<1>2. rows' = rows \/ (c.row \in DOMAIN rows /\ rows' = [rows EXCEPT ![c.row].state = "partial"])
  BY DEF Missing
<1>3. /\ Kept /\ DOMAIN rows' = DOMAIN rows /\ MarksTyped'
      /\ \A x \in DOMAIN rows : rows[x].state # None => rows'[x].state # None
  BY <1>1, <1>2, MissingRows
<1>4. PICK rest \in {job[j].todo \ {c}, {}} : job' = Rest(j, rest)
  BY DEF Missing
<1>5. rest \subseteq job[j].todo /\ rest \in SUBSET Work
  BY <1>4, JobIs DEF StoreInv, StoreTyped
<1>6. /\ JobsTyped' /\ \A i \in Jobs \ {j} : job'[i] = job[i]
      /\ job'[j].todo = rest /\ job'[j].pc # "read"
  BY <1>4, <1>5, RestIs DEF StoreInv
<1>7. JobsFit' /\ TwinsFit'
  <2>1. \A i \in Jobs : job'[i].todo \subseteq job[i].todo /\ (job'[i].pc = "read" => job'[i] = job[i])
    BY <1>5, <1>6
  <2>2. \A x \in DOMAIN rows' : x \in DOMAIN rows /\ rows'[x].hash = rows[x].hash
    BY <1>3 DEF Kept
  <2> QED BY <2>1, <2>2, JobsKept
<1>8. PlacesTyped' /\ CountsTyped' /\ RowsTyped'
  BY <1>1, <1>3 DEF StoreInv, StoreTyped, PlacesTyped, CountsTyped, Kept
<1>9. ThreadsTyped'
  BY <1>1, <1>3 DEF StoreInv, StoreTyped, ThreadsTyped, Kept
<1>10. PlacedFit'
  BY <1>1, <1>3, <1>8, KeptPlaces
<1> QED BY <1>1, <1>3, <1>6, <1>7, <1>8, <1>9, <1>10, KeptRows DEF StoreInv, StoreTyped

LEMMA AbortKeeps ==
  ASSUME StoreInv, NEW j \in Jobs, Abort(j)
  PROVE  StoreInv' /\ UNCHANGED <<rows, placed>>
<1>1. /\ box' = box /\ rows' = rows /\ placed' = placed /\ relisted' = relisted /\ loose' = loose
      /\ mentions' = mentions /\ job' = Rest(j, {}) /\ threads' = Live(rows, job', {})
  BY DEF Abort
<1>2. /\ JobsTyped' /\ \A i \in Jobs \ {j} : job'[i] = job[i]
      /\ job'[j].todo = {} /\ job'[j].pc # "read"
  BY <1>1, RestIs DEF StoreInv
<1>3. \A i \in Jobs : job'[i].todo \subseteq job[i].todo /\ (job'[i].pc = "read" => job'[i] = job[i])
  BY <1>2
<1>4. JobsFit' /\ TwinsFit'
  BY <1>1, <1>3, JobsKept
<1>5. RowsTyped' /\ PlacesTyped' /\ CountsTyped' /\ MarksTyped'
  BY <1>1 DEF StoreInv, StoreTyped, RowsTyped, PlacesTyped, CountsTyped, MarksTyped
<1>6. ThreadsTyped'
  BY <1>1, <1>5, LiveThreads DEF StoreInv, StoreTyped, ThreadsTyped
<1>7. Kept
  BY <1>1, SameRows DEF StoreInv
<1>8. PlacedFit'
  BY <1>1, <1>5, <1>7, KeptPlaces
<1> QED BY <1>1, <1>2, <1>4, <1>5, <1>6, <1>7, <1>8, KeptRows DEF StoreInv, StoreTyped

LEMMA LookUpIs ==
  ASSUME StoreInv, NEW r, NEW h \in Handles, r \in DOMAIN rows => Fits(r, h),
         NEW twin \in LookUp(r, Mail[h])
  PROVE  /\ twin \in Names \cup {None}
         /\ twin # None => /\ twin # r /\ Mail[h].kind # "refused"
                           /\ twin \in DOMAIN rows /\ rows[twin].hash = BodyHash(Mail[h])
                           /\ r \in DOMAIN rows => Mail[h].id = None
<1>1. CASE twin = None
  BY <1>1
<1>2. CASE twin # None
  <2>1. Mail[h].kind # "refused" /\ (r \in DOMAIN rows => rows[r].hash # BodyHash(Mail[h]))
    BY <1>2 DEF LookUp
  <2>2. twin \in Twins(r, BodyHash(Mail[h]))
    BY <1>2, <2>1 DEF LookUp
  <2>3. twin \in DOMAIN rows /\ twin # r /\ rows[twin].hash = BodyHash(Mail[h])
    BY <2>2 DEF Twins
  <2>4. twin \in Names
    BY <2>3 DEF StoreInv, StoreTyped, RowsTyped
  <2>5. ASSUME r \in DOMAIN rows PROVE Mail[h].id = None
    <3>1. rows[r].hash = HeaderHash(h)
      BY <2>1, <2>5 DEF Fits, Identifies
    <3> QED BY <2>1, <2>5, <3>1, HashFacts
  <2> QED BY <2>1, <2>3, <2>4, <2>5
<1> QED BY <1>1, <1>2

LEMMA ThreadsFoundAre ==
  ASSUME RowsTyped, NEW table, DOMAIN table \subseteq DOMAIN rows,
         \A x \in DOMAIN table : table[x] = rows[x],
         NEW account, NEW refs
  PROVE  /\ ThreadsReferencedBy(table, account, refs) \subseteq Names
         /\ Canonical(table, account, refs) \subseteq ThreadsReferencedBy(table, account, refs)
<1>1. \A x \in DOMAIN table : table[x].thread \in Names
  BY RowIs
<1>2. Matches(table, account, refs) \subseteq DOMAIN table
  BY DEF Matches
<1>3. ThreadsReferencedBy(table, account, refs) \subseteq Names
  BY <1>1, <1>2 DEF ThreadsReferencedBy
<1>4. Canonical(table, account, refs) \subseteq ThreadsReferencedBy(table, account, refs)
  BY DEF Canonical, ThreadsReferencedBy
<1> QED BY <1>3, <1>4

LEMMA ReadKeeps ==
  ASSUME StoreInv, NEW j \in Jobs, NEW c \in job[j].todo, Read(j, c)
  PROVE  StoreInv' /\ UNCHANGED <<rows, placed>>
<1> DEFINE m == Mail[c.handle]
           refs == Own(m) \cup BodyRefs(m)
           table(twin) == IF twin = None THEN rows ELSE Without(rows, {c.row})
           found(twin) == ThreadsReferencedBy(table(twin), Account(c.handle), refs)
           record(twin, into) ==
             [pc |-> "read", todo |-> job[j].todo \ {c}, row |-> c.row, handle |-> c.handle,
              twin |-> twin, into |-> into, found |-> found(twin)]
<1>1. /\ box' = box /\ rows' = rows /\ placed' = placed /\ threads' = threads
      /\ relisted' = relisted /\ loose' = loose /\ mentions' = mentions
  BY DEF Read
<1>a. PICK twin \in LookUp(c.row, m) :
        \E into \in IF found(twin) = {} THEN {None} ELSE Canonical(table(twin), Account(c.handle), refs) :
           job' = [job EXCEPT ![j] = record(twin, into)]
  BY DEF Read
<1>2. PICK into \in IF found(twin) = {} THEN {None} ELSE Canonical(table(twin), Account(c.handle), refs) :
        job' = [job EXCEPT ![j] = record(twin, into)]
  BY <1>a
<1>3. c.row \in Names /\ c.handle \in Handles /\ job[j].todo \ {c} \in SUBSET Work
  BY JobIs DEF StoreInv, StoreTyped
<1>4. c.row \in DOMAIN rows => Fits(c.row, c.handle)
  BY DEF StoreInv, JobsFit
<1>5. /\ twin \in Names \cup {None}
      /\ twin # None => /\ twin # c.row /\ m.kind # "refused"
                        /\ twin \in DOMAIN rows /\ rows[twin].hash = BodyHash(m)
                        /\ c.row \in DOMAIN rows => m.id = None
  <2> DEFINE h == c.handle
             r == c.row
  <2>1. h \in Handles /\ (r \in DOMAIN rows => Fits(r, h)) /\ twin \in LookUp(r, Mail[h])
    BY <1>3, <1>4
  <2> HIDE DEF h, r
  <2>2. /\ twin \in Names \cup {None}
        /\ twin # None => /\ twin # r /\ Mail[h].kind # "refused"
                          /\ twin \in DOMAIN rows /\ rows[twin].hash = BodyHash(Mail[h])
                          /\ r \in DOMAIN rows => Mail[h].id = None
    BY <2>1, LookUpIs
  <2> QED BY <2>2 DEF h, r
<1>6. /\ found(twin) \subseteq Names
      /\ Canonical(table(twin), Account(c.handle), refs) \subseteq found(twin)
  <2>1. DOMAIN table(twin) \subseteq DOMAIN rows /\ \A x \in DOMAIN table(twin) : table(twin)[x] = rows[x]
    BY DEF Without
  <2> HIDE DEF table
  <2> QED BY <2>1, ThreadsFoundAre DEF StoreInv, StoreTyped
<1> HIDE DEF found, refs, table
<1>7. into \in found(twin) \cup {None} /\ (into = None <=> found(twin) = {})
  BY <1>2, <1>6, StoreAssumption
<1>8. record(twin, into) \in JobRecord
  BY <1>3, <1>5, <1>6, <1>7 DEF JobRecord
<1>9. job \in [Jobs -> JobRecord]
  BY DEF StoreInv, StoreTyped, JobsTyped
<1>10. /\ job' \in [Jobs -> JobRecord] /\ \A i \in Jobs \ {j} : job'[i] = job[i]
       /\ job'[j].pc = "read" /\ job'[j].todo = job[j].todo \ {c} /\ job'[j].row = c.row
       /\ job'[j].handle = c.handle /\ job'[j].twin = twin /\ job'[j].into = into
       /\ job'[j].found = found(twin)
  BY <1>2, <1>8, <1>9
<1>11. JobsTyped'
  <2>1. ASSUME NEW i \in Jobs, job'[i].pc = "read"
        PROVE  /\ job'[i].row \in Names /\ job'[i].handle \in Handles
               /\ job'[i].into \in job'[i].found \cup {None}
               /\ job'[i].into = None <=> job'[i].found = {}
    <3>1. CASE i = j
      BY <1>3, <1>7, <1>10, <3>1
    <3>2. CASE i # j
      BY <1>10, <2>1, <3>2 DEF StoreInv, StoreTyped, JobsTyped
    <3> QED BY <3>1, <3>2
  <2> QED BY <1>10, <2>1 DEF JobsTyped
<1>12. JobsFit'
  <2>1. ASSUME NEW i \in Jobs
        PROVE  /\ \A d \in job'[i].todo : d.row \in DOMAIN rows => Fits(d.row, d.handle)
               /\ job'[i].pc = "read" /\ job'[i].row \in DOMAIN rows => Fits(job'[i].row, job'[i].handle)
    <3>1. CASE i = j
      BY <1>4, <1>10, <3>1 DEF StoreInv, JobsFit
    <3>2. CASE i # j
      BY <1>10, <3>2 DEF StoreInv, JobsFit
    <3> QED BY <3>1, <3>2
  <2> QED BY <1>1, <2>1 DEF JobsFit, Fits
<1>13. TwinsFit'
  <2>1. ASSUME NEW i \in Jobs, job'[i].pc = "read", job'[i].twin # None
        PROVE  /\ job'[i].twin # job'[i].row /\ Mail[job'[i].handle].kind # "refused"
               /\ job'[i].twin \in DOMAIN rows => rows[job'[i].twin].hash = BodyHash(Mail[job'[i].handle])
               /\ job'[i].row \in DOMAIN rows => Mail[job'[i].handle].id = None
    <3>1. CASE i = j
      BY <1>5, <1>10, <2>1, <3>1
    <3>2. CASE i # j
      BY <1>10, <2>1, <3>2 DEF StoreInv, TwinsFit
    <3> QED BY <3>1, <3>2
  <2> QED BY <1>1, <2>1 DEF TwinsFit
<1>14. StoreTyped'
  BY <1>1, <1>11 DEF StoreInv, StoreTyped, RowsTyped, PlacesTyped, ThreadsTyped, MarksTyped, CountsTyped
<1>15. Kept
  BY <1>1, SameRows DEF StoreInv
<1>16. PlacedFit'
  BY <1>1, <1>14, <1>15, KeptPlaces DEF StoreTyped
<1> QED BY <1>1, <1>12, <1>13, <1>14, <1>15, <1>16, KeptRows DEF StoreInv

-----------------------------------------------------------------------------
(***************************************************************************)
(* The steps that write a row and its thread.                              *)
(***************************************************************************)
LEMMA ConnectedAfter ==
  ASSUME Connected, NEW r, NEW t, NEW found, Joined(r, t, found), NEW base,
         \A x \in DOMAIN rows' \ {r} :
           x \in DOMAIN rows /\ x \in DOMAIN base /\ base[x] = rows[x] /\ (x \notin loose' => x \notin loose),
         r \notin loose' => found = ThreadsReferencedBy(base, rows'[r].account, rows'[r].refs)
  PROVE  Connected'
<1>1. ASSUME NEW x \in DOMAIN rows' \ {r}, r \notin loose', rows'[x].account = rows'[r].account,
             rows'[x].refs \cap rows'[r].refs # {}
      PROVE  rows'[x].thread = rows'[r].thread
  <2>1. base[x] = rows[x] /\ x \in DOMAIN base /\ rows'[x].account = rows[x].account
        /\ rows'[x].refs = rows[x].refs
    BY <1>1 DEF Joined
  <2>2. x \in Matches(base, rows'[r].account, rows'[r].refs)
    BY <1>1, <2>1 DEF Matches
  <2>3. rows[x].thread \in found
    BY <1>1, <2>1, <2>2 DEF ThreadsReferencedBy
  <2> QED BY <1>1, <2>3 DEF Joined
<1>2. ASSUME NEW x \in DOMAIN rows' \ {r}, NEW y \in DOMAIN rows' \ {r}, x \notin loose', y \notin loose',
             rows'[x].account = rows'[y].account, rows'[x].refs \cap rows'[y].refs # {}
      PROVE  rows'[x].thread = rows'[y].thread
  <2>1. x \in DOMAIN rows \ loose /\ y \in DOMAIN rows \ loose
    BY <1>2
  <2>2. rows[x].thread = rows[y].thread
    BY <1>2, <2>1 DEF Joined, Connected
  <2> QED BY <1>2, <2>2 DEF Joined
<1>3. ASSUME NEW x \in DOMAIN rows' \ loose', NEW y \in DOMAIN rows' \ loose',
             rows'[x].account = rows'[y].account, rows'[x].refs \cap rows'[y].refs # {}
      PROVE  rows'[x].thread = rows'[y].thread
  <2>1. CASE x = r /\ y = r
    BY <2>1
  <2>2. CASE x = r /\ y # r
    <3>1. rows'[y].refs \cap rows'[x].refs # {}
      BY <1>3
    <3> QED BY <1>1, <1>3, <2>2, <3>1
  <2>3. CASE x # r /\ y = r
    BY <1>1, <1>3, <2>3
  <2>4. CASE x # r /\ y # r
    BY <1>2, <1>3, <2>4
  <2> QED BY <2>1, <2>2, <2>3, <2>4
<1> QED BY <1>3 DEF Connected

Fresh(h) ==
    [account |-> Account(h), hash |-> HeaderHash(h), state |-> None, mail |-> Mail[h], thread |-> None,
     refs |-> {}]

\* What a listing writes: the row of the message, new or found, is threaded on
\* the mail's own Message-ID.
LEMMA ListWrites ==
  ASSUME StoreInv, NEW h \in Handles, List(h)
  PROVE  LET r == RowFor(h)
         IN /\ \E t \in Names :
                 Joined(r, t, ThreadsReferencedBy(rows, Account(h), Own(Mail[h])))
            /\ DOMAIN rows' = DOMAIN rows \cup {r}
            /\ rows'[r].account = Account(h) /\ rows'[r].hash = HeaderHash(h)
            /\ rows'[r].refs = Own(Mail[h])
            /\ r \in DOMAIN rows => rows'[r].state = rows[r].state /\ rows'[r].mail = rows[r].mail
            /\ r \notin DOMAIN rows => rows'[r].state = None /\ rows'[r].mail = Mail[h]
            /\ relisted' = IF rows'[r].state # None THEN relisted \cup {r} ELSE relisted
            /\ ThreadsTyped'
<1> DEFINE r == RowFor(h)
           own == Own(Mail[h])
           found == ThreadsReferencedBy(rows, Account(h), own)
           table == Upserted(h, r)
           threadsFor == IF found = {} THEN {NewThread(r)} ELSE Canonical(rows, Account(h), own)
<1>1. FreeRows(h) # {} /\ FreeThreads # {}
  BY DEF List
<1>2. /\ r \in Names
      /\ r \in DOMAIN rows => rows[r].account = Account(h) /\ rows[r].hash = HeaderHash(h)
  BY <1>1, RowForIs DEF StoreInv
<1>3. PICK t \in threadsFor :
        rows' = Assign(table, r, t, found, own) /\ threads' = Live(rows', job, found \ {t})
  BY DEF List
<1>4. relisted' = IF table[r].state # None THEN relisted \cup {r} ELSE relisted
  BY DEF List
<1> DEFINE S == DOMAIN rows \cup {r}
<1>5. S \in SUBSET Names
  BY <1>2 DEF StoreInv, StoreTyped, RowsTyped
<1>6. t \in Names
  <2>1. found \subseteq Names /\ Canonical(rows, Account(h), own) \subseteq found
    BY ThreadsFoundAre DEF StoreInv, StoreTyped
  <2> HIDE DEF found, r
  <2>2. NewThread(r) \in Names
    BY <1>1, FreeThreadIs
  <2> QED BY <1>3, <2>1, <2>2
<1>7. /\ DOMAIN table = S
      /\ \A x \in S \ {r} : x \in DOMAIN rows /\ table[x] = rows[x]
      /\ r \in DOMAIN rows => table[r] = rows[r]
      /\ r \notin DOMAIN rows => table[r] = Fresh(h)
  <2> HIDE DEF r
  <2>1. CASE r \in DOMAIN rows
    BY <2>1 DEF Upserted
  <2>2. CASE r \notin DOMAIN rows
    BY <2>2 DEF Upserted, Fresh
  <2> QED BY <2>1, <2>2
<1>8. Fresh(h) \in Draft
  BY MailFacts DEF Fresh, Draft, States
<1>9. table[r] \in Draft
  <2>1. CASE r \in DOMAIN rows
    BY <1>7, <2>1, RowIs DEF StoreInv, StoreTyped
  <2>2. CASE r \notin DOMAIN rows
    BY <1>7, <1>8, <2>2
  <2> QED BY <2>1, <2>2
<1>10. own \in SUBSET Ids
  BY MailFacts
<1> HIDE DEF r, table, found, own, S, threadsFor
<1>11. r \in S
  BY DEF S
<1>12. DOMAIN rows' = S
  BY <1>3, <1>5, <1>6, <1>7, <1>9, <1>10, <1>11, AssignJoins DEF StoreInv, StoreTyped
<1>13. Joined(r, t, found)
  BY <1>3, <1>5, <1>6, <1>7, <1>9, <1>10, <1>11, AssignJoins DEF StoreInv, StoreTyped
<1>14. /\ rows'[r].refs = own
       /\ rows'[r].account = table[r].account /\ rows'[r].hash = table[r].hash
       /\ rows'[r].state = table[r].state /\ rows'[r].mail = table[r].mail
  BY <1>3, <1>5, <1>6, <1>7, <1>9, <1>10, <1>11, AssignJoins DEF StoreInv, StoreTyped
<1>15. ThreadsTyped'
  BY <1>3, <1>13, LiveThreads DEF Joined, StoreInv, StoreTyped, ThreadsTyped
<1>16. /\ rows'[r].account = Account(h) /\ rows'[r].hash = HeaderHash(h)
       /\ r \in DOMAIN rows => rows'[r].state = rows[r].state /\ rows'[r].mail = rows[r].mail
       /\ r \notin DOMAIN rows => rows'[r].state = None /\ rows'[r].mail = Mail[h]
  BY <1>2, <1>7, <1>14 DEF Fresh
<1> QED BY <1>4, <1>6, <1>12, <1>13, <1>14, <1>15, <1>16 DEF r, found, own, S

LEMMA ListKeeps ==
  ASSUME StoreInv, NEW h \in Handles, List(h)
  PROVE  /\ StoreInv' /\ DOMAIN rows \subseteq DOMAIN rows'
         /\ \A x \in DOMAIN rows : rows'[x].state = rows[x].state
         /\ placed' = [x \in DOMAIN placed \cup {h} |-> IF x = h THEN RowFor(h) ELSE placed[x]]
<1> DEFINE r == RowFor(h)
           found == ThreadsReferencedBy(rows, Account(h), Own(Mail[h]))
<1>1. /\ box' = box /\ job' = job /\ loose' = loose
      /\ placed' = [x \in DOMAIN placed \cup {h} |-> IF x = h THEN r ELSE placed[x]]
      /\ mentions < MaxMentions /\ mentions' = mentions + 1 /\ FreeRows(h) # {}
  BY DEF List
<1>2. /\ r \in Names
      /\ r \in DOMAIN rows => rows[r].account = Account(h) /\ rows[r].hash = HeaderHash(h)
      /\ r \notin DOMAIN rows =>
           /\ r \notin HeldRows
           /\ \A x \in DOMAIN rows : rows[x].account # Account(h) \/ rows[x].hash # HeaderHash(h)
  BY <1>1, RowForIs DEF StoreInv
<1>3. /\ \E t \in Names : Joined(r, t, found)
      /\ DOMAIN rows' = DOMAIN rows \cup {r}
      /\ rows'[r].account = Account(h) /\ rows'[r].hash = HeaderHash(h)
      /\ rows'[r].refs = Own(Mail[h])
      /\ r \in DOMAIN rows => rows'[r].state = rows[r].state /\ rows'[r].mail = rows[r].mail
      /\ r \notin DOMAIN rows => rows'[r].state = None /\ rows'[r].mail = Mail[h]
      /\ relisted' = IF rows'[r].state # None THEN relisted \cup {r} ELSE relisted
      /\ ThreadsTyped'
  BY ListWrites
<1> HIDE DEF r, found
<1>4. PICK t \in Names : Joined(r, t, found)
  BY <1>3
<1>5. \A x \in DOMAIN rows' \ {r} :
        /\ x \in DOMAIN rows
        /\ rows'[x].account = rows[x].account /\ rows'[x].hash = rows[x].hash
        /\ rows'[x].state = rows[x].state /\ rows'[x].mail = rows[x].mail
        /\ rows'[x].refs = rows[x].refs
  BY <1>3, <1>4 DEF Joined
<1>6. \A x \in DOMAIN rows :
        /\ x \in DOMAIN rows'
        /\ rows'[x].account = rows[x].account /\ rows'[x].hash = rows[x].hash
        /\ rows'[x].state = rows[x].state /\ rows'[x].mail = rows[x].mail
  BY <1>2, <1>3, <1>5
<1>7. RowsTyped'
  BY <1>4 DEF Joined
<1>8. PlacesTyped'
  <2>1. \A x \in DOMAIN placed \cup {h} : x \in Handles /\ (IF x = h THEN r ELSE placed[x]) \in DOMAIN rows'
    BY <1>3 DEF StoreInv, StoreTyped, PlacesTyped
  <2> QED BY <1>1, <2>1 DEF PlacesTyped
<1>9. MarksTyped'
  BY <1>1, <1>3 DEF StoreInv, StoreTyped, MarksTyped
<1>10. CountsTyped' /\ JobsTyped'
  <2>1. mentions' \in 0..MaxMentions
    BY <1>1, StoreAssumption DEF StoreInv, StoreTyped, CountsTyped
  <2> QED BY <1>1, <2>1 DEF StoreInv, StoreTyped, CountsTyped, JobsTyped
<1>11. UniqueHash'
  <2>1. ASSUME NEW x \in DOMAIN rows', NEW y \in DOMAIN rows',
               rows'[x].account = rows'[y].account, rows'[x].hash = rows'[y].hash
        PROVE  x = y
    <3>1. CASE x \in DOMAIN rows /\ y \in DOMAIN rows
      BY <1>6, <2>1, <3>1 DEF StoreInv, UniqueHash
    <3>2. CASE x \notin DOMAIN rows /\ y \in DOMAIN rows
      BY <1>2, <1>3, <1>6, <2>1, <3>2
    <3>3. CASE x \in DOMAIN rows /\ y \notin DOMAIN rows
      BY <1>2, <1>3, <1>6, <2>1, <3>3
    <3>4. CASE x \notin DOMAIN rows /\ y \notin DOMAIN rows
      BY <1>3, <3>4
    <3> QED BY <3>1, <3>2, <3>3, <3>4
  <2> QED BY <2>1 DEF UniqueHash
<1>12. PlacedFit'
  <2>1. ASSUME NEW k \in DOMAIN placed'
        PROVE  /\ Identifies(rows'[placed'[k]].hash, k)
               /\ rows'[placed'[k]].account = Account(k) \/ Mail[k].id = None
    <3>1. CASE k = h
      BY <1>1, <1>3, <3>1 DEF Identifies
    <3>2. CASE k # h
      <4>1. k \in DOMAIN placed /\ placed'[k] = placed[k] /\ placed[k] \in DOMAIN rows
        BY <1>1, <2>1, <3>2 DEF StoreInv, StoreTyped, PlacesTyped
      <4> QED BY <1>6, <4>1 DEF StoreInv, PlacedFit, Fits
    <3> QED BY <3>1, <3>2
  <2> QED BY <2>1 DEF PlacedFit, Fits
<1>13. JobsFit' /\ TwinsFit'
  <2>1. ASSUME NEW x \in DOMAIN rows', x \in HeldRows
        PROVE  x \in DOMAIN rows /\ rows'[x].hash = rows[x].hash
    BY <1>2, <1>5, <1>6, <2>1
  <2> QED BY <1>1, <2>1, JobsKept
<1>14. MailsFit'
  <2>1. ASSUME NEW x \in DOMAIN rows', NEW k \in Handles, rows'[x].hash = HeaderHash(k)
        PROVE  /\ rows'[x].mail.id = Mail[k].id
               /\ Mail[k].id = None =>
                    /\ rows'[x].mail = Mail[k]
                    /\ rows'[x].state # None /\ x \notin loose' => Mail[k].kind = "refused"
    <3>1. CASE x \in DOMAIN rows
      BY <1>1, <1>6, <2>1, <3>1 DEF StoreInv, MailsFit
    <3>2. CASE x \notin DOMAIN rows
      <4>1. HeaderHash(h) = HeaderHash(k) /\ rows'[x].mail = Mail[h] /\ rows'[x].state = None
        BY <1>3, <2>1, <3>2
      <4>2. Mail[h].id = Mail[k].id /\ (Mail[h].id = None => h = k)
        BY <4>1, HashFacts
      <4> QED BY <4>1, <4>2
    <3> QED BY <3>1, <3>2
  <2> QED BY <2>1 DEF MailsFit
<1>15. RefsKept'
  <2>1. ASSUME NEW x \in DOMAIN rows'
        PROVE  /\ Own(rows'[x].mail) \subseteq rows'[x].refs
               /\ rows'[x].state # None /\ x \notin relisted' \cup loose'
                    => BodyRefs(rows'[x].mail) \subseteq rows'[x].refs
    <3>1. CASE x = r
      <4>1. rows'[r].mail.id = Mail[h].id
        BY <1>2, <1>3 DEF StoreInv, MailsFit
      <4> QED BY <1>3, <3>1, <4>1 DEF Own
    <3>2. CASE x # r
      <4>1. x \notin relisted' \cup loose' => x \notin relisted \cup loose
        BY <1>1, <1>3
      <4> QED BY <1>5, <2>1, <3>2, <4>1 DEF StoreInv, RefsKept
    <3> QED BY <3>1, <3>2
  <2> QED BY <2>1 DEF RefsKept
<1>16. Connected'
  <2>1. \A x \in DOMAIN rows' \ {r} : x \in DOMAIN rows /\ (x \notin loose' => x \notin loose)
    BY <1>1, <1>5
  <2>2. found = ThreadsReferencedBy(rows, rows'[r].account, rows'[r].refs)
    BY <1>3 DEF found
  <2> QED BY <1>4, <2>1, <2>2, ConnectedAfter DEF StoreInv
<1> QED BY <1>1, <1>3, <1>6, <1>7, <1>8, <1>9, <1>10, <1>11, <1>12, <1>13, <1>14, <1>15, <1>16
        DEF StoreInv, StoreTyped, r

\* The row that a body was written to.
BodyWritten(row, m) ==
    [account |-> row.account, hash |-> IF m.kind = "refused" THEN row.hash ELSE BodyHash(m),
     state |-> IF m.kind = "small" THEN "full" ELSE "partial", mail |-> m, thread |-> row.thread,
     refs |-> row.refs]

LEMMA BodyWrittenIs ==
  ASSUME NEW row \in Row, NEW h \in Handles
  PROVE  /\ [row EXCEPT !.hash = IF Mail[h].kind = "refused" THEN row.hash ELSE BodyHash(Mail[h]),
                        !.state = IF Mail[h].kind = "small" THEN "full" ELSE "partial",
                        !.mail = Mail[h]] = BodyWritten(row, Mail[h])
         /\ BodyWritten(row, Mail[h]) \in Draft
<1> DEFINE hash == IF Mail[h].kind = "refused" THEN row.hash ELSE BodyHash(Mail[h])
           state == IF Mail[h].kind = "small" THEN "full" ELSE "partial"
           m == Mail[h]
           one == [row EXCEPT !.hash = hash]
           two == [one EXCEPT !.state = state]
<1>1. BodyWritten(row, m) =
        [account |-> row.account, hash |-> hash, state |-> state, mail |-> m, thread |-> row.thread,
         refs |-> row.refs]
  BY DEF BodyWritten
<1>2. hash \in Hashes /\ state \in States /\ m \in Mails
  BY MailFacts DEF Row, States
<1> HIDE DEF hash, state, m
<1>3. [row EXCEPT !.hash = hash, !.state = state, !.mail = m] = [two EXCEPT !.mail = m]
  BY DEF Row
<1>4. one = [account |-> row.account, hash |-> hash, state |-> row.state, mail |-> row.mail,
             thread |-> row.thread, refs |-> row.refs]
  BY DEF Row
<1> HIDE DEF one
<1>5. two = [account |-> row.account, hash |-> hash, state |-> state, mail |-> row.mail,
             thread |-> row.thread, refs |-> row.refs]
  BY <1>4
<1> HIDE DEF two
<1>6. [two EXCEPT !.mail = m] = BodyWritten(row, m)
  BY <1>1, <1>5
<1>7. BodyWritten(row, m) \in Draft
  BY <1>1, <1>2 DEF Row, Draft
<1> QED BY <1>3, <1>6, <1>7 DEF hash, state, m

LEMMA WriteContentWrites ==
  ASSUME StoreInv, NEW j \in Jobs, WriteContent(j)
  PROVE  LET m      == Mail[job[j].handle]
             r      == job[j].row
             holder == Target(j)
             found  == job[j].found \cap threads
         IN /\ holder \in DOMAIN rows
            /\ holder # r => job[j].twin # None /\ holder = job[j].twin
            /\ holder = r => job[j].twin = None
            /\ DOMAIN rows' = IF r = holder THEN DOMAIN rows ELSE DOMAIN rows \ {r}
            /\ DOMAIN Merged(r, holder) = DOMAIN rows'
            /\ \A x \in DOMAIN rows' : Merged(r, holder)[x] = rows[x]
            /\ \E t \in Names : Joined(holder, t, found)
            /\ rows'[holder].account = rows[holder].account
            /\ rows'[holder].hash = IF m.kind = "refused" THEN rows[holder].hash ELSE BodyHash(m)
            /\ rows'[holder].state = IF m.kind = "small" THEN "full" ELSE "partial"
            /\ rows'[holder].mail = m /\ rows'[holder].refs = Own(m) \cup BodyRefs(m)
            /\ ThreadsTyped'
<1> DEFINE h      == job[j].handle
           m      == Mail[h]
           r      == job[j].row
           holder == Target(j)
           refs   == Own(m) \cup BodyRefs(m)
           found  == job[j].found \cap threads
           base   == Merged(r, holder)
           table  == Written(base, holder, m)
           t      == IF job[j].into = None THEN NewThread(holder) ELSE job[j].into
<1>1. job[j].pc = "read" /\ h \in Handles /\ r \in Names
  BY DEF WriteContent, StoreInv, StoreTyped, JobsTyped
<1>2. holder \in DOMAIN rows /\ FreeThreads # {} /\ job[j].into \in threads \cup {None}
  BY DEF WriteContent, Conflicts
<1>3. rows' = Assign(table, holder, t, found, refs) /\ threads' = Live(rows', job', found \ {t})
  BY DEF WriteContent
<1>4. /\ holder # r => job[j].twin # None /\ holder = job[j].twin
      /\ holder = r => job[j].twin = None
  BY <1>1 DEF Target, StoreInv, TwinsFit
<1>5. t \in Names
  <2> HIDE DEF holder
  <2>1. CASE job[j].into = None
    BY <1>2, <2>1, FreeThreadIs
  <2>2. CASE job[j].into # None
    BY <1>2, <2>2 DEF StoreInv, StoreTyped, ThreadsTyped
  <2> QED BY <2>1, <2>2
<1>6. refs \in SUBSET Ids
  BY <1>1, MailFacts
<1> DEFINE S == IF r = holder THEN DOMAIN rows ELSE DOMAIN rows \ {r}
<1> HIDE DEF holder
<1>7. S \in SUBSET Names /\ holder \in S /\ S \subseteq DOMAIN rows
  BY <1>2 DEF StoreInv, StoreTyped, RowsTyped
<1>8. DOMAIN base = S /\ \A x \in S : base[x] = rows[x]
  <2>1. CASE r = holder
    BY <2>1 DEF Merged
  <2>2. CASE r # holder
    BY <2>2 DEF Merged, Without
  <2> QED BY <2>1, <2>2
<1> HIDE DEF S, base
<1> DEFINE written == [base[holder] EXCEPT
              !.hash = IF m.kind = "refused" THEN base[holder].hash ELSE BodyHash(m),
              !.state = IF m.kind = "small" THEN "full" ELSE "partial", !.mail = m]
<1>9. /\ table = [base EXCEPT ![holder] = written]
  BY DEF Written
<1>10. rows[holder] \in Row /\ base[holder] = rows[holder]
  BY <1>2, <1>7, <1>8, RowIs DEF StoreInv, StoreTyped
<1>11. written = BodyWritten(rows[holder], m) /\ written \in Draft
  <2> DEFINE row == rows[holder]
  <2>1. written = [row EXCEPT
              !.hash = IF Mail[h].kind = "refused" THEN row.hash ELSE BodyHash(Mail[h]),
              !.state = IF Mail[h].kind = "small" THEN "full" ELSE "partial", !.mail = Mail[h]]
    BY <1>10
  <2>2. row \in Row /\ h \in Handles
    BY <1>1, <1>10
  <2> HIDE DEF row, h, written
  <2>3. written = BodyWritten(row, Mail[h]) /\ written \in Draft
    BY <2>1, <2>2, BodyWrittenIs
  <2> QED BY <2>3 DEF row
<1> HIDE DEF written, table
<1>12. DOMAIN table = S /\ table[holder] = written /\ \A x \in S \ {holder} : table[x] = base[x]
  BY <1>7, <1>8, <1>9
<1>13. \A x \in S \ {holder} : x \in DOMAIN rows /\ table[x] = rows[x]
  BY <1>7, <1>8, <1>12
<1>14. table[holder] \in Draft
  BY <1>11, <1>12
<1> HIDE DEF m, r, refs, found, t
<1>15. DOMAIN rows' = S
  BY <1>3, <1>5, <1>6, <1>7, <1>12, <1>13, <1>14, AssignJoins DEF StoreInv, StoreTyped
<1>16. Joined(holder, t, found)
  BY <1>3, <1>5, <1>6, <1>7, <1>12, <1>13, <1>14, AssignJoins DEF StoreInv, StoreTyped
<1>17. /\ rows'[holder].refs = refs
       /\ rows'[holder].account = table[holder].account /\ rows'[holder].hash = table[holder].hash
       /\ rows'[holder].state = table[holder].state /\ rows'[holder].mail = table[holder].mail
  BY <1>3, <1>5, <1>6, <1>7, <1>12, <1>13, <1>14, AssignJoins DEF StoreInv, StoreTyped
<1>18. /\ rows'[holder].account = rows[holder].account
       /\ rows'[holder].hash = IF m.kind = "refused" THEN rows[holder].hash ELSE BodyHash(m)
       /\ rows'[holder].state = IF m.kind = "small" THEN "full" ELSE "partial"
       /\ rows'[holder].mail = m
  BY <1>11, <1>12, <1>17 DEF BodyWritten
<1>19. ThreadsTyped'
  BY <1>3, <1>16, LiveThreads DEF Joined, StoreInv, StoreTyped, ThreadsTyped
<1> QED BY <1>2, <1>4, <1>5, <1>8, <1>15, <1>16, <1>17, <1>18, <1>19
        DEF S, base, m, r, refs, found, holder

LEMMA WriteContentKeeps ==
  ASSUME StoreInv, NEW j \in Jobs, WriteContent(j)
  PROVE  /\ StoreInv'
         /\ \A k \in DOMAIN placed : k \in DOMAIN placed' /\
              (rows[placed[k]].state # None => rows'[placed'[k]].state # None)
<1> DEFINE h      == job[j].handle
           m      == Mail[h]
           r      == job[j].row
           holder == Target(j)
           refs   == Own(m) \cup BodyRefs(m)
           found  == job[j].found \cap threads
           base   == Merged(r, holder)
<1>1. job[j].pc = "read" /\ h \in Handles /\ r \in Names /\ job[j].todo \in SUBSET Work
  BY JobIs DEF WriteContent, StoreInv, StoreTyped, JobsTyped
<1>2. /\ box' = box /\ mentions' = mentions /\ job' = Rest(j, job[j].todo)
      /\ placed' = [k \in DOMAIN placed |-> IF placed[k] = r THEN holder ELSE placed[k]]
      /\ relisted' = (relisted \ {holder}) \cap DOMAIN rows'
      /\ loose' = (IF found = ThreadsReferencedBy(base, Account(h), refs) /\ rows[holder].account = Account(h)
                   THEN loose \ {holder} ELSE loose \cup {holder}) \cap DOMAIN rows'
  BY DEF WriteContent
<1>3. /\ holder = r /\ m.kind # "refused" =>
           \A x \in DOMAIN rows \ {r} : rows[x].account = rows[r].account => rows[x].hash # BodyHash(m)
  <2>1. holder = r => job[j].twin = None
    BY WriteContentWrites
  <2> QED BY <2>1 DEF WriteContent, Conflicts
<1>4. /\ holder \in DOMAIN rows
      /\ holder # r => job[j].twin # None /\ holder = job[j].twin
      /\ holder = r => job[j].twin = None
      /\ DOMAIN rows' = IF r = holder THEN DOMAIN rows ELSE DOMAIN rows \ {r}
      /\ DOMAIN base = DOMAIN rows'
      /\ \A x \in DOMAIN rows' : base[x] = rows[x]
      /\ \E t \in Names : Joined(holder, t, found)
      /\ rows'[holder].account = rows[holder].account
      /\ rows'[holder].hash = IF m.kind = "refused" THEN rows[holder].hash ELSE BodyHash(m)
      /\ rows'[holder].state = IF m.kind = "small" THEN "full" ELSE "partial"
      /\ rows'[holder].mail = m /\ rows'[holder].refs = refs
      /\ ThreadsTyped'
  BY WriteContentWrites
<1>5. r \in DOMAIN rows => Identifies(rows[r].hash, h)
  BY <1>1 DEF StoreInv, JobsFit, Fits
<1>6. holder # r => /\ m.kind # "refused" /\ rows[holder].hash = BodyHash(m)
                    /\ r \in DOMAIN rows => m.id = None
  BY <1>1, <1>4 DEF StoreInv, TwinsFit
<1>7. rows'[holder].state # None
  BY <1>4, StoreAssumption
<1> HIDE DEF holder, r, refs, found, base
<1>8. PICK t \in Names : Joined(holder, t, found)
  BY <1>4
<1>9. \A x \in DOMAIN rows' \ {holder} :
        /\ x \in DOMAIN rows
        /\ rows'[x].account = rows[x].account /\ rows'[x].hash = rows[x].hash
        /\ rows'[x].state = rows[x].state /\ rows'[x].mail = rows[x].mail
        /\ rows'[x].refs = rows[x].refs
        /\ x \notin loose' => x \notin loose
        /\ x \notin relisted' => x \notin relisted
  BY <1>2, <1>4, <1>8 DEF Joined
<1>10. DOMAIN rows' \subseteq DOMAIN rows /\ holder \in DOMAIN rows'
  BY <1>4
\* Whom the row stood for, it stands for still.
<1>11. ASSUME NEW k \in Handles, Identifies(rows[holder].hash, k)
       PROVE  Identifies(rows'[holder].hash, k)
  <2>1. CASE m.kind = "refused" \/ holder # r
    BY <1>4, <1>6, <1>11, <2>1
  <2>2. CASE m.kind # "refused" /\ holder = r
    <3>1. rows'[holder].hash = BodyHash(Mail[h])
      BY <1>4, <2>2
    <3>2. Identifies(rows[holder].hash, h)
      BY <1>4, <1>5, <2>2
    <3> QED BY <1>1, <1>11, <2>2, <3>1, <3>2, BodySettles
  <2> QED BY <2>1, <2>2
<1>12. ASSUME NEW k \in Handles, rows[holder].hash = BodyHash(Mail[k])
       PROVE  rows'[holder].hash = BodyHash(Mail[k])
  <2>1. CASE m.kind = "refused" \/ holder # r
    BY <1>4, <1>6, <1>12, <2>1
  <2>2. CASE m.kind # "refused" /\ holder = r
    <3>1. rows[holder].hash = BodyHash(Mail[h])
      BY <1>1, <1>4, <1>5, <1>12, <2>2, SettledStays
    <3> QED BY <1>4, <1>12, <2>2, <3>1
  <2> QED BY <2>1, <2>2
<1>13. RowsTyped'
  BY <1>8 DEF Joined
<1>14. PlacesTyped'
  <2>1. ASSUME NEW k \in DOMAIN placed
        PROVE  k \in Handles /\ (IF placed[k] = r THEN holder ELSE placed[k]) \in DOMAIN rows'
    BY <1>4, <1>10, <2>1 DEF StoreInv, StoreTyped, PlacesTyped
  <2> QED BY <1>2, <2>1 DEF PlacesTyped
<1>15. MarksTyped' /\ CountsTyped'
  BY <1>2 DEF StoreInv, StoreTyped, MarksTyped, CountsTyped
<1>16. /\ JobsTyped' /\ \A i \in Jobs \ {j} : job'[i] = job[i]
       /\ job'[j].todo = job[j].todo /\ job'[j].pc # "read"
  BY <1>1, <1>2, RestIs DEF StoreInv
<1>17. UniqueHash'
  <2>1. ASSUME NEW x \in DOMAIN rows', x # holder, rows'[x].account = rows'[holder].account
        PROVE  rows'[x].hash # rows'[holder].hash
    <3>1. x \in DOMAIN rows /\ rows[x].account = rows[holder].account /\ rows'[x].hash = rows[x].hash
      BY <1>4, <1>9, <2>1
    <3>2. rows[x].hash # rows[holder].hash
      BY <1>4, <2>1, <3>1 DEF StoreInv, UniqueHash
    <3>3. CASE m.kind = "refused" \/ holder # r
      BY <1>4, <1>6, <3>1, <3>2, <3>3
    <3>4. CASE m.kind # "refused" /\ holder = r
      BY <1>3, <1>4, <2>1, <3>1, <3>4
    <3> QED BY <3>3, <3>4
  <2>2. ASSUME NEW x \in DOMAIN rows', NEW y \in DOMAIN rows',
               rows'[x].account = rows'[y].account, rows'[x].hash = rows'[y].hash
        PROVE  x = y
    <3>1. CASE x = holder \/ y = holder
      BY <2>1, <2>2, <3>1
    <3>2. CASE x # holder /\ y # holder
      BY <1>9, <2>2, <3>2 DEF StoreInv, UniqueHash
    <3> QED BY <3>1, <3>2
  <2> QED BY <2>2 DEF UniqueHash
<1>18. PlacedFit'
  <2>1. ASSUME NEW k \in DOMAIN placed
        PROVE  /\ Identifies(rows'[placed'[k]].hash, k)
               /\ rows'[placed'[k]].account = Account(k) \/ Mail[k].id = None
    <3>1. /\ Identifies(rows[placed[k]].hash, k) /\ k \in Handles
          /\ rows[placed[k]].account = Account(k) \/ Mail[k].id = None
          /\ placed[k] \in DOMAIN rows
      BY DEF StoreInv, PlacedFit, Fits, StoreTyped, PlacesTyped
    <3>2. CASE placed[k] = r /\ holder # r
      <4>1. placed'[k] = holder /\ Identifies(rows[r].hash, h) /\ m.id = None
        BY <1>2, <1>5, <1>6, <3>1, <3>2
      <4>2. Identifies(BodyHash(Mail[h]), k) /\ Mail[h].id = Mail[k].id
        BY <1>1, <1>6, <3>1, <3>2, <4>1, BodySettles
      <4>3. rows'[holder].hash = BodyHash(Mail[h])
        BY <1>4, <1>6, <3>2
      <4> QED BY <4>1, <4>2, <4>3
    <3>3. CASE placed[k] = holder
      <4>1. placed'[k] = holder
        BY <1>2, <3>3
      <4> QED BY <1>4, <1>11, <3>1, <3>3, <4>1
    <3>4. CASE placed[k] # r /\ placed[k] # holder
      <4>1. placed'[k] = placed[k] /\ placed[k] \in DOMAIN rows' \ {holder}
        BY <1>2, <1>4, <3>1, <3>4
      <4> QED BY <1>9, <3>1, <4>1
    <3> QED BY <3>2, <3>3, <3>4
  <2>2. DOMAIN placed' = DOMAIN placed
    BY <1>2
  <2> QED BY <2>1, <2>2 DEF PlacedFit, Fits
<1>19. JobsFit' /\ TwinsFit'
  <2>1. \A i \in Jobs : job'[i].todo \subseteq job[i].todo /\ (job'[i].pc = "read" => job'[i] = job[i])
    BY <1>16
  <2>2. ASSUME NEW x \in DOMAIN rows', x \in HeldRows
        PROVE  /\ x \in DOMAIN rows
               /\ \A k \in Handles :
                    /\ Identifies(rows[x].hash, k) => Identifies(rows'[x].hash, k)
                    /\ rows[x].hash = BodyHash(Mail[k]) => rows'[x].hash = BodyHash(Mail[k])
    <3>1. CASE x = holder
      BY <1>4, <1>11, <1>12, <3>1
    <3>2. CASE x # holder
      BY <1>9, <2>2, <3>2
    <3> QED BY <3>1, <3>2
  <2> QED BY <2>1, <2>2, JobsKept
<1>20. MailsFit'
  <2>1. ASSUME NEW x \in DOMAIN rows', NEW k \in Handles, rows'[x].hash = HeaderHash(k)
        PROVE  /\ rows'[x].mail.id = Mail[k].id
               /\ Mail[k].id = None =>
                    /\ rows'[x].mail = Mail[k]
                    /\ rows'[x].state # None /\ x \notin loose' => Mail[k].kind = "refused"
    <3>1. CASE x # holder
      BY <1>9, <2>1, <3>1 DEF StoreInv, MailsFit
    <3>2. CASE x = holder /\ m.kind # "refused"
      <4>1. HeaderHash(k) = BodyHash(Mail[h]) /\ rows'[x].mail = Mail[h]
        BY <1>4, <2>1, <3>2
      <4> QED BY <1>1, <4>1, HashFacts
    <3>3. CASE x = holder /\ m.kind = "refused"
      <4>1. holder = r /\ rows[r].hash = HeaderHash(k) /\ rows'[x].mail = Mail[h]
        BY <1>4, <1>6, <2>1, <3>3
      <4>2. HeaderHash(h) = HeaderHash(k)
        BY <1>4, <1>5, <3>3, <4>1 DEF Identifies
      <4>3. Mail[h].id = Mail[k].id /\ (Mail[h].id = None => h = k)
        BY <1>1, <4>2, HashFacts
      <4> QED BY <3>3, <4>1, <4>3
    <3> QED BY <3>1, <3>2, <3>3
  <2> QED BY <2>1 DEF MailsFit
<1>21. RefsKept'
  <2>1. ASSUME NEW x \in DOMAIN rows'
        PROVE  /\ Own(rows'[x].mail) \subseteq rows'[x].refs
               /\ rows'[x].state # None /\ x \notin relisted' \cup loose'
                    => BodyRefs(rows'[x].mail) \subseteq rows'[x].refs
    <3>1. CASE x = holder
      BY <1>4, <3>1 DEF refs
    <3>2. CASE x # holder
      BY <1>9, <2>1, <3>2 DEF StoreInv, RefsKept
    <3> QED BY <3>1, <3>2
  <2> QED BY <2>1 DEF RefsKept
<1>22. Connected'
  <2>1. \A x \in DOMAIN rows' \ {holder} :
          x \in DOMAIN rows /\ x \in DOMAIN base /\ base[x] = rows[x] /\ (x \notin loose' => x \notin loose)
    BY <1>4, <1>9
  <2>2. holder \notin loose' =>
          found = ThreadsReferencedBy(base, rows'[holder].account, rows'[holder].refs)
    BY <1>2, <1>4, <1>10
  <2> QED BY <1>8, <2>1, <2>2, ConnectedAfter DEF StoreInv
<1>23. ASSUME NEW k \in DOMAIN placed, rows[placed[k]].state # None
       PROVE  rows'[placed'[k]].state # None
  <2>1. placed[k] \in DOMAIN rows
    BY DEF StoreInv, StoreTyped, PlacesTyped
  <2>2. CASE placed[k] = r \/ placed[k] = holder
    BY <1>2, <1>7, <2>2
  <2>3. CASE placed[k] # r /\ placed[k] # holder
    BY <1>2, <1>4, <1>9, <1>23, <2>1, <2>3
  <2> QED BY <2>2, <2>3
<1>24. DOMAIN placed' = DOMAIN placed
  BY <1>2
<1> QED BY <1>4, <1>13, <1>14, <1>15, <1>16, <1>17, <1>18, <1>19, <1>20, <1>21, <1>22, <1>23, <1>24
        DEF StoreInv, StoreTyped

-----------------------------------------------------------------------------
(***************************************************************************)
(* The invariant.                                                          *)
(***************************************************************************)
LEMMA StoreInit == ASSUME Init PROVE StoreInv
<1>1. RowsTyped /\ PlacesTyped /\ ThreadsTyped /\ MarksTyped
  BY DEF Init, RowsTyped, PlacesTyped, ThreadsTyped, MarksTyped
<1>2. CountsTyped
  BY StoreAssumption DEF Init, CountsTyped
<1>3. Idle \in JobRecord /\ Idle.todo = {} /\ Idle.pc = "idle"
  BY DEF Idle, JobRecord
<1>4. \A j \in Jobs : job[j] = Idle
  BY DEF Init
<1>5. JobsTyped /\ JobsFit /\ TwinsFit
  BY <1>3, <1>4 DEF Init, JobsTyped, JobsFit, TwinsFit
<1>6. UniqueHash /\ PlacedFit /\ MailsFit /\ RefsKept /\ Connected
  BY DEF Init, UniqueHash, PlacedFit, MailsFit, RefsKept, Connected
<1> QED BY <1>1, <1>2, <1>5, <1>6 DEF StoreInv, StoreTyped

\* A body that is in the row of a message stays, unless the message has no
\* Message-ID.
BodiesStay ==
    \A h \in DOMAIN placed \cap DOMAIN placed' :
        Mail[h].id # None /\ rows[placed[h]].state # None => rows'[placed'[h]].state # None

LEMMA SamePlaces ==
  ASSUME StoreInv, PlacesTyped', \A h \in DOMAIN placed \cap DOMAIN placed' : placed'[h] = placed[h],
         \A x \in DOMAIN rows \cap DOMAIN rows' : rows[x].state # None => rows'[x].state # None
  PROVE  BodiesStay
<1>1. ASSUME NEW h \in DOMAIN placed \cap DOMAIN placed', rows[placed[h]].state # None
      PROVE  rows'[placed'[h]].state # None
  <2>1. placed'[h] = placed[h] /\ placed[h] \in DOMAIN rows \cap DOMAIN rows'
    BY <1>1 DEF StoreInv, StoreTyped, PlacesTyped
  <2> QED BY <1>1, <2>1
<1> QED BY <1>1 DEF BodiesStay

\* A listing finds the row of a message that it has placed before.
LEMMA ListBodiesStay ==
  ASSUME StoreInv, NEW h \in Handles, List(h)
  PROVE  BodiesStay
<1>1. /\ StoreInv' /\ DOMAIN rows \subseteq DOMAIN rows'
      /\ \A x \in DOMAIN rows : rows'[x].state = rows[x].state
      /\ placed' = [x \in DOMAIN placed \cup {h} |-> IF x = h THEN RowFor(h) ELSE placed[x]]
  BY ListKeeps
<1>2. ASSUME NEW k \in DOMAIN placed, Mail[k].id # None, rows[placed[k]].state # None
      PROVE  rows'[placed'[k]].state # None
  <2>1. placed[k] \in DOMAIN rows
    BY DEF StoreInv, StoreTyped, PlacesTyped
  <2>2. CASE k # h
    BY <1>1, <1>2, <2>1, <2>2
  <2>3. CASE k = h
    <3>1. Identifies(rows[placed[h]].hash, h) /\ rows[placed[h]].account = Account(h)
      BY <1>2, <2>3 DEF StoreInv, PlacedFit, Fits
    <3>2. rows[placed[h]].hash = HeaderHash(h)
      BY <1>2, <2>3, <3>1, HashFacts DEF Identifies
    <3>3. FreeRows(h) # {}
      BY DEF List
    <3>4. RowFor(h) \in DOMAIN rows => rows[RowFor(h)].account = Account(h) /\ rows[RowFor(h)].hash = HeaderHash(h)
      BY <3>3, RowForIs DEF StoreInv
    <3>5. RowFor(h) \in DOMAIN rows
      BY <2>1, <2>3, <3>1, <3>2, <3>3, RowForIs DEF StoreInv
    <3>6. RowFor(h) = placed[h]
      BY <2>1, <2>3, <3>1, <3>2, <3>4, <3>5 DEF StoreInv, UniqueHash
    <3> QED BY <1>1, <1>2, <2>1, <2>3, <3>6
  <2> QED BY <2>2, <2>3
<1> QED BY <1>2 DEF BodiesStay

LEMMA StoreNext == ASSUME StoreInv, [Next]_vars PROVE StoreInv' /\ BodiesStay
<1>1. ASSUME NEW h \in Handles, Vanish(h) PROVE StoreInv' /\ BodiesStay
  <2>1. StoreInv' /\ rows' = rows /\ placed' = placed
    BY <1>1, VanishKeeps DEF Vanish
  <2> QED BY <2>1, SamePlaces DEF StoreInv, StoreTyped
<1>2. ASSUME NEW h \in Handles, List(h) PROVE StoreInv' /\ BodiesStay
  BY <1>2, ListKeeps, ListBodiesStay
<1>3. ASSUME NEW gone, NEW account, Drop(gone, account), box' \subseteq Handles
      PROVE  StoreInv' /\ BodiesStay
  <2>1. StoreInv' /\ \A x \in DOMAIN rows' : rows'[x] = rows[x]
    BY <1>3, DropKeeps
  <2>2. \A h \in DOMAIN placed \cap DOMAIN placed' : placed'[h] = placed[h]
    BY <1>3 DEF Drop, Without
  <2> QED BY <2>1, <2>2, SamePlaces DEF StoreInv, StoreTyped
<1>4. ASSUME NEW h \in Handles, Remove(h) PROVE StoreInv' /\ BodiesStay
  <2>1. Drop({h}, Account(h)) /\ box' \subseteq Handles
    BY <1>4 DEF Remove, StoreInv, StoreTyped, CountsTyped
  <2> QED BY <1>3, <2>1
<1>5. ASSUME NEW f \in Folders, DeleteMissing(f) PROVE StoreInv' /\ BodiesStay
  <2>1. box' \subseteq Handles
    BY <1>5 DEF DeleteMissing, StoreInv, StoreTyped, CountsTyped
  <2>2. Drop({h \in DOMAIN placed : Folder[h] = f /\ h \notin box}, f.account)
    BY <1>5 DEF DeleteMissing
  <2> QED BY <1>3, <2>1, <2>2
<1>6. ASSUME NEW f \in Folders, NEW j \in Jobs, SelectRows(j, f) PROVE StoreInv' /\ BodiesStay
  <2>1. StoreInv' /\ rows' = rows /\ placed' = placed
    BY <1>6, SelectRowsKeeps
  <2> QED BY <2>1, SamePlaces DEF StoreInv, StoreTyped
<1>7. ASSUME NEW j \in Jobs, Download(j) PROVE StoreInv' /\ BodiesStay
  <2>1. PICK c \in job[j].todo : Missing(j, c) \/ Read(j, c)
    BY <1>7 DEF Download
  <2>2. CASE Missing(j, c)
    <3>1. /\ StoreInv' /\ placed' = placed /\ DOMAIN rows' = DOMAIN rows
          /\ \A x \in DOMAIN rows : rows[x].state # None => rows'[x].state # None
      BY <2>2, MissingKeeps
    <3> QED BY <3>1, SamePlaces DEF StoreInv, StoreTyped
  <2>3. CASE Read(j, c)
    <3>1. StoreInv' /\ rows' = rows /\ placed' = placed
      BY <2>3, ReadKeeps
    <3> QED BY <3>1, SamePlaces DEF StoreInv, StoreTyped
  <2> QED BY <2>1, <2>2, <2>3
<1>8. ASSUME NEW j \in Jobs, Abort(j) PROVE StoreInv' /\ BodiesStay
  <2>1. StoreInv' /\ rows' = rows /\ placed' = placed
    BY <1>8, AbortKeeps
  <2> QED BY <2>1, SamePlaces DEF StoreInv, StoreTyped
<1>9. ASSUME NEW j \in Jobs, WriteContent(j) PROVE StoreInv' /\ BodiesStay
  BY <1>9, WriteContentKeeps DEF BodiesStay
<1>10. CASE UNCHANGED vars
  <2>1. /\ box' = box /\ rows' = rows /\ placed' = placed /\ threads' = threads /\ job' = job
        /\ relisted' = relisted /\ loose' = loose /\ mentions' = mentions
    BY <1>10 DEF vars
  <2>2. StoreTyped'
    BY <2>1 DEF StoreInv, StoreTyped, RowsTyped, PlacesTyped, ThreadsTyped, MarksTyped, CountsTyped, JobsTyped
  <2>3. Kept
    BY <2>1, SameRows DEF StoreInv
  <2>4. PlacedFit'
    BY <2>1, <2>2, <2>3, KeptPlaces DEF StoreTyped
  <2>5. JobsFit' /\ TwinsFit'
    BY <2>1, JobsKept
  <2>6. StoreInv'
    BY <2>2, <2>3, <2>4, <2>5, KeptRows DEF StoreInv
  <2> QED BY <2>1, <2>6, SamePlaces DEF StoreInv, StoreTyped
<1> QED BY <1>1, <1>2, <1>4, <1>5, <1>6, <1>7, <1>8, <1>9, <1>10 DEF Next

LEMMA StoreAlways == Spec => []StoreInv
<1>1. Init => StoreInv
  BY StoreInit
<1>2. StoreInv /\ [Next]_vars => StoreInv'
  BY StoreNext
<1> QED BY <1>1, <1>2, PTL DEF Spec

-----------------------------------------------------------------------------
\* The tables keep their types, every placement has its row, every row its
\* thread, and no account two rows of one identity (store.upsert_messages,
\* write_content, purge_orphan_messages).
THEOREM StoreTypes == Spec => []TypeOK
<1>1. StoreInv => TypeOK
  <2> SUFFICES ASSUME StoreInv PROVE TypeOK
    OBVIOUS
  <2>1. \A r \in DOMAIN rows :
          /\ r \in Names /\ rows[r].state \in {None, "partial", "full"} /\ rows[r].thread \in threads
          /\ \A s \in DOMAIN rows \ {r} : rows[r].account = rows[s].account => rows[r].hash # rows[s].hash
    BY RowIs DEF StoreInv, StoreTyped, ThreadsTyped, UniqueHash, States
  <2> QED BY <2>1 DEF TypeOK, StoreInv, StoreTyped, PlacesTyped, ThreadsTyped, MarksTyped, CountsTyped
<1> QED BY <1>1, StoreAlways, PTL

\* A folder shows the rows of its own account, but for a mail without a
\* Message-ID that another account has as well (ensure_dedup_hash looks for
\* the hash in all accounts).
THEOREM FoldersShowTheirAccount == Spec => []AccountsApart
<1>1. StoreInv => AccountsApart
  BY DEF StoreInv, PlacedFit, AccountsApart
<1> QED BY <1>1, StoreAlways, PTL

\* Copies of one mail in the folders of an account end as one row, whatever
\* body jobs and listings do meanwhile (ensure_dedup_hash, merge_duplicate),
\* unless a row is loose or belongs to another account.
THEOREM CopiesAreOneRow == Spec => []CopiesShareRow
<1>1. StoreInv => CopiesShareRow
  <2> SUFFICES ASSUME StoreInv, NEW h \in DOMAIN placed, NEW k \in DOMAIN placed,
                      Mail[h] = Mail[k], Mail[h].kind # "refused",
                      rows[placed[h]].account = rows[placed[k]].account, HasBody(h), HasBody(k),
                      {placed[h], placed[k]} \cap loose = {}
               PROVE  placed[h] = placed[k]
    BY DEF CopiesShareRow
  <2>1. ASSUME NEW x \in {h, k} PROVE rows[placed[x]].hash = BodyHash(Mail[x])
    <3>1. /\ x \in Handles /\ placed[x] \in DOMAIN rows /\ placed[x] \notin loose
          /\ rows[placed[x]].state # None /\ Mail[x].kind # "refused"
      BY <2>1 DEF StoreInv, StoreTyped, PlacesTyped, HasBody
    <3>2. Identifies(rows[placed[x]].hash, x)
      BY <2>1 DEF StoreInv, PlacedFit, Fits
    <3>3. CASE rows[placed[x]].hash = HeaderHash(x)
      <4>1. Mail[x].id # None
        BY <3>1, <3>3 DEF StoreInv, MailsFit
      <4> QED BY <3>1, <3>3, <4>1, HashFacts
    <3> QED BY <3>2, <3>3 DEF Identifies
  <2>2. placed[h] \in DOMAIN rows /\ placed[k] \in DOMAIN rows
    BY DEF StoreInv, StoreTyped, PlacesTyped
  <2> QED BY <2>1, <2>2 DEF StoreInv, UniqueHash
<1> QED BY <1>1, StoreAlways, PTL

\* A message and the one its body refers to are in one conversation, in
\* whatever order they arrived (assign_thread), unless a listing overwrote the
\* references or the lookup was stale.
THEOREM ConversationsAreWhole == Spec => []ConversationsMeet
<1>1. StoreInv => ConversationsMeet
  <2> SUFFICES ASSUME StoreInv, NEW r \in DOMAIN rows, NEW s \in DOMAIN rows,
                      rows[r].account = rows[s].account, rows[r].state # None,
                      rows[s].mail.id \in BodyRefs(rows[r].mail),
                      r \notin relisted, {r, s} \cap loose = {}
               PROVE  rows[r].thread = rows[s].thread
    BY DEF ConversationsMeet
  <2>1. r \notin loose /\ s \notin loose
    OBVIOUS
  <2>2. rows[r].mail \in Mails
    BY RowIs DEF StoreInv, StoreTyped
  <2>3. rows[s].mail.id # None
    BY <2>2, MailFacts DEF Mails
  <2>4. rows[s].mail.id \in rows[s].refs
    BY <2>3 DEF StoreInv, RefsKept, Own
  <2>5. rows[s].mail.id \in rows[r].refs
    BY <2>1 DEF StoreInv, RefsKept
  <2> QED BY <2>1, <2>4, <2>5 DEF StoreInv, Connected
<1> QED BY <1>1, StoreAlways, PTL

\* The body state that was written stays with a message that stays in its
\* folder: no listing, merge or purge takes it away (its references are not
\* meant).
THEOREM BodiesAreKept == Spec => BodyStays
<1>1. StoreInv /\ [Next]_vars => BodiesStay
  BY StoreNext
<1>2. StoreInv /\ [Next]_vars => [BodiesStay]_vars
  BY <1>1
<1>3. Spec => [][BodiesStay]_vars
  BY <1>2, StoreAlways, PTL DEF Spec
<1> QED BY <1>3 DEF BodyStays, BodiesStay

-----------------------------------------------------------------------------
(***************************************************************************)
(* Files: the inductive invariant of Blobs.                                *)
(***************************************************************************)
Writing == Whole \cup {"written"}

\* The threads that have the temporary name in use, or will remove it.
Active(t) == thread[t].pc \notin Over \cup {"new"}

\* A thread holds an inode exactly while it writes.
HoldsWhileWriting ==
    \A t \in Threads : thread[t].inode # NoInode <=> thread[t].pc \in Writing

\* Every inode in use, and every thread that will need one, has its call.
Used == {i \in Inodes : i = target \/ Writers(i) # {} \/ \E q \in Processes : tmp[q] = i}
New  == {t \in Threads : thread[t].pc = "new"}
EnoughInodes == Cardinality(Used) + Cardinality(New) <= puts

\* What a thread has yet to write.
ToWrite(t) == CASE thread[t].pc = "head" -> Whole
                [] thread[t].pc = "tail" -> {"tail"}
                [] OTHER                 -> {}

\* Without faults, what a file lacks is still to be written by somebody.
SomebodyWrites ==
    faults = 0 =>
        \A n \in Inodes : n = target \/ (\E q \in Processes : tmp[q] = n) =>
            \A h \in Whole \ data[n] : \E t \in Writers(n) : h \in ToWrite(t)

\* Without collisions, a thread has the temporary file of its process to
\* itself and has written it as far as it has come.
HasFileAlone ==
    ~collided =>
        /\ target # NoInode => data[target] = Whole
        /\ \A t \in Threads :
              /\ Active(t) => Others(t) = {}
              /\ thread[t].pc \in Writing => tmp[Process[t]] = thread[t].inode
              /\ thread[t].pc \in Writing => Whole \ data[thread[t].inode] \subseteq ToWrite(t)
              /\ thread[t].pc \notin {"broken", "failed"}

\* Who finds no temporary file was overtaken by somebody who stored the blob.
OvertakenByBlob ==
    target = NoInode /\ faults = 0 =>
        \A t \in Threads :
            /\ thread[t].pc \notin {"replaced", "broken", "refused", "failed"}
            /\ thread[t].pc \in Writing => tmp[Process[t]] # NoInode

BlobInv == BlobTypeOK /\ HoldsWhileWriting /\ EnoughInodes /\ SomebodyWrites /\ HasFileAlone /\ OvertakenByBlob

-----------------------------------------------------------------------------
(***************************************************************************)
(* Files: types.                                                           *)
(***************************************************************************)
Places == Over \cup Whole \cup {"new", "written"} \cup {"replaced", "broken", "refused"}

NamesTyped ==
    /\ target \in Inodes \cup {NoInode}
    /\ tmp \in [Processes -> Inodes \cup {NoInode}]
    /\ \A q \in Processes : tmp[q] = target => tmp[q] = NoInode
    /\ \A q, r \in Processes : tmp[q] = tmp[r] => q = r \/ tmp[q] = NoInode

WritersTyped == thread \in [Threads -> [pc : Places, inode : Inodes \cup {NoInode}]]

RestTyped ==
    /\ data \in [Inodes -> SUBSET Whole]
    /\ puts \in 0..MaxPuts /\ faults \in 0..MaxFaults /\ collided \in BOOLEAN

LEMMA OutcomeIs ==
  /\ DOMAIN Outcome = {"replaced", "broken", "refused"}
  /\ Outcome["replaced"] = "stored" /\ Outcome["broken"] = "failed" /\ Outcome["refused"] = "full"
BY DEF Outcome

LEMMA BlobTypeParts == BlobTypeOK <=> NamesTyped /\ WritersTyped /\ RestTyped
<1>1. tmp \in [Processes -> (Inodes \cup {NoInode}) \ ({target} \ {NoInode})]
      <=> /\ tmp \in [Processes -> Inodes \cup {NoInode}]
          /\ \A q \in Processes : tmp[q] = target => tmp[q] = NoInode
  OBVIOUS
<1>2. Over \cup Whole \cup {"new", "written"} \cup DOMAIN Outcome = Places
  BY OutcomeIs DEF Places
<1> QED BY <1>1, <1>2 DEF BlobTypeOK, NamesTyped, WritersTyped, RestTyped

LEMMA NoneIsNoInode == NoInode \notin Inodes /\ IsFiniteSet(Inodes) /\ Cardinality(Inodes) = MaxPuts
<1>1. MaxPuts \in Nat /\ NoInode \notin Nat
  BY BlobAssumption
<1>2. IsFiniteSet(Inodes) /\ Cardinality(Inodes) = MaxPuts
  BY <1>1, FS_Interval DEF Inodes
<1> QED BY <1>1, <1>2 DEF Inodes

LEMMA UsedIsFinite ==
  /\ IsFiniteSet(Used) /\ Used \subseteq Inodes /\ Cardinality(Used) \in Nat
  /\ IsFiniteSet(New) /\ New \subseteq Threads /\ Cardinality(New) \in Nat
<1>1. Used \subseteq Inodes /\ New \subseteq Threads
  BY DEF Used, New
<1> QED BY <1>1, NoneIsNoInode, BlobAssumption, FS_Subset, FS_CardinalityType

\* A thread that is to open its file finds an inode for it.
LEMMA OpenFindsInode ==
  ASSUME BlobTypeOK, EnoughInodes, NEW t \in Threads, Open(t)
  PROVE  \E n \in Inodes :
            /\ \/ tmp[Process[t]] = n
               \/ /\ tmp[Process[t]] = NoInode /\ n # target /\ Writers(n) = {}
                  /\ \A r \in Processes : tmp[r] # n
            /\ tmp' = [tmp EXCEPT ![Process[t]] = n]
            /\ data' = [data EXCEPT ![n] = {}]
            /\ thread' = [thread EXCEPT ![t] = [pc |-> "head", inode |-> n]]
<1> DEFINE q == Process[t]
           Unused(i) == i # target /\ Writers(i) = {} /\ \A r \in Processes : tmp[r] # i
           n == IF tmp[q] # NoInode THEN tmp[q] ELSE CHOOSE i \in Inodes : Unused(i)
<1>1. q \in Processes
  BY DEF Processes
<1>2. /\ thread[t].pc = "new" /\ tmp' = [tmp EXCEPT ![q] = n]
      /\ data' = [data EXCEPT ![n] = {}]
      /\ thread' = [thread EXCEPT ![t] = [pc |-> "head", inode |-> n]]
  BY DEF Open, Name
<1>3. CASE tmp[q] # NoInode
  <2>1. n = tmp[q] /\ n \in Inodes
    BY <1>1, <1>3, BlobTypeParts DEF NamesTyped
  <2> QED BY <1>2, <2>1
<1>4. CASE tmp[q] = NoInode
  <2>1. \E i \in Inodes : Unused(i)
    <3> SUFFICES ASSUME \A i \in Inodes : ~Unused(i) PROVE FALSE
      OBVIOUS
    <3>1. Used = Inodes
      BY DEF Used
    <3>2. Cardinality(Used) = MaxPuts
      BY <3>1, NoneIsNoInode
    <3>3. Cardinality(New) # 0
      BY <1>2, UsedIsFinite, FS_EmptySet DEF New
    <3> QED BY <3>2, <3>3, UsedIsFinite, BlobTypeParts, BlobAssumption DEF EnoughInodes, RestTyped
  <2>2. n \in Inodes /\ Unused(n)
    BY <1>4, <2>1, Zenon
  <2> HIDE DEF n
  <2> QED BY <1>2, <1>4, <2>2
<1> QED BY <1>3, <1>4

LEMMA BlobTypeInit == BlobInit => BlobTypeOK /\ HoldsWhileWriting /\ EnoughInodes
<1> SUFFICES ASSUME BlobInit PROVE BlobTypeOK /\ HoldsWhileWriting /\ EnoughInodes
  OBVIOUS
<1>1. NamesTyped
  BY DEF BlobInit, NamesTyped
<1>2. WritersTyped /\ HoldsWhileWriting
  BY DEF BlobInit, WritersTyped, HoldsWhileWriting, Done, Places, Over, Writing, Whole
<1>3. RestTyped
  <2>1. 0 \in 0..MaxPuts /\ 0 \in 0..MaxFaults
    BY BlobAssumption
  <2> QED BY <2>1 DEF BlobInit, RestTyped
<1>4. EnoughInodes
  <2>1. Used = {} /\ New = {}
    BY NoneIsNoInode DEF BlobInit, Used, New, Writers, Done
  <2> QED BY <2>1, FS_EmptySet DEF BlobInit, EnoughInodes
<1> QED BY <1>1, <1>2, <1>3, <1>4, BlobTypeParts

LEMMA BlobTypeStep ==
  ASSUME BlobTypeOK, HoldsWhileWriting, EnoughInodes, [BlobNext]_blobVars
  PROVE  BlobTypeOK' /\ HoldsWhileWriting'
<1>0. NamesTyped /\ WritersTyped /\ RestTyped
  BY BlobTypeParts
<1> SUFFICES NamesTyped' /\ WritersTyped' /\ RestTyped' /\ HoldsWhileWriting'
  BY BlobTypeParts, OutcomeIs DEF BlobTypeOK, NamesTyped, WritersTyped, RestTyped, Places
<1> USE NoneIsNoInode, BlobAssumption DEF Processes
<1>1. ASSUME NEW t \in Threads, Put(t)
      PROVE  NamesTyped' /\ WritersTyped' /\ RestTyped' /\ HoldsWhileWriting'
  <2>1. NamesTyped' /\ RestTyped'
    BY <1>0, <1>1 DEF Put, NamesTyped, RestTyped
  <2>2. WritersTyped' /\ HoldsWhileWriting'
    BY <1>0, <1>1 DEF Put, WritersTyped, HoldsWhileWriting, Done, Places, Over, Writing, Whole
  <2> QED BY <2>1, <2>2
<1>2. ASSUME NEW t \in Threads, Open(t)
      PROVE  NamesTyped' /\ WritersTyped' /\ RestTyped' /\ HoldsWhileWriting'
  <2>1. PICK n \in Inodes :
            /\ \/ tmp[Process[t]] = n
               \/ /\ tmp[Process[t]] = NoInode /\ n # target /\ Writers(n) = {}
                  /\ \A r \in Processes : tmp[r] # n
            /\ tmp' = [tmp EXCEPT ![Process[t]] = n]
            /\ data' = [data EXCEPT ![n] = {}]
            /\ thread' = [thread EXCEPT ![t] = [pc |-> "head", inode |-> n]]
    BY <1>2, OpenFindsInode
  <2>2. NamesTyped'
    <3>1. target' = target /\ tmp' \in [Processes -> Inodes \cup {NoInode}]
      <4>1. target' = target
        BY <1>2, Zenon DEF Open
      <4> QED BY <1>0, <2>1, <4>1 DEF NamesTyped
    <3>2. tmp'[Process[t]] = n /\ \A r \in Processes \ {Process[t]} : tmp'[r] = tmp[r] /\ tmp[r] # n
      BY <1>0, <2>1 DEF NamesTyped
    <3>3. n # target
      BY <1>0, <2>1 DEF NamesTyped
    <3> QED BY <1>0, <3>1, <3>2, <3>3 DEF NamesTyped
  <2>3. RestTyped'
    <3>1. collided' \in BOOLEAN
      BY <1>2 DEF Open, RestTyped
    <3> QED BY <1>0, <1>2, <2>1, <3>1 DEF Open, RestTyped
  <2>4. WritersTyped' /\ HoldsWhileWriting'
    BY <1>0, <2>1 DEF WritersTyped, HoldsWhileWriting, Places, Writing, Whole
  <2> QED BY <2>2, <2>3, <2>4
<1>3. ASSUME NEW t \in Threads, Write(t)
      PROVE  NamesTyped' /\ WritersTyped' /\ RestTyped' /\ HoldsWhileWriting'
  <2>1. NamesTyped' /\ RestTyped'
    BY <1>0, <1>3 DEF Write, NamesTyped, RestTyped
  <2>2. WritersTyped' /\ HoldsWhileWriting'
    BY <1>0, <1>3 DEF Write, Goes, WritersTyped, HoldsWhileWriting, Places, Writing, Whole
  <2> QED BY <2>1, <2>2
<1>4. ASSUME NEW t \in Threads, DiskFull(t)
      PROVE  NamesTyped' /\ WritersTyped' /\ RestTyped' /\ HoldsWhileWriting'
  <2>1. NamesTyped' /\ RestTyped'
    BY <1>0, <1>4 DEF DiskFull, NamesTyped, RestTyped
  <2>2. WritersTyped' /\ HoldsWhileWriting'
    BY <1>0, <1>4 DEF DiskFull, Done, WritersTyped, HoldsWhileWriting, Places, Writing, Whole
  <2> QED BY <2>1, <2>2
<1>5. ASSUME NEW t \in Threads, Replace(t)
      PROVE  NamesTyped' /\ WritersTyped' /\ RestTyped' /\ HoldsWhileWriting'
  <2>1. NamesTyped' /\ RestTyped'
    BY <1>0, <1>5 DEF Replace, Renamed, Name, NamesTyped, RestTyped
  <2>2. WritersTyped' /\ HoldsWhileWriting'
    BY <1>0, <1>5 DEF Replace, Renamed, Done, WritersTyped, HoldsWhileWriting, Places, Writing, Whole
  <2> QED BY <2>1, <2>2
<1>6. ASSUME NEW t \in Threads, Unlink(t)
      PROVE  NamesTyped' /\ WritersTyped' /\ RestTyped' /\ HoldsWhileWriting'
  <2>1. NamesTyped' /\ RestTyped'
    BY <1>0, <1>6 DEF Unlink, Name, NamesTyped, RestTyped
  <2>2. /\ thread[t].pc \in {"replaced", "broken", "refused"}
        /\ Outcome[thread[t].pc] \in {"stored", "failed", "full"}
    BY <1>6, OutcomeIs DEF Unlink
  <2>3. WritersTyped' /\ HoldsWhileWriting'
    BY <1>0, <1>6, <2>2 DEF Unlink, Goes, WritersTyped, HoldsWhileWriting, Places, Over, Writing, Whole
  <2> QED BY <2>1, <2>3
<1>7. ASSUME NEW q \in Processes, Kill(q)
      PROVE  NamesTyped' /\ WritersTyped' /\ RestTyped' /\ HoldsWhileWriting'
  <2>1. NamesTyped' /\ RestTyped'
    BY <1>0, <1>7 DEF Kill, NamesTyped, RestTyped
  <2>2. WritersTyped' /\ HoldsWhileWriting'
    BY <1>0, <1>7 DEF Kill, Done, WritersTyped, HoldsWhileWriting, Places, Over, Writing, Whole
  <2> QED BY <2>1, <2>2
<1>8. CASE UNCHANGED blobVars
  BY <1>0, <1>8 DEF blobVars, NamesTyped, WritersTyped, RestTyped, HoldsWhileWriting
<1> QED BY <1>1, <1>2, <1>3, <1>4, <1>5, <1>6, <1>7, <1>8 DEF BlobNext

LEMMA OneMore ==
  ASSUME NEW S, IsFiniteSet(S), NEW x
  PROVE  IsFiniteSet(S \cup {x}) /\ Cardinality(S \cup {x}) <= Cardinality(S) + 1
<1>1. Cardinality(S) \in Nat
  BY FS_CardinalityType
<1>2. /\ IsFiniteSet(S \cup {x})
      /\ Cardinality(S \cup {x}) = IF x \in S THEN Cardinality(S) ELSE Cardinality(S) + 1
  BY FS_AddElement
<1> QED BY <1>1, <1>2

LEMMA EnoughStep ==
  ASSUME BlobTypeOK, HoldsWhileWriting, EnoughInodes, [BlobNext]_blobVars
  PROVE  EnoughInodes'
<1>0. NamesTyped /\ WritersTyped /\ RestTyped /\ puts \in Nat
  BY BlobTypeParts, BlobAssumption DEF RestTyped
<1> USE NoneIsNoInode DEF Processes
<1>1. ASSUME Used' \subseteq Used, New' \subseteq New, puts' = puts
      PROVE  EnoughInodes'
  <2>1. Cardinality(Used') <= Cardinality(Used) /\ Cardinality(New') <= Cardinality(New)
        /\ Cardinality(Used') \in Nat /\ Cardinality(New') \in Nat
    BY <1>1, UsedIsFinite, FS_Subset, FS_CardinalityType
  <2> QED BY <1>0, <1>1, <2>1, UsedIsFinite DEF EnoughInodes
<1>2. ASSUME NEW t \in Threads, Put(t)
      PROVE  EnoughInodes'
  <2>1. Used' = Used /\ New' \subseteq New \cup {t} /\ puts' = puts + 1
    BY <1>0, <1>2 DEF Put, Used, New, Writers, WritersTyped, HoldsWhileWriting, Done, Over, Writing, Whole
  <2>2. IsFiniteSet(New \cup {t}) /\ Cardinality(New \cup {t}) <= Cardinality(New) + 1
    BY UsedIsFinite, OneMore
  <2>3. Cardinality(New') <= Cardinality(New \cup {t}) /\ Cardinality(New') \in Nat
    BY <2>1, <2>2, FS_Subset, FS_CardinalityType
  <2>4. Cardinality(New \cup {t}) \in Nat
    BY <2>2, FS_CardinalityType
  <2> QED BY <1>0, <2>1, <2>2, <2>3, <2>4, UsedIsFinite DEF EnoughInodes
<1>3. ASSUME NEW t \in Threads, Open(t)
      PROVE  EnoughInodes'
  <2>1. PICK n \in Inodes :
            /\ tmp' = [tmp EXCEPT ![Process[t]] = n]
            /\ thread' = [thread EXCEPT ![t] = [pc |-> "head", inode |-> n]]
    BY <1>3, OpenFindsInode
  <2>2. target' = target /\ puts' = puts /\ thread[t].pc = "new"
    BY <1>3, Zenon DEF Open
  <2>3. Used' \subseteq Used \cup {n}
    BY <1>0, <2>1, <2>2 DEF Used, Writers, NamesTyped, WritersTyped
  <2>4. New' = New \ {t} /\ t \in New
    BY <1>0, <2>1, <2>2 DEF New, WritersTyped
  <2>5. IsFiniteSet(Used \cup {n}) /\ Cardinality(Used \cup {n}) <= Cardinality(Used) + 1
    BY UsedIsFinite, OneMore
  <2>6. /\ Cardinality(Used') <= Cardinality(Used \cup {n})
        /\ Cardinality(Used \cup {n}) \in Nat /\ Cardinality(Used') \in Nat
    BY <2>3, <2>5, FS_Subset, FS_CardinalityType
  <2>7. Cardinality(New') = Cardinality(New) - 1
    BY <2>4, UsedIsFinite, FS_RemoveElement
  <2> QED BY <1>0, <2>2, <2>5, <2>6, <2>7, UsedIsFinite DEF EnoughInodes
<1>4. ASSUME NEW t \in Threads, Write(t)
      PROVE  EnoughInodes'
  BY <1>0, <1>1, <1>4 DEF Write, Goes, Used, New, Writers, WritersTyped, Whole
<1>5. ASSUME NEW t \in Threads, DiskFull(t)
      PROVE  EnoughInodes'
  BY <1>0, <1>1, <1>5 DEF DiskFull, Done, Used, New, Writers, WritersTyped
<1>6. ASSUME NEW t \in Threads, Replace(t)
      PROVE  EnoughInodes'
  <2>1. /\ \A u \in Threads : thread'[u].pc # "new" \/ thread'[u] = thread[u]
        /\ \A u \in Threads : thread'[u].inode \in {thread[u].inode, NoInode}
    BY <1>0, <1>6 DEF Replace, Renamed, Done, WritersTyped
  <2>2. \A n \in Inodes : n = target' \/ (\E q \in Processes : tmp'[q] = n)
                               => n = target \/ (\E q \in Processes : tmp[q] = n)
    BY <1>0, <1>6 DEF Replace, Renamed, Name, NamesTyped
  <2>3. Used' \subseteq Used /\ New' \subseteq New
    BY <2>1, <2>2 DEF Used, New, Writers
  <2> QED BY <1>1, <1>6, <2>3 DEF Replace
<1>7. ASSUME NEW t \in Threads, Unlink(t)
      PROVE  EnoughInodes'
  <2>1. /\ thread[t].pc \in {"replaced", "broken", "refused"}
        /\ Outcome[thread[t].pc] # "new"
    BY <1>7, OutcomeIs DEF Unlink
  <2> QED BY <1>0, <1>1, <1>7, <2>1 DEF Unlink, Goes, Name, Used, New, Writers, NamesTyped, WritersTyped
<1>8. ASSUME NEW q \in Processes, Kill(q)
      PROVE  EnoughInodes'
  BY <1>0, <1>1, <1>8 DEF Kill, Done, Used, New, Writers, WritersTyped
<1>9. CASE UNCHANGED blobVars
  BY <1>1, <1>9 DEF blobVars, Used, New, Writers
<1> QED BY <1>2, <1>3, <1>4, <1>5, <1>6, <1>7, <1>8, <1>9 DEF BlobNext

-----------------------------------------------------------------------------
(***************************************************************************)
(* Who writes what a file lacks.                                           *)
(***************************************************************************)
LEMMA WritersInit == BlobInit => SomebodyWrites /\ HasFileAlone /\ OvertakenByBlob
<1> SUFFICES ASSUME BlobInit PROVE SomebodyWrites /\ HasFileAlone /\ OvertakenByBlob
  OBVIOUS
<1>1. \A t \in Threads : thread[t].pc = "idle" /\ thread[t].inode = NoInode
  BY DEF BlobInit, Done
<1>2. SomebodyWrites
  BY NoneIsNoInode DEF BlobInit, SomebodyWrites
<1>3. HasFileAlone /\ OvertakenByBlob
  BY <1>1 DEF BlobInit, HasFileAlone, OvertakenByBlob, Active, Over, Writing, Whole
<1> QED BY <1>2, <1>3

\* A thread that did not move is as much of a writer as before.
LEMMA StillWrites ==
  ASSUME NEW u \in Threads, thread'[u] = thread[u]
  PROVE  ToWrite(u)' = ToWrite(u) /\ \A n : u \in Writers(n)' <=> u \in Writers(n)
BY DEF ToWrite, Writers

LEMMA SomebodyWritesStep ==
  ASSUME BlobTypeOK, HoldsWhileWriting, EnoughInodes, SomebodyWrites, [BlobNext]_blobVars
  PROVE  SomebodyWrites'
<1>0. NamesTyped /\ WritersTyped /\ RestTyped /\ faults \in Nat
  BY BlobTypeParts, BlobAssumption DEF RestTyped
<1> USE NoneIsNoInode DEF Processes
\* What a thread keeps to write, it goes on to write.
<1>1. ASSUME NEW t \in Threads, faults' = faults, \A u \in Threads \ {t} : thread'[u] = thread[u],
             \A n \in Inodes : n = target' \/ (\E q \in Processes : tmp'[q] = n)
                               => n = target \/ (\E q \in Processes : tmp[q] = n),
             \A n \in Inodes : data[n] \subseteq data'[n],
             \A n \in Inodes : t \in Writers(n) =>
                 \A h \in ToWrite(t) : h \in data'[n] \/ (t \in Writers(n)' /\ h \in ToWrite(t)')
      PROVE  SomebodyWrites'
  <2> SUFFICES ASSUME faults = 0, NEW n \in Inodes, n = target \/ (\E q \in Processes : tmp[q] = n),
                      NEW h \in Whole \ data'[n]
               PROVE  \E u \in Writers(n)' : h \in ToWrite(u)'
    BY <1>1 DEF SomebodyWrites
  <2>1. PICK u \in Writers(n) : h \in ToWrite(u)
    BY <1>1 DEF SomebodyWrites
  <2>2. CASE u = t
    BY <1>1, <2>1, <2>2
  <2>3. CASE u # t
    BY <1>1, <2>1, <2>3, StillWrites DEF Writers
  <2> QED BY <2>2, <2>3
<1>2. ASSUME NEW t \in Threads, Put(t)
      PROVE  SomebodyWrites'
  BY <1>0, <1>1, <1>2 DEF Put, WritersTyped, HoldsWhileWriting, Writers, Over, Writing, Whole
<1>3. ASSUME NEW t \in Threads, Open(t)
      PROVE  SomebodyWrites'
  <2>1. PICK n \in Inodes :
            /\ tmp' = [tmp EXCEPT ![Process[t]] = n]
            /\ data' = [data EXCEPT ![n] = {}]
            /\ thread' = [thread EXCEPT ![t] = [pc |-> "head", inode |-> n]]
    BY <1>3, OpenFindsInode
  <2>2. target' = target /\ faults' = faults /\ thread[t].pc = "new"
    BY <1>3, Zenon DEF Open
  <2>3. t \in Writers(n)' /\ ToWrite(t)' = Whole
    BY <1>0, <2>1 DEF Writers, ToWrite, WritersTyped
  <2> SUFFICES ASSUME faults = 0, NEW m \in Inodes, m # n, m = target \/ (\E q \in Processes : tmp[q] = m),
                      NEW h \in Whole \ data[m]
               PROVE  \E u \in Writers(m)' : h \in ToWrite(u)'
    BY <1>0, <2>1, <2>2, <2>3 DEF SomebodyWrites, NamesTyped, RestTyped
  <2>4. PICK u \in Writers(m) : h \in ToWrite(u)
    BY DEF SomebodyWrites
  <2>5. u # t /\ u \in Threads /\ thread'[u] = thread[u]
    BY <1>0, <2>1, <2>2, <2>4 DEF Writers, WritersTyped, HoldsWhileWriting, Writing, Whole
  <2> QED BY <2>4, <2>5, StillWrites
<1>4. ASSUME NEW t \in Threads, Write(t)
      PROVE  SomebodyWrites'
  <2>1. /\ faults' = faults /\ \A u \in Threads \ {t} : thread'[u] = thread[u]
        /\ \A n \in Inodes : data[n] \subseteq data'[n]
        /\ target' = target /\ tmp' = tmp
    BY <1>0, <1>4 DEF Write, Goes, WritersTyped, RestTyped
  <2>2. ASSUME NEW n \in Inodes, t \in Writers(n), NEW h \in ToWrite(t)
        PROVE  h \in data'[n] \/ (t \in Writers(n)' /\ h \in ToWrite(t)')
    <3>1. thread[t].inode = n /\ thread'[t].inode = n /\ data'[n] = data[n] \cup {thread[t].pc}
      BY <1>0, <1>4, <2>2 DEF Write, Goes, Writers, WritersTyped, RestTyped
    <3>2. CASE thread[t].pc = "head"
      <4>1. thread'[t].pc = "tail"
        BY <1>0, <1>4, <3>2 DEF Write, Goes, WritersTyped
      <4> QED BY <2>2, <3>1, <3>2, <4>1 DEF ToWrite, Writers, Whole
    <3>3. CASE thread[t].pc = "tail"
      BY <2>2, <3>1, <3>3 DEF ToWrite
    <3> QED BY <1>4, <3>2, <3>3 DEF Write, Whole
  <2> QED BY <1>1, <2>1, <2>2
<1>5. ASSUME NEW t \in Threads, DiskFull(t)
      PROVE  SomebodyWrites'
  BY <1>0, <1>5 DEF DiskFull, SomebodyWrites
<1>6. ASSUME NEW t \in Threads, Replace(t)
      PROVE  SomebodyWrites'
  <2>1. ToWrite(t) = {}
    BY <1>6 DEF Replace, ToWrite
  <2>2. /\ faults' = faults /\ data' = data
        /\ \A u \in Threads \ {t} : thread'[u] = thread[u]
    BY <1>0, <1>6 DEF Replace, Renamed, WritersTyped
  <2>3. \A n \in Inodes : n = target' \/ (\E q \in Processes : tmp'[q] = n)
                               => n = target \/ (\E q \in Processes : tmp[q] = n)
    BY <1>0, <1>6 DEF Replace, Renamed, Name, NamesTyped
  <2> QED BY <1>1, <2>1, <2>2, <2>3
<1>7. ASSUME NEW t \in Threads, Unlink(t)
      PROVE  SomebodyWrites'
  <2>1. /\ faults' = faults /\ data' = data /\ target' = target
        /\ \A u \in Threads \ {t} : thread'[u] = thread[u]
        /\ \A q \in Processes : tmp'[q] \in {tmp[q], NoInode}
    BY <1>0, <1>7 DEF Unlink, Goes, Name, WritersTyped, NamesTyped
  <2>2. \A n \in Inodes : t \notin Writers(n)
    BY <1>0, <1>7, OutcomeIs DEF Unlink, Writers, WritersTyped, HoldsWhileWriting, Writing, Whole
  <2> QED BY <1>1, <2>1, <2>2
<1>8. ASSUME NEW q \in Processes, Kill(q)
      PROVE  SomebodyWrites'
  BY <1>0, <1>8 DEF Kill, SomebodyWrites
<1>9. CASE UNCHANGED blobVars
  BY <1>9 DEF blobVars, SomebodyWrites, Writers, ToWrite
<1> QED BY <1>2, <1>3, <1>4, <1>5, <1>6, <1>7, <1>8, <1>9 DEF BlobNext

-----------------------------------------------------------------------------
(***************************************************************************)
(* Threads that do not collide.                                            *)
(***************************************************************************)
\* What HasFileAlone says of one thread.
Alone(t) ==
    /\ Active(t) => Others(t) = {}
    /\ thread[t].pc \in Writing => tmp[Process[t]] = thread[t].inode
    /\ thread[t].pc \in Writing => Whole \ data[thread[t].inode] \subseteq ToWrite(t)
    /\ thread[t].pc \notin {"broken", "failed"}

LEMMA AloneIs ==
  HasFileAlone <=> (~collided => /\ target # NoInode => data[target] = Whole
                                 /\ \A t \in Threads : Alone(t))
BY DEF HasFileAlone, Alone

\* While another thread moves and keeps out of its way, a thread stays alone.
LEMMA StaysAlone ==
  ASSUME NEW t \in Threads, NEW u \in Threads, Alone(u),
         \A v \in Threads \ {t} : thread'[v] = thread[v], u # t,
         Active(t)' => Active(t) \/ (Active(u) => Process[t] # Process[u]),
         Active(u) => tmp'[Process[u]] = tmp[Process[u]],
         thread[u].pc \in Writing => data[thread[u].inode] \subseteq data'[thread[u].inode]
  PROVE  Alone(u)'
<1>1. thread'[u] = thread[u] /\ ToWrite(u)' = ToWrite(u) /\ (Active(u)' <=> Active(u))
  BY DEF ToWrite, Active
<1>2. Active(u) => Others(u)' = {}
  <2> SUFFICES ASSUME Active(u), NEW v \in Threads \ {u}, Process[v] = Process[u], Active(v)'
               PROVE  FALSE
    BY DEF Others, Active
  <2>1. v \notin Others(u)
    BY DEF Alone
  <2>2. ~Active(v)
    BY <2>1 DEF Others, Active
  <2> QED BY <2>2 DEF Active
<1>3. thread[u].pc \in Writing => Active(u)
  BY DEF Active, Writing, Whole, Over
<1> QED BY <1>1, <1>2, <1>3 DEF Alone

LEMMA HasFileAloneStep ==
  ASSUME BlobTypeOK, HoldsWhileWriting, EnoughInodes, HasFileAlone, [BlobNext]_blobVars
  PROVE  HasFileAlone'
<1>0. NamesTyped /\ WritersTyped /\ RestTyped
  BY BlobTypeParts
<1> SUFFICES ASSUME ~collided'
             PROVE  (target' # NoInode => data'[target'] = Whole) /\ \A t \in Threads : Alone(t)'
  BY DEF HasFileAlone, Alone
<1> USE NoneIsNoInode DEF Processes
<1>1. ~collided
  BY DEF BlobNext, Put, Open, Write, DiskFull, Replace, Unlink, Kill, blobVars
<1>2. (target # NoInode => data[target] = Whole) /\ \A t \in Threads : Alone(t)
  BY <1>1, AloneIs
<1>3. \A u \in Threads : thread[u].pc \in Writing =>
          /\ Active(u) /\ thread[u].inode \in Inodes
          /\ tmp[Process[u]] = thread[u].inode /\ thread[u].inode # target
  BY <1>0, <1>2 DEF Alone, Active, Writing, Whole, Over, HoldsWhileWriting, WritersTyped, NamesTyped
\* Two active threads are of two processes.
<1>4. \A t, u \in Threads : t # u /\ Active(t) /\ Active(u) => Process[t] # Process[u]
  BY <1>2 DEF Alone, Others, Active
<1>5. ASSUME NEW t \in Threads, Put(t)
      PROVE  (target' # NoInode => data'[target'] = Whole) /\ \A u \in Threads : Alone(u)'
  <2>1. /\ UNCHANGED <<target, tmp, data>> /\ \A v \in Threads \ {t} : thread'[v] = thread[v]
        /\ thread'[t].pc \in {"new", "stored"}
    BY <1>0, <1>5 DEF Put, Done, WritersTyped
  <2>2. Alone(t)' /\ ~Active(t)'
    BY <2>1 DEF Alone, Active, Over, Writing, Whole
  <2>3. \A u \in Threads \ {t} : Alone(u)'
    BY <1>2, <2>1, <2>2, StaysAlone
  <2> QED BY <1>2, <2>1, <2>2, <2>3
<1>6. ASSUME NEW t \in Threads, Open(t)
      PROVE  (target' # NoInode => data'[target'] = Whole) /\ \A u \in Threads : Alone(u)'
  <2>1. PICK n \in Inodes :
            /\ \/ tmp[Process[t]] = n
               \/ /\ tmp[Process[t]] = NoInode /\ n # target /\ Writers(n) = {}
                  /\ \A r \in Processes : tmp[r] # n
            /\ tmp' = [tmp EXCEPT ![Process[t]] = n]
            /\ data' = [data EXCEPT ![n] = {}]
            /\ thread' = [thread EXCEPT ![t] = [pc |-> "head", inode |-> n]]
    BY <1>6, OpenFindsInode
  <2>2. target' = target /\ thread[t].pc = "new" /\ Others(t) = {}
    BY <1>6, Zenon DEF Open
  <2>3. n # target
    BY <1>0, <2>1 DEF NamesTyped
  <2>4. /\ thread'[t] = [pc |-> "head", inode |-> n] /\ \A v \in Threads \ {t} : thread'[v] = thread[v]
        /\ tmp'[Process[t]] = n /\ \A r \in Processes \ {Process[t]} : tmp'[r] = tmp[r] /\ tmp[r] # n
        /\ \A m \in Inodes \ {n} : data'[m] = data[m]
    BY <1>0, <2>1 DEF WritersTyped, NamesTyped, RestTyped
  <2>5. Alone(t)'
    <3>1. Others(t)' = {}
      BY <2>2, <2>4 DEF Others
    <3>2. ToWrite(t)' = Whole
      BY <2>4 DEF ToWrite
    <3> QED BY <2>4, <3>1, <3>2 DEF Alone
  <2>6. ASSUME NEW u \in Threads \ {t}
        PROVE  Alone(u)'
    <3>1. Active(u) => Process[u] # Process[t]
      BY <2>2 DEF Others, Active
    <3>2. thread[u].pc \in Writing => thread[u].inode # n
      BY <1>3, <2>4, <3>1
    <3>3. Active(u) => tmp'[Process[u]] = tmp[Process[u]]
      BY <2>4, <3>1
    <3>4. thread[u].pc \in Writing => data[thread[u].inode] \subseteq data'[thread[u].inode]
      BY <1>3, <2>4, <3>2
    <3> QED BY <1>2, <2>4, <3>1, <3>3, <3>4, StaysAlone
  <2> QED BY <1>0, <1>2, <2>2, <2>3, <2>4, <2>5, <2>6 DEF NamesTyped
<1>7. ASSUME NEW t \in Threads, Write(t)
      PROVE  (target' # NoInode => data'[target'] = Whole) /\ \A u \in Threads : Alone(u)'
  <2>1. /\ UNCHANGED <<target, tmp>> /\ \A v \in Threads \ {t} : thread'[v] = thread[v]
        /\ thread'[t].inode = thread[t].inode /\ thread[t].pc \in Whole /\ thread'[t].pc \in {"tail", "written"}
        /\ thread[t].pc = "head" => thread'[t].pc = "tail"
        /\ \A n \in Inodes : data[n] \subseteq data'[n] /\ data'[n] \subseteq Whole
        /\ data'[thread[t].inode] = data[thread[t].inode] \cup {thread[t].pc}
    BY <1>0, <1>3, <1>7 DEF Write, Goes, WritersTyped, RestTyped, Whole, Writing
  <2>2. Active(t) /\ Active(t)'
    BY <2>1 DEF Active, Over, Whole
  <2>3. Alone(t)'
    <3>1. Others(t)' = {} /\ thread'[t].pc \notin {"broken", "failed"}
      BY <1>2, <2>1, <2>2 DEF Alone, Others, Active
    <3>2. tmp'[Process[t]] = thread'[t].inode
      BY <1>3, <2>1 DEF Writing
    <3>3. Whole \ data'[thread'[t].inode] \subseteq ToWrite(t)'
      <4>1. Whole \ data[thread[t].inode] \subseteq ToWrite(t)
        BY <1>2, <2>1 DEF Alone, Writing
      <4>2. CASE thread[t].pc = "head"
        BY <2>1, <4>2 DEF ToWrite, Whole
      <4>3. CASE thread[t].pc = "tail"
        BY <2>1, <4>1, <4>3 DEF ToWrite, Whole
      <4> QED BY <2>1, <4>2, <4>3 DEF Whole
    <3> QED BY <3>1, <3>2, <3>3 DEF Alone
  <2>4. \A u \in Threads \ {t} : Alone(u)'
    BY <1>2, <1>3, <2>1, <2>2, StaysAlone
  <2> QED BY <1>0, <1>2, <2>1, <2>3, <2>4 DEF NamesTyped
<1>8. ASSUME NEW t \in Threads, DiskFull(t)
      PROVE  (target' # NoInode => data'[target'] = Whole) /\ \A u \in Threads : Alone(u)'
  <2>1. /\ UNCHANGED <<target, tmp, data>> /\ \A v \in Threads \ {t} : thread'[v] = thread[v]
        /\ thread'[t].pc = "refused" /\ thread[t].pc \in Whole
    BY <1>0, <1>8 DEF DiskFull, Done, WritersTyped
  <2>2. Active(t)
    BY <2>1 DEF Active, Over, Whole
  <2>3. Alone(t)'
    BY <1>2, <2>1, <2>2 DEF Alone, Others, Active, Writing, Whole
  <2>4. \A u \in Threads \ {t} : Alone(u)'
    BY <1>2, <2>1, <2>2, StaysAlone
  <2> QED BY <1>2, <2>1, <2>3, <2>4
<1>9. ASSUME NEW t \in Threads, Replace(t)
      PROVE  (target' # NoInode => data'[target'] = Whole) /\ \A u \in Threads : Alone(u)'
  <2>1. /\ thread[t].pc = "written" /\ thread[t].pc \in Writing /\ Active(t)
        /\ tmp[Process[t]] = thread[t].inode /\ thread[t].inode \in Inodes
    BY <1>3, <1>9 DEF Replace, Writing
  <2>2. /\ target' = thread[t].inode /\ tmp' = [tmp EXCEPT ![Process[t]] = NoInode]
        /\ thread' = [thread EXCEPT ![t] = Done("replaced")] /\ data' = data
    BY <1>9, <2>1 DEF Replace, Renamed, Name
  <2>3. thread'[t].pc = "replaced" /\ \A v \in Threads \ {t} : thread'[v] = thread[v]
    BY <1>0, <2>2 DEF Done, WritersTyped
  <2>4. data'[target'] = Whole
    <3>1. ToWrite(t) = {} /\ Whole \ data[thread[t].inode] \subseteq ToWrite(t)
      BY <1>2, <2>1 DEF ToWrite, Alone
    <3> QED BY <1>0, <2>1, <2>2, <3>1 DEF RestTyped
  <2>5. Alone(t)'
    BY <1>2, <2>1, <2>3 DEF Alone, Others, Active, Writing, Whole
  <2>6. ASSUME NEW u \in Threads \ {t}
        PROVE  Alone(u)'
    <3>1. Active(u) => tmp'[Process[u]] = tmp[Process[u]]
      BY <1>0, <1>4, <2>1, <2>2 DEF NamesTyped
    <3> QED BY <1>2, <2>1, <2>2, <2>3, <3>1, StaysAlone
  <2> QED BY <2>4, <2>5, <2>6
<1>10. ASSUME NEW t \in Threads, Unlink(t)
      PROVE  (target' # NoInode => data'[target'] = Whole) /\ \A u \in Threads : Alone(u)'
  <2>1. thread[t].pc \in {"replaced", "refused"} /\ Active(t) /\ Outcome[thread[t].pc] \in {"stored", "full"}
    BY <1>2, <1>10, OutcomeIs DEF Unlink, Alone, Active, Over
  <2>2. /\ UNCHANGED <<target, data>> /\ tmp' = [tmp EXCEPT ![Process[t]] = NoInode]
        /\ thread'[t].pc \in {"stored", "full"} /\ \A v \in Threads \ {t} : thread'[v] = thread[v]
    BY <1>0, <1>10, <2>1 DEF Unlink, Goes, Name, WritersTyped
  <2>3. Alone(t)'
    BY <2>2 DEF Alone, Active, Over, Writing, Whole
  <2>4. ASSUME NEW u \in Threads \ {t}
        PROVE  Alone(u)'
    <3>1. Active(u) => tmp'[Process[u]] = tmp[Process[u]]
      BY <1>0, <1>4, <2>1, <2>2 DEF NamesTyped
    <3> QED BY <1>2, <2>1, <2>2, <3>1, StaysAlone
  <2> QED BY <1>2, <2>2, <2>3, <2>4
<1>11. ASSUME NEW q \in Processes, Kill(q)
      PROVE  (target' # NoInode => data'[target'] = Whole) /\ \A u \in Threads : Alone(u)'
  <2>1. UNCHANGED <<target, tmp, data>>
    BY <1>11 DEF Kill
  <2>2. \A v \in Threads : thread'[v] = thread[v] \/ thread'[v].pc = "idle"
    BY <1>0, <1>11 DEF Kill, Done, WritersTyped
  <2>3. ASSUME NEW u \in Threads
        PROVE  Alone(u)'
    <3>1. CASE thread'[u].pc = "idle"
      BY <3>1 DEF Alone, Active, Over, Writing, Whole
    <3>2. CASE thread'[u] = thread[u]
      <4>1. Others(u)' \subseteq Others(u)
        BY <2>2 DEF Others, Over
      <4>2. ToWrite(u)' = ToWrite(u) /\ (Active(u)' <=> Active(u))
        BY <3>2 DEF ToWrite, Active
      <4> QED BY <1>2, <2>1, <3>2, <4>1, <4>2 DEF Alone
    <3> QED BY <2>2, <3>1, <3>2
  <2> QED BY <1>2, <2>1, <2>3
<1>12. CASE UNCHANGED blobVars
  BY <1>2, <1>12 DEF blobVars, Alone, Others, Active, ToWrite
<1> QED BY <1>5, <1>6, <1>7, <1>8, <1>9, <1>10, <1>11, <1>12 DEF BlobNext

LEMMA OvertakenStep ==
  ASSUME BlobTypeOK, HoldsWhileWriting, EnoughInodes, OvertakenByBlob, [BlobNext]_blobVars
  PROVE  OvertakenByBlob'
<1>0. NamesTyped /\ WritersTyped /\ RestTyped /\ faults \in Nat
  BY BlobTypeParts, BlobAssumption DEF RestTyped
<1> SUFFICES ASSUME target' = NoInode, faults' = 0, NEW u \in Threads
             PROVE  /\ thread'[u].pc \notin {"replaced", "broken", "refused", "failed"}
                    /\ thread'[u].pc \in Writing => tmp'[Process[u]] # NoInode
  BY DEF OvertakenByBlob
<1> USE NoneIsNoInode DEF Processes
<1>1. target = NoInode /\ faults = 0
  <2>1. target' = target \/ \E t \in Threads : tmp[Process[t]] # NoInode /\ target' = tmp[Process[t]]
    BY DEF BlobNext, Put, Open, Write, DiskFull, Replace, Renamed, Name, Unlink, Kill, blobVars
  <2>2. faults' \in {faults, faults + 1}
    BY DEF BlobNext, Put, Open, Write, DiskFull, Replace, Unlink, Kill, blobVars
  <2> QED BY <1>0, <2>1, <2>2 DEF NamesTyped
<1>2. \A t \in Threads : /\ thread[t].pc \notin {"replaced", "broken", "refused", "failed"}
                         /\ thread[t].pc \in Writing => tmp[Process[t]] # NoInode
  BY <1>1 DEF OvertakenByBlob
<1>3. ASSUME NEW t \in Threads, Put(t)
      PROVE  /\ thread'[u].pc \notin {"replaced", "broken", "refused", "failed"}
             /\ thread'[u].pc \in Writing => tmp'[Process[u]] # NoInode
  BY <1>0, <1>2, <1>3 DEF Put, Done, WritersTyped, Writing, Whole
<1>4. ASSUME NEW t \in Threads, Open(t)
      PROVE  /\ thread'[u].pc \notin {"replaced", "broken", "refused", "failed"}
             /\ thread'[u].pc \in Writing => tmp'[Process[u]] # NoInode
  <2>1. PICK n \in Inodes :
            /\ tmp' = [tmp EXCEPT ![Process[t]] = n]
            /\ thread' = [thread EXCEPT ![t] = [pc |-> "head", inode |-> n]]
    BY <1>4, OpenFindsInode
  <2> QED BY <1>0, <1>2, <2>1 DEF WritersTyped, NamesTyped
<1>5. ASSUME NEW t \in Threads, Write(t)
      PROVE  /\ thread'[u].pc \notin {"replaced", "broken", "refused", "failed"}
             /\ thread'[u].pc \in Writing => tmp'[Process[u]] # NoInode
  BY <1>0, <1>2, <1>5 DEF Write, Goes, WritersTyped, Writing
<1>6. ASSUME NEW t \in Threads, DiskFull(t)
      PROVE  FALSE
  BY <1>0, <1>6 DEF DiskFull
<1>7. ASSUME NEW t \in Threads, Replace(t)
      PROVE  FALSE
  BY <1>0, <1>2, <1>7 DEF Replace, Renamed, Name, Writing, NamesTyped
<1>8. ASSUME NEW t \in Threads, Unlink(t)
      PROVE  FALSE
  BY <1>2, <1>8, OutcomeIs DEF Unlink
<1>9. ASSUME NEW q \in Processes, Kill(q)
      PROVE  FALSE
  BY <1>0, <1>9 DEF Kill
<1>10. CASE UNCHANGED blobVars
  BY <1>2, <1>10 DEF blobVars
<1> QED BY <1>3, <1>4, <1>5, <1>6, <1>7, <1>8, <1>9, <1>10 DEF BlobNext

-----------------------------------------------------------------------------
LEMMA BlobAlways == BlobSpec => []BlobInv
<1>1. BlobInit => BlobInv
  BY BlobTypeInit, WritersInit DEF BlobInv
<1>2. BlobInv /\ [BlobNext]_blobVars => BlobInv'
  BY BlobTypeStep, EnoughStep, SomebodyWritesStep, HasFileAloneStep, OvertakenStep DEF BlobInv
<1> QED BY <1>1, <1>2, PTL DEF BlobSpec

\* A blob under its final name is whole (blobs.py:2), through crashes and in
\* every interleaving of processes: only threads of one process that write the
\* same blob at once can tear it, and without faults one of them mends it.
THEOREM BlobReadableIsWhole == BlobSpec => []ReadableIsWhole
<1>1. BlobInv => ReadableIsWhole
  <2> SUFFICES ASSUME BlobInv, target # NoInode, data[target] # Whole
               PROVE  collided /\ (Writers(target) # {} \/ faults > 0)
    BY DEF ReadableIsWhole, BlobInv
  <2>1. target \in Inodes /\ data[target] \subseteq Whole /\ faults \in Nat
    BY BlobTypeParts, BlobAssumption DEF BlobInv, NamesTyped, RestTyped
  <2>2. collided
    BY DEF BlobInv, HasFileAlone
  <2>3. ASSUME faults = 0
        PROVE  Writers(target) # {}
    BY <2>1, <2>3 DEF BlobInv, SomebodyWrites
  <2> QED BY <2>1, <2>2, <2>3
<1> QED BY <1>1, BlobAlways, PTL

\* put() fails for want of its temporary file only where two threads of one
\* process collide, and then, unless a fault happened, another has stored the
\* blob (blobs.py:61).
THEOREM FailedPutIsHarmless == BlobSpec => []FailureIsHarmless
<1>1. BlobInv => FailureIsHarmless
  <2> SUFFICES ASSUME BlobInv, NEW t \in Threads, thread[t].pc = "failed"
               PROVE  collided /\ (target # NoInode \/ faults > 0)
    BY DEF FailureIsHarmless
  <2>1. faults \in Nat
    BY BlobTypeParts, BlobAssumption DEF BlobInv, RestTyped
  <2>2. collided
    BY DEF BlobInv, HasFileAlone
  <2> QED BY <2>1, <2>2 DEF BlobInv, OvertakenByBlob
<1> QED BY <1>1, BlobAlways, PTL
=============================================================================
