---------------------------- MODULE MessageStore ----------------------------
(* The rows behind the mailboxes (sync/store.py, sync/threads.py): one       *)
(* message row per mail and account, placements that point at it, threads.   *)
(* Listings write rows from headers; the body jobs of several processes      *)
(* (sync_account, backfill_bodies) choose rows, download, and write what     *)
(* they found into a table that other transactions have changed meanwhile.   *)
(* A transaction is a step that reads (lookups) and a step that writes and   *)
(* commits.  Not told apart: what a header says beyond identity, references  *)
(* and date; flags (ImapFolder); the counters of threads.                    *)
EXTENDS Naturals, FiniteSets

CONSTANTS
    Handles,        \* UIDs or item ids, each in one folder; never reused
    Folder,         \* Folder[h]: [name, account]
    Mail,           \* Mail[h]: [name, id, refs, date, kind]
    Jobs,           \* processes that fetch bodies
    Budget,         \* body_backfill_max_per_run
    MaxMentions,    \* bound: messages that listings mention, new or known
    MaxRows,        \* bound: names for the rows that a handle creates
    None            \* NULL; a mail without a Message-ID has id None

Folders == {Folder[h] : h \in Handles}
Account(h) == Folder[h].account
Names   == Handles \X (1..MaxRows)      \* a row is named after the handle that created it

ASSUME StoreAssumption ==
    /\ Budget \in Nat \ {0} /\ {MaxMentions, MaxRows} \subseteq Nat
    /\ \A h \in Handles : Mail[h].kind \in {"small", "large", "refused"} /\ None \notin Mail[h].refs
    /\ None \notin Names \cup {"partial", "full"}

VARIABLES
    box,            \* handles the servers have; one that has not arrived yet is
                    \* one that no listing has mentioned
    rows,           \* table messages with refs, by name
    placed,         \* table mailbox_messages: handle -> row
    threads,        \* thread ids somebody refers to
    job,            \* what each body job has chosen and read
    relisted,       \* rows a listing wrote after their body: the references and the
                    \* search text that the body brought are gone
    loose,          \* rows threaded on a stale lookup, in another account's
                    \* conversations, or not at all
    mentions

vars == <<box, rows, placed, threads, job, relisted, loose, mentions>>

Idle == [pc |-> "idle", todo |-> {}, row |-> None, handle |-> None,
         twin |-> None, into |-> None, found |-> {}]

Init ==
    /\ box = Handles
    /\ rows = <<>> /\ placed = <<>> /\ threads = {}
    /\ job = [j \in Jobs |-> Idle]
    /\ relisted = {} /\ loose = {} /\ mentions = 0

-----------------------------------------------------------------------------
\* Identity (normalize._dedup_hash, store.provisional_hash)
HeaderHash(h) == IF Mail[h].id # None THEN <<"id", Mail[h].id>> ELSE <<"at", h>>

BodyHash(m) ==
    IF m.id # None THEN <<"id", m.id>>
    ELSE IF m.kind = "large" THEN <<"part", m.name>> ELSE <<"raw", m.name>>

\* References that a header brings: the mail's own Message-ID.
Own(m) == {m.id} \ {None}

\* References that reach the store: the JSON of a refused body has none.
BodyRefs(m) == IF m.kind = "refused" THEN {} ELSE m.refs

Without(f, gone) == [x \in DOMAIN f \ gone |-> f[x]]

\* As Matches, through the messages' own ids only.
MatchesById(table, account, refs) ==
    {x \in DOMAIN table : table[x].account = account /\ table[x].mail.id \in refs}

\* Messages of the account that hold any of refs, and their threads.
Matches(table, account, refs) ==
    {x \in DOMAIN table : table[x].account = account /\ table[x].refs \cap refs # {}}

ThreadsReferencedBy(table, account, refs) ==
    {table[r].thread : r \in Matches(table, account, refs)}

\* The thread of the earliest match; between equally old ones the database
\* decides.
Canonical(table, account, refs) ==
    LET hits == Matches(table, account, refs)
    IN {table[r].thread : r \in {x \in hits : \A y \in hits : table[x].mail.date <= table[y].mail.date}}

\* Names nobody holds, also not a job that read them before they went away.
FreeThreads == Names \ (threads \cup UNION {job[j].found : j \in Jobs})
NewThread(r) == IF r \in FreeThreads THEN r ELSE CHOOSE t \in FreeThreads : TRUE

HeldRows == UNION {{job[j].row, job[j].twin} \cup {c.row : c \in job[j].todo} : j \in Jobs}
FreeRows(h) == ({h} \X (1..MaxRows)) \ (DOMAIN rows \cup HeldRows)
NewRow(h) == CHOOSE r \in FreeRows(h) : TRUE

\* assign_thread: row r joins thread t; what else was found is merged into t,
\* and the references of r are rewritten.
Assign(table, r, t, found, refs) ==
    [x \in DOMAIN table |->
        IF x = r THEN [table[x] EXCEPT !.thread = t, !.refs = refs]
        ELSE IF table[x].thread \in found THEN [table[x] EXCEPT !.thread = t]
        ELSE table[x]]

\* Threads that still matter: of rows, or read by a job and not merged away.
Live(table, jobs, merged) ==
    {table[r].thread : r \in DOMAIN table}
        \cup ((UNION {jobs[j].found : j \in Jobs}) \cap (threads \ merged))

\* As Orphans, with the placements of one folder only in view.
OrphansOfFolder(table, where, account) ==
    {r \in DOMAIN table : table[r].account = account
                          /\ \A h \in DOMAIN where : Folder[h].name = "inbox" => where[h] # r}

\* purge_orphan_messages
Orphans(table, where, account) ==
    {r \in DOMAIN table : table[r].account = account
                          /\ \A h \in DOMAIN where : where[h] # r}

-----------------------------------------------------------------------------
\* Another client deletes or moves a message; before its first listing the
\* message might as well never have come.
Vanish(h) ==
    /\ h \in box \cap DOMAIN placed
    /\ box' = box \ {h}
    /\ UNCHANGED <<rows, placed, threads, job, relisted, loose, mentions>>

\* The row of the account with the hash, or a new one (upsert_messages).
RowFor(h) ==
    LET same == {r \in DOMAIN rows : rows[r].account = Account(h) /\ rows[r].hash = HeaderHash(h)}
    IN IF same # {} THEN CHOOSE r \in same : TRUE ELSE NewRow(h)

\* As Upserted, with the header row replacing the one that exists.
UpsertedOver(h, r) ==
    [x \in DOMAIN rows \cup {r} |->
        IF x = r THEN [account |-> Account(h), hash |-> HeaderHash(h), state |-> None,
                       mail |-> Mail[h], thread |-> None, refs |-> {}]
        ELSE rows[x]]

Upserted(h, r) ==
    IF r \in DOMAIN rows THEN rows
    ELSE [x \in DOMAIN rows \cup {r} |->
            IF x = r THEN [account |-> Account(h), hash |-> HeaderHash(h), state |-> None,
                           mail |-> Mail[h], thread |-> None, refs |-> {}]
            ELSE rows[x]]

\* A listing that mentions h, new or known: the row, the placement, the search
\* text (of the headers) and the thread (no references) are written, and
\* committed.
List(h) ==
    LET r     == RowFor(h)
        found == ThreadsReferencedBy(rows, Account(h), Own(Mail[h]))
        table == Upserted(h, r)
    IN /\ h \in box
       /\ mentions < MaxMentions /\ FreeRows(h) # {} /\ FreeThreads # {}
       /\ mentions' = mentions + 1
       /\ \E t \in IF found = {} THEN {NewThread(r)} ELSE Canonical(rows, Account(h), Own(Mail[h])) :
            /\ rows' = Assign(table, r, t, found, Own(Mail[h]))
            /\ threads' = Live(rows', job, found \ {t})
       /\ placed' = [x \in DOMAIN placed \cup {h} |-> IF x = h THEN r ELSE placed[x]]
       /\ relisted' = IF table[r].state # None THEN relisted \cup {r} ELSE relisted
       /\ UNCHANGED <<box, job, loose>>

\* The placements in gone go, and the account's rows without a placement
\* (remove_placements, remove_placements_by_uid, delete_missing_placements).
Drop(gone, account) ==
    /\ UNCHANGED <<job, mentions>>
    /\ placed' = Without(placed, gone)
    /\ rows' = Without(rows, Orphans(rows, placed', account))
    /\ threads' = Live(rows', job, {})
    /\ relisted' = relisted \cap DOMAIN rows'
    /\ loose' = loose \cap DOMAIN rows'

\* A listing that finds what is missing on the server.
DeleteMissing(f) ==
    /\ UNCHANGED box
    /\ Drop({h \in DOMAIN placed : Folder[h] = f /\ h \notin box}, f.account)

\* The user deletes the message: first on the server, then here.
Remove(h) ==
    /\ h \in DOMAIN placed /\ h \in box
    /\ box' = box \ {h}
    /\ Drop({h}, Account(h))

-----------------------------------------------------------------------------
\* fetch_bodies.  The newest messages of the folder that have no body.
Candidates(f) ==
    {[row |-> placed[h], handle |-> h] :
        h \in {x \in DOMAIN placed : Folder[x] = f /\ rows[placed[x]].state = None}}

SelectRows(j, f) ==
    /\ job[j].pc = "idle"
    /\ Candidates(f) # {}
    /\ UNCHANGED <<box, rows, placed, threads, relisted, loose, mentions>>
    /\ \E chosen \in SUBSET Candidates(f) :
         /\ Cardinality(chosen) = IF Cardinality(Candidates(f)) < Budget
                                  THEN Cardinality(Candidates(f)) ELSE Budget
         /\ \A c \in chosen, d \in Candidates(f) \ chosen :
              rows[c.row].mail.date >= rows[d.row].mail.date
         /\ job' = [job EXCEPT ![j] = [Idle EXCEPT !.pc = "fetching", !.todo = chosen]]

\* The job has done with its current message, or gives up.
Rest(j, todo) == [job EXCEPT ![j] = [Idle EXCEPT !.pc = IF todo = {} THEN "idle" ELSE "fetching",
                                                 !.todo = todo]]

\* The server no longer has it: IMAP passes a small message over and marks a
\* large one, so that it is not asked for again; on Graph the job ends.
Missing(j, c) ==
    /\ c.handle \notin box
    /\ UNCHANGED <<box, placed, threads, relisted, mentions>>
    /\ \E rest \in {job[j].todo \ {c}, {}} :
         /\ Mail[c.handle].kind = "large"   => rest = job[j].todo \ {c}
         /\ Mail[c.handle].kind = "refused" => rest = {}
         /\ job' = Rest(j, rest)
    /\ rows' = IF Mail[c.handle].kind = "large" /\ c.row \in DOMAIN rows
               THEN [rows EXCEPT ![c.row].state = "partial"] ELSE rows
    /\ loose' = IF rows' # rows THEN loose \cup {c.row} ELSE loose

\* ensure_dedup_hash: another row that has the hash the body gives this one.
\* The lookup does not ask for the account.
Twins(r, hash) == {x \in DOMAIN rows \ {r} : rows[x].hash = hash}

\* As LookUp, without the return for a row that has the hash already.
LookUpAlways(r, m) ==
    IF Twins(r, BodyHash(m)) = {} THEN {None} ELSE Twins(r, BodyHash(m))

\* As LookUp, without a merge.
LookUpNone(r, m) == {None}

LookUp(r, m) ==
    IF m.kind = "refused" \/ (r \in DOMAIN rows /\ rows[r].hash = BodyHash(m)) THEN {None}
    ELSE IF Twins(r, BodyHash(m)) = {} THEN {None} ELSE Twins(r, BodyHash(m))

\* The body arrives; identity and threads are looked up.
Read(j, c) ==
    LET m == Mail[c.handle]
    IN /\ c.handle \in box
       /\ UNCHANGED <<box, rows, placed, threads, relisted, loose, mentions>>
       /\ \E twin \in LookUp(c.row, m) :
            LET table == IF twin = None THEN rows ELSE Without(rows, {c.row})
                refs  == Own(m) \cup BodyRefs(m)
                found == ThreadsReferencedBy(table, Account(c.handle), refs)
            IN \E into \in IF found = {} THEN {None} ELSE Canonical(table, Account(c.handle), refs) :
                 job' = [job EXCEPT ![j] =
                   [pc |-> "read", todo |-> job[j].todo \ {c}, row |-> c.row, handle |-> c.handle,
                    twin |-> twin, into |-> into, found |-> found]]

Download(j) ==
    /\ job[j].pc = "fetching"
    /\ \E c \in job[j].todo : Missing(j, c) \/ Read(j, c)

\* What the body is written to.
Target(j) == IF job[j].twin = None THEN job[j].row ELSE job[j].twin

\* The constraints of the tables: the row still exists, no other row of the
\* account has the hash, the thread still exists.
Conflicts(j) ==
    LET m == Mail[job[j].handle]
        r == job[j].row
    IN \/ Target(j) \notin DOMAIN rows
       \/ /\ job[j].twin = None /\ m.kind # "refused" /\ r \in DOMAIN rows
          /\ \E x \in DOMAIN rows \ {r} : rows[x].account = rows[r].account /\ rows[x].hash = BodyHash(m)
       \/ job[j].into \notin threads \cup {None}

\* The transaction fails and is rolled back; the job ends.
Abort(j) ==
    /\ job[j].pc = "read" /\ Conflicts(j)
    /\ UNCHANGED <<box, rows, placed, relisted, loose, mentions>>
    /\ job' = Rest(j, {})
    /\ threads' = Live(rows, job', {})

\* write_content: the provisional row r becomes the mail's row, or is merged
\* into its twin; the row gets the body.
Merged(r, target) == IF r = target THEN rows ELSE Without(rows, {r})

\* As Written, with the provisional hash kept.
WrittenUnderOldHash(table, target, m) ==
    [table EXCEPT ![target] = [table[target] EXCEPT
        !.state = IF m.kind = "small" THEN "full" ELSE "partial", !.mail = m]]

Written(table, target, m) ==
    [table EXCEPT ![target] = [table[target] EXCEPT
        !.hash = IF m.kind = "refused" THEN table[target].hash ELSE BodyHash(m),
        !.state = IF m.kind = "small" THEN "full" ELSE "partial",
        !.mail = m]]

WriteContent(j) ==
    LET m      == Mail[job[j].handle]
        r      == job[j].row
        target == Target(j)
        refs   == Own(m) \cup BodyRefs(m)
        found  == job[j].found \cap threads
        base   == Merged(r, target)
        t      == IF job[j].into = None THEN NewThread(target) ELSE job[j].into
    IN /\ job[j].pc = "read" /\ ~Conflicts(j) /\ FreeThreads # {}
       /\ UNCHANGED <<box, mentions>>
       /\ job' = Rest(j, job[j].todo)
       /\ rows' = Assign(Written(base, target, m), target, t, found, refs)
       /\ placed' = [h \in DOMAIN placed |-> IF placed[h] = r THEN target ELSE placed[h]]
       /\ threads' = Live(rows', job', found \ {t})
       /\ relisted' = (relisted \ {target}) \cap DOMAIN rows'
       /\ loose' = (IF /\ found = ThreadsReferencedBy(base, Account(job[j].handle), refs)
                       /\ rows[target].account = Account(job[j].handle)
                    THEN loose \ {target} ELSE loose \cup {target}) \cap DOMAIN rows'

-----------------------------------------------------------------------------
Next ==
    \/ \E h \in Handles : Vanish(h) \/ List(h) \/ Remove(h)
    \/ \E f \in Folders : DeleteMissing(f) \/ \E j \in Jobs : SelectRows(j, f)
    \/ \E j \in Jobs : Download(j) \/ Abort(j) \/ WriteContent(j)

Spec == Init /\ [][Next]_vars

\* The crons keep cycles and body jobs coming; a job runs to its end.
FairSpec ==
    /\ Spec
    /\ WF_vars(\E f \in Folders : DeleteMissing(f))
    /\ SF_vars(\E j \in Jobs, f \in Folders : SelectRows(j, f))
    /\ \A j \in Jobs : WF_vars(Download(j) \/ Abort(j) \/ WriteContent(j))

-----------------------------------------------------------------------------
HasBody(h) == rows[placed[h]].state # None

\* Types, foreign keys and the unique key (account, dedup_hash).
TypeOK ==
    /\ box \subseteq Handles
    /\ DOMAIN rows \subseteq Names
    /\ \A r \in DOMAIN rows :
         /\ rows[r].state \in {None, "partial", "full"}
         /\ rows[r].thread \in threads
         /\ \A s \in DOMAIN rows \ {r} :
              rows[r].account = rows[s].account => rows[r].hash # rows[s].hash
    /\ DOMAIN placed \subseteq Handles
    /\ \A h \in DOMAIN placed : placed[h] \in DOMAIN rows
    /\ threads \subseteq Names
    /\ relisted \cup loose \subseteq DOMAIN rows
    /\ mentions \in 0..MaxMentions

\* One physical message per account (docs/architecture.md:67): copies of a
\* mail in two folders end as one row once both bodies were read.  It says
\* nothing of rows that were threaded on a stale lookup (`loose`), nor of a copy
\* that was moved to the row of another account (AccountsApart), nor of a mail
\* whose raw message the server refuses.
CopiesShareRow ==
    \A h, k \in DOMAIN placed :
        /\ Mail[h] = Mail[k] /\ Mail[h].kind # "refused"
        /\ Account(h) = Account(k)
        /\ rows[placed[h]].account = rows[placed[k]].account
        /\ HasBody(h) /\ HasBody(k)
        /\ {placed[h], placed[k]} \cap loose = {}
        => placed[h] = placed[k]

\* A message and one its body refers to are in one conversation, in whatever
\* order they arrived, unless the body's references were dropped by a later
\* listing, or two transactions chose threads at the same time.
ConversationsMeet ==
    \A r, s \in DOMAIN rows :
        /\ rows[r].account = rows[s].account
        /\ rows[r].state # None /\ rows[s].mail.id \in BodyRefs(rows[r].mail)
        /\ r \notin relisted /\ {r, s} \cap loose = {}
        => rows[r].thread = rows[s].thread

\* A message whose body has arrived (body_state) keeps it as long as it is in
\* the folder, whatever lists, merges or deletes rows meanwhile, but for a mail
\* without a Message-ID: a listing gives that a new row.  The references and the
\* search text that came with the body are not meant: a listing wipes them.
BodyStays ==
    [][\A h \in DOMAIN placed \cap DOMAIN placed' :
         Mail[h].id # None /\ rows[placed[h]].state # None
           => rows'[placed'[h]].state # None]_vars

\* A folder shows a message of another account only if both accounts have the
\* same mail without a Message-ID (ensure_dedup_hash).
AccountsApart ==
    \A h \in DOMAIN placed :
        rows[placed[h]].account = Account(h) \/ Mail[h].id = None

\* Every message that stays gets its body, although jobs overwrite, abort and
\* lose their rows.
BodiesArrive == <>[](\A h \in DOMAIN placed : HasBody(h))
=============================================================================
