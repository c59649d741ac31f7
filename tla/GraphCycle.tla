----------------------------- MODULE GraphCycle -----------------------------
(* The delta cycles of one Graph account (sync/graph_sync.py, the Graph half *)
(* of workers/tasks.py and sync/actions.py).  The worker asks which folders  *)
(* have news and then follows each folder's delta; an action of the user     *)
(* moves a message and follows the deltas of the folders concerned, without  *)
(* the account's lock.  A delta link stands for what the server has told.    *)
(* Between the last page of a delta and its commit the server changes and    *)
(* other cycles of the folder commit, so that an older round may be written  *)
(* over a newer one.                                                         *)
(* The server is external: the delta protocol as this code relies on it.     *)
(* Item ids are not used again; a folder whose contents change has news.     *)
EXTENDS Naturals, FiniteSets

CONSTANTS
    Folders,
    Items,          \* item ids, in each folder its own
    None,           \* NULL
    Held,           \* <<folder, item>>: the mail there is when the account is added
    MaxEvents       \* bound: changes by other clients, actions of the user, and
                    \* faults (failed requests, expired links, dead processes)

ASSUME GraphAssumption ==
    /\ MaxEvents \in Nat
    /\ None \notin Folders /\ None \notin [Items -> Nat]   \* NULL is no folder and no link

VARIABLES
    server,         \* server[f][i]: [state, version]
    news,           \* folders that the next folder delta mentions
    placed,         \* mailbox_messages of a folder: item -> state
    link,           \* folders.delta_link_enc: item -> version told, or None
    todo,           \* folders the worker's cycle has still to visit
    cycle,          \* delta in progress, of the worker and of the action
    action,         \* the user's action in progress
    events,
    missed,         \* history: folders mentioned, and not followed to the end,
                    \* or that an action's cycle wrote back after another cycle
                    \* had followed them further
    excuses         \* history: folder -> why its copy may differ, since its
                    \* last full delta:
                    \*   "unsent": a local flag never reached the server,
                    \*   "listed": listed and then removed in one full delta,
                    \*   "unknown": the copy has an item that the link stored
                    \*   with it does not know of,
                    \*   "overtaken": a round took from its base what the link
                    \*   it replaces does not claim: an older round had been
                    \*   written over that base in the meantime,
                    \*   "unseen": a row escaped the deletions of a round, as
                    \*   another round inserted it after them

vars == <<server, news, placed, link, todo, cycle, action, events, missed, excuses>>
copy == <<placed, link, missed, excuses>>

Cyclists == {"worker", "api"}
Untold   == [i \in Items |-> 0]
Resting  == [pc |-> "idle", folder |-> None, base |-> None, told |-> Untold,
             changed |-> <<>>, removed |-> {}, twice |-> FALSE,
             passed |-> FALSE, unseen |-> {}]
NoAction == [kind |-> "none", folder |-> None, item |-> None, into |-> None, base |-> None]

Init ==
    /\ server = [f \in Folders |-> [i \in Items |->
                   IF <<f, i>> \in Held THEN [state |-> "unread", version |-> 1]
                   ELSE [state |-> "absent", version |-> 0]]]
    /\ news = Folders
    /\ placed = [f \in Folders |-> <<>>]
    /\ link = [f \in Folders |-> None]
    /\ todo = {}
    /\ cycle = [c \in Cyclists |-> Resting]
    /\ action = NoAction
    /\ events = 0
    /\ missed = {}
    /\ excuses = [f \in Folders |-> {}]

Happens == events < MaxEvents /\ events' = events + 1

Excuse(f, why) == excuses' = [excuses EXCEPT ![f] = @ \cup {why}]

-----------------------------------------------------------------------------
\* The server.
Fresh(f)    == {i \in Items : server[f][i].version = 0}
NewId(f)    == CHOOSE i \in Fresh(f) : TRUE    \* which of them makes no difference
Contents(f) == {i \in Items : server[f][i].state # "absent"}

Turned(s, f, i, state) == [s EXCEPT ![f][i] = [state |-> state, version |-> @.version + 1]]

Opposite(state) == IF state = "read" THEN "unread" ELSE "read"

OthersChange ==
    /\ Happens
    /\ \E f \in Folders :
         /\ news' = news \cup {f}
         /\ \/ Fresh(f) # {} /\ server' = Turned(server, f, NewId(f), "unread")
            \/ \E i \in Contents(f) : \E state \in {"absent", Opposite(server[f][i].state)} :
                 server' = Turned(server, f, i, state)
    /\ UNCHANGED <<copy, todo, cycle, action>>

\* What the holder of a link has still to be told.
Due(f, told) ==
    {i \in Items : told[i] # server[f][i].version /\ (told[i] > 0 \/ i \in Contents(f))}

-----------------------------------------------------------------------------
\* sync_folders: the folders mentioned are those this cycle visits; the new
\* folder link is committed at once.
VisitMentioned(mentioned) ==
    /\ cycle["worker"].pc = "idle" /\ todo = {} /\ mentioned # {}
    /\ todo' = mentioned
    /\ news' = {}
    /\ missed' = missed \ mentioned
    /\ UNCHANGED <<server, placed, link, cycle, action, excuses>>

SyncFolders == VisitMentioned(news) /\ UNCHANGED events

\* The folder link has expired: the list is asked for from scratch.
SyncAllFolders == VisitMentioned(Folders) /\ Happens

Told(base) == IF base = None THEN Untold ELSE base

\* sync_folder: the link is read, and the folder's delta asked for.
Begun(f, base) ==
    [Resting EXCEPT !.pc = "delta", !.folder = f, !.base = base, !.told = Told(base)]

\* A delta without a link lists the whole folder.
Full(y) == y.base = None

BeginFolder(f) ==
    /\ cycle["worker"].pc = "idle" /\ f \in todo
    /\ todo' = todo \ {f}
    /\ cycle' = [cycle EXCEPT !["worker"] = Begun(f, link[f])]
    /\ UNCHANGED <<server, news, copy, action, events>>

\* The items of a page that are in the folder; the others are "@removed".
Listed(f, some) == some \cap Contents(f)

\* One page: some of what is due, as it is now.
Page(c) ==
    LET f == cycle[c].folder
    IN /\ cycle[c].pc = "delta"
       /\ \E some \in SUBSET Due(f, cycle[c].told) \ {{}} :
            LET here == Listed(f, some)
                all  == DOMAIN cycle[c].changed \cup here
            IN cycle' = [cycle EXCEPT
                 ![c].told = [i \in Items |-> IF i \in some THEN server[f][i].version ELSE @[i]],
                 ![c].changed = [i \in all |-> IF i \in here THEN server[f][i].state ELSE @[i]],
                 ![c].removed = @ \cup (some \ here),
                 ![c].twice = @ \/ DOMAIN cycle[c].changed \cap here # {}]
       /\ UNCHANGED <<server, news, copy, todo, action, events>>

\* is_delta_expired: the whole delta is started again without a link.
Expire(c) ==
    /\ cycle[c].pc = "delta" /\ ~Full(cycle[c])
    /\ Happens
    /\ cycle' = [cycle EXCEPT ![c] = Begun(@.folder, None)]
    /\ UNCHANGED <<server, news, copy, todo, action>>

\* As LastPage, on any page.
LastPageAtOnce(c) ==
    /\ cycle[c].pc = "delta"
    /\ cycle' = [cycle EXCEPT ![c].pc = "done"]
    /\ UNCHANGED <<server, news, copy, todo, action, events>>

\* Nothing is left to tell: the page has the new link, and the server is not
\* asked again before the round is committed.
LastPage(c) ==
    /\ cycle[c].pc = "delta" /\ Due(cycle[c].folder, cycle[c].told) = {}
    /\ cycle' = [cycle EXCEPT ![c].pc = "done"]
    /\ UNCHANGED <<server, news, copy, todo, action, events>>

\* The rows a round deletes: delete_missing_placements, remove_placements.
Gone(old, y) == IF Full(y) THEN DOMAIN old \ DOMAIN y.changed ELSE y.removed

\* As Applied, without remove_placements.
AppliedWithoutRemovals(old, y, late) ==
    [i \in DOMAIN y.changed \cup (IF Full(y) THEN late ELSE DOMAIN old) |->
        IF i \in DOMAIN y.changed THEN y.changed[i] ELSE old[i]]

\* As Applied, with delete_missing_placements after every delta.
AppliedAsWhole(old, y, late) == y.changed

\* upsert_placements, and the deletions, which `late` rows escape.
Applied(old, y, late) ==
    [i \in (DOMAIN old \cup DOMAIN y.changed) \ (Gone(old, y) \ late) |->
        IF i \in DOMAIN y.changed THEN y.changed[i] ELSE old[i]]

\* Rounds that write one row wait for each other.  A row that y inserts while
\* x is being written may come after the deletions of x, unless the two wait.
Passed(x, y) ==
    LET waits == DOMAIN x.changed \cap (DOMAIN y.changed \cup Gone(placed[y.folder], y)) # {}
    IN IF x.pc # "done" \/ x.folder # y.folder THEN x
       ELSE [x EXCEPT !.passed = TRUE,
                      !.unseen = IF waits THEN {}
                                 ELSE @ \cup (DOMAIN y.changed \ DOMAIN placed[y.folder])]

\* What the round takes from its base, and the stored link does not claim.
Overtaken(y) ==
    ~Full(y) /\ \E i \in Items :
        y.told[i] = y.base[i] /\ y.base[i] > Told(link[y.folder])[i]

\* The rows, the link and the run are committed together, whatever the server
\* and the other cycles did since the last page.
Commit(c) ==
    LET y == cycle[c]
        f == y.folder
    IN /\ y.pc = "done" /\ ~y.twice
       /\ \E late \in SUBSET (y.unseen \cap Gone(placed[f], y) \cap DOMAIN placed[f]) :
            /\ placed' = [placed EXCEPT ![f] = Applied(@, y, late)]
            /\ excuses' = [excuses EXCEPT ![f] =
                 (IF Full(y) THEN {} ELSE @)
                   \cup (IF Full(y) /\ y.removed \cap DOMAIN y.changed # {} THEN {"listed"} ELSE {})
                   \cup (IF \E i \in DOMAIN placed'[f] : y.told[i] = 0 THEN {"unknown"} ELSE {})
                   \cup (IF Overtaken(y) THEN {"overtaken"} ELSE {})
                   \cup (IF late # {} THEN {"unseen"} ELSE {})]
       /\ link' = [link EXCEPT ![f] = y.told]
       /\ cycle' = [d \in Cyclists |-> IF d = c THEN Resting ELSE Passed(cycle[d], y)]
       /\ missed' = IF Due(f, y.told) = {} THEN missed \ {f}
                    ELSE IF c = "api" /\ y.passed THEN missed \cup {f} ELSE missed
       /\ UNCHANGED <<server, news, todo, action, events>>

\* The cycle of one folder ends without effect; the worker goes on with the
\* next folder, and nobody comes back to this one.
Leave(c, left) ==
    /\ cycle' = [cycle EXCEPT ![c] = Resting]
    /\ missed' = IF c = "worker" THEN missed \cup left ELSE missed
    /\ UNCHANGED <<server, news, placed, link, action, excuses>>

\* An item that two pages mention cannot be upserted twice in one statement.
Reject(c) ==
    /\ cycle[c].pc = "done" /\ cycle[c].twice
    /\ Leave(c, {cycle[c].folder})
    /\ UNCHANGED <<todo, events>>

FailFolder(c) ==
    /\ cycle[c].pc # "idle" /\ Happens
    /\ Leave(c, {cycle[c].folder})
    /\ UNCHANGED todo

\* GraphAuthError, the job's deadline, a dead worker: the rest is not visited.
GiveUp ==
    /\ todo # {} /\ Happens
    /\ Leave("worker", todo \cup ({cycle["worker"].folder} \ {None}))
    /\ todo' = {}

-----------------------------------------------------------------------------
\* Actions of the user (one at a time).  A flag is committed first and then
\* sent.
SetFlag(f, i) ==
    /\ action.kind = "none" /\ cycle["api"].pc = "idle" /\ i \in DOMAIN placed[f]
    /\ Happens
    /\ placed' = [placed EXCEPT ![f][i] = Opposite(@)]
    /\ action' = [NoAction EXCEPT !.kind = "flag", !.folder = f, !.item = i,
                                  !.into = Opposite(placed[f][i])]
    /\ UNCHANGED <<server, news, link, todo, cycle, missed, excuses>>

SendFlag ==
    LET f == action.folder
        i == action.item
    IN /\ action.kind = "flag"
       /\ IF i \in Contents(f) /\ server[f][i].state # action.into
          THEN server' = Turned(server, f, i, action.into) /\ news' = news \cup {f}
          ELSE UNCHANGED <<server, news>>
       /\ action' = NoAction
       /\ UNCHANGED <<copy, todo, cycle, events>>

\* move_message and delete_message (a move into Deleted Items): the server
\* moves, under a new id; then the row goes; then the folders are synced.  The
\* destination was loaded before.
BeginMove(f, i, g) ==
    /\ action.kind = "none" /\ cycle["api"].pc = "idle"
    /\ i \in DOMAIN placed[f] /\ g # f
    /\ Happens
    /\ action' = [kind |-> "move", folder |-> f, item |-> i, into |-> g, base |-> link[g]]
    /\ UNCHANGED <<server, news, copy, todo, cycle>>

MoveOnServer ==
    LET f == action.folder
        i == action.item
        g == action.into
    IN /\ action.kind = "move"
       /\ IF i \in Contents(f) /\ Fresh(g) # {}
          THEN /\ server' = Turned(Turned(server, f, i, "absent"), g, NewId(g), server[f][i].state)
               /\ news' = news \cup {f, g}
               /\ action' = [action EXCEPT !.kind = "drop"]
          ELSE /\ action' = NoAction       \* 404
               /\ UNCHANGED <<server, news>>
       /\ UNCHANGED <<copy, todo, cycle, events>>

DropPlacement ==
    LET f == action.folder
    IN /\ action.kind = "drop"
       /\ placed' = [placed EXCEPT ![f] = [k \in DOMAIN @ \ {action.item} |-> @[k]]]
       /\ action' = [action EXCEPT !.kind = "source"]
       /\ UNCHANGED <<server, news, link, todo, cycle, events, missed, excuses>>

\* _resync.
ResyncSource ==
    /\ action.kind = "source"
    /\ cycle' = [cycle EXCEPT !["api"] = Begun(action.folder, link[action.folder])]
    /\ action' = [action EXCEPT !.kind = "target"]
    /\ UNCHANGED <<server, news, copy, todo, events>>

ResyncTarget ==
    /\ action.kind = "target" /\ cycle["api"].pc = "idle"
    /\ cycle' = [cycle EXCEPT !["api"] = Begun(action.into, action.base)]
    /\ action' = NoAction
    /\ UNCHANGED <<server, news, copy, todo, events>>

\* A request of the action fails, or its process dies.
ActionFails ==
    /\ action.kind # "none" /\ Happens
    /\ action' = NoAction
    /\ cycle' = [cycle EXCEPT !["api"] = Resting]
    /\ IF action.kind = "flag" THEN Excuse(action.folder, "unsent") ELSE UNCHANGED excuses
    /\ UNCHANGED <<server, news, placed, link, todo, missed>>

-----------------------------------------------------------------------------
ActionStep == SendFlag \/ MoveOnServer \/ DropPlacement \/ ResyncSource \/ ResyncTarget

CycleStep(c) == Page(c) \/ LastPage(c) \/ Commit(c) \/ Reject(c)

Next ==
    \/ OthersChange
    \/ SyncFolders \/ SyncAllFolders \/ GiveUp
    \/ \E f \in Folders : BeginFolder(f)
    \/ \E c \in Cyclists : CycleStep(c) \/ Expire(c) \/ FailFolder(c)
    \/ \E f, g \in Folders, i \in Items : SetFlag(f, i) \/ BeginMove(f, i, g)
    \/ ActionStep \/ ActionFails

Spec == Init /\ [][Next]_vars

\* The cron keeps cycles coming; requests, cycles and actions come to an end.
FairSpec ==
    /\ Spec
    /\ WF_vars(SyncFolders) /\ WF_vars(\E f \in Folders : BeginFolder(f))
    /\ \A c \in Cyclists : WF_vars(CycleStep(c))
    /\ WF_vars(ActionStep)

-----------------------------------------------------------------------------
TypeOK ==
    /\ news \cup todo \cup missed \subseteq Folders
    /\ \A f \in Folders :
         /\ DOMAIN placed[f] \subseteq Items
         /\ \A i \in DOMAIN placed[f] : placed[f][i] \in {"read", "unread"}
         /\ link[f] = None \/ \A i \in Items : link[f][i] \in 0..server[f][i].version
         /\ excuses[f] \subseteq {"unsent", "listed", "unknown", "overtaken", "unseen"}
    /\ \A c \in Cyclists :
         cycle[c].pc = "idle" \/ (cycle[c].pc \in {"delta", "done"} /\ cycle[c].folder \in Folders)

Agrees(f, i) ==
    IF i \in Contents(f) THEN i \in DOMAIN placed[f] /\ placed[f][i] = server[f][i].state
    ELSE i \notin DOMAIN placed[f]

\* The state is well typed, and a stored link never claims more than the copy
\* has: what the server will not tell again is in the database as it is on the
\* server, also when cycles fail, start again, or are committed in another
\* order than they read the server (graph_sync.py:304-367).  It may fail in a
\* folder only after one of the five excuses, each a moment that is named at
\* `excuses`, or while a flag is under way.
LinkTellsTruth ==
    /\ TypeOK
    /\ \A f \in Folders : link[f] # None =>
         \A i \in Items \ Due(f, link[f]) :
             \/ Agrees(f, i)
             \/ excuses[f] # {}
             \/ action.kind = "flag" /\ action.folder = f /\ action.item = i

\* A folder that has something to tell is to be mentioned or visited again, or
\* is known to be missed; in particular what changes between the last page of
\* a cycle of the worker and its commit is mentioned again.  A folder is not
\* missed any more once it is mentioned, or a round is committed after which
\* nothing is left to tell.
NothingForgotten ==
    \A f \in Folders :
        link[f] = None \/ Due(f, link[f]) # {}
          => f \in news \cup todo \cup missed \cup {cycle["worker"].folder}

\* Once the account rests, the copy of every folder that was neither missed nor
\* excused agrees with the server for good.
FollowedFoldersAgree ==
    <>[](\A f \in Folders \ missed : excuses[f] = {} => \A i \in Items : Agrees(f, i))
=============================================================================
