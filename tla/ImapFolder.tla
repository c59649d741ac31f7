----------------------------- MODULE ImapFolder -----------------------------
(***************************************************************************)
(* One IMAP folder: the mailbox on the server, its copy in PostgreSQL, the *)
(* cycles that bring the copy up to date (sync/imap_sync.py::sync_folder)  *)
(* and the user's actions on a message (sync/actions.py).                  *)
(*                                                                         *)
(* The worker's cycle holds the account's lock.  The cycle an action runs  *)
(* when it is done (_resync, in the API process) does not.                 *)
(*                                                                         *)
(* A cycle reads the server command by command and writes to the database  *)
(* in one transaction; its writes take effect together at the commit.  The *)
(* row of the folder was loaded before the cycle, and the session writes   *)
(* back the columns that differ from what it loaded.                       *)
(***************************************************************************)
EXTENDS Integers, FiniteSets

CONSTANTS
    MaxUid,         \* messages the mailbox can receive
    MaxValidity,    \* values of UIDVALIDITY
    RefreshEvery,   \* flag_refresh_every
    MaxChanges,     \* bound on changes by other clients
    MaxActions,     \* bound on user actions
    MaxFaults       \* bound on failing cycles and commands

ASSUME ImapFolderAssumption ==
    /\ {MaxUid, MaxChanges, MaxActions, MaxFaults} \subseteq Nat
    /\ {MaxValidity, RefreshEvery} \subseteq Nat \ {0}

Uids == 1..MaxUid
Syncers == {"worker", "api"}
None == 0        \* NULL in a column of the folder row

VARIABLES
    condstore,   \* the server supports CONDSTORE
    validity,    \* server: UIDVALIDITY
    box,         \* server: uid |-> [seen, modseq] of the messages it has
    uidnext,     \* server: UIDNEXT
    highest,     \* server: HIGHESTMODSEQ
    folder,      \* local: cursor [validity, uidnext, modseq, pass]
    placed,      \* local: uid |-> seen, the placements
    pc,          \* cycle: "idle", "loaded", "selected", "listed", "searched",
                 \* "refreshed", "fetched"
    loaded,      \* cycle: the cursor it loaded
    info,        \* cycle: [validity, uidnext, modseq] that SELECT reported
    all,         \* cycle: all_uids
    new,         \* cycle: new_uids
    flags,       \* cycle: uid |-> seen, flags it read for placements
    headers,     \* cycle: uid |-> seen, headers it read
    action,      \* action under way: [kind, uid, seen, validity]
    counts,      \* changes, actions and faults so far
    excuses      \* history, since the last full cycle:
                 \*   "overlapped": a cycle committed during another one,
                 \*   "unsent": a local flag change never reached the server,
                 \*   "misdropped": a placement was dropped for a message of
                 \*   the mailbox that had this name before

server == <<validity, box, uidnext, highest>>
cycleVars == <<pc, loaded, info, all, new, flags, headers>>
vars == <<condstore, server, folder, placed, cycleVars, action, counts, excuses>>

Nothing == <<>>                          \* the empty function
Only(f, S) == [u \in DOMAIN f \cap S |-> f[u]]
Over(f, g) == [u \in DOMAIN f \cup DOMAIN g |-> IF u \in DOMAIN f THEN f[u] ELSE g[u]]
Seen(S) == [u \in DOMAIN box \cap S |-> box[u].seen]   \* what a FETCH of S returns
NoCursor == [validity |-> None, uidnext |-> None, modseq |-> None, pass |-> 0]
NoInfo == [validity |-> None, uidnext |-> None, modseq |-> None]
NoAction == [kind |-> "none", uid |-> 0, seen |-> FALSE, validity |-> None]

Init ==
    /\ condstore \in BOOLEAN
    /\ validity = 1 /\ box = Nothing /\ uidnext = 1 /\ highest = 1
    /\ folder = NoCursor
    /\ placed = Nothing
    /\ pc = [c \in Syncers |-> "idle"]
    /\ loaded = [c \in Syncers |-> NoCursor]
    /\ info = [c \in Syncers |-> NoInfo]
    /\ all = [c \in Syncers |-> {}]
    /\ new = [c \in Syncers |-> {}]
    /\ flags = [c \in Syncers |-> Nothing]
    /\ headers = [c \in Syncers |-> Nothing]
    /\ action = NoAction
    /\ counts = [changes |-> 0, actions |-> 0, faults |-> 0]
    /\ excuses = {}

Count(what, bound) ==
    /\ counts[what] < bound
    /\ counts' = [counts EXCEPT ![what] = @ + 1]

-----------------------------------------------------------------------------
(***************************************************************************)
(* The server, and other clients of the mailbox.                           *)
(***************************************************************************)
StoreSeen(u, seen) ==
    /\ highest' = highest + 1
    /\ box' = [box EXCEPT ![u] = [seen |-> seen, modseq |-> highest + 1]]
    /\ UNCHANGED <<validity, uidnext>>

Expunge(u) ==
    /\ highest' = highest + 1
    /\ box' = Only(box, DOMAIN box \ {u})
    /\ UNCHANGED <<validity, uidnext>>

Arrive ==
    /\ uidnext <= MaxUid
    /\ highest' = highest + 1
    /\ box' = Over([u \in {uidnext} |-> [seen |-> FALSE, modseq |-> highest + 1]], box)
    /\ uidnext' = uidnext + 1
    /\ UNCHANGED validity

\* The mailbox is deleted and created again under its name.
Recreate ==
    /\ validity < MaxValidity
    /\ validity' = validity + 1
    /\ box' = Nothing /\ uidnext' = 1 /\ highest' = 1

OthersChange ==
    /\ Count("changes", MaxChanges)
    /\ \/ Arrive
       \/ Recreate
       \/ \E u \in DOMAIN box : Expunge(u) \/ StoreSeen(u, ~box[u].seen)
    /\ UNCHANGED <<condstore, folder, placed, cycleVars, action, excuses>>

-----------------------------------------------------------------------------
(***************************************************************************)
(* sync_folder, by the worker or by an action.                             *)
(***************************************************************************)
Load(c) ==
    /\ pc[c] = "idle"
    /\ c = "api" => action.kind = "resync"
    /\ pc' = [pc EXCEPT ![c] = "loaded"]
    /\ loaded' = [loaded EXCEPT ![c] = folder]
    /\ UNCHANGED <<condstore, server, folder, placed, info, all, new, flags, headers,
                   action, counts, excuses>>

Select(c) ==
    /\ pc[c] = "loaded"
    /\ pc' = [pc EXCEPT ![c] = "selected"]
    /\ info' = [info EXCEPT ![c] =
           [validity |-> validity, uidnext |-> uidnext,
            modseq |-> IF condstore THEN highest ELSE None]]
    /\ UNCHANGED <<condstore, server, folder, placed, loaded, all, new, flags, headers,
                   action, counts, excuses>>

\* No local state, or UIDVALIDITY has changed: the placements are dropped and
\* everything is listed.
Full(c) == loaded[c].validity # info[c].validity
Refreshes(c) == Full(c) \/ loaded[c].pass = 0

\* The selected mailbox is still the one SELECT reported.
SameBox(c) == validity = info[c].validity

SearchAll(c) ==
    /\ pc[c] = "selected" /\ SameBox(c)
    /\ pc' = [pc EXCEPT ![c] = "listed"]
    /\ all' = [all EXCEPT ![c] = DOMAIN box]
    /\ UNCHANGED <<condstore, server, folder, placed, loaded, info, new, flags, headers,
                   action, counts, excuses>>

SearchNew(c) ==
    /\ pc[c] = "listed" /\ SameBox(c)
    /\ pc' = [pc EXCEPT ![c] = "searched"]
    /\ new' = [new EXCEPT ![c] =
           IF Full(c) \/ loaded[c].uidnext = None
           THEN all[c]
           ELSE {u \in DOMAIN box : u >= loaded[c].uidnext}]
    /\ UNCHANGED <<condstore, server, folder, placed, loaded, info, all, flags, headers,
                   action, counts, excuses>>

\* CHANGEDSINCE the stored modseq, else all flags if this pass refreshes them.
FetchFlags(c) ==
    /\ pc[c] = "searched" /\ SameBox(c)
    /\ pc' = [pc EXCEPT ![c] = "refreshed"]
    /\ flags' = [flags EXCEPT ![c] =
           IF ~Full(c) /\ condstore /\ loaded[c].modseq # None
           THEN Seen({u \in all[c] \cap DOMAIN box : box[u].modseq > loaded[c].modseq})
           ELSE IF Refreshes(c) THEN Seen(all[c]) ELSE Nothing]
    /\ UNCHANGED <<condstore, server, folder, placed, loaded, info, all, new, headers,
                   action, counts, excuses>>

FetchHeaders(c) ==
    /\ pc[c] = "refreshed" /\ SameBox(c)
    /\ pc' = [pc EXCEPT ![c] = "fetched"]
    /\ headers' = [headers EXCEPT ![c] = Seen(new[c])]
    /\ UNCHANGED <<condstore, server, folder, placed, loaded, info, all, new, flags,
                   action, counts, excuses>>

\* The cycle ends; with it the action that ran it.
EndCycle(c) ==
    /\ pc' = [pc EXCEPT ![c] = "idle"]
    /\ loaded' = [loaded EXCEPT ![c] = NoCursor]
    /\ info' = [info EXCEPT ![c] = NoInfo]
    /\ all' = [all EXCEPT ![c] = {}]
    /\ new' = [new EXCEPT ![c] = {}]
    /\ flags' = [flags EXCEPT ![c] = Nothing]
    /\ headers' = [headers EXCEPT ![c] = Nothing]
    /\ action' = IF c = "api" THEN NoAction ELSE action

\* As Reported, with the state of the mailbox at the commit.
ReportedNow(c) ==
    [validity |-> validity, uidnext |-> uidnext, modseq |-> IF condstore THEN highest ELSE None]

\* The cursor a cycle leaves is the one SELECT reported, before it read anything.
Reported(c) == info[c]

\* A column is written when it differs from the loaded one, or was reset.
Column(c, name) ==
    IF Reported(c)[name] = loaded[c][name] /\ ~Full(c) THEN folder[name] ELSE Reported(c)[name]

\* delete_missing_placements.
KeptAlways(c) == Uids
Kept(c) == IF Refreshes(c) THEN all[c] ELSE Uids

\* apply_flags_by_uid, on the placements that exist.
Refreshed(c) ==
    LET known == IF Full(c) THEN Nothing ELSE placed
    IN Over(Only(flags[c], DOMAIN known), known)

Commit(c) ==
    /\ pc[c] = "fetched"
    /\ placed' = Only(Over(headers[c], Refreshed(c)), Kept(c))
    /\ folder' = [validity |-> Column(c, "validity"),
                  uidnext |-> Column(c, "uidnext"),
                  modseq |-> Column(c, "modseq"),
                  pass |-> (loaded[c].pass + 1) % RefreshEvery]
    /\ excuses' = (IF Full(c) THEN {} ELSE excuses)
                   \cup {e \in {"overlapped"} : \E d \in Syncers \ {c} : pc[d] # "idle"}
    /\ EndCycle(c)
    /\ UNCHANGED <<condstore, server, counts>>

\* A lost connection, or a mailbox that was replaced: everything is rolled back.
Fail(c) ==
    /\ pc[c] # "idle"
    /\ \/ Count("faults", MaxFaults)
       \/ /\ pc[c] \notin {"loaded", "fetched"} /\ ~SameBox(c)
          /\ UNCHANGED counts
    /\ EndCycle(c)
    /\ UNCHANGED <<condstore, server, folder, placed, excuses>>

-----------------------------------------------------------------------------
(***************************************************************************)
(* Actions of the user.                                                    *)
(***************************************************************************)

\* The action looks the placement up, and with it the UID.
Begin(kind, u, seen) ==
    /\ action.kind = "none"
    /\ Count("actions", MaxActions)
    /\ action' = [kind |-> kind, uid |-> u, seen |-> seen, validity |-> folder.validity]

\* set_message_flags commits the local flag, then tells the server.
SetFlag(u, seen) ==
    /\ Begin("flag", u, seen)
    /\ placed' = [placed EXCEPT ![u] = seen]
    /\ UNCHANGED <<condstore, server, folder, cycleVars, excuses>>

\* STORE on a UID the mailbox does not have does nothing, and neither does one
\* that changes nothing.  No command checks UIDVALIDITY.
SendFlag ==
    /\ action.kind = "flag"
    /\ IF action.uid \in DOMAIN box /\ box[action.uid].seen # action.seen
       THEN StoreSeen(action.uid, action.seen)
       ELSE UNCHANGED server
    /\ action' = NoAction
    /\ UNCHANGED <<condstore, folder, placed, cycleVars, counts, excuses>>

\* delete_message, and move_message out of this folder: first the server.
Remove(u) ==
    /\ Begin("remove", u, FALSE)
    /\ UNCHANGED <<condstore, server, folder, placed, cycleVars, excuses>>

SendRemove ==
    /\ action.kind = "remove"
    /\ IF action.uid \in DOMAIN box THEN Expunge(action.uid) ELSE UNCHANGED server
    /\ action' = [action EXCEPT !.kind = "drop"]
    /\ UNCHANGED <<condstore, folder, placed, cycleVars, counts, excuses>>

\* _drop_local_placement, and the cycle _resync will run.
DropPlacement ==
    /\ action.kind = "drop"
    /\ placed' = Only(placed, Uids \ {action.uid})
    /\ action' = [NoAction EXCEPT !.kind = "resync"]
    /\ excuses' = excuses \cup
           {e \in {"misdropped"} : action.uid \in DOMAIN placed /\ action.validity # folder.validity}
    /\ UNCHANGED <<condstore, server, folder, cycleVars, counts>>

\* move_message into this folder.  The row of the folder is loaded before the
\* move, and _resync is given that object again.
MoveInto ==
    /\ action.kind = "none" /\ pc["api"] = "idle"
    /\ Count("actions", MaxActions)
    /\ Arrive
    /\ action' = [NoAction EXCEPT !.kind = "resync"]
    /\ pc' = [pc EXCEPT !["api"] = "loaded"]
    /\ loaded' = [loaded EXCEPT !["api"] = folder]
    /\ UNCHANGED <<condstore, folder, placed, info, all, new, flags, headers, excuses>>

\* The connection fails or the request dies before the next step of the action.
ActionFails ==
    /\ action.kind \in {"flag", "remove", "drop"}
    /\ Count("faults", MaxFaults)
    /\ action' = NoAction
    /\ excuses' = excuses \cup {e \in {"unsent"} : action.kind = "flag"}
    /\ UNCHANGED <<condstore, server, folder, placed, cycleVars>>

-----------------------------------------------------------------------------
CycleStep(c) ==
    \/ Load(c)
    \/ Select(c)
    \/ SearchAll(c)
    \/ SearchNew(c)
    \/ FetchFlags(c)
    \/ FetchHeaders(c)
    \/ Commit(c)
    \/ Fail(c)

ActionStep == SendFlag \/ SendRemove \/ DropPlacement \/ ActionFails

Next ==
    \/ OthersChange
    \/ \E c \in Syncers : CycleStep(c)
    \/ \E u \in DOMAIN placed : Remove(u) \/ \E seen \in BOOLEAN : SetFlag(u, seen)
    \/ MoveInto
    \/ ActionStep

Spec == Init /\ [][Next]_vars

\* The crons keep the worker's cycles coming, and requests run to their end.
FairSpec ==
    /\ Spec
    /\ \A c \in Syncers : WF_vars(CycleStep(c))
    /\ WF_vars(ActionStep)

-----------------------------------------------------------------------------
Cursors == [validity : 0..MaxValidity, uidnext : 0..(MaxUid + 1), modseq : Nat,
            pass : 0..(RefreshEvery - 1)]

\* Types; the cycle of an action runs only when the action itself is done
\* (_resync comes last in move_message and delete_message).
TypeOK ==
    /\ condstore \in BOOLEAN
    /\ validity \in 1..MaxValidity /\ uidnext \in 1..(MaxUid + 1) /\ highest \in Nat
    /\ DOMAIN box \subseteq 1..(uidnext - 1)
    /\ \A u \in DOMAIN box : box[u] \in [seen : BOOLEAN, modseq : 1..highest]
    /\ folder \in Cursors
    /\ DOMAIN placed \subseteq Uids
    /\ \A u \in DOMAIN placed : placed[u] \in BOOLEAN
    /\ \A c \in Syncers :
         /\ pc[c] \in {"idle", "loaded", "selected", "listed", "searched", "refreshed", "fetched"}
         /\ loaded[c] \in Cursors
         /\ all[c] \in SUBSET Uids /\ new[c] \in SUBSET Uids
         /\ DOMAIN flags[c] \subseteq Uids /\ DOMAIN headers[c] \subseteq Uids
    /\ action.kind \in {"none", "flag", "remove", "drop", "resync"}
    /\ pc["api"] # "idle" => action.kind = "resync"
    /\ excuses \subseteq {"overlapped", "unsent", "misdropped"}

Current == folder.validity = validity      \* the local UIDs mean something

\* The state is well typed, and, as the incremental search starts at the stored
\* uidnext, whatever the server has below it is here: no message is lost from
\* the list for good, unless two cycles of the folder overlapped, or an action
\* dropped the placement of another message with its UID.
NoMessageMissed ==
    /\ TypeOK
    /\ Current /\ excuses \subseteq {"unsent"} =>
         \A u \in DOMAIN box : u < folder.uidnext => u \in DOMAIN placed

\* CHANGEDSINCE asks for what is above the stored modseq, so a flag that
\* differs must be above it: no change is missed for good, except the user's
\* own when it did not reach the server.
NoFlagMissed ==
    Current /\ folder.modseq # None /\ excuses \subseteq {"misdropped"} =>
        \A u \in DOMAIN box \cap DOMAIN placed :
            \/ placed[u] = box[u].seen
            \/ box[u].modseq > folder.modseq
            \/ action.kind = "flag" /\ action.uid = u

\* Local copy and mailbox agree.
InSync ==
    /\ Current
    /\ DOMAIN placed = DOMAIN box
    /\ \A u \in DOMAIN box : placed[u] = box[u].seen

\* Once the mailbox rests, the cycles bring the copy in line with it and keep
\* it there.  Where whole-folder refreshes happen (no CONDSTORE) that repairs
\* flags the server never got, too.
CopyFollows ==
    <>[](InSync \/ excuses \cap {"overlapped", "misdropped"} # {} \/ (condstore /\ "unsent" \in excuses))
=============================================================================
