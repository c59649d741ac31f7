-------------------------- MODULE GraphCycleProofs --------------------------
(***************************************************************************)
(* The safety properties of GraphCycle, proved for any folders and items   *)
(* and any number of changes, actions and faults.                          *)
(***************************************************************************)
EXTENDS GraphCycle, TLAPS

-----------------------------------------------------------------------------
(***************************************************************************)
(* The inductive invariant.                                                *)
(***************************************************************************)
Copies == UNION {[S -> {"read", "unread"}] : S \in SUBSET Items}
Tolds  == [Items -> Nat]
Moving == {"move", "drop", "source", "target"}
Kinds  == {"none", "flag"} \cup Moving

ItemState == [state : {"absent", "read", "unread"}, version : Nat]

Reasons == {"unsent", "listed", "unknown", "overtaken", "unseen"}

CycleRecord == [pc : {"idle", "delta", "done"}, folder : Folders \cup {None},
                base : Tolds \cup {None}, told : Tolds, changed : Copies,
                removed : SUBSET Items, twice : BOOLEAN, passed : BOOLEAN,
                unseen : SUBSET Items]

ActionRecord == [kind : Kinds, folder : Folders \cup {None}, item : Items \cup {None},
                 into : Folders \cup {None, "read", "unread"}, base : Tolds \cup {None}]

ServerTyped ==
    /\ server \in [Folders -> [Items -> ItemState]]
    /\ \A f \in Folders : \A i \in Fresh(f) : server[f][i].state = "absent"

CopyTyped ==
    /\ placed \in [Folders -> Copies]
    /\ link \in [Folders -> Tolds \cup {None}]
    /\ excuses \in [Folders -> SUBSET Reasons]

VisitsTyped == news \subseteq Folders /\ todo \subseteq Folders /\ missed \subseteq Folders

CyclesTyped ==
    /\ cycle \in [Cyclists -> CycleRecord]
    /\ \A c \in Cyclists : cycle[c].pc = "idle" <=> cycle[c].folder = None

ActionTyped ==
    /\ action \in ActionRecord
    /\ action.kind # "none" => action.folder \in Folders /\ action.item \in Items
    /\ action.kind = "flag" => action.into \in {"read", "unread"}
    /\ action.kind \in Moving => action.into \in Folders /\ action.into # action.folder

StateTyped == ServerTyped /\ CopyTyped /\ VisitsTyped /\ CyclesTyped /\ ActionTyped

\* What the cycles of folder f start from, and what an action will start one from.
Bases(f) ==
    {cycle[c].base : c \in {d \in Cyclists : cycle[d].folder = f /\ cycle[d].base # None}}
      \cup (IF action.kind \in Moving /\ action.into = f
            THEN {action.base} \ {None} ELSE {})

\* The links that are stored or in use for folder f.
Known(f) == Bases(f) \cup ({link[f]} \ {None})

\* Nobody knows of more than there is.
KnownIsPast ==
    \A f \in Folders, i \in Items : \A b \in Known(f) : b[i] <= server[f][i].version

FlagPending(f, i) ==
    /\ action.kind = "flag" /\ action.folder = f /\ action.item = i
    /\ i \in Contents(f) /\ server[f][i].state # action.into

\* The copy of an item is as the server has it, or may differ for a reason.
Accounted(f, i) == Agrees(f, i) \/ excuses[f] # {} \/ FlagPending(f, i)

\* What a stored link knows for good, the copy accounts for.  A base that an
\* older round was written over may know more than the stored link.
KnownIsAccounted ==
    \A f \in Folders, i \in Items :
        link[f] # None /\ link[f][i] > 0 /\ link[f][i] = server[f][i].version => Accounted(f, i)

\* What a link does not know is not in the copy.
UnknownIsExcused ==
    \A f \in Folders : link[f] # None =>
        \A i \in DOMAIN placed[f] : link[f][i] = 0 => excuses[f] # {}

Start(c) == Told(cycle[c].base)

\* A round has gathered what it was told, as far as that is still up to date.
Gathers(c) ==
    cycle[c].pc # "idle" =>
        \A i \in Items :
            LET y == cycle[c]
                s == server[y.folder][i]
            IN  /\ Start(c)[i] <= y.told[i] /\ y.told[i] <= s.version
                /\ y.told[i] = Start(c)[i] => i \notin DOMAIN y.changed \cup y.removed
                /\ y.told[i] # Start(c)[i] /\ y.told[i] = s.version =>
                     IF s.state = "absent" THEN i \in y.removed
                     ELSE i \in DOMAIN y.changed /\ y.changed[i] = s.state
                /\ i \in y.removed => s.state = "absent" /\ s.version > 0

\* The row that a move is about to drop is of an item that has left the folder.
MovedIsGone ==
    action.kind = "drop" =>
        LET s == server[action.folder][action.item] IN s.state = "absent" /\ s.version > 0

IInv ==
    /\ StateTyped /\ KnownIsPast /\ KnownIsAccounted /\ UnknownIsExcused /\ MovedIsGone
    /\ \A c \in Cyclists : Gathers(c)

-----------------------------------------------------------------------------
(***************************************************************************)
(* Lemmas about the operators.                                             *)
(***************************************************************************)
LEMMA EmptyCopy == <<>> \in Copies /\ DOMAIN <<>> = {}
<1>1. <<>> \in [{} -> {"read", "unread"}]
  OBVIOUS
<1> QED BY <1>1 DEF Copies

LEMMA CopyOf ==
  ASSUME NEW S \in SUBSET Items, NEW p \in [S -> {"read", "unread"}]
  PROVE  p \in Copies
BY DEF Copies

LEMMA CopyIs ==
  ASSUME NEW p \in Copies
  PROVE  /\ DOMAIN p \subseteq Items /\ p \in [DOMAIN p -> {"read", "unread"}]
         /\ \A i \in DOMAIN p : p[i] \in {"read", "unread"}
BY DEF Copies

LEMMA UntoldIs == Untold \in Tolds /\ \A i \in Items : Untold[i] = 0
BY DEF Untold, Tolds

LEMMA NoneIsNone == None \notin Folders /\ None \notin Tolds
BY GraphAssumption DEF Tolds

LEMMA RestingIs ==
  /\ Resting \in CycleRecord /\ Resting.pc = "idle" /\ Resting.folder = None
BY EmptyCopy, UntoldIs DEF Resting, CycleRecord

LEMMA BegunIs ==
  ASSUME NEW f \in Folders, NEW b \in Tolds \cup {None}
  PROVE  /\ Begun(f, b) \in CycleRecord
         /\ Begun(f, b).pc = "delta" /\ Begun(f, b).folder = f /\ Begun(f, b).base = b
         /\ Begun(f, b).told = Told(b) /\ Begun(f, b).changed = <<>> /\ Begun(f, b).removed = {}
<1>1. /\ Begun(f, b).pc = "delta" /\ Begun(f, b).folder = f /\ Begun(f, b).base = b
      /\ Begun(f, b).told = Told(b) /\ Begun(f, b).changed = <<>> /\ Begun(f, b).removed = {}
  BY DEF Begun, Resting
<1>2. Begun(f, b) \in CycleRecord
  BY EmptyCopy, UntoldIs DEF Begun, Resting, CycleRecord, Told
<1> QED BY <1>1, <1>2

LEMMA TurnedTyped ==
  ASSUME NEW s \in [Folders -> [Items -> ItemState]], NEW f \in Folders, NEW i \in Items,
         NEW state \in {"absent", "read", "unread"}
  PROVE  Turned(s, f, i, state) \in [Folders -> [Items -> ItemState]]
<1>1. s[f][i].version + 1 \in Nat
  BY DEF ItemState
<1> QED BY <1>1 DEF Turned, ItemState

LEMMA TurnedAt ==
  ASSUME NEW s \in [Folders -> [Items -> ItemState]], NEW f \in Folders, NEW i \in Items,
         NEW state \in {"absent", "read", "unread"}
  PROVE  Turned(s, f, i, state)[f][i] = [state |-> state, version |-> s[f][i].version + 1]
BY DEF Turned, ItemState

LEMMA TurnedElsewhere ==
  ASSUME NEW s \in [Folders -> [Items -> ItemState]], NEW f \in Folders, NEW i \in Items,
         NEW state \in {"absent", "read", "unread"},
         NEW g \in Folders, NEW k \in Items, g # f \/ k # i
  PROVE  Turned(s, f, i, state)[g][k] = s[g][k]
BY DEF Turned, ItemState

LEMMA KnownTyped ==
  ASSUME StateTyped, NEW f \in Folders
  PROVE  Known(f) \subseteq Tolds
<1>1. ASSUME NEW c \in Cyclists, cycle[c].folder = f, cycle[c].base # None
      PROVE  cycle[c].base \in Tolds
  BY <1>1 DEF StateTyped, CyclesTyped, CycleRecord
<1>2. action.base \in Tolds \cup {None} /\ link[f] \in Tolds \cup {None}
  BY DEF StateTyped, ActionTyped, ActionRecord, CopyTyped
<1> QED BY <1>1, <1>2 DEF Known, Bases

\* What a page does to the delta it belongs to.
LEMMA PageIs ==
  ASSUME StateTyped, NEW c \in Cyclists, Page(c)
  PROVE  /\ cycle[c].pc = "delta" /\ cycle[c].folder \in Folders
         /\ \E some \in SUBSET Due(cycle[c].folder, cycle[c].told) :
              LET f == cycle[c].folder
                  here == Listed(f, some)
                  y == cycle'[c]
              IN  /\ y \in CycleRecord
                  /\ y.pc = "delta" /\ y.folder = f /\ y.base = cycle[c].base
                  /\ \A i \in Items : y.told[i] = IF i \in some THEN server[f][i].version ELSE cycle[c].told[i]
                  /\ DOMAIN y.changed = DOMAIN cycle[c].changed \cup here
                  /\ \A i \in DOMAIN y.changed :
                        y.changed[i] = IF i \in here THEN server[f][i].state ELSE cycle[c].changed[i]
                  /\ y.removed = cycle[c].removed \cup (some \ here)
         /\ cycle' \in [Cyclists -> CycleRecord]
         /\ \A d \in Cyclists \ {c} : cycle'[d] = cycle[d]
<1> DEFINE f == cycle[c].folder
<1>1. cycle[c].pc = "delta" /\ f \in Folders /\ cycle[c] \in CycleRecord
  BY NoneIsNone DEF Page, StateTyped, CyclesTyped, CycleRecord
<1>2. PICK some \in SUBSET Due(f, cycle[c].told) :
        LET here == Listed(f, some)
            all  == DOMAIN cycle[c].changed \cup here
        IN cycle' = [cycle EXCEPT
             ![c].told = [i \in Items |-> IF i \in some THEN server[f][i].version ELSE @[i]],
             ![c].changed = [i \in all |-> IF i \in here THEN server[f][i].state ELSE @[i]],
             ![c].removed = @ \cup (some \ here),
             ![c].twice = @ \/ DOMAIN cycle[c].changed \cap here # {}]
  BY DEF Page
<1> DEFINE here == Listed(f, some)
           all  == DOMAIN cycle[c].changed \cup here
           told == [i \in Items |-> IF i \in some THEN server[f][i].version ELSE cycle[c].told[i]]
           changed == [i \in all |-> IF i \in here THEN server[f][i].state ELSE cycle[c].changed[i]]
           removed == cycle[c].removed \cup (some \ here)
           twice == cycle[c].twice \/ DOMAIN cycle[c].changed \cap here # {}
<1>3. cycle' = [cycle EXCEPT ![c].told = told, ![c].changed = changed,
                             ![c].removed = removed, ![c].twice = twice]
  BY <1>2
<1>4. some \subseteq Items /\ here \subseteq Items /\ cycle[c].changed \in Copies
  BY <1>1 DEF Due, Listed, CycleRecord
<1>5. told \in Tolds
  BY <1>1 DEF Tolds, CycleRecord, StateTyped, ServerTyped, ItemState
<1>6. changed \in Copies
  <2>1. \A i \in here : server[f][i].state \in {"read", "unread"}
    BY <1>1, <1>4 DEF Listed, Contents, StateTyped, ServerTyped, ItemState
  <2>2. all \subseteq Items /\ changed \in [all -> {"read", "unread"}]
    BY <1>4, <2>1, CopyIs
  <2> QED BY <2>2, CopyOf
<1>7. removed \in SUBSET Items /\ twice \in BOOLEAN
  BY <1>1, <1>4 DEF CycleRecord
<1> HIDE DEF told, changed, removed, twice
<1>8. cycle \in [Cyclists -> CycleRecord]
  BY DEF StateTyped, CyclesTyped
<1>9. /\ \A d \in Cyclists \ {c} : cycle'[d] = cycle[d]
      /\ cycle'[c] = [cycle[c] EXCEPT !.told = told, !.changed = changed, !.removed = removed, !.twice = twice]
  BY <1>3, <1>8 DEF CycleRecord
<1>10. /\ cycle'[c] \in CycleRecord
       /\ cycle'[c].pc = cycle[c].pc /\ cycle'[c].folder = f /\ cycle'[c].base = cycle[c].base
       /\ cycle'[c].told = told /\ cycle'[c].changed = changed
       /\ cycle'[c].removed = removed
  BY <1>1, <1>5, <1>6, <1>7, <1>9 DEF CycleRecord
<1>11. cycle' \in [Cyclists -> CycleRecord]
  BY <1>3, <1>8, <1>9, <1>10
<1>12. \A i \in Items : cycle'[c].told[i] = IF i \in some THEN server[f][i].version ELSE cycle[c].told[i]
  BY <1>10 DEF told
<1>13. /\ DOMAIN cycle'[c].changed = all
       /\ \A i \in all : cycle'[c].changed[i] = IF i \in here THEN server[f][i].state ELSE cycle[c].changed[i]
  BY <1>10 DEF changed
<1>14. cycle'[c].removed = cycle[c].removed \cup (some \ here)
  BY <1>10 DEF removed
<1> QED BY <1>1, <1>9, <1>10, <1>11, <1>12, <1>13, <1>14

\* What an expired link does: the delta starts without one.
LEMMA ExpireIs ==
  ASSUME StateTyped, NEW c \in Cyclists, Expire(c)
  PROVE  /\ cycle[c].pc = "delta" /\ cycle[c].folder \in Folders
         /\ LET y == cycle'[c]
            IN  /\ y \in CycleRecord
                /\ y.pc = "delta" /\ y.folder = cycle[c].folder /\ y.base = None
                /\ y.told = Untold /\ DOMAIN y.changed = {} /\ y.removed = {}
         /\ cycle' \in [Cyclists -> CycleRecord]
         /\ \A d \in Cyclists \ {c} : cycle'[d] = cycle[d]
<1> DEFINE f == cycle[c].folder
           y == Begun(f, None)
<1>1. cycle[c].pc = "delta" /\ f \in Folders /\ cycle \in [Cyclists -> CycleRecord]
  BY NoneIsNone DEF Expire, StateTyped, CyclesTyped, CycleRecord
<1>2. cycle' = [cycle EXCEPT ![c] = y]
  BY DEF Expire
<1>3. /\ y \in CycleRecord /\ y.pc = "delta" /\ y.folder = f /\ y.base = None
      /\ y.told = Untold /\ DOMAIN y.changed = {} /\ y.removed = {}
  BY <1>1, BegunIs, EmptyCopy DEF Told
<1> HIDE DEF y
<1> QED BY <1>1, <1>2, <1>3

-----------------------------------------------------------------------------
(***************************************************************************)
(* The server: versions only grow, what was removed stays away, and what   *)
(* changes is announced.                                                   *)
(***************************************************************************)
ServerAdvances ==
    /\ ServerTyped'
    /\ \A f \in Folders, i \in Items :
         \/ server'[f][i] = server[f][i]
         \/ /\ server[f][i].version < server'[f][i].version
            /\ server[f][i].state # "absent" \/ server[f][i].version = 0

Announces ==
    /\ news \subseteq news' /\ news' \subseteq Folders
    /\ \A f \in Folders \ news' : server'[f] = server[f]

LEMMA TurnAdvances ==
  ASSUME ServerTyped, VisitsTyped, NEW f \in Folders, NEW i \in Items,
         NEW state \in {"absent", "read", "unread"},
         server[f][i].state # "absent" \/ server[f][i].version = 0,
         server' = Turned(server, f, i, state), news' = news \cup {f}
  PROVE  /\ ServerAdvances /\ Announces
         /\ server'[f][i] = [state |-> state, version |-> server[f][i].version + 1]
<1>0. server \in [Folders -> [Items -> ItemState]]
  BY DEF ServerTyped
<1>1. /\ server' \in [Folders -> [Items -> ItemState]]
      /\ server'[f][i] = [state |-> state, version |-> server[f][i].version + 1]
      /\ \A g \in Folders, k \in Items : g # f \/ k # i => server'[g][k] = server[g][k]
  <2> HIDE DEF ServerTyped
  <2> DEFINE t == Turned(server, f, i, state)
  <2>1. /\ t \in [Folders -> [Items -> ItemState]]
        /\ t[f][i] = [state |-> state, version |-> server[f][i].version + 1]
        /\ \A g \in Folders, k \in Items : g # f \/ k # i => t[g][k] = server[g][k]
    <3>1. t \in [Folders -> [Items -> ItemState]]
      BY <1>0, TurnedTyped
    <3>2. t[f][i] = [state |-> state, version |-> server[f][i].version + 1]
      BY <1>0, TurnedAt
    <3>3. \A g \in Folders, k \in Items : g # f \/ k # i => t[g][k] = server[g][k]
      BY <1>0, TurnedElsewhere
    <3> QED BY <3>1, <3>2, <3>3
  <2>2. server' = t
    OBVIOUS
  <2> HIDE DEF t
  <2> QED BY <2>1, <2>2
<1>2. server[f][i].version \in Nat
  BY DEF ServerTyped, ItemState
<1>3. ServerTyped'
  BY <1>1, <1>2 DEF ServerTyped, Fresh
<1>4. ServerAdvances
  BY <1>1, <1>2, <1>3 DEF ServerAdvances
<1>5. \A g \in Folders \ {f} : server'[g] = server[g]
  <2> SUFFICES ASSUME NEW g \in Folders \ {f} PROVE server'[g] = server[g]
    OBVIOUS
  <2>1. server'[g] \in [Items -> ItemState] /\ server[g] \in [Items -> ItemState]
    BY <1>1 DEF ServerTyped
  <2>2. \A k \in Items : server'[g][k] = server[g][k]
    BY <1>1
  <2> QED BY <2>1, <2>2
<1> QED BY <1>1, <1>4, <1>5 DEF Announces, VisitsTyped

LEMMA NewIsFresh ==
  ASSUME NEW f, Fresh(f) # {}
  PROVE  NewId(f) \in Fresh(f)
BY DEF NewId

LEMMA OthersAdvance ==
  ASSUME StateTyped, OthersChange
  PROVE  ServerAdvances /\ Announces
<1>0. ServerTyped /\ VisitsTyped
  BY DEF StateTyped
<1>1. PICK f \in Folders :
        /\ news' = news \cup {f}
        /\ \/ \E i \in Fresh(f) : server' = Turned(server, f, i, "unread")
           \/ \E i \in Contents(f) : \E state \in {"absent", Opposite(server[f][i].state)} :
                 server' = Turned(server, f, i, state)
  BY NewIsFresh DEF OthersChange
<1>2. CASE \E i \in Fresh(f) : server' = Turned(server, f, i, "unread")
  BY <1>0, <1>1, <1>2, TurnAdvances DEF Fresh
<1>3. CASE \E i \in Contents(f) : \E state \in {"absent", Opposite(server[f][i].state)} :
              server' = Turned(server, f, i, state)
  BY <1>0, <1>1, <1>3, TurnAdvances DEF Contents, Opposite
<1> QED BY <1>1, <1>2, <1>3

LEMMA SendAdvances ==
  ASSUME StateTyped, SendFlag
  PROVE  /\ ServerAdvances /\ Announces
         /\ FlagPending(action.folder, action.item) =>
              server'[action.folder][action.item].version > server[action.folder][action.item].version
<1> DEFINE f == action.folder
           i == action.item
<1>0. /\ ServerTyped /\ VisitsTyped /\ f \in Folders /\ i \in Items /\ action.into \in {"read", "unread"}
      /\ server[f][i].version \in Nat
  BY DEF StateTyped, ActionTyped, SendFlag, ServerTyped, ItemState
<1>1. CASE i \in Contents(f) /\ server[f][i].state # action.into
  <2>1. server' = Turned(server, f, i, action.into) /\ news' = news \cup {f} /\ server[f][i].state # "absent"
    BY <1>1 DEF SendFlag, Contents
  <2> DEFINE into == action.into
  <2>2. into \in {"absent", "read", "unread"} /\ server' = Turned(server, f, i, into)
    BY <1>0, <2>1
  <2> HIDE DEF f, i, into
  <2>3. /\ ServerAdvances /\ Announces
        /\ server'[f][i] = [state |-> into, version |-> server[f][i].version + 1]
    BY <1>0, <2>1, <2>2, TurnAdvances
  <2> QED BY <1>0, <2>3 DEF f, i
<1>2. CASE ~(i \in Contents(f) /\ server[f][i].state # action.into)
  <2>1. server' = server /\ news' = news /\ ~FlagPending(f, i)
    BY <1>2 DEF SendFlag, FlagPending
  <2>2. ServerAdvances /\ Announces
    BY <1>0, <2>1 DEF ServerAdvances, Announces, ServerTyped, VisitsTyped, Fresh
  <2> QED BY <2>1, <2>2
<1> QED BY <1>1, <1>2

LEMMA MoveAdvances ==
  ASSUME StateTyped, MoveOnServer
  PROVE  /\ ServerAdvances /\ Announces /\ MovedIsGone'
         /\ action' = NoAction \/ action' = [action EXCEPT !.kind = "drop"]
<1> DEFINE f == action.folder
           i == action.item
           g == action.into
<1>0. /\ ServerTyped /\ VisitsTyped /\ f \in Folders /\ i \in Items /\ g \in Folders /\ g # f
      /\ action \in ActionRecord
  BY DEF StateTyped, ActionTyped, MoveOnServer, Moving
<1>1. CASE i \in Contents(f) /\ Fresh(g) # {}
  <2>1. PICK k \in Fresh(g) :
          server' = Turned(Turned(server, f, i, "absent"), g, k, server[f][i].state)
    BY <1>1, NewIsFresh DEF MoveOnServer
  <2>2. news' = news \cup {f, g} /\ action' = [action EXCEPT !.kind = "drop"]
    BY <1>1 DEF MoveOnServer
  <2> DEFINE mid == Turned(server, f, i, "absent")
  <2>3. /\ k \in Items /\ server[g][k].version = 0 /\ server[f][i].state \in {"read", "unread"}
        /\ server[f][i].version \in Nat
    BY <1>0, <1>1 DEF Fresh, Contents, ServerTyped, ItemState
  <2>0. server \in [Folders -> [Items -> ItemState]]
    BY <1>0 DEF ServerTyped
  <2>4. /\ mid \in [Folders -> [Items -> ItemState]]
        /\ mid[f][i] = [state |-> "absent", version |-> server[f][i].version + 1]
        /\ \A h \in Folders, j \in Items : h # f \/ j # i => mid[h][j] = server[h][j]
    <3>1. mid \in [Folders -> [Items -> ItemState]]
      BY <1>0, <2>0, TurnedTyped
    <3>2. mid[f][i] = [state |-> "absent", version |-> server[f][i].version + 1]
      BY <1>0, <2>0, TurnedAt
    <3>3. \A h \in Folders, j \in Items : h # f \/ j # i => mid[h][j] = server[h][j]
      BY <1>0, <2>0, TurnedElsewhere
    <3> QED BY <3>1, <3>2, <3>3
  <2> HIDE DEF mid
  <2>5. server' = Turned(mid, g, k, server[f][i].state)
    BY <2>1 DEF mid
  <2> DEFINE state == server[f][i].state
             t == Turned(mid, g, k, state)
  <2>st. state \in {"absent", "read", "unread"}
    BY <2>3
  <2> HIDE DEF state
  <2>t. /\ t \in [Folders -> [Items -> ItemState]]
        /\ t[g][k] = [state |-> state, version |-> mid[g][k].version + 1]
        /\ \A h \in Folders, j \in Items : h # g \/ j # k => t[h][j] = mid[h][j]
    <3>1. t \in [Folders -> [Items -> ItemState]]
      BY <1>0, <2>3, <2>4, <2>st, TurnedTyped
    <3>2. t[g][k] = [state |-> state, version |-> mid[g][k].version + 1]
      BY <1>0, <2>3, <2>4, <2>st, TurnedAt
    <3>3. \A h \in Folders, j \in Items : h # g \/ j # k => t[h][j] = mid[h][j]
      BY <1>0, <2>3, <2>4, <2>st, TurnedElsewhere
    <3> QED BY <3>1, <3>2, <3>3
  <2> HIDE DEF t
  <2>6. /\ server' \in [Folders -> [Items -> ItemState]]
        /\ server'[g][k] = [state |-> server[f][i].state, version |-> mid[g][k].version + 1]
        /\ \A h \in Folders, j \in Items : h # g \/ j # k => server'[h][j] = mid[h][j]
    <3>1. server' = t
      BY <2>5 DEF t, state
    <3> QED BY <3>1, <2>t DEF state
  <2>7. mid[g][k] = server[g][k] /\ mid[g][k].version = 0
    BY <1>0, <2>3, <2>4
  <2>8. /\ server'[f][i].state = "absent" /\ server'[f][i].version = server[f][i].version + 1
        /\ server'[g][k].state # "absent" /\ server'[g][k].version = 1
        /\ \A h \in Folders, j \in Items :
              (h # f \/ j # i) /\ (h # g \/ j # k) => server'[h][j] = server[h][j]
    BY <1>0, <2>3, <2>4, <2>6, <2>7
  <2>9. ServerTyped'
    BY <1>0, <2>3, <2>6, <2>8 DEF ServerTyped, Fresh
  <2>10. ServerAdvances
    BY <1>0, <1>1, <2>3, <2>8, <2>9 DEF ServerAdvances, Contents
  <2>11. Announces
    <3> SUFFICES ASSUME NEW h \in Folders \ {f, g} PROVE server'[h] = server[h]
      BY <1>0, <2>2 DEF Announces, VisitsTyped
    <3>1. server'[h] \in [Items -> ItemState] /\ server[h] \in [Items -> ItemState]
      BY <1>0, <2>6 DEF ServerTyped
    <3>2. \A j \in Items : server'[h][j] = server[h][j]
      BY <2>8
    <3> QED BY <3>1, <3>2
  <2>12. MovedIsGone'
    <3>1. action'.folder = f /\ action'.item = i
      BY <1>0, <2>2 DEF ActionRecord
    <3> QED BY <2>3, <2>8, <3>1 DEF MovedIsGone
  <2> QED BY <2>2, <2>10, <2>11, <2>12
<1>2. CASE ~(i \in Contents(f) /\ Fresh(g) # {})
  <2>1. server' = server /\ news' = news /\ action' = NoAction
    BY <1>2 DEF MoveOnServer
  <2>2. ServerAdvances /\ Announces
    BY <1>0, <2>1 DEF ServerAdvances, Announces, ServerTyped, VisitsTyped, Fresh
  <2>3. MovedIsGone'
    BY <2>1 DEF MovedIsGone, NoAction
  <2> QED BY <2>1, <2>2, <2>3
<1> QED BY <1>1, <1>2

-----------------------------------------------------------------------------
(***************************************************************************)
(* The steps that do not complete a delta.                                 *)
(***************************************************************************)
\* What such a step leaves true of the copy and the links.
Carries ==
    /\ ServerAdvances /\ link' = link
    /\ \A f \in Folders :
         /\ Known(f)' \subseteq Known(f)
         /\ DOMAIN placed'[f] \subseteq DOMAIN placed[f] /\ excuses[f] \subseteq excuses'[f]
    /\ \A f \in Folders, i \in Items :
         server'[f][i] = server[f][i] /\ Accounted(f, i) => Accounted(f, i)'

LEMMA QuietServer ==
  ASSUME StateTyped, server' = server
  PROVE  ServerAdvances
BY DEF StateTyped, ServerAdvances, ServerTyped, Fresh

LEMMA CycleSet ==
  ASSUME CyclesTyped, NEW c \in Cyclists, NEW y \in CycleRecord,
         y.pc = "idle" <=> y.folder = None,
         cycle' = [cycle EXCEPT ![c] = y]
  PROVE  /\ CyclesTyped' /\ cycle'[c] = y
         /\ \A d \in Cyclists \ {c} : cycle'[d] = cycle[d]
BY DEF CyclesTyped

LEMMA KnownShrinks ==
  ASSUME StateTyped, link' = link,
         \A c \in Cyclists : cycle'[c].folder \in Folders /\ cycle'[c].base # None =>
             cycle'[c].base \in Known(cycle'[c].folder),
         action'.kind \in Moving => action'.base \in Known(action'.into) \cup {None}
  PROVE  \A f \in Folders : Known(f)' \subseteq Known(f)
BY DEF Known, Bases

LEMMA KnownOfCycle ==
  ASSUME StateTyped, NEW c \in Cyclists, cycle[c].folder \in Folders, cycle[c].base # None
  PROVE  cycle[c].base \in Known(cycle[c].folder)
BY DEF Known, Bases

LEMMA KnownOfAction ==
  ASSUME StateTyped, action.kind \in Moving
  PROVE  action.base \in Known(action.into) \cup {None}
BY DEF Known, Bases

LEMMA KnownOfLink ==
  ASSUME NEW f \in Folders
  PROVE  link[f] \in Known(f) \cup {None}
BY DEF Known

\* A round that is told nothing new.
SameRound(x, y) ==
    /\ x.pc = "idle" <=> y.pc = "idle"
    /\ y.folder = x.folder /\ y.base = x.base /\ y.told = x.told
    /\ y.changed = x.changed /\ y.removed = x.removed

LEMMA GathersOn ==
  ASSUME StateTyped, ServerAdvances, NEW c \in Cyclists, Gathers(c), SameRound(cycle[c], cycle'[c])
  PROVE  Gathers(c)'
<1> SUFFICES ASSUME cycle[c].pc # "idle", NEW i \in Items
             PROVE  LET y == cycle[c]
                        s == server'[y.folder][i]
                    IN  /\ Start(c)[i] <= y.told[i] /\ y.told[i] <= s.version
                        /\ y.told[i] = Start(c)[i] => i \notin DOMAIN y.changed \cup y.removed
                        /\ y.told[i] # Start(c)[i] /\ y.told[i] = s.version =>
                             IF s.state = "absent" THEN i \in y.removed
                             ELSE i \in DOMAIN y.changed /\ y.changed[i] = s.state
                        /\ i \in y.removed => s.state = "absent" /\ s.version > 0
  BY DEF Gathers, Start, SameRound
<1> DEFINE f == cycle[c].folder
<1>1. /\ f \in Folders /\ cycle[c].told[i] \in Nat
      /\ server[f][i].version \in Nat /\ server'[f][i].version \in Nat
  BY NoneIsNone DEF StateTyped, CyclesTyped, CycleRecord, Tolds, ServerAdvances, ServerTyped, ItemState
<1>2. CASE server'[f][i] = server[f][i]
  BY <1>2 DEF Gathers
<1>3. CASE server'[f][i] # server[f][i]
  <2>1. /\ server[f][i].version < server'[f][i].version
        /\ server[f][i].state # "absent" \/ server[f][i].version = 0
    BY <1>1, <1>3 DEF ServerAdvances
  <2>2. cycle[c].told[i] <= server[f][i].version /\ i \notin cycle[c].removed
    BY <1>1, <2>1 DEF Gathers
  <2> QED BY <1>1, <2>1, <2>2 DEF Gathers
<1> QED BY <1>2, <1>3

LEMMA GathersIdle ==
  ASSUME NEW c \in Cyclists, cycle'[c].pc = "idle"
  PROVE  Gathers(c)'
BY DEF Gathers

LEMMA GathersAfresh ==
  ASSUME StateTyped, KnownIsPast, server' = server, NEW c \in Cyclists, NEW f \in Folders,
         cycle'[c].folder = f, cycle'[c].told = Start(c)', DOMAIN cycle'[c].changed = {},
         cycle'[c].removed = {}, cycle'[c].told \in Known(f) \cup {Untold}
  PROVE  Gathers(c)'
<1>1. SUFFICES ASSUME NEW i \in Items
               PROVE  cycle'[c].told[i] <= server[f][i].version /\ cycle'[c].told[i] <= cycle'[c].told[i]
  BY DEF Gathers
<1>2. server[f][i].version \in Nat
  BY DEF StateTyped, ServerTyped, ItemState
<1>3. cycle'[c].told \in Tolds
  BY UntoldIs, KnownTyped
<1>4. cycle'[c].told[i] \in Nat
  BY <1>3 DEF Tolds
<1>5. cycle'[c].told[i] <= server[f][i].version
  BY <1>2, <1>4, UntoldIs DEF KnownIsPast
<1> QED BY <1>4, <1>5

LEMMA BegunGathers ==
  ASSUME StateTyped, KnownIsPast, server' = server, NEW c \in Cyclists, NEW f \in Folders,
         NEW b \in Known(f) \cup {None}, cycle'[c] = Begun(f, b)
  PROVE  Gathers(c)'
<1>1. b \in Tolds \cup {None}
  BY KnownTyped
<1>2. /\ cycle'[c].folder = f /\ cycle'[c].base = b /\ cycle'[c].told = Told(b)
      /\ DOMAIN cycle'[c].changed = {} /\ cycle'[c].removed = {}
  <2> DEFINE y == cycle'[c]
  <2>1. /\ y.folder = f /\ y.base = b /\ y.told = Told(b) /\ y.changed = <<>> /\ y.removed = {}
    BY DEF Begun, Resting
  <2> QED BY <2>1, EmptyCopy
<1>3. cycle'[c].told = Start(c)' /\ cycle'[c].told \in Known(f) \cup {Untold}
  BY <1>2 DEF Start, Told
<1> QED BY <1>2, <1>3, GathersAfresh

LEMMA MovedStaysGone ==
  ASSUME StateTyped, ServerAdvances, MovedIsGone,
         action' = action \/ action'.kind # "drop"
  PROVE  MovedIsGone'
<1> SUFFICES ASSUME action' = action, action.kind = "drop"
             PROVE  LET s == server'[action.folder][action.item] IN s.state = "absent" /\ s.version > 0
  BY DEF MovedIsGone
<1>1. action.folder \in Folders /\ action.item \in Items
  BY DEF StateTyped, ActionTyped
<1>2. server'[action.folder][action.item] = server[action.folder][action.item]
  BY <1>1 DEF MovedIsGone, ServerAdvances
<1> QED BY <1>2 DEF MovedIsGone

\* What a step that commits no round does.
Kept == StateTyped' /\ Carries /\ MovedIsGone' /\ \A c \in Cyclists : Gathers(c)'

\* A step of the server.
LEMMA ServerKept ==
  ASSUME IInv, ServerAdvances, Announces, UNCHANGED <<copy, todo, cycle>>,
         ActionTyped', MovedIsGone',
         action'.kind \in Moving => action'.base \in Known(action'.into) \cup {None},
         \A f \in Folders, i \in Items :
             server'[f][i] = server[f][i] /\ FlagPending(f, i) => FlagPending(f, i)'
  PROVE  Kept
<1>1. StateTyped /\ \A c \in Cyclists : Gathers(c)
  BY DEF IInv
<1>2. placed' = placed /\ link' = link /\ missed' = missed /\ excuses' = excuses /\ todo' = todo /\ cycle' = cycle
  BY DEF copy
<1>3. StateTyped'
  BY <1>1, <1>2 DEF StateTyped, ServerAdvances, Announces, CopyTyped, VisitsTyped, CyclesTyped
<1>4. \A c \in Cyclists : Gathers(c)'
  BY <1>1, <1>2, GathersOn DEF SameRound
<1>5. \A f \in Folders : Known(f)' \subseteq Known(f)
  <2>1. \A c \in Cyclists : cycle'[c].folder \in Folders /\ cycle'[c].base # None =>
             cycle'[c].base \in Known(cycle'[c].folder)
    BY <1>1, <1>2, KnownOfCycle
  <2> QED BY <1>1, <1>2, <2>1, KnownShrinks
<1>6. \A f \in Folders, i \in Items :
         server'[f][i] = server[f][i] /\ Accounted(f, i) => Accounted(f, i)'
  BY <1>2 DEF Accounted, Agrees, Contents
<1> QED BY <1>2, <1>3, <1>4, <1>5, <1>6 DEF Kept, Carries

\* A step of a cycle.
LEMMA CyclistKept ==
  ASSUME IInv, UNCHANGED <<server, placed, link, action, excuses>>,
         VisitsTyped', CyclesTyped',
         \A c \in Cyclists : cycle'[c].folder \in Folders /\ cycle'[c].base # None =>
             cycle'[c].base \in Known(cycle'[c].folder),
         \A c \in Cyclists : Gathers(c)'
  PROVE  Kept
<1>1. StateTyped /\ MovedIsGone
  BY DEF IInv
<1>2. StateTyped' /\ ServerAdvances
  BY <1>1, QuietServer DEF StateTyped, ServerAdvances, CopyTyped, ActionTyped
<1>3. MovedIsGone'
  BY <1>1, <1>2, MovedStaysGone
<1>4. \A f \in Folders : Known(f)' \subseteq Known(f)
  BY <1>1, KnownOfAction, KnownShrinks
<1>5. \A f \in Folders, i \in Items : Accounted(f, i) => Accounted(f, i)'
  BY DEF Accounted, Agrees, Contents, FlagPending
<1> QED BY <1>2, <1>3, <1>4, <1>5 DEF Kept, Carries

LEMMA VisitKept ==
  ASSUME IInv, NEW mentioned \in SUBSET Folders, VisitMentioned(mentioned)
  PROVE  Kept
<1>1. /\ StateTyped /\ VisitsTyped' /\ CyclesTyped' /\ ServerAdvances
      /\ UNCHANGED <<server, placed, link, action, excuses>> /\ cycle' = cycle
  BY QuietServer DEF IInv, StateTyped, VisitMentioned, VisitsTyped, CyclesTyped
<1>2. \A c \in Cyclists : Gathers(c)'
  BY <1>1, GathersOn DEF IInv, SameRound
<1>3. \A c \in Cyclists : cycle'[c].folder \in Folders /\ cycle'[c].base # None =>
             cycle'[c].base \in Known(cycle'[c].folder)
  BY <1>1, KnownOfCycle
<1> QED BY <1>1, <1>2, <1>3, CyclistKept

\* A cyclist sets out for a folder from a link that is stored or kept.
LEMMA SetsOut ==
  ASSUME IInv, server' = server, NEW c \in Cyclists, NEW f \in Folders,
         NEW b \in Known(f) \cup {None}, cycle' = [cycle EXCEPT ![c] = Begun(f, b)]
  PROVE  /\ CyclesTyped' /\ \A d \in Cyclists : Gathers(d)'
         /\ \A d \in Cyclists : cycle'[d].folder \in Folders /\ cycle'[d].base # None =>
               cycle'[d].base \in Known(cycle'[d].folder)
<1> DEFINE y == Begun(f, b)
<1>1. StateTyped /\ CyclesTyped /\ KnownIsPast /\ ServerAdvances /\ \A d \in Cyclists : Gathers(d)
  BY QuietServer DEF IInv, StateTyped
<1>2. b \in Tolds \cup {None}
  BY <1>1, KnownTyped
<1>3. y.pc = "delta" /\ y.folder = f /\ y.base = b
  BY DEF Begun, Resting
<1>4. y \in CycleRecord
  BY <1>2, BegunIs
<1> HIDE DEF y
<1>5. y.pc = "idle" <=> y.folder = None
  BY <1>3, NoneIsNone
<1>6. CyclesTyped' /\ cycle'[c] = y /\ \A d \in Cyclists \ {c} : cycle'[d] = cycle[d]
  <2>1. cycle' = [cycle EXCEPT ![c] = y]
    BY DEF y
  <2> QED BY <1>1, <1>4, <1>5, <2>1, CycleSet
<1>7. Gathers(c)'
  BY <1>1, <1>6, BegunGathers DEF y
<1>8. \A d \in Cyclists \ {c} : Gathers(d)'
  BY <1>1, <1>6, GathersOn DEF SameRound
<1>9. \A d \in Cyclists \ {c} : cycle'[d].folder \in Folders /\ cycle'[d].base # None =>
               cycle'[d].base \in Known(cycle'[d].folder)
  BY <1>1, <1>6, KnownOfCycle
<1>10. cycle'[c].folder = f /\ (cycle'[c].base # None => cycle'[c].base \in Known(f))
  BY <1>3, <1>6
<1> QED BY <1>6, <1>7, <1>8, <1>9, <1>10

LEMMA BeginKept ==
  ASSUME IInv, NEW f \in Folders, BeginFolder(f)
  PROVE  Kept
<1>1. /\ cycle' = [cycle EXCEPT !["worker"] = Begun(f, link[f])]
      /\ UNCHANGED <<server, placed, link, action, excuses>> /\ VisitsTyped'
  BY DEF BeginFolder, copy, IInv, StateTyped, VisitsTyped
<1>2. "worker" \in Cyclists /\ link[f] \in Known(f) \cup {None}
  BY KnownOfLink DEF Cyclists
<1>3. /\ CyclesTyped' /\ \A d \in Cyclists : Gathers(d)'
      /\ \A d \in Cyclists : cycle'[d].folder \in Folders /\ cycle'[d].base # None =>
            cycle'[d].base \in Known(cycle'[d].folder)
  BY <1>1, <1>2, SetsOut
<1> QED BY <1>1, <1>3, CyclistKept

\* A cyclist comes to rest.
LEMMA Rests ==
  ASSUME IInv, server' = server, NEW c \in Cyclists, cycle' = [cycle EXCEPT ![c] = Resting]
  PROVE  /\ CyclesTyped' /\ \A d \in Cyclists : Gathers(d)'
         /\ \A d \in Cyclists : cycle'[d].folder \in Folders /\ cycle'[d].base # None =>
               cycle'[d].base \in Known(cycle'[d].folder)
<1>1. StateTyped /\ CyclesTyped /\ ServerAdvances /\ \A d \in Cyclists : Gathers(d)
  BY QuietServer DEF IInv, StateTyped
<1>2. CyclesTyped' /\ cycle'[c] = Resting /\ \A d \in Cyclists \ {c} : cycle'[d] = cycle[d]
  BY <1>1, RestingIs, CycleSet
<1>3. Gathers(c)'
  BY <1>2, RestingIs, GathersIdle
<1>4. \A d \in Cyclists \ {c} : Gathers(d)'
  BY <1>1, <1>2, GathersOn DEF SameRound
<1>5. \A d \in Cyclists \ {c} : cycle'[d].folder \in Folders /\ cycle'[d].base # None =>
               cycle'[d].base \in Known(cycle'[d].folder)
  BY <1>1, <1>2, KnownOfCycle
<1> QED BY <1>2, <1>3, <1>4, <1>5, RestingIs, NoneIsNone

LEMMA LeaveKept ==
  ASSUME IInv, NEW c \in Cyclists, NEW left \in SUBSET Folders, Leave(c, left),
         todo' \subseteq Folders
  PROVE  Kept
<1>1. UNCHANGED <<server, placed, link, action, excuses>> /\ VisitsTyped'
  BY DEF Leave, IInv, StateTyped, VisitsTyped
<1>2. cycle' = [cycle EXCEPT ![c] = Resting]
  BY DEF Leave
<1> QED BY <1>1, <1>2, Rests, CyclistKept

LEMMA EndsKept ==
  ASSUME IInv, NEW c \in Cyclists, Reject(c) \/ FailFolder(c)
  PROVE  Kept
<1>1. cycle[c].folder \in Folders
  BY NoneIsNone DEF Reject, FailFolder, IInv, StateTyped, CyclesTyped, CycleRecord
<1>2. Leave(c, {cycle[c].folder}) /\ todo' = todo
  BY DEF Reject, FailFolder
<1> QED BY <1>1, <1>2, LeaveKept DEF IInv, StateTyped, VisitsTyped

LEMMA GiveUpKept ==
  ASSUME IInv, GiveUp
  PROVE  Kept
<1>1. "worker" \in Cyclists
  BY DEF Cyclists
<1>2. todo \cup ({cycle["worker"].folder} \ {None}) \subseteq Folders
  BY <1>1 DEF IInv, StateTyped, CyclesTyped, CycleRecord, VisitsTyped
<1>3. Leave("worker", todo \cup ({cycle["worker"].folder} \ {None})) /\ todo' = {}
  BY DEF GiveUp
<1> QED BY <1>1, <1>2, <1>3, LeaveKept

LEMMA ExpireKept ==
  ASSUME IInv, NEW c \in Cyclists, Expire(c)
  PROVE  Kept
<1> DEFINE f == cycle[c].folder
<1>1. /\ StateTyped /\ KnownIsPast /\ ServerAdvances /\ \A d \in Cyclists : Gathers(d)
      /\ UNCHANGED <<server, placed, link, action, excuses>> /\ VisitsTyped'
  BY QuietServer DEF Expire, copy, IInv, StateTyped, VisitsTyped
<1>2. /\ f \in Folders /\ cycle'[c].pc = "delta" /\ cycle'[c].folder = f /\ cycle'[c].base = None
      /\ cycle'[c].told = Untold /\ DOMAIN cycle'[c].changed = {} /\ cycle'[c].removed = {}
      /\ cycle' \in [Cyclists -> CycleRecord] /\ \A d \in Cyclists \ {c} : cycle'[d] = cycle[d]
  BY <1>1, ExpireIs
<1>3. CyclesTyped'
  BY <1>1, <1>2, NoneIsNone DEF StateTyped, CyclesTyped
<1>4. Gathers(c)'
  BY <1>1, <1>2, GathersAfresh DEF Start, Told
<1>5. \A d \in Cyclists \ {c} : Gathers(d)'
  BY <1>1, <1>2, GathersOn DEF SameRound
<1>6. \A d \in Cyclists : cycle'[d].folder \in Folders /\ cycle'[d].base # None =>
               cycle'[d].base \in Known(cycle'[d].folder)
  BY <1>1, <1>2, KnownOfCycle
<1> QED BY <1>1, <1>3, <1>4, <1>5, <1>6, CyclistKept

\* A page leaves its delta with what it has been told.
LEMMA PageGathers ==
  ASSUME IInv, NEW c \in Cyclists, Page(c)
  PROVE  Gathers(c)'
<1> DEFINE f == cycle[c].folder
           x == cycle[c]
           y == cycle'[c]
<1>1. StateTyped /\ Gathers(c) /\ server' = server
  BY DEF IInv, Page
<1>2. PICK some \in SUBSET Due(f, x.told) :
        LET here == Listed(f, some)
        IN  /\ y \in CycleRecord
            /\ y.pc = "delta" /\ y.folder = f /\ y.base = x.base
            /\ \A i \in Items : y.told[i] = IF i \in some THEN server[f][i].version ELSE x.told[i]
            /\ DOMAIN y.changed = DOMAIN x.changed \cup here
            /\ \A i \in DOMAIN y.changed :
                  y.changed[i] = IF i \in here THEN server[f][i].state ELSE x.changed[i]
            /\ y.removed = x.removed \cup (some \ here)
  BY <1>1, PageIs
<1>3. x.pc = "delta" /\ f \in Folders /\ x \in CycleRecord
  BY <1>1, PageIs DEF StateTyped, CyclesTyped
<1>4. Start(c)' = Start(c)
  BY <1>2 DEF Start
<1> DEFINE t == Start(c)
           s == server[f]
<1>5. ASSUME NEW i \in Items
      PROVE  /\ t[i] <= y.told[i] /\ y.told[i] <= s[i].version
             /\ y.told[i] = t[i] => i \notin DOMAIN y.changed \cup y.removed
             /\ y.told[i] # t[i] /\ y.told[i] = s[i].version =>
                  IF s[i].state = "absent" THEN i \in y.removed
                  ELSE i \in DOMAIN y.changed /\ y.changed[i] = s[i].state
             /\ i \in y.removed => s[i].state = "absent" /\ s[i].version > 0
  <2>1. /\ t[i] <= x.told[i] /\ x.told[i] <= s[i].version
        /\ x.told[i] = t[i] => i \notin DOMAIN x.changed \cup x.removed
        /\ x.told[i] # t[i] /\ x.told[i] = s[i].version =>
             IF s[i].state = "absent" THEN i \in x.removed
             ELSE i \in DOMAIN x.changed /\ x.changed[i] = s[i].state
        /\ i \in x.removed => s[i].state = "absent" /\ s[i].version > 0
    BY <1>1, <1>3 DEF Gathers
  <2>2. x.told[i] \in Nat /\ s[i].version \in Nat
    BY <1>1, <1>3 DEF CycleRecord, Tolds, StateTyped, ServerTyped, ItemState
  <2>3. t[i] \in Nat
    <3>1. t \in Tolds
      BY <1>1, <1>3, UntoldIs DEF Start, Told, StateTyped, CyclesTyped, CycleRecord
    <3> QED BY <3>1 DEF Tolds
  <2> HIDE DEF t, x, y, s
  <2>4. CASE i \in some
    <3>1. x.told[i] # s[i].version /\ y.told[i] = s[i].version
      BY <1>2, <2>4 DEF Due, s, x
    <3>2. x.told[i] < s[i].version
      BY <2>1, <2>2, <3>1
    <3>3. t[i] <= y.told[i] /\ y.told[i] <= s[i].version /\ y.told[i] # t[i] /\ s[i].version > 0
      BY <2>1, <2>2, <2>3, <3>1, <3>2
    <3>4. i \in Listed(f, some) <=> s[i].state # "absent"
      BY <2>4 DEF Listed, Contents, s
    <3>5. CASE s[i].state = "absent"
      <4>1. i \in y.removed
        BY <1>2, <2>4, <3>4, <3>5
      <4> QED BY <3>3, <3>5, <4>1
    <3>6. CASE s[i].state # "absent"
      <4>1. i \in DOMAIN y.changed /\ y.changed[i] = s[i].state
        BY <1>2, <3>4, <3>6 DEF s
      <4>2. i \notin y.removed
        BY <1>2, <2>1, <3>4, <3>6
      <4> QED BY <3>3, <3>6, <4>1, <4>2
    <3> QED BY <3>5, <3>6
  <2>5. CASE i \notin some
    <3>1. y.told[i] = x.told[i] /\ i \notin Listed(f, some)
      BY <1>2, <2>5 DEF Listed
    <3>2. /\ i \in DOMAIN y.changed <=> i \in DOMAIN x.changed
          /\ i \in y.removed <=> i \in x.removed
      BY <1>2, <2>5, <3>1
    <3>3. i \in DOMAIN y.changed => y.changed[i] = x.changed[i]
      BY <1>2, <3>1
    <3> QED BY <2>1, <3>1, <3>2, <3>3
  <2> QED BY <2>4, <2>5
<1>6. y.folder = f /\ server'[f] = s
  BY <1>1, <1>2
<1> HIDE DEF t, y, s
<1> QED BY <1>4, <1>5, <1>6 DEF Gathers, t, y, s

LEMMA PageKept ==
  ASSUME IInv, NEW c \in Cyclists, Page(c)
  PROVE  Kept
<1>1. /\ StateTyped /\ ServerAdvances /\ \A d \in Cyclists : Gathers(d)
      /\ UNCHANGED <<server, placed, link, action, excuses>> /\ VisitsTyped'
  BY QuietServer DEF Page, copy, IInv, StateTyped, VisitsTyped
<1>2. /\ cycle[c].pc = "delta" /\ cycle[c].folder \in Folders
      /\ cycle'[c].pc = "delta" /\ cycle'[c].folder = cycle[c].folder
      /\ cycle'[c].base = cycle[c].base
      /\ cycle' \in [Cyclists -> CycleRecord] /\ \A d \in Cyclists \ {c} : cycle'[d] = cycle[d]
  BY <1>1, PageIs
<1>3. CyclesTyped'
  BY <1>1, <1>2 DEF StateTyped, CyclesTyped
<1>4. \A d \in Cyclists : Gathers(d)'
  BY <1>1, <1>2, GathersOn, PageGathers DEF SameRound
<1>5. \A d \in Cyclists : cycle'[d].folder \in Folders /\ cycle'[d].base # None =>
               cycle'[d].base \in Known(cycle'[d].folder)
  BY <1>1, <1>2, KnownOfCycle
<1> QED BY <1>1, <1>3, <1>4, <1>5, CyclistKept

LEMMA LastPageIs ==
  ASSUME StateTyped, NEW c \in Cyclists, LastPage(c)
  PROVE  /\ CyclesTyped' /\ SameRound(cycle[c], cycle'[c])
         /\ \A d \in Cyclists \ {c} : cycle'[d] = cycle[d]
<1> DEFINE y == [cycle[c] EXCEPT !.pc = "done"]
<1>1. CyclesTyped /\ cycle[c] \in CycleRecord /\ cycle[c].pc = "delta"
  BY DEF StateTyped, CyclesTyped, LastPage
<1>2. /\ y \in CycleRecord /\ y.pc = "done" /\ SameRound(cycle[c], y)
      /\ y.folder = cycle[c].folder
  BY <1>1 DEF CycleRecord, SameRound
<1>3. y.folder # None
  BY <1>1, <1>2 DEF CyclesTyped
<1>4. cycle' = [cycle EXCEPT ![c] = y]
  BY DEF LastPage
<1> HIDE DEF y
<1>5. CyclesTyped' /\ cycle'[c] = y /\ \A d \in Cyclists \ {c} : cycle'[d] = cycle[d]
  BY <1>1, <1>2, <1>3, <1>4, CycleSet
<1> QED BY <1>2, <1>5

LEMMA LastPageKept ==
  ASSUME IInv, NEW c \in Cyclists, LastPage(c)
  PROVE  Kept
<1>1. /\ StateTyped /\ ServerAdvances /\ \A d \in Cyclists : Gathers(d)
      /\ UNCHANGED <<server, placed, link, action, excuses>> /\ VisitsTyped'
  BY QuietServer DEF LastPage, copy, IInv, StateTyped, VisitsTyped
<1>2. CyclesTyped' /\ \A d \in Cyclists : SameRound(cycle[d], cycle'[d])
  BY <1>1, LastPageIs DEF SameRound
<1>3. \A d \in Cyclists : Gathers(d)'
  BY <1>1, <1>2, GathersOn
<1>4. \A d \in Cyclists : cycle'[d].folder \in Folders /\ cycle'[d].base # None =>
               cycle'[d].base \in Known(cycle'[d].folder)
  BY <1>1, <1>2, KnownOfCycle DEF SameRound
<1> QED BY <1>1, <1>2, <1>3, <1>4, CyclistKept

LEMMA OthersKept ==
  ASSUME IInv, OthersChange
  PROVE  Kept
<1>1. /\ StateTyped /\ MovedIsGone /\ ActionTyped
      /\ UNCHANGED <<copy, todo, cycle>> /\ action' = action
  BY DEF IInv, StateTyped, OthersChange
<1>2. ServerAdvances /\ Announces
  BY <1>1, OthersAdvance
<1>3. MovedIsGone' /\ ActionTyped'
  BY <1>1, <1>2, MovedStaysGone DEF ActionTyped
<1>4. \A f \in Folders, i \in Items :
         server'[f][i] = server[f][i] /\ FlagPending(f, i) => FlagPending(f, i)'
  BY <1>1 DEF FlagPending, Contents
<1> QED BY <1>1, <1>2, <1>3, <1>4, KnownOfAction, ServerKept

LEMMA NoActionIs ==
  /\ NoAction \in ActionRecord /\ NoAction.kind = "none"
  /\ action' = NoAction => ActionTyped' /\ MovedIsGone'
<1>1. NoAction \in ActionRecord /\ NoAction.kind = "none"
  BY DEF NoAction, ActionRecord, Kinds
<1> QED BY <1>1 DEF ActionTyped, MovedIsGone, Moving

LEMMA SendKept ==
  ASSUME IInv, SendFlag
  PROVE  Kept
<1>1. StateTyped /\ UNCHANGED <<copy, todo, cycle>> /\ action' = NoAction
  BY DEF IInv, SendFlag
<1>2. /\ ServerAdvances /\ Announces
      /\ FlagPending(action.folder, action.item) =>
           server'[action.folder][action.item].version > server[action.folder][action.item].version
  BY <1>1, SendAdvances
<1>3. ActionTyped' /\ MovedIsGone' /\ action'.kind \notin Moving
  BY <1>1, NoActionIs DEF Moving
<1>4. ASSUME NEW f \in Folders, NEW i \in Items, server'[f][i] = server[f][i], FlagPending(f, i)
      PROVE  FALSE
  <2>1. action.folder = f /\ action.item = i /\ server[f][i].version \in Nat
    BY <1>1, <1>4 DEF FlagPending, StateTyped, ServerTyped, ItemState
  <2> QED BY <1>2, <1>4, <2>1
<1> QED BY <1>1, <1>2, <1>3, <1>4, ServerKept

LEMMA MoveKept ==
  ASSUME IInv, MoveOnServer
  PROVE  Kept
<1>1. StateTyped /\ UNCHANGED <<copy, todo, cycle>> /\ action.kind = "move" /\ action \in ActionRecord
  BY DEF IInv, StateTyped, ActionTyped, MoveOnServer
<1>2. /\ ServerAdvances /\ Announces /\ MovedIsGone'
      /\ action' = NoAction \/ action' = [action EXCEPT !.kind = "drop"]
  BY <1>1, MoveAdvances
<1>3. ASSUME action' = [action EXCEPT !.kind = "drop"]
      PROVE  /\ action' \in ActionRecord /\ action'.kind = "drop" /\ action'.folder = action.folder
             /\ action'.item = action.item /\ action'.into = action.into /\ action'.base = action.base
  BY <1>1, <1>3 DEF ActionRecord, Kinds, Moving
<1>4. ActionTyped'
  <2>1. CASE action' = NoAction
    BY <2>1, NoActionIs
  <2>2. CASE action' = [action EXCEPT !.kind = "drop"]
    BY <1>1, <1>3, <2>2 DEF StateTyped, ActionTyped, Moving
  <2> QED BY <1>2, <2>1, <2>2
<1>5. action'.kind \in Moving => action'.base \in Known(action'.into) \cup {None}
  <2>1. CASE action' = NoAction
    BY <2>1, NoActionIs DEF Moving
  <2>2. CASE action' = [action EXCEPT !.kind = "drop"]
    BY <1>1, <1>3, <2>2, KnownOfAction DEF Moving
  <2> QED BY <1>2, <2>1, <2>2
<1>6. \A f \in Folders, i \in Items : ~FlagPending(f, i)
  BY <1>1 DEF FlagPending
<1> QED BY <1>1, <1>2, <1>4, <1>5, <1>6, ServerKept

\* A step of the user's action that does not reach the server.
LEMMA LocalKept ==
  ASSUME IInv, server' = server, link' = link, CopyTyped', VisitsTyped', ActionTyped', MovedIsGone',
         CyclesTyped', \A c \in Cyclists : Gathers(c)',
         \A c \in Cyclists : cycle'[c].folder \in Folders /\ cycle'[c].base # None =>
             cycle'[c].base \in Known(cycle'[c].folder),
         action'.kind \in Moving => action'.base \in Known(action'.into) \cup {None},
         \A f \in Folders :
             DOMAIN placed'[f] \subseteq DOMAIN placed[f] /\ excuses[f] \subseteq excuses'[f],
         \A f \in Folders, i \in Items : Accounted(f, i) => Accounted(f, i)'
  PROVE  Kept
<1>1. StateTyped /\ ServerAdvances
  BY QuietServer DEF IInv
<1>2. StateTyped'
  BY <1>1 DEF StateTyped, ServerAdvances
<1>3. \A f \in Folders : Known(f)' \subseteq Known(f)
  BY <1>1, KnownShrinks
<1> QED BY <1>1, <1>2, <1>3 DEF Kept, Carries

\* Cycles that nobody touches.
LEMMA CyclesRest ==
  ASSUME IInv, server' = server, cycle' = cycle
  PROVE  /\ CyclesTyped' /\ \A c \in Cyclists : Gathers(c)'
         /\ \A c \in Cyclists : cycle'[c].folder \in Folders /\ cycle'[c].base # None =>
               cycle'[c].base \in Known(cycle'[c].folder)
<1>1. StateTyped /\ CyclesTyped /\ ServerAdvances /\ \A d \in Cyclists : Gathers(d)
  BY QuietServer DEF IInv, StateTyped
<1> QED BY <1>1, GathersOn, KnownOfCycle DEF CyclesTyped, SameRound

LEMMA SetFlagKept ==
  ASSUME IInv, NEW f \in Folders, NEW i \in Items, SetFlag(f, i)
  PROVE  Kept
<1> DEFINE into == Opposite(placed[f][i])
<1>1. /\ StateTyped /\ server' = server /\ link' = link /\ cycle' = cycle /\ excuses' = excuses
      /\ todo' = todo /\ missed' = missed /\ news' = news
      /\ placed' = [placed EXCEPT ![f][i] = into] /\ action.kind = "none"
      /\ action' = [NoAction EXCEPT !.kind = "flag", !.folder = f, !.item = i, !.into = into]
      /\ i \in DOMAIN placed[f]
  BY DEF IInv, SetFlag
<1>2. /\ placed \in [Folders -> Copies] /\ into \in {"read", "unread"} /\ placed[f][i] # into
  <2>1. placed \in [Folders -> Copies]
    BY <1>1 DEF StateTyped, CopyTyped
  <2>2. placed[f][i] \in {"read", "unread"}
    BY <1>1, <2>1, CopyIs
  <2> QED BY <2>1, <2>2 DEF Opposite
<1> DEFINE p == [placed[f] EXCEPT ![i] = into]
<1>3. placed' = [placed EXCEPT ![f] = p] /\ p \in Copies /\ DOMAIN p = DOMAIN placed[f] /\ p[i] = into
      /\ \A k \in DOMAIN placed[f] \ {i} : p[k] = placed[f][k]
  <2> HIDE DEF into
  <2>1. placed' = [placed EXCEPT ![f] = p]
    BY <1>1, <1>2
  <2>2. placed[f] \in Copies
    BY <1>2
  <2>3. DOMAIN placed[f] \subseteq Items /\ placed[f] \in [DOMAIN placed[f] -> {"read", "unread"}]
    BY <2>2, CopyIs
  <2>4. p \in [DOMAIN placed[f] -> {"read", "unread"}]
    BY <1>2, <2>3
  <2>5. p \in Copies
    BY <2>3, <2>4, CopyOf
  <2> QED BY <1>1, <2>1, <2>3, <2>4, <2>5
<1> HIDE DEF p, into
<1>4. placed' \in [Folders -> Copies] /\ placed'[f] = p /\ \A g \in Folders \ {f} : placed'[g] = placed[g]
  BY <1>2, <1>3
<1>5. CopyTyped' /\ VisitsTyped'
  BY <1>1, <1>4 DEF StateTyped, CopyTyped, VisitsTyped
<1>6. /\ action' \in ActionRecord /\ action'.kind = "flag" /\ action'.folder = f
      /\ action'.item = i /\ action'.into = into
  BY <1>1, <1>2 DEF NoAction, ActionRecord, Kinds
<1>7. ActionTyped' /\ MovedIsGone' /\ action'.kind \notin Moving
  BY <1>2, <1>6 DEF ActionTyped, MovedIsGone, Moving
<1>8. \A g \in Folders :
         DOMAIN placed'[g] \subseteq DOMAIN placed[g] /\ excuses[g] \subseteq excuses'[g]
  BY <1>1, <1>3, <1>4
<1>9. ASSUME NEW g \in Folders, NEW k \in Items, Accounted(g, k)
      PROVE  Accounted(g, k)'
  <2>1. ~FlagPending(g, k)
    BY <1>1 DEF FlagPending
  <2>2. CASE excuses[g] # {}
    BY <1>1, <2>2 DEF Accounted
  <2>3. CASE Agrees(g, k) /\ (g # f \/ k # i)
    BY <1>1, <1>3, <1>4, <2>3 DEF Accounted, Agrees, Contents
  <2>4. CASE Agrees(g, k) /\ g = f /\ k = i
    BY <1>1, <1>2, <1>6, <2>4 DEF Accounted, Agrees, Contents, FlagPending
  <2> QED BY <1>9, <2>1, <2>2, <2>3, <2>4 DEF Accounted
<1> QED BY <1>1, <1>5, <1>7, <1>8, <1>9, CyclesRest, LocalKept

\* As long as the copy is left alone, what it accounts for stays accounted for.
LEMMA AccountKept ==
  ASSUME UNCHANGED <<server, placed, excuses>>, action.kind # "flag"
  PROVE  /\ \A f \in Folders, i \in Items : Accounted(f, i) => Accounted(f, i)'
         /\ \A f \in Folders :
               DOMAIN placed'[f] \subseteq DOMAIN placed[f] /\ excuses[f] \subseteq excuses'[f]
BY DEF Accounted, Agrees, Contents, FlagPending

LEMMA BeginMoveKept ==
  ASSUME IInv, NEW f \in Folders, NEW g \in Folders, NEW i \in Items, BeginMove(f, i, g)
  PROVE  Kept
<1>1. /\ StateTyped /\ server' = server /\ cycle' = cycle /\ news' = news /\ todo' = todo
      /\ UNCHANGED copy /\ action.kind = "none" /\ g # f
      /\ action' = [kind |-> "move", folder |-> f, item |-> i, into |-> g, base |-> link[g]]
  BY DEF IInv, BeginMove
<1>2. /\ placed' = placed /\ link' = link /\ missed' = missed /\ excuses' = excuses
      /\ link[g] \in Tolds \cup {None}
  BY <1>1 DEF copy, StateTyped, CopyTyped
<1>3. /\ action'.kind = "move" /\ action'.into = g /\ action'.base = link[g]
      /\ action'.folder = f /\ action'.item = i /\ action' \in ActionRecord
  BY <1>1, <1>2 DEF ActionRecord, Kinds, Moving
<1>4. ActionTyped' /\ MovedIsGone' /\ CopyTyped' /\ VisitsTyped'
  BY <1>1, <1>2, <1>3 DEF ActionTyped, MovedIsGone, StateTyped, CopyTyped, VisitsTyped
<1>5. action'.base \in Known(action'.into) \cup {None}
  BY <1>3, KnownOfLink
<1> QED BY <1>1, <1>2, <1>4, <1>5, CyclesRest, AccountKept, LocalKept

LEMMA DropKept ==
  ASSUME IInv, DropPlacement
  PROVE  Kept
<1> DEFINE f == action.folder
           k == action.item
           p == [j \in DOMAIN placed[f] \ {k} |-> placed[f][j]]
<1>1. /\ StateTyped /\ server' = server /\ cycle' = cycle /\ news' = news /\ todo' = todo
      /\ link' = link /\ missed' = missed /\ excuses' = excuses /\ action.kind = "drop"
      /\ action' = [action EXCEPT !.kind = "source"]
      /\ placed' = [placed EXCEPT ![f] = p]
  BY DEF IInv, DropPlacement
<1>2. f \in Folders /\ k \in Items /\ placed \in [Folders -> Copies] /\ action \in ActionRecord
  BY <1>1 DEF StateTyped, ActionTyped, CopyTyped
<1>3. server[f][k].state = "absent"
  BY <1>1 DEF IInv, MovedIsGone
<1>4. p \in Copies /\ DOMAIN p = DOMAIN placed[f] \ {k} /\ \A j \in DOMAIN p : p[j] = placed[f][j]
  <2>1. DOMAIN placed[f] \subseteq Items /\ \A j \in DOMAIN placed[f] : placed[f][j] \in {"read", "unread"}
    BY <1>2, CopyIs
  <2>2. p \in [DOMAIN placed[f] \ {k} -> {"read", "unread"}]
    BY <2>1
  <2> QED BY <2>1, <2>2, CopyOf
<1> HIDE DEF p
<1>5. placed' \in [Folders -> Copies] /\ placed'[f] = p /\ \A g \in Folders \ {f} : placed'[g] = placed[g]
  BY <1>1, <1>2, <1>4
<1>6. /\ action' \in ActionRecord /\ action'.kind = "source" /\ action'.folder = f
      /\ action'.item = k /\ action'.into = action.into /\ action'.base = action.base
  BY <1>1, <1>2 DEF ActionRecord, Kinds, Moving
<1>7. ActionTyped' /\ MovedIsGone' /\ CopyTyped' /\ VisitsTyped'
  BY <1>1, <1>5, <1>6 DEF StateTyped, ActionTyped, MovedIsGone, CopyTyped, VisitsTyped, Moving
<1>8. action'.base \in Known(action'.into) \cup {None}
  BY <1>1, <1>6, KnownOfAction DEF Moving
<1>9. \A g \in Folders :
         DOMAIN placed'[g] \subseteq DOMAIN placed[g] /\ excuses[g] \subseteq excuses'[g]
  BY <1>1, <1>4, <1>5
<1>10. ASSUME NEW g \in Folders, NEW j \in Items, Accounted(g, j)
       PROVE  Accounted(g, j)'
  <2>1. ~FlagPending(g, j)
    BY <1>1 DEF FlagPending
  <2>2. CASE excuses[g] # {}
    BY <1>1, <2>2 DEF Accounted
  <2>3. CASE Agrees(g, j) /\ (g # f \/ j # k)
    BY <1>1, <1>4, <1>5, <2>3 DEF Accounted, Agrees, Contents
  <2>4. CASE g = f /\ j = k
    BY <1>1, <1>3, <1>4, <1>5, <2>4 DEF Accounted, Agrees, Contents
  <2> QED BY <1>10, <2>1, <2>2, <2>3, <2>4 DEF Accounted
<1> QED BY <1>1, <1>7, <1>8, <1>9, <1>10, CyclesRest, LocalKept

LEMMA SourceKept ==
  ASSUME IInv, ResyncSource
  PROVE  Kept
<1>1. /\ StateTyped /\ server' = server /\ UNCHANGED copy /\ news' = news /\ todo' = todo
      /\ cycle' = [cycle EXCEPT !["api"] = Begun(action.folder, link[action.folder])]
      /\ action' = [action EXCEPT !.kind = "target"] /\ action.kind = "source"
  BY DEF IInv, ResyncSource
<1>2. placed' = placed /\ link' = link /\ missed' = missed /\ excuses' = excuses
  BY <1>1 DEF copy
<1>3. action.folder \in Folders /\ action \in ActionRecord
  BY <1>1 DEF StateTyped, ActionTyped
<1>4. /\ action' \in ActionRecord /\ action'.kind = "target" /\ action'.folder = action.folder
      /\ action'.item = action.item /\ action'.into = action.into /\ action'.base = action.base
  BY <1>1, <1>3 DEF ActionRecord, Kinds, Moving
<1>5. ActionTyped' /\ MovedIsGone' /\ CopyTyped' /\ VisitsTyped'
  BY <1>1, <1>2, <1>4 DEF StateTyped, ActionTyped, MovedIsGone, CopyTyped, VisitsTyped, Moving
<1>6. action'.base \in Known(action'.into) \cup {None}
  BY <1>1, <1>4, KnownOfAction DEF Moving
<1>7. /\ CyclesTyped' /\ \A d \in Cyclists : Gathers(d)'
      /\ \A d \in Cyclists : cycle'[d].folder \in Folders /\ cycle'[d].base # None =>
            cycle'[d].base \in Known(cycle'[d].folder)
  <2>1. "api" \in Cyclists /\ link[action.folder] \in Known(action.folder) \cup {None}
    BY <1>3, KnownOfLink DEF Cyclists
  <2> QED BY <1>1, <1>3, <2>1, SetsOut
<1> QED BY <1>1, <1>2, <1>5, <1>6, <1>7, AccountKept, LocalKept

LEMMA TargetKept ==
  ASSUME IInv, ResyncTarget
  PROVE  Kept
<1>1. /\ StateTyped /\ server' = server /\ UNCHANGED copy /\ news' = news /\ todo' = todo
      /\ cycle' = [cycle EXCEPT !["api"] = Begun(action.into, action.base)]
      /\ action' = NoAction /\ action.kind = "target"
  BY DEF IInv, ResyncTarget
<1>2. placed' = placed /\ link' = link /\ missed' = missed /\ excuses' = excuses
  BY <1>1 DEF copy
<1>3. action.into \in Folders
  BY <1>1 DEF StateTyped, ActionTyped, Moving
<1>4. /\ ActionTyped' /\ MovedIsGone' /\ CopyTyped' /\ VisitsTyped' /\ action'.kind \notin Moving
  BY <1>1, <1>2, NoActionIs DEF StateTyped, CopyTyped, VisitsTyped, Moving
<1>5. /\ CyclesTyped' /\ \A d \in Cyclists : Gathers(d)'
      /\ \A d \in Cyclists : cycle'[d].folder \in Folders /\ cycle'[d].base # None =>
            cycle'[d].base \in Known(cycle'[d].folder)
  <2>1. "api" \in Cyclists /\ action.base \in Known(action.into) \cup {None}
    BY <1>1, KnownOfAction DEF Cyclists, Moving
  <2> QED BY <1>1, <1>3, <2>1, SetsOut
<1> QED BY <1>1, <1>2, <1>4, <1>5, AccountKept, LocalKept

LEMMA ActionFailsKept ==
  ASSUME IInv, ActionFails
  PROVE  Kept
<1> DEFINE f == action.folder
<1>1. /\ StateTyped /\ server' = server /\ placed' = placed /\ link' = link /\ news' = news
      /\ todo' = todo /\ missed' = missed /\ action' = NoAction /\ action.kind # "none"
      /\ cycle' = [cycle EXCEPT !["api"] = Resting]
      /\ IF action.kind = "flag" THEN excuses' = [excuses EXCEPT ![f] = @ \cup {"unsent"}]
         ELSE excuses' = excuses
  BY DEF IInv, ActionFails, Excuse
<1>2. f \in Folders /\ excuses \in [Folders -> SUBSET Reasons]
  BY <1>1 DEF StateTyped, ActionTyped, CopyTyped
<1>3. /\ \A g \in Folders : excuses[g] \subseteq excuses'[g]
      /\ excuses' \in [Folders -> SUBSET Reasons]
      /\ action.kind = "flag" => excuses'[f] # {}
  BY <1>1, <1>2 DEF Reasons
<1>4. ActionTyped' /\ MovedIsGone' /\ CopyTyped' /\ VisitsTyped' /\ action'.kind \notin Moving
  BY <1>1, <1>3, NoActionIs DEF StateTyped, CopyTyped, VisitsTyped, Moving
<1>5. /\ CyclesTyped' /\ \A d \in Cyclists : Gathers(d)'
      /\ \A d \in Cyclists : cycle'[d].folder \in Folders /\ cycle'[d].base # None =>
            cycle'[d].base \in Known(cycle'[d].folder)
  <2>1. "api" \in Cyclists
    BY DEF Cyclists
  <2> QED BY <1>1, <2>1, Rests
<1>6. ASSUME NEW g \in Folders, NEW i \in Items, Accounted(g, i)
      PROVE  Accounted(g, i)'
  BY <1>1, <1>3, <1>6 DEF Accounted, Agrees, Contents, FlagPending
<1>7. \A g \in Folders :
         DOMAIN placed'[g] \subseteq DOMAIN placed[g] /\ excuses[g] \subseteq excuses'[g]
  BY <1>1, <1>3
<1> QED BY <1>1, <1>4, <1>5, <1>6, <1>7, LocalKept

-----------------------------------------------------------------------------
(***************************************************************************)
(* The step that commits a round.                                          *)
(***************************************************************************)
LEMMA AppliedIs ==
  ASSUME NEW old \in Copies, NEW y \in CycleRecord, NEW late
  PROVE  LET new == Applied(old, y, late)
         IN  /\ new \in Copies
             /\ DOMAIN new = (DOMAIN old \cup DOMAIN y.changed) \ (Gone(old, y) \ late)
             /\ \A i \in DOMAIN new :
                   new[i] = IF i \in DOMAIN y.changed THEN y.changed[i] ELSE old[i]
<1> DEFINE kept == (DOMAIN old \cup DOMAIN y.changed) \ (Gone(old, y) \ late)
           new == Applied(old, y, late)
<1>1. y.changed \in Copies
  BY DEF CycleRecord
<1>2. /\ DOMAIN old \subseteq Items /\ DOMAIN y.changed \subseteq Items
      /\ \A i \in DOMAIN old : old[i] \in {"read", "unread"}
      /\ \A i \in DOMAIN y.changed : y.changed[i] \in {"read", "unread"}
  BY <1>1, CopyIs
<1>3. new = [i \in kept |-> IF i \in DOMAIN y.changed THEN y.changed[i] ELSE old[i]]
  BY DEF Applied
<1>4. kept \subseteq DOMAIN old \cup DOMAIN y.changed
  OBVIOUS
<1> HIDE DEF kept, new
<1>5. new \in Copies
  <2>1. kept \in SUBSET Items /\ new \in [kept -> {"read", "unread"}]
    BY <1>2, <1>3, <1>4
  <2> QED BY <2>1, CopyOf
<1>6. DOMAIN new = kept
  BY <1>3
<1> QED BY <1>3, <1>5, <1>6 DEF new, kept

LEMMA AppliedItem ==
  ASSUME NEW old \in Copies, NEW y \in CycleRecord, NEW i
  PROVE  /\ i \in DOMAIN Applied(old, y, {}) <=>
               i \in DOMAIN old \cup DOMAIN y.changed /\ i \notin Gone(old, y)
         /\ i \in DOMAIN Applied(old, y, {}) =>
               Applied(old, y, {})[i] = IF i \in DOMAIN y.changed THEN y.changed[i] ELSE old[i]
<1> DEFINE kept == (DOMAIN old \cup DOMAIN y.changed) \ (Gone(old, y) \ {})
<1>1. Applied(old, y, {}) = [k \in kept |-> IF k \in DOMAIN y.changed THEN y.changed[k] ELSE old[k]]
  BY DEF Applied
<1>2. DOMAIN Applied(old, y, {}) = kept
  BY <1>1
<1> QED BY <1>1, <1>2

\* What the commit of another round does to one that is in progress.
LEMMA PassedIs ==
  ASSUME NEW x \in CycleRecord, NEW y \in CycleRecord
  PROVE  /\ Passed(x, y) \in CycleRecord /\ SameRound(x, Passed(x, y)) /\ Passed(x, y).pc = x.pc
         /\ x.pc = "done" /\ x.folder = y.folder => Passed(x, y).passed
         /\ x.folder # y.folder => Passed(x, y) = x
<1> DEFINE waits == DOMAIN x.changed \cap (DOMAIN y.changed \cup Gone(placed[y.folder], y)) # {}
           rows == IF waits THEN {} ELSE x.unseen \cup (DOMAIN y.changed \ DOMAIN placed[y.folder])
<1>1. y.changed \in Copies /\ x.unseen \subseteq Items
  BY DEF CycleRecord
<1>2. rows \in SUBSET Items
  BY <1>1, CopyIs
<1>3. CASE x.pc # "done" \/ x.folder # y.folder
  BY <1>3 DEF Passed, SameRound
<1>4. CASE x.pc = "done" /\ x.folder = y.folder
  <2>1. Passed(x, y) = [x EXCEPT !.passed = TRUE, !.unseen = rows]
    BY <1>4 DEF Passed
  <2> HIDE DEF waits, rows
  <2> DEFINE z == [x EXCEPT !.passed = TRUE]
  <2>2. z \in CycleRecord /\ SameRound(x, z) /\ z.pc = x.pc /\ z.passed = TRUE
    BY DEF CycleRecord, SameRound
  <2>3. Passed(x, y) = [z EXCEPT !.unseen = rows]
    BY <2>1 DEF CycleRecord
  <2> HIDE DEF z
  <2>4. /\ Passed(x, y) \in CycleRecord /\ SameRound(x, Passed(x, y)) /\ Passed(x, y).pc = x.pc
        /\ Passed(x, y).passed = TRUE
    BY <1>2, <2>2, <2>3 DEF CycleRecord, SameRound
  <2> QED BY <1>4, <2>4
<1> QED BY <1>3, <1>4

\* What is committed.
LEMMA CommitIs ==
  ASSUME StateTyped, NEW c \in Cyclists, Commit(c)
  PROVE  LET f == cycle[c].folder
             y == cycle[c]
         IN  /\ y.pc = "done" /\ f \in Folders /\ y \in CycleRecord
             /\ UNCHANGED <<server, news, todo, action>>
             /\ CopyTyped' /\ VisitsTyped' /\ link'[f] = y.told
             /\ \A g \in Folders \ {f} :
                  placed'[g] = placed[g] /\ link'[g] = link[g] /\ excuses'[g] = excuses[g]
             /\ \A i \in DOMAIN placed'[f] : y.told[i] = 0 => excuses'[f] # {}
             /\ excuses'[f] = {} =>
                  /\ placed'[f] = Applied(placed[f], y, {}) /\ ~Overtaken(y)
                  /\ Full(y) => y.removed \cap DOMAIN y.changed = {}
                  /\ ~Full(y) => excuses[f] = {}
<1> DEFINE f == cycle[c].folder
           y == cycle[c]
<1>1. /\ y.pc = "done" /\ f \in Folders /\ y \in CycleRecord /\ y.told \in Tolds
  BY NoneIsNone DEF Commit, StateTyped, CyclesTyped, CycleRecord
<1>2. PICK late \in SUBSET (y.unseen \cap Gone(placed[f], y) \cap DOMAIN placed[f]) :
        /\ placed' = [placed EXCEPT ![f] = Applied(@, y, late)]
        /\ excuses' = [excuses EXCEPT ![f] =
             (IF Full(y) THEN {} ELSE @)
               \cup (IF Full(y) /\ y.removed \cap DOMAIN y.changed # {} THEN {"listed"} ELSE {})
               \cup (IF \E i \in DOMAIN placed'[f] : y.told[i] = 0 THEN {"unknown"} ELSE {})
               \cup (IF Overtaken(y) THEN {"overtaken"} ELSE {})
               \cup (IF late # {} THEN {"unseen"} ELSE {})]
  BY DEF Commit
<1> DEFINE new == Applied(placed[f], y, late)
           why == (IF Full(y) THEN {} ELSE excuses[f])
                    \cup (IF Full(y) /\ y.removed \cap DOMAIN y.changed # {} THEN {"listed"} ELSE {})
                    \cup (IF \E i \in DOMAIN placed'[f] : y.told[i] = 0 THEN {"unknown"} ELSE {})
                    \cup (IF Overtaken(y) THEN {"overtaken"} ELSE {})
                    \cup (IF late # {} THEN {"unseen"} ELSE {})
<1>3. /\ placed' = [placed EXCEPT ![f] = new] /\ excuses' = [excuses EXCEPT ![f] = why]
      /\ link' = [link EXCEPT ![f] = y.told]
      /\ missed' \in {missed \cup {f}, missed \ {f}, missed}
      /\ UNCHANGED <<server, news, todo, action>>
  BY <1>2 DEF Commit
<1>4. /\ placed \in [Folders -> Copies] /\ link \in [Folders -> Tolds \cup {None}]
      /\ excuses \in [Folders -> SUBSET Reasons]
  BY DEF StateTyped, CopyTyped
<1>5. new \in Copies
  BY <1>1, <1>4, AppliedIs
<1>6. /\ why \in SUBSET Reasons
      /\ (\E i \in DOMAIN placed'[f] : y.told[i] = 0) => why # {}
      /\ why = {} => /\ late = {} /\ ~Overtaken(y)
                     /\ Full(y) => y.removed \cap DOMAIN y.changed = {}
                     /\ ~Full(y) => excuses[f] = {}
  <2>1. excuses[f] \subseteq Reasons
    BY <1>1, <1>4
  <2> QED BY <2>1 DEF Reasons
<1> HIDE DEF new, why
<1>7. /\ placed' \in [Folders -> Copies] /\ link' \in [Folders -> Tolds \cup {None}]
      /\ excuses' \in [Folders -> SUBSET Reasons]
      /\ placed'[f] = new /\ link'[f] = y.told /\ excuses'[f] = why
      /\ \A g \in Folders \ {f} :
           placed'[g] = placed[g] /\ link'[g] = link[g] /\ excuses'[g] = excuses[g]
  BY <1>1, <1>3, <1>4, <1>5, <1>6
<1>8. CopyTyped' /\ VisitsTyped'
  BY <1>1, <1>3, <1>7 DEF StateTyped, CopyTyped, VisitsTyped
<1> QED BY <1>1, <1>3, <1>6, <1>7, <1>8 DEF new

LEMMA CommitCycles ==
  ASSUME IInv, NEW c \in Cyclists, Commit(c)
  PROVE  /\ CyclesTyped' /\ \A d \in Cyclists : Gathers(d)'
         /\ cycle'[c] = Resting
         /\ \A d \in Cyclists \ {c} :
               cycle'[d] = Passed(cycle[d], cycle[c]) /\ SameRound(cycle[d], cycle'[d])
<1> DEFINE y == cycle[c]
<1>1. /\ StateTyped /\ CyclesTyped /\ \A d \in Cyclists : Gathers(d) /\ cycle[d] \in CycleRecord
  BY DEF IInv, StateTyped, CyclesTyped
<1>2. cycle' = [d \in Cyclists |-> IF d = c THEN Resting ELSE Passed(cycle[d], y)]
  BY DEF Commit
<1>3. cycle'[c] = Resting /\ \A d \in Cyclists \ {c} : cycle'[d] = Passed(cycle[d], y)
  BY <1>2
<1>4. \A d \in Cyclists \ {c} :
        /\ cycle'[d] \in CycleRecord /\ SameRound(cycle[d], cycle'[d]) /\ cycle'[d].pc = cycle[d].pc
  <2> TAKE d \in Cyclists \ {c}
  <2> DEFINE x == cycle[d]
  <2>1. x \in CycleRecord /\ y \in CycleRecord
    BY <1>1
  <2>2. cycle'[d] = Passed(x, y)
    BY <1>3
  <2> HIDE DEF x, y
  <2>3. Passed(x, y) \in CycleRecord /\ SameRound(x, Passed(x, y)) /\ Passed(x, y).pc = x.pc
    BY <2>1, PassedIs
  <2> QED BY <2>2, <2>3 DEF x
<1>5. CyclesTyped'
  <2>1. \A d \in Cyclists :
          cycle'[d] \in CycleRecord /\ (cycle'[d].pc = "idle" <=> cycle'[d].folder = None)
    BY <1>1, <1>3, <1>4, RestingIs DEF SameRound, CyclesTyped
  <2>2. DOMAIN cycle' = Cyclists /\ cycle' = [d \in Cyclists |-> cycle'[d]]
    BY <1>2
  <2> QED BY <2>1, <2>2 DEF CyclesTyped
<1>6. ServerAdvances
  BY <1>1, CommitIs, QuietServer
<1>7. \A d \in Cyclists : Gathers(d)'
  BY <1>1, <1>3, <1>4, <1>6, GathersOn, GathersIdle, RestingIs
<1> QED BY <1>3, <1>4, <1>5, <1>7

\* After the commit the copy accounts for what the new link knows for good.
LEMMA CommitAccounts ==
  ASSUME IInv, NEW c \in Cyclists, Commit(c), NEW f \in Folders, f = cycle[c].folder, NEW i \in Items,
         cycle[c].told[i] > 0, cycle[c].told[i] = server[f][i].version
  PROVE  Accounted(f, i)'
<1> DEFINE y == cycle[c]
           v == server[f][i]
           old == placed[f]
           new == placed'[f]
           t == Start(c)
           told == y.told[i]
<1> SUFFICES ASSUME excuses'[f] = {}
             PROVE  Accounted(f, i)'
  BY DEF Accounted
<1>1. /\ y.pc # "idle" /\ y \in CycleRecord /\ server' = server /\ action' = action
      /\ new = Applied(old, y, {}) /\ old \in Copies /\ ~Overtaken(y)
      /\ Full(y) => y.removed \cap DOMAIN y.changed = {}
      /\ ~Full(y) => excuses[f] = {}
  BY CommitIs DEF IInv, StateTyped, CopyTyped
<1>2. /\ i \in DOMAIN new <=> i \in DOMAIN old \cup DOMAIN y.changed /\ i \notin Gone(old, y)
      /\ i \in DOMAIN new => new[i] = IF i \in DOMAIN y.changed THEN y.changed[i] ELSE old[i]
  <2>1. old \in Copies /\ y \in CycleRecord /\ new = Applied(old, y, {})
    BY <1>1
  <2> HIDE DEF old, new, y
  <2> QED BY <2>1, AppliedItem
<1>3. /\ told = t[i] => i \notin DOMAIN y.changed \cup y.removed
      /\ told # t[i] /\ told = v.version =>
           IF v.state = "absent" THEN i \in y.removed
           ELSE i \in DOMAIN y.changed /\ y.changed[i] = v.state
      /\ i \in y.removed => v.state = "absent" /\ v.version > 0
  BY <1>1 DEF IInv, Gathers
<1>4. told \in Nat /\ v.version \in Nat /\ told = v.version /\ told > 0
  BY <1>1 DEF CycleRecord, Tolds, IInv, StateTyped, ServerTyped, ItemState
<1>5. /\ FlagPending(f, i) => FlagPending(f, i)'
      /\ (IF v.state # "absent" THEN i \in DOMAIN new /\ new[i] = v.state ELSE i \notin DOMAIN new)
           => Agrees(f, i)'
  BY <1>1 DEF FlagPending, Agrees, Contents
<1> SUFFICES \/ IF v.state # "absent" THEN i \in DOMAIN new /\ new[i] = v.state
                ELSE i \notin DOMAIN new
             \/ FlagPending(f, i)
  BY <1>5 DEF Accounted
<1> HIDE DEF new, told
<1>6. CASE told # t[i]
  <2>1. CASE v.state = "absent"
    <3>1. i \in y.removed
      BY <1>3, <1>4, <1>6, <2>1
    <3>2. i \notin DOMAIN new
      BY <1>1, <1>2, <3>1 DEF Gone
    <3> QED BY <2>1, <3>2
  <2>2. CASE v.state # "absent"
    <3>1. i \in DOMAIN y.changed /\ y.changed[i] = v.state /\ i \notin y.removed
      BY <1>3, <1>4, <1>6, <2>2
    <3>2. i \notin Gone(old, y)
      BY <3>1 DEF Gone
    <3> QED BY <1>2, <2>2, <3>1, <3>2
  <2> QED BY <2>1, <2>2
<1>7. CASE told = t[i]
  <2>1. ~Full(y) /\ t = y.base
    BY <1>4, <1>7, UntoldIs DEF Start, Told, Full
  <2>2. i \notin DOMAIN y.changed /\ i \notin y.removed
    BY <1>3, <1>7
  <2>3. ~(told > Told(link[f])[i])
    BY <1>1, <1>7, <2>1 DEF Overtaken, told
  <2>4. link[f] \in Tolds \cup {None}
    BY DEF IInv, StateTyped, CopyTyped
  <2>5. link[f] # None
    BY <1>4, <2>3, UntoldIs DEF Told
  <2>6. link[f][i] \in Nat /\ link[f][i] <= v.version /\ ~(told > link[f][i])
    <3>1. link[f] \in Known(f) /\ link[f] \in Tolds
      BY <2>4, <2>5 DEF Known
    <3> QED BY <2>3, <2>5, <3>1 DEF IInv, KnownIsPast, Tolds, Told
  <2>7. link[f][i] = v.version /\ link[f][i] > 0
    BY <1>4, <2>6
  <2>8. Accounted(f, i)
    BY <2>5, <2>7 DEF IInv, KnownIsAccounted
  <2>9. Agrees(f, i) \/ FlagPending(f, i)
    BY <1>1, <2>1, <2>8 DEF Accounted
  <2>10. Agrees(f, i) => IF v.state # "absent" THEN i \in DOMAIN old /\ old[i] = v.state
                         ELSE i \notin DOMAIN old
    BY DEF Agrees, Contents
  <2>11. (i \in DOMAIN new <=> i \in DOMAIN old) /\ (i \in DOMAIN new => new[i] = old[i])
    BY <1>2, <2>1, <2>2 DEF Gone
  <2> QED BY <2>9, <2>10, <2>11
<1> QED BY <1>6, <1>7

LEMMA CommitKeeps ==
  ASSUME IInv, NEW c \in Cyclists, Commit(c)
  PROVE  IInv'
<1> DEFINE f == cycle[c].folder
           y == cycle[c]
<1>1. StateTyped /\ ServerTyped /\ ActionTyped
  BY DEF IInv, StateTyped
<1>2. /\ y.pc = "done" /\ f \in Folders /\ y \in CycleRecord
      /\ server' = server /\ action' = action
      /\ CopyTyped' /\ VisitsTyped' /\ link'[f] = y.told
      /\ \A g \in Folders \ {f} :
           placed'[g] = placed[g] /\ link'[g] = link[g] /\ excuses'[g] = excuses[g]
      /\ \A i \in DOMAIN placed'[f] : y.told[i] = 0 => excuses'[f] # {}
  BY <1>1, CommitIs
<1>3. /\ CyclesTyped' /\ \A d \in Cyclists : Gathers(d)'
      /\ cycle'[c] = Resting /\ \A d \in Cyclists \ {c} : SameRound(cycle[d], cycle'[d])
  BY CommitCycles
<1>4. StateTyped'
  BY <1>1, <1>2, <1>3 DEF StateTyped, ServerTyped, ActionTyped, Fresh
<1>5. MovedIsGone'
  BY <1>2 DEF IInv, MovedIsGone
<1>6. \A g \in Folders : Known(g)' \subseteq Known(g) \cup (IF g = f THEN {y.told} ELSE {})
  <2>1. \A d \in Cyclists : cycle'[d].folder \in Folders =>
             cycle'[d].folder = cycle[d].folder /\ cycle'[d].base = cycle[d].base
    BY <1>3, RestingIs, NoneIsNone DEF SameRound
  <2>2. \A g \in Folders : Bases(g)' \subseteq Known(g)
    BY <1>2, <2>1 DEF Known, Bases
  <2>3. \A g \in Folders : {link'[g]} \ {None} \subseteq Known(g) \cup (IF g = f THEN {y.told} ELSE {})
    BY <1>2 DEF Known
  <2> QED BY <2>2, <2>3 DEF Known
<1>7. KnownIsPast'
  <2> SUFFICES ASSUME NEW g \in Folders, NEW i \in Items, NEW b \in Known(g)'
               PROVE  b[i] <= server[g][i].version
    BY <1>2 DEF KnownIsPast
  <2>1. CASE b \in Known(g)
    BY <2>1 DEF IInv, KnownIsPast
  <2>2. CASE g = f /\ b = y.told
    BY <1>2, <2>2 DEF IInv, Gathers
  <2> QED BY <1>6, <2>1, <2>2
<1>8. KnownIsAccounted'
  <2> SUFFICES ASSUME NEW g \in Folders, NEW i \in Items, link'[g] # None,
                      link'[g][i] > 0, link'[g][i] = server[g][i].version
               PROVE  Accounted(g, i)'
    BY <1>2 DEF KnownIsAccounted
  <2>1. CASE g = f
    BY <1>2, <2>1, CommitAccounts
  <2>2. CASE g # f
    <3>1. Accounted(g, i)
      BY <1>2, <2>2 DEF IInv, KnownIsAccounted
    <3> QED BY <1>2, <2>2, <3>1 DEF Accounted, Agrees, Contents, FlagPending
  <2> QED BY <2>1, <2>2
<1>9. UnknownIsExcused'
  BY <1>2 DEF IInv, UnknownIsExcused
<1> QED BY <1>3, <1>4, <1>5, <1>7, <1>8, <1>9 DEF IInv

-----------------------------------------------------------------------------
(***************************************************************************)
(* The invariant.                                                          *)
(***************************************************************************)
LEMMA KeptKeeps ==
  ASSUME IInv, Kept
  PROVE  IInv'
<1>1. /\ ServerAdvances /\ link' = link
      /\ \A f \in Folders :
           /\ Known(f)' \subseteq Known(f)
           /\ DOMAIN placed'[f] \subseteq DOMAIN placed[f] /\ excuses[f] \subseteq excuses'[f]
      /\ \A f \in Folders, i \in Items :
           server'[f][i] = server[f][i] /\ Accounted(f, i) => Accounted(f, i)'
  BY DEF Kept, Carries
<1>2. ASSUME NEW f \in Folders, NEW i \in Items, NEW b \in Known(f)
      PROVE  /\ b[i] <= server'[f][i].version
             /\ server'[f][i] = server[f][i] \/ b[i] < server'[f][i].version
  <2>1. b \in Tolds
    BY KnownTyped DEF IInv
  <2>2. b[i] \in Nat /\ server[f][i].version \in Nat /\ server'[f][i].version \in Nat
    BY <1>1, <2>1 DEF Tolds, IInv, StateTyped, ServerTyped, ServerAdvances, ItemState
  <2>3. b[i] <= server[f][i].version
    BY DEF IInv, KnownIsPast
  <2> QED BY <1>1, <2>2, <2>3 DEF ServerAdvances
<1>3. KnownIsPast' /\ KnownIsAccounted'
  <2>1. KnownIsPast'
    BY <1>1, <1>2 DEF KnownIsPast
  <2>2. ASSUME NEW f \in Folders, NEW i \in Items, link[f] # None,
               link[f][i] > 0, link[f][i] = server'[f][i].version
        PROVE  Accounted(f, i)'
    <3>1. link[f] \in Known(f) /\ link[f] \in Tolds
      BY <2>2, KnownTyped DEF Known, IInv
    <3>2. server'[f][i] = server[f][i]
      BY <1>2, <2>2, <3>1 DEF Tolds
    <3> QED BY <1>1, <2>2, <3>2 DEF IInv, KnownIsAccounted
  <2> QED BY <1>1, <2>1, <2>2 DEF KnownIsAccounted
<1>4. UnknownIsExcused'
  BY <1>1 DEF IInv, UnknownIsExcused
<1> QED BY <1>3, <1>4 DEF Kept, IInv

LEMMA InitEstablishes == Init => IInv
<1> SUFFICES ASSUME Init PROVE IInv
  OBVIOUS
<1>1. /\ server \in [Folders -> [Items -> ItemState]]
      /\ \A f \in Folders, i \in Items : server[f][i].version = 0 => server[f][i].state = "absent"
  BY DEF Init, ItemState
<1>2. CopyTyped /\ VisitsTyped /\ \A f \in Folders : link[f] = None
  BY EmptyCopy DEF Init, CopyTyped, VisitsTyped
<1>3. CyclesTyped /\ \A c \in Cyclists : cycle[c].pc = "idle" /\ cycle[c].folder = None
  BY RestingIs, NoneIsNone DEF Init, CyclesTyped
<1>4. ActionTyped /\ action.kind = "none"
  BY NoActionIs DEF Init, ActionTyped, Moving
<1>5. \A f \in Folders : Known(f) = {}
  BY <1>2, <1>3, <1>4, NoneIsNone DEF Known, Bases, Moving
<1>6. StateTyped
  BY <1>1, <1>2, <1>3, <1>4 DEF StateTyped, ServerTyped, Fresh
<1>7. KnownIsPast /\ KnownIsAccounted
  BY <1>2, <1>5 DEF KnownIsPast, KnownIsAccounted
<1>8. UnknownIsExcused /\ MovedIsGone
  BY <1>2, <1>4 DEF UnknownIsExcused, MovedIsGone
<1>9. \A c \in Cyclists : Gathers(c)
  BY <1>3 DEF Gathers
<1> QED BY <1>6, <1>7, <1>8, <1>9 DEF IInv

LEMMA StepKeeps == IInv /\ [Next]_vars => IInv'
<1> SUFFICES ASSUME IInv, [Next]_vars PROVE IInv'
  OBVIOUS
<1>1. CASE OthersChange
  BY <1>1, OthersKept, KeptKeeps
<1>2. CASE SyncFolders
  <2>1. VisitMentioned(news) /\ news \in SUBSET Folders
    BY <1>2 DEF SyncFolders, IInv, StateTyped, VisitsTyped
  <2> QED BY <2>1, VisitKept, KeptKeeps
<1>3. CASE SyncAllFolders
  <2>1. VisitMentioned(Folders)
    BY <1>3 DEF SyncAllFolders
  <2> QED BY <2>1, VisitKept, KeptKeeps
<1>4. CASE GiveUp
  BY <1>4, GiveUpKept, KeptKeeps
<1>5. CASE \E f \in Folders : BeginFolder(f)
  BY <1>5, BeginKept, KeptKeeps
<1>6. CASE \E c \in Cyclists : CycleStep(c) \/ Expire(c) \/ FailFolder(c)
  <2>1. PICK c \in Cyclists : CycleStep(c) \/ Expire(c) \/ FailFolder(c)
    BY <1>6
  <2>2. CASE Page(c)
    BY <2>2, PageKept, KeptKeeps
  <2>3. CASE Commit(c)
    BY <2>3, CommitKeeps
  <2>6. CASE LastPage(c)
    BY <2>6, LastPageKept, KeptKeeps
  <2>4. CASE Reject(c) \/ FailFolder(c)
    BY <2>4, EndsKept, KeptKeeps
  <2>5. CASE Expire(c)
    BY <2>5, ExpireKept, KeptKeeps
  <2> QED BY <2>1, <2>2, <2>3, <2>4, <2>5, <2>6 DEF CycleStep
<1>7. CASE \E f, g \in Folders, i \in Items : SetFlag(f, i) \/ BeginMove(f, i, g)
  BY <1>7, SetFlagKept, BeginMoveKept, KeptKeeps
<1>8. CASE ActionStep
  BY <1>8, SendKept, MoveKept, DropKept, SourceKept, TargetKept, KeptKeeps DEF ActionStep
<1>9. CASE ActionFails
  BY <1>9, ActionFailsKept, KeptKeeps
<1>10. CASE UNCHANGED vars
  <2>1. /\ server' = server /\ placed' = placed /\ link' = link /\ excuses' = excuses
        /\ action' = action /\ cycle' = cycle /\ news' = news /\ todo' = todo /\ missed' = missed
    BY <1>10 DEF vars
  <2>2. VisitsTyped'
    BY <2>1 DEF IInv, StateTyped, VisitsTyped
  <2> QED BY <2>1, <2>2, CyclesRest, CyclistKept, KeptKeeps
<1> QED BY <1>1, <1>2, <1>3, <1>4, <1>5, <1>6, <1>7, <1>8, <1>9, <1>10 DEF Next

LEMMA Invariant == Spec => []IInv
BY InitEstablishes, StepKeeps, PTL DEF Spec

-----------------------------------------------------------------------------
(***************************************************************************)
(* What the invariant is for.                                              *)
(***************************************************************************)
LEMMA Typed ==
  ASSUME IInv
  PROVE  TypeOK
<1>1. StateTyped
  BY DEF IInv
<1>2. news \cup todo \cup missed \subseteq Folders
  BY <1>1 DEF StateTyped, VisitsTyped
<1>3. ASSUME NEW f \in Folders
      PROVE  /\ DOMAIN placed[f] \subseteq Items
             /\ \A i \in DOMAIN placed[f] : placed[f][i] \in {"read", "unread"}
             /\ excuses[f] \subseteq Reasons
  <2>1. placed[f] \in Copies /\ excuses[f] \in SUBSET Reasons
    BY <1>1 DEF StateTyped, CopyTyped
  <2> QED BY <2>1, CopyIs
<1>4. ASSUME NEW f \in Folders, link[f] # None, NEW i \in Items
      PROVE  link[f][i] \in 0..server[f][i].version
  <2>1. link[f] \in Known(f) /\ link[f] \in Tolds
    BY <1>1, <1>4, KnownTyped DEF Known
  <2>2. link[f][i] <= server[f][i].version
    BY <2>1 DEF IInv, KnownIsPast
  <2>3. link[f][i] \in Nat /\ server[f][i].version \in Nat
    BY <1>1, <2>1 DEF Tolds, StateTyped, ServerTyped, ItemState
  <2> QED BY <2>2, <2>3
<1>5. ASSUME NEW c \in Cyclists
      PROVE  cycle[c].pc = "idle" \/ (cycle[c].pc \in {"delta", "done"} /\ cycle[c].folder \in Folders)
  BY <1>1 DEF StateTyped, CyclesTyped, CycleRecord
<1> QED BY <1>2, <1>3, <1>4, <1>5 DEF TypeOK, Reasons

\* A stored link never claims more than the copy has: what the server will not
\* tell again is in the database as it is on the server, also when rounds are
\* committed in another order than they read the server, unless an older round
\* took away what a later one was based on ("overtaken"), or another excuse.
THEOREM StoredLinkTellsTruth == Spec => []LinkTellsTruth
<1>1. IInv => LinkTellsTruth
  <2> SUFFICES ASSUME IInv, NEW f \in Folders, link[f] # None, NEW i \in Items \ Due(f, link[f])
               PROVE  \/ Agrees(f, i)
                      \/ excuses[f] # {}
                      \/ action.kind = "flag" /\ action.folder = f /\ action.item = i
    BY Typed DEF LinkTellsTruth
  <2> DEFINE told == link[f][i]
             s == server[f][i]
  <2>1. link[f] \in Known(f) /\ link[f] \in Tolds
    BY KnownTyped DEF IInv, Known
  <2>2. told \in Nat /\ s.version \in Nat /\ (s.version = 0 => s.state = "absent")
    BY <2>1 DEF Tolds, IInv, StateTyped, ServerTyped, ItemState, Fresh
  <2>3. told = s.version \/ (told = 0 /\ s.state = "absent")
    BY <2>2 DEF Due, Contents
  <2>4. CASE told > 0
    <3>1. Accounted(f, i)
      BY <2>1, <2>3, <2>4 DEF IInv, KnownIsAccounted
    <3> QED BY <3>1 DEF Accounted, FlagPending
  <2>5. CASE told = 0
    <3>1. i \notin Contents(f)
      BY <2>2, <2>3, <2>5 DEF Contents
    <3>2. i \notin DOMAIN placed[f] \/ excuses[f] # {}
      BY <2>5 DEF IInv, UnknownIsExcused
    <3> QED BY <3>1, <3>2 DEF Agrees
  <2> QED BY <2>2, <2>4, <2>5
<1> QED BY <1>1, Invariant, PTL

-----------------------------------------------------------------------------
(***************************************************************************)
(* No folder with news is lost sight of.                                   *)
(***************************************************************************)
Remembered == news \cup todo \cup missed \cup {cycle["worker"].folder}

\* What a finished round leaves due is mentioned again, so that it may still be
\* committed; of an action's round, as long as no other one was committed since.
WorkerHears ==
    cycle["worker"].pc = "done" =>
        \/ Due(cycle["worker"].folder, cycle["worker"].told) = {}
        \/ cycle["worker"].folder \in news

ActionHears ==
    cycle["api"].pc = "done" /\ ~cycle["api"].passed =>
        \/ Due(cycle["api"].folder, cycle["api"].told) = {}
        \/ cycle["api"].folder \in Remembered

Mindful == NothingForgotten /\ WorkerHears /\ ActionHears

LEMMA Remembers ==
  ASSUME IInv, Mindful, server' = server, link' = link,
         Remembered \cap Folders \subseteq Remembered',
         \A c \in Cyclists : cycle'[c].pc = "done" =>
             \/ cycle'[c] = cycle[c] /\ (c = "worker" => news \subseteq news')
             \/ Due(cycle'[c].folder, cycle'[c].told) = {}
  PROVE  Mindful'
<1>1. /\ "worker" \in Cyclists /\ "api" \in Cyclists
      /\ \A c \in Cyclists : cycle[c].pc = "done" => cycle[c].folder \in Folders
  BY NoneIsNone DEF Cyclists, IInv, StateTyped, CyclesTyped, CycleRecord
<1>2. \A f, told : Due(f, told)' = Due(f, told')
  BY DEF Due, Contents
<1>3. NothingForgotten'
  BY DEF Mindful, NothingForgotten, Remembered, Due, Contents
<1>4. WorkerHears'
  BY <1>1 DEF Mindful, WorkerHears, Due, Contents
<1>5. ActionHears'
  <2> SUFFICES ASSUME cycle'["api"].pc = "done", ~cycle'["api"].passed,
                      Due(cycle'["api"].folder, cycle'["api"].told) # {}
               PROVE  cycle'["api"].folder \in Remembered'
    BY DEF ActionHears, Due, Contents
  <2>1. cycle'["api"] = cycle["api"]
    BY <1>1
  <2> QED BY <1>1, <2>1 DEF Mindful, ActionHears
<1> QED BY <1>3, <1>4, <1>5 DEF Mindful

LEMMA ServerRemembers ==
  ASSUME IInv, Mindful, Announces, UNCHANGED <<copy, todo, cycle>>
  PROVE  Mindful'
<1>1. /\ "worker" \in Cyclists /\ "api" \in Cyclists /\ link' = link /\ cycle' = cycle
      /\ \A c \in Cyclists : cycle[c].pc = "done" => cycle[c].folder \in Folders
  BY NoneIsNone DEF Cyclists, IInv, StateTyped, CyclesTyped, CycleRecord, copy
<1>2. Remembered \subseteq Remembered'
  BY DEF Remembered, Announces, copy
<1>3. \A f \in Folders \ news' : server'[f] = server[f] /\ f \notin news
  BY DEF Announces
<1>4. ASSUME NEW f \in Folders \ Remembered', link'[f] = None \/ Due(f, link[f])' # {}
      PROVE  FALSE
  <2>1. server'[f] = server[f] /\ f \notin Remembered
    BY <1>2, <1>3, <1>4 DEF Remembered
  <2>2. link[f] = None \/ Due(f, link[f]) # {}
    BY <1>1, <1>4, <2>1 DEF Due, Contents
  <2> QED BY <2>1, <2>2 DEF Mindful, NothingForgotten, Remembered
<1>5. NothingForgotten'
  BY <1>4 DEF NothingForgotten, Remembered
<1>6. WorkerHears'
  <2> SUFFICES ASSUME cycle["worker"].pc = "done", cycle["worker"].folder \notin news'
               PROVE  Due(cycle["worker"].folder, cycle["worker"].told)' = {}
    BY <1>1 DEF WorkerHears
  <2>1. Due(cycle["worker"].folder, cycle["worker"].told) = {}
    BY <1>1, <1>3 DEF Mindful, WorkerHears
  <2> QED BY <1>1, <1>3, <2>1 DEF Due, Contents
<1>7. ActionHears'
  <2> SUFFICES ASSUME cycle["api"].pc = "done", ~cycle["api"].passed,
                      cycle["api"].folder \notin Remembered'
               PROVE  Due(cycle["api"].folder, cycle["api"].told)' = {}
    BY <1>1 DEF ActionHears
  <2>1. Due(cycle["api"].folder, cycle["api"].told) = {}
    BY <1>1, <1>2 DEF Mindful, ActionHears
  <2>2. cycle["api"].folder \notin news'
    BY DEF Remembered
  <2> QED BY <1>1, <1>3, <2>1, <2>2 DEF Due, Contents
<1> QED BY <1>5, <1>6, <1>7 DEF Mindful

\* A round is committed: what it leaves due is mentioned, or known to be missed.
LEMMA CommitRemembers ==
  ASSUME IInv, Mindful, NEW c \in Cyclists, Commit(c)
  PROVE  Mindful'
<1> DEFINE f == cycle[c].folder
           y == cycle[c]
<1>1. StateTyped /\ CyclesTyped /\ "worker" \in Cyclists /\ "api" \in Cyclists
  BY DEF IInv, StateTyped, Cyclists
<1>2. /\ f \in Folders /\ y \in CycleRecord /\ y.pc = "done" /\ link'[f] = y.told
      /\ server' = server /\ news' = news /\ todo' = todo
      /\ \A g \in Folders \ {f} : link'[g] = link[g]
  BY <1>1, CommitIs
<1>3. /\ cycle'[c] = Resting
      /\ \A d \in Cyclists \ {c} : cycle'[d] = Passed(cycle[d], y) /\ SameRound(cycle[d], cycle'[d])
  BY CommitCycles
<1>4. /\ Resting.pc = "idle"
      /\ \A d \in Cyclists : cycle[d] \in CycleRecord /\ (cycle[d].pc # "idle" => cycle[d].folder \in Folders)
  BY <1>1, RestingIs, NoneIsNone DEF CyclesTyped, CycleRecord
<1>5. missed' = IF Due(f, y.told) = {} THEN missed \ {f}
                ELSE IF c = "api" /\ y.passed THEN missed \cup {f} ELSE missed
  BY DEF Commit
<1>6. f \in news \cup todo \cup missed' \cup {cycle'["worker"].folder} \/ Due(f, y.told) = {}
  <2>1. CASE c = "worker"
    BY <1>2, <2>1 DEF Mindful, WorkerHears
  <2>2. CASE c = "api"
    <3>1. cycle'["worker"].folder = cycle["worker"].folder
      BY <1>1, <1>3, <2>2 DEF SameRound
    <3> QED BY <1>2, <1>5, <2>2, <3>1 DEF Mindful, ActionHears, Remembered
  <2> QED BY <2>1, <2>2 DEF Cyclists
<1>7. ASSUME NEW g \in Folders \ {f}, g \in Remembered
      PROVE  g \in Remembered'
  <2>1. g \in missed => g \in missed'
    BY <1>5, <1>7
  <2>2. cycle["worker"].folder = f \/ cycle'["worker"].folder = cycle["worker"].folder
    BY <1>1, <1>3 DEF SameRound
  <2> QED BY <1>2, <1>7, <2>1, <2>2 DEF Remembered
<1>8. NothingForgotten'
  <2> SUFFICES ASSUME NEW g \in Folders, link'[g] = None \/ Due(g, link[g])' # {}
               PROVE  g \in Remembered'
    BY DEF NothingForgotten, Remembered
  <2>1. CASE g = f
    <3>1. link'[f] # None
      BY <1>2, NoneIsNone DEF CycleRecord
    <3>2. Due(f, y.told) # {}
      BY <1>2, <2>1, <3>1 DEF Due, Contents
    <3> QED BY <1>2, <1>6, <2>1, <3>2 DEF Remembered
  <2>2. CASE g # f
    <3>1. link[g] = None \/ Due(g, link[g]) # {}
      BY <1>2, <2>2 DEF Due, Contents
    <3> QED BY <1>7, <2>2, <3>1 DEF Mindful, NothingForgotten, Remembered
  <2> QED BY <2>1, <2>2
<1>9. WorkerHears'
  <2> SUFFICES ASSUME cycle'["worker"].pc = "done"
               PROVE  \/ Due(cycle'["worker"].folder, cycle'["worker"].told) = {}
                      \/ cycle'["worker"].folder \in news
    BY <1>2 DEF WorkerHears, Due, Contents
  <2>1. /\ c # "worker" /\ cycle'["worker"].folder = cycle["worker"].folder
        /\ cycle'["worker"].told = cycle["worker"].told /\ cycle["worker"].pc = "done"
    BY <1>1, <1>2, <1>3, <1>4, PassedIs DEF SameRound
  <2> QED BY <2>1 DEF Mindful, WorkerHears
<1>10. ActionHears'
  <2> SUFFICES ASSUME cycle'["api"].pc = "done", ~cycle'["api"].passed
               PROVE  \/ Due(cycle'["api"].folder, cycle'["api"].told) = {}
                      \/ cycle'["api"].folder \in Remembered'
    BY <1>2 DEF ActionHears, Due, Contents
  <2>1. c = "worker" /\ cycle'["api"] = Passed(cycle["api"], y)
    BY <1>1, <1>3, <1>4 DEF Cyclists
  <2> DEFINE x == cycle["api"]
  <2>a. x \in CycleRecord /\ y \in CycleRecord /\ cycle'["api"] = Passed(x, y) /\ y.folder = f
    BY <1>1, <1>2, <1>4, <2>1
  <2>b. /\ Passed(x, y).pc = x.pc
        /\ x.pc = "done" /\ x.folder = y.folder => Passed(x, y).passed
        /\ x.folder # y.folder => Passed(x, y) = x
    <3> HIDE DEF x, y
    <3> QED BY <2>a, PassedIs
  <2>2. x.pc = "done"
    BY <2>a, <2>b
  <2>3. x.folder # f
    BY <2>a, <2>b, <2>2
  <2>4. cycle'["api"] = x
    BY <2>a, <2>b, <2>3
  <2>5. Due(cycle["api"].folder, cycle["api"].told) = {} \/ cycle["api"].folder \in Remembered
    BY <2>2, <2>4 DEF Mindful, ActionHears
  <2> QED BY <1>1, <1>4, <1>7, <2>2, <2>3, <2>4, <2>5
<1> QED BY <1>8, <1>9, <1>10 DEF Mindful

LEMMA LeaveRemembers ==
  ASSUME IInv, Mindful, NEW c \in Cyclists, NEW left, Leave(c, left), todo \subseteq todo' \cup left,
         c = "worker" => {cycle[c].folder} \ {None} \subseteq left, c = "api" => todo' = todo
  PROVE  Mindful'
<1>1. CyclesTyped /\ server' = server /\ link' = link /\ news' = news /\ Resting.pc = "idle"
  BY RestingIs DEF IInv, StateTyped, Leave
<1>2. \A d \in Cyclists : cycle'[d].pc = "done" => cycle'[d] = cycle[d]
  BY <1>1 DEF Leave, CyclesTyped
<1>3. CASE c = "worker"
  <2>1. Remembered \cap Folders \subseteq Remembered'
    BY <1>1, <1>3, NoneIsNone DEF Leave, Remembered
  <2> QED BY <1>1, <1>2, <2>1, Remembers
<1>4. CASE c = "api"
  <2>1. cycle'["worker"] = cycle["worker"] /\ missed' = missed /\ todo' = todo
    BY <1>1, <1>4 DEF Leave, CyclesTyped, Cyclists
  <2>2. Remembered \cap Folders \subseteq Remembered'
    BY <1>1, <2>1 DEF Remembered
  <2> QED BY <1>1, <1>2, <2>2, Remembers
<1> QED BY <1>3, <1>4 DEF Cyclists

\* A step of a cycle or of the user's action that leaves the links alone.
LEMMA QuietRemembers ==
  ASSUME IInv, Mindful, UNCHANGED <<server, news, link, todo, missed>>,
         cycle'["worker"].folder = cycle["worker"].folder,
         \A c \in Cyclists : cycle'[c].pc = "done" =>
             cycle'[c] = cycle[c] \/ Due(cycle'[c].folder, cycle'[c].told) = {}
  PROVE  Mindful'
<1>1. server' = server /\ link' = link /\ Remembered' = Remembered /\ news' = news
  BY DEF Remembered
<1> QED BY <1>1, Remembers

LEMMA VisitRemembers ==
  ASSUME IInv, Mindful, SyncFolders \/ SyncAllFolders
  PROVE  Mindful'
<1>1. PICK mentioned \in SUBSET Folders : news \subseteq mentioned /\ VisitMentioned(mentioned)
  BY DEF SyncFolders, SyncAllFolders, IInv, StateTyped, VisitsTyped
<1>2. /\ server' = server /\ link' = link /\ cycle' = cycle /\ cycle["worker"].pc = "idle"
      /\ Remembered \cap Folders \subseteq Remembered'
  BY <1>1 DEF VisitMentioned, Remembered
<1>3. \A c \in Cyclists : cycle'[c].pc = "done" => cycle'[c] = cycle[c] /\ c # "worker"
  BY <1>2
<1> QED BY <1>2, <1>3, Remembers

LEMMA BeginRemembers ==
  ASSUME IInv, Mindful, NEW f \in Folders, BeginFolder(f)
  PROVE  Mindful'
<1>1. /\ CyclesTyped /\ cycle["worker"].pc = "idle" /\ f \in todo /\ todo' = todo \ {f}
      /\ server' = server /\ link' = link /\ news' = news /\ missed' = missed
      /\ cycle' = [cycle EXCEPT !["worker"] = Begun(f, link[f])]
  BY DEF BeginFolder, copy, IInv, StateTyped
<1>2. /\ cycle["worker"].folder = None /\ cycle'["worker"] = Begun(f, link[f])
      /\ cycle'["api"] = cycle["api"]
  BY <1>1 DEF CyclesTyped, Cyclists
<1>3. Begun(f, link[f]).folder = f /\ Begun(f, link[f]).pc = "delta"
  BY DEF Begun, Resting
<1>4. Remembered \cap Folders \subseteq Remembered'
  BY <1>1, <1>2, <1>3, NoneIsNone DEF Remembered
<1>5. \A c \in Cyclists : cycle'[c].pc = "done" => cycle'[c] = cycle[c]
  BY <1>2, <1>3 DEF Cyclists
<1> QED BY <1>1, <1>4, <1>5, Remembers

LEMMA StepRemembers == IInv /\ Mindful /\ [Next]_vars => Mindful'
<1> SUFFICES ASSUME IInv, Mindful, [Next]_vars PROVE Mindful'
  OBVIOUS
<1>0. /\ StateTyped /\ CyclesTyped /\ "worker" \in Cyclists /\ "api" \in Cyclists
  BY DEF IInv, StateTyped, Cyclists
<1>1. CASE OthersChange
  BY <1>0, <1>1, OthersAdvance, ServerRemembers DEF OthersChange
<1>2. CASE SyncFolders \/ SyncAllFolders
  BY <1>2, VisitRemembers
<1>3. CASE GiveUp
  BY <1>0, <1>3, LeaveRemembers DEF GiveUp
<1>4. CASE \E f \in Folders : BeginFolder(f)
  BY <1>4, BeginRemembers
<1>5. CASE \E c \in Cyclists : CycleStep(c) \/ Expire(c) \/ FailFolder(c)
  <2>1. PICK c \in Cyclists : CycleStep(c) \/ Expire(c) \/ FailFolder(c)
    BY <1>5
  <2>2. CASE Page(c)
    <3>1. /\ cycle'["worker"].folder = cycle["worker"].folder
          /\ cycle'[c].pc = "delta" /\ \A d \in Cyclists \ {c} : cycle'[d] = cycle[d]
      BY <1>0, <2>2, PageIs
    <3>2. UNCHANGED <<server, news, link, todo, missed>>
      BY <2>2 DEF Page, copy
    <3> QED BY <3>1, <3>2, QuietRemembers
  <2>3. CASE LastPage(c)
    <3>1. /\ SameRound(cycle[c], cycle'[c]) /\ \A d \in Cyclists \ {c} : cycle'[d] = cycle[d]
      BY <1>0, <2>3, LastPageIs
    <3>2. UNCHANGED <<server, news, link, todo, missed>> /\ Due(cycle[c].folder, cycle[c].told) = {}
      BY <2>3 DEF LastPage, copy
    <3>3. /\ cycle'["worker"].folder = cycle["worker"].folder
          /\ Due(cycle'[c].folder, cycle'[c].told) = {}
      BY <1>0, <3>1, <3>2 DEF SameRound
    <3> QED BY <3>1, <3>2, <3>3, QuietRemembers
  <2>4. CASE Commit(c)
    BY <2>4, CommitRemembers
  <2>5. CASE Reject(c) \/ FailFolder(c)
    <3>1. Leave(c, {cycle[c].folder}) /\ todo' = todo
      BY <2>5 DEF Reject, FailFolder
    <3> QED BY <3>1, LeaveRemembers
  <2>6. CASE Expire(c)
    <3>1. /\ cycle'["worker"].folder = cycle["worker"].folder
          /\ cycle'[c].pc = "delta" /\ \A d \in Cyclists \ {c} : cycle'[d] = cycle[d]
      BY <1>0, <2>6, ExpireIs
    <3>2. UNCHANGED <<server, news, link, todo, missed>>
      BY <2>6 DEF Expire, copy
    <3> QED BY <3>1, <3>2, QuietRemembers
  <2> QED BY <2>1, <2>2, <2>3, <2>4, <2>5, <2>6 DEF CycleStep
<1>6. CASE \E f, g \in Folders, i \in Items : SetFlag(f, i) \/ BeginMove(f, i, g)
  <2>1. UNCHANGED <<server, news, link, todo, missed, cycle>>
    BY <1>6 DEF SetFlag, BeginMove, copy
  <2> QED BY <2>1, QuietRemembers
<1>7. CASE SendFlag
  BY <1>0, <1>7, SendAdvances, ServerRemembers DEF SendFlag
<1>8. CASE MoveOnServer
  BY <1>0, <1>8, MoveAdvances, ServerRemembers DEF MoveOnServer
<1>9. CASE DropPlacement
  <2>1. UNCHANGED <<server, news, link, todo, missed, cycle>>
    BY <1>9 DEF DropPlacement
  <2> QED BY <2>1, QuietRemembers
<1>10. CASE ResyncSource \/ ResyncTarget \/ ActionFails
  <2>1. PICK y : cycle' = [cycle EXCEPT !["api"] = y] /\ y.pc # "done"
    <3>1. \A f, b : Begun(f, b).pc # "done" /\ Resting.pc # "done"
      BY DEF Begun, Resting
    <3> QED BY <1>10, <3>1 DEF ResyncSource, ResyncTarget, ActionFails
  <2>2. cycle'["worker"] = cycle["worker"] /\ cycle'["api"].pc # "done"
    BY <1>0, <2>1 DEF CyclesTyped
  <2>3. UNCHANGED <<server, news, link, todo, missed>>
    BY <1>10 DEF ResyncSource, ResyncTarget, ActionFails, copy
  <2> QED BY <2>2, <2>3, QuietRemembers DEF Cyclists
<1>11. CASE UNCHANGED vars
  <2>1. UNCHANGED <<server, news, link, todo, missed, cycle>>
    BY <1>11 DEF vars
  <2> QED BY <2>1, QuietRemembers
<1> QED BY <1>1, <1>2, <1>3, <1>4, <1>5, <1>6, <1>7, <1>8, <1>9, <1>10, <1>11 DEF Next, ActionStep

\* A folder that has something to tell its stored link is mentioned by the next
\* folder delta, or is being visited, or is known to be missed: a cycle of it
\* failed, or an action wrote an older round over that of another cycle.  A round
\* of the worker that is committed late needs no such excuse.
THEOREM NoFolderForgotten == Spec => []NothingForgotten
<1>1. Init => Mindful
  BY RestingIs DEF Init, Mindful, NothingForgotten, WorkerHears, ActionHears, Cyclists
<1>2. Mindful => NothingForgotten
  BY DEF Mindful
<1> QED BY <1>1, <1>2, StepRemembers, Invariant, PTL DEF Spec
=============================================================================
