-------------------------- MODULE ImapFolderProofs --------------------------
(***************************************************************************)
(* The safety properties of ImapFolder, proved for any number of UIDs and  *)
(* of UIDVALIDITY values, any refresh interval and any number of changes,  *)
(* actions and faults.                                                     *)
(***************************************************************************)
EXTENDS ImapFolder, TLAPS

-----------------------------------------------------------------------------
(***************************************************************************)
(* The inductive invariant.                                                *)
(***************************************************************************)
Tables(V) == UNION {[S -> V] : S \in SUBSET Uids}

Selected == {"selected", "listed", "searched", "refreshed", "fetched"}
Listed   == Selected \ {"selected"}
Searched == Listed \ {"listed"}
Flagged  == Searched \ {"searched"}
Stages   == Selected \cup {"idle", "loaded"}

ServerTyped ==
    /\ validity \in 1..MaxValidity /\ uidnext \in 1..(MaxUid + 1) /\ highest \in Nat \ {0}
    /\ box \in Tables([seen : BOOLEAN, modseq : Nat \ {0}])
    /\ \A u \in DOMAIN box : u < uidnext /\ box[u].modseq <= highest

FolderTyped == folder \in Cursors /\ placed \in Tables(BOOLEAN)

CyclesTyped ==
    /\ pc \in [Syncers -> Stages]
    /\ loaded \in [Syncers -> Cursors]
    /\ info \in [Syncers -> [validity : 0..MaxValidity, uidnext : 0..(MaxUid + 1), modseq : Nat]]
    /\ all \in [Syncers -> SUBSET Uids] /\ new \in [Syncers -> SUBSET Uids]
    /\ flags \in [Syncers -> Tables(BOOLEAN)] /\ headers \in [Syncers -> Tables(BOOLEAN)]

ActionTyped ==
    /\ action \in [kind : {"none", "flag", "remove", "drop", "resync"}, uid : 0..MaxUid,
                   seen : BOOLEAN, validity : 0..MaxValidity]
    /\ pc["api"] # "idle" => action.kind = "resync"

RestTyped == condstore \in BOOLEAN /\ excuses \subseteq {"overlapped", "unsent", "misdropped"}

StateTyped == ServerTyped /\ FolderTyped /\ CyclesTyped /\ ActionTyped /\ RestTyped

Running(c) == pc[c] # "idle"
Shaken     == "overlapped" \in excuses

\* A cycle's cursor is the stored one, but for one cycle that another overtook.
OvertakenOnce ==
    /\ ~Shaken => \A c \in Syncers : Running(c) => loaded[c] = folder
    /\ \A c, d \in Syncers :
         c # d /\ Running(c) /\ Running(d) => loaded[c] = folder \/ loaded[d] = folder

\* Nobody knows a mailbox that was not there yet.
ValiditiesPast ==
    /\ folder.validity <= validity /\ action.validity <= validity
    /\ \A c \in Syncers : Running(c) => loaded[c].validity <= validity

\* A stored cursor is in the past of the mailbox.
CursorPast ==
    Current /\ ~Shaken =>
        /\ folder.uidnext <= uidnext /\ folder.modseq <= highest
        /\ condstore <=> folder.modseq # None

\* What a cycle knows of the mailbox after SELECT, the searches and the fetches.
KnowsBox(c) ==
    /\ loaded[c].validity <= info[c].validity /\ info[c].validity \in 1..validity
    /\ condstore <=> info[c].modseq # None
    /\ SameBox(c) =>
         /\ info[c].uidnext <= uidnext /\ info[c].modseq <= highest
         /\ \A u \in DOMAIN box : u >= info[c].uidnext => box[u].modseq > info[c].modseq

KnowsAll(c) ==
    /\ \A u \in all[c] : u < uidnext
    /\ \A u \in DOMAIN box : u < info[c].uidnext => u \in all[c]

KnowsNew(c) ==
    /\ \A u \in new[c] : u < uidnext
    /\ \A u \in DOMAIN box :
         u < info[c].uidnext /\ (Full(c) \/ loaded[c].uidnext = None \/ u >= loaded[c].uidnext)
           => u \in new[c]

Matches(table, u, modseq) == table[u] = box[u].seen \/ box[u].modseq > modseq

KnowsFlags(c) ==
    /\ \A u \in DOMAIN box \cap DOMAIN flags[c] : Matches(flags[c], u, info[c].modseq)
    /\ ~Full(c) /\ condstore /\ loaded[c].modseq # None =>
         \A u \in DOMAIN box : box[u].modseq > loaded[c].modseq =>
             u \in DOMAIN flags[c] \/ box[u].modseq > info[c].modseq

KnowsHeaders(c) ==
    /\ \A u \in DOMAIN headers[c] : u < uidnext
    /\ DOMAIN box \cap new[c] \subseteq DOMAIN headers[c]
    /\ \A u \in DOMAIN box \cap DOMAIN headers[c] : Matches(headers[c], u, info[c].modseq)

Knows(c) ==
    /\ pc[c] \in Selected => KnowsBox(c)
    /\ SameBox(c) =>
         /\ pc[c] \in Listed   => KnowsAll(c)
         /\ pc[c] \in Searched => KnowsNew(c)
         /\ pc[c] \in Flagged  => KnowsFlags(c)
         /\ pc[c] = "fetched"  => KnowsHeaders(c)

\* A cycle that another overtook across a change of UIDVALIDITY has left UIDs of
\* the former mailbox, and no cycle that could clear the excuse is under way.
Muddled ==
    /\ Shaken /\ Current
    /\ \A c \in Syncers : Running(c) => loaded[c].validity = validity

PlacedHere == Current => Muddled \/ \A u \in DOMAIN placed : u < uidnext

ActionHere ==
    action.kind \in {"remove", "drop"} /\ action.validity = validity =>
        \/ Muddled
        \/ /\ action.uid < uidnext
           /\ action.kind = "drop" => action.uid \notin DOMAIN box

MessagesKept ==
    Current /\ excuses \subseteq {"unsent"} =>
        \A u \in DOMAIN box : u < folder.uidnext => u \in DOMAIN placed

FlagsKept ==
    Current /\ folder.modseq # None /\ excuses \subseteq {"misdropped"} =>
        \A u \in DOMAIN box \cap DOMAIN placed :
            \/ Matches(placed, u, folder.modseq)
            \/ action.kind = "flag" /\ action.uid = u /\ placed[u] = action.seen

IInv ==
    /\ StateTyped /\ OvertakenOnce /\ ValiditiesPast /\ CursorPast
    /\ \A c \in Syncers : Knows(c)
    /\ PlacedHere /\ ActionHere /\ MessagesKept /\ FlagsKept

-----------------------------------------------------------------------------
(***************************************************************************)
(* Lemmas about the operators.                                             *)
(***************************************************************************)
LEMMA TableOf ==
  ASSUME NEW V, NEW S \in SUBSET Uids, NEW f \in [S -> V]
  PROVE  f \in Tables(V)
BY DEF Tables

LEMMA TableIs ==
  ASSUME NEW V, NEW f \in Tables(V)
  PROVE  DOMAIN f \subseteq Uids /\ f \in [DOMAIN f -> V] /\ \A u \in DOMAIN f : f[u] \in V
BY DEF Tables

LEMMA NothingIs ==
  ASSUME NEW V
  PROVE  Nothing \in Tables(V) /\ DOMAIN Nothing = {}
<1>1. Nothing \in [{} -> V] /\ DOMAIN Nothing = {}
  BY DEF Nothing
<1> QED BY <1>1, TableOf

LEMMA OnlyIs ==
  ASSUME NEW V, NEW f \in Tables(V), NEW S
  PROVE  /\ Only(f, S) \in Tables(V) /\ DOMAIN Only(f, S) = DOMAIN f \cap S
         /\ \A u \in DOMAIN f \cap S : Only(f, S)[u] = f[u]
<1>1. DOMAIN f \cap S \in SUBSET Uids /\ \A u \in DOMAIN f \cap S : f[u] \in V
  BY TableIs
<1>2. Only(f, S) \in [DOMAIN f \cap S -> V]
  BY <1>1 DEF Only
<1>3. Only(f, S) \in Tables(V)
  BY <1>1, <1>2, TableOf
<1> QED BY <1>3 DEF Only

LEMMA OverIs ==
  ASSUME NEW V, NEW f \in Tables(V), NEW g \in Tables(V)
  PROVE  /\ Over(f, g) \in Tables(V) /\ DOMAIN Over(f, g) = DOMAIN f \cup DOMAIN g
         /\ \A u \in DOMAIN f : Over(f, g)[u] = f[u]
         /\ \A u \in DOMAIN g \ DOMAIN f : Over(f, g)[u] = g[u]
<1>1. /\ DOMAIN f \cup DOMAIN g \in SUBSET Uids
      /\ \A u \in DOMAIN f : f[u] \in V /\ \A v \in DOMAIN g : g[v] \in V
  BY TableIs
<1>2. Over(f, g) \in [DOMAIN f \cup DOMAIN g -> V]
  <2>1. \A u \in DOMAIN f \cup DOMAIN g : (IF u \in DOMAIN f THEN f[u] ELSE g[u]) \in V
    BY TableIs
  <2> QED BY <2>1 DEF Over
<1>3. Over(f, g) \in Tables(V)
  BY <1>1, <1>2, TableOf
<1> QED BY <1>3 DEF Over

BoxRow == [seen : BOOLEAN, modseq : Nat \ {0}]

LEMMA SeenIs ==
  ASSUME ServerTyped, NEW S
  PROVE  /\ Seen(S) \in Tables(BOOLEAN) /\ DOMAIN Seen(S) = DOMAIN box \cap S
         /\ \A u \in DOMAIN box \cap S : Seen(S)[u] = box[u].seen
<1>1. DOMAIN box \subseteq Uids /\ \A u \in DOMAIN box : box[u] \in [seen : BOOLEAN, modseq : Nat \ {0}]
  BY TableIs DEF ServerTyped
<1>2. \A u \in DOMAIN box \cap S : box[u].seen \in BOOLEAN
  BY <1>1
<1>3. Seen(S) \in [DOMAIN box \cap S -> BOOLEAN] /\ DOMAIN box \cap S \in SUBSET Uids
  BY <1>1, <1>2, Zenon DEF Seen
<1>4. Seen(S) \in Tables(BOOLEAN)
  BY <1>3, TableOf
<1> QED BY <1>4 DEF Seen

-----------------------------------------------------------------------------
(***************************************************************************)
(* The mailbox.                                                            *)
(***************************************************************************)
\* UIDs and MODSEQs grow while UIDVALIDITY stays.
BoxAdvances ==
    /\ ServerTyped' /\ validity <= validity'
    /\ validity' = validity =>
         /\ uidnext <= uidnext' /\ highest <= highest'
         /\ \A u \in DOMAIN box' :
              \/ u \in DOMAIN box /\ box'[u] = box[u]
              \/ box'[u].modseq > highest /\ (u \in DOMAIN box \/ u >= uidnext)

LEMMA BoxIs ==
  ASSUME ServerTyped
  PROVE  /\ validity \in Nat /\ uidnext \in Nat /\ highest \in Nat /\ DOMAIN box \subseteq Uids
         /\ \A u \in DOMAIN box : /\ u \in Nat /\ u < uidnext /\ box[u].seen \in BOOLEAN
                                  /\ box[u].modseq \in Nat /\ box[u].modseq > 0 /\ box[u].modseq <= highest
<1>1. DOMAIN box \subseteq Uids /\ \A u \in DOMAIN box : box[u] \in [seen : BOOLEAN, modseq : Nat \ {0}]
  BY TableIs DEF ServerTyped
<1>2. \A u \in DOMAIN box : box[u].seen \in BOOLEAN /\ box[u].modseq \in Nat \ {0}
  BY <1>1
<1> QED BY <1>1, <1>2, ImapFolderAssumption DEF ServerTyped, Uids

LEMMA QuietBox ==
  ASSUME ServerTyped, UNCHANGED server
  PROVE  BoxAdvances
BY BoxIs DEF server, BoxAdvances, ServerTyped

LEMMA StoreAdvances ==
  ASSUME ServerTyped, NEW u \in DOMAIN box, NEW seen \in BOOLEAN, StoreSeen(u, seen)
  PROVE  /\ BoxAdvances /\ validity' = validity /\ DOMAIN box' = DOMAIN box
         /\ box'[u].seen = seen /\ box'[u].modseq = highest + 1
         /\ \A v \in DOMAIN box \ {u} : box'[v] = box[v]
<1> DEFINE row == [seen |-> seen, modseq |-> highest + 1]
<1>1. /\ box' = [box EXCEPT ![u] = row] /\ highest' = highest + 1
      /\ validity' = validity /\ uidnext' = uidnext
  BY DEF StoreSeen
<1>2. DOMAIN box \subseteq Uids /\ box \in [DOMAIN box -> BoxRow]
  BY TableIs DEF ServerTyped, BoxRow
<1>3. row \in BoxRow /\ row.seen = seen /\ row.modseq = highest + 1
  BY BoxIs DEF BoxRow
<1> HIDE DEF row
<1>4. /\ box' \in [DOMAIN box -> BoxRow] /\ DOMAIN box' = DOMAIN box /\ box'[u] = row
      /\ \A v \in DOMAIN box \ {u} : box'[v] = box[v]
  BY <1>1, <1>2, <1>3
<1>5. box' \in Tables(BoxRow)
  BY <1>2, <1>4, TableOf
<1>6. \A v \in DOMAIN box' : v < uidnext' /\ box'[v].modseq <= highest'
  BY <1>1, <1>3, <1>4, BoxIs
<1>7. ServerTyped'
  BY <1>1, <1>5, <1>6, BoxIs DEF ServerTyped, BoxRow
<1>8. BoxAdvances
  BY <1>1, <1>3, <1>4, <1>7, BoxIs DEF BoxAdvances
<1> QED BY <1>1, <1>3, <1>4, <1>8

LEMMA ExpungeAdvances ==
  ASSUME ServerTyped, NEW u \in DOMAIN box, Expunge(u)
  PROVE  /\ BoxAdvances /\ validity' = validity /\ uidnext' = uidnext
         /\ DOMAIN box' = DOMAIN box \ {u} /\ \A v \in DOMAIN box' : box'[v] = box[v]
<1>1. /\ box' = Only(box, DOMAIN box \ {u}) /\ highest' = highest + 1
      /\ validity' = validity /\ uidnext' = uidnext
  BY DEF Expunge
<1>2. box \in Tables(BoxRow)
  BY DEF ServerTyped, BoxRow
<1>3. /\ box' \in Tables(BoxRow) /\ DOMAIN box' = DOMAIN box \ {u}
      /\ \A v \in DOMAIN box' : box'[v] = box[v]
  BY <1>1, <1>2, OnlyIs
<1>4. \A v \in DOMAIN box' : v < uidnext' /\ box'[v].modseq <= highest'
  <2> TAKE v \in DOMAIN box'
  <2>1. v \in DOMAIN box /\ box'[v] = box[v]
    BY <1>3
  <2>2. v < uidnext /\ box[v].modseq <= highest /\ box[v].modseq \in Nat /\ highest \in Nat
    BY <2>1, BoxIs
  <2> QED BY <1>1, <2>1, <2>2
<1>5. ServerTyped'
  <2>1. highest' \in Nat \ {0}
    BY <1>1, BoxIs
  <2>2. validity' \in 1..MaxValidity /\ uidnext' \in 1..(MaxUid + 1)
    BY <1>1 DEF ServerTyped
  <2> QED BY <1>3, <1>4, <2>1, <2>2 DEF ServerTyped, BoxRow
<1>6. BoxAdvances
  BY <1>1, <1>3, <1>5, BoxIs DEF BoxAdvances
<1> QED BY <1>1, <1>3, <1>6

LEMMA ArriveAdvances ==
  ASSUME ServerTyped, Arrive
  PROVE  BoxAdvances /\ validity' = validity
<1> DEFINE row == [seen |-> FALSE, modseq |-> highest + 1]
           one == [u \in {uidnext} |-> row]
<1>1. /\ box' = Over(one, box) /\ highest' = highest + 1 /\ uidnext <= MaxUid
      /\ validity' = validity /\ uidnext' = uidnext + 1
  BY DEF Arrive
<1>2. box \in Tables(BoxRow) /\ uidnext \in Uids /\ MaxUid \in Nat
  BY <1>1, ImapFolderAssumption DEF ServerTyped, BoxRow, Uids
<1>3. row \in BoxRow /\ row.modseq = highest + 1
  BY BoxIs DEF BoxRow
<1> HIDE DEF row
<1>4. one \in Tables(BoxRow)
  BY <1>2, <1>3, TableOf
<1>5. DOMAIN one = {uidnext} /\ one[uidnext] = row
  OBVIOUS
<1> HIDE DEF one
<1>6. /\ box' \in Tables(BoxRow) /\ DOMAIN box' = DOMAIN box \cup {uidnext} /\ box'[uidnext] = row
      /\ \A u \in DOMAIN box \ {uidnext} : box'[u] = box[u]
  <2>1. Over(one, box) \in Tables(BoxRow)
    BY <1>2, <1>4, OverIs
  <2>2. DOMAIN Over(one, box) = DOMAIN one \cup DOMAIN box
    BY DEF Over
  <2>3. /\ \A u \in DOMAIN one : Over(one, box)[u] = one[u]
        /\ \A u \in DOMAIN box \ DOMAIN one : Over(one, box)[u] = box[u]
    BY DEF Over
  <2> QED BY <1>1, <1>5, <2>1, <2>2, <2>3
<1>7. \A v \in DOMAIN box' : v < uidnext' /\ box'[v].modseq <= highest'
  BY <1>1, <1>3, <1>6, BoxIs
<1>8. ServerTyped'
  BY <1>1, <1>2, <1>6, <1>7, BoxIs DEF ServerTyped, BoxRow
<1>9. BoxAdvances
  BY <1>1, <1>3, <1>6, <1>8, BoxIs DEF BoxAdvances
<1> QED BY <1>1, <1>9

LEMMA RecreateAdvances ==
  ASSUME ServerTyped, Recreate
  PROVE  BoxAdvances
<1>1. box' = Nothing /\ uidnext' = 1 /\ highest' = 1 /\ validity' = validity + 1 /\ validity < MaxValidity
  BY DEF Recreate
<1>2. box' \in Tables(BoxRow) /\ DOMAIN box' = {}
  BY <1>1, NothingIs
<1>3. ServerTyped'
  BY <1>1, <1>2, BoxIs, ImapFolderAssumption DEF ServerTyped, BoxRow
<1> QED BY <1>1, <1>3, BoxIs DEF BoxAdvances

-----------------------------------------------------------------------------
(***************************************************************************)
(* What a cycle knows.                                                     *)
(***************************************************************************)
Infos == [validity : 0..MaxValidity, uidnext : 0..(MaxUid + 1), modseq : Nat]

LEMMA CursorIs ==
  ASSUME NEW r \in Cursors
  PROVE  r.validity \in Nat /\ r.uidnext \in Nat /\ r.modseq \in Nat /\ r.pass \in 0..(RefreshEvery - 1)
BY ImapFolderAssumption DEF Cursors

LEMMA CycleIs ==
  ASSUME CyclesTyped, NEW c \in Syncers
  PROVE  /\ pc[c] \in Stages /\ loaded[c] \in Cursors /\ info[c] \in Infos
         /\ all[c] \subseteq Uids /\ new[c] \subseteq Uids
         /\ flags[c] \in Tables(BOOLEAN) /\ headers[c] \in Tables(BOOLEAN)
         /\ loaded[c].validity \in Nat /\ loaded[c].uidnext \in Nat /\ loaded[c].modseq \in Nat
         /\ info[c].validity \in Nat /\ info[c].uidnext \in Nat /\ info[c].modseq \in Nat
         /\ \A u \in all[c] : u \in Nat
         /\ \A u \in new[c] : u \in Nat
         /\ \A u \in DOMAIN headers[c] : u \in Nat
<1>1. loaded[c] \in Cursors /\ info[c] \in Infos /\ all[c] \subseteq Uids /\ new[c] \subseteq Uids
  BY DEF CyclesTyped, Infos
<1>2. pc[c] \in Stages /\ flags[c] \in Tables(BOOLEAN) /\ headers[c] \in Tables(BOOLEAN)
  BY DEF CyclesTyped
<1>3. loaded[c].validity \in Nat /\ loaded[c].uidnext \in Nat /\ loaded[c].modseq \in Nat
  BY <1>1, CursorIs
<1>4. info[c].validity \in Nat /\ info[c].uidnext \in Nat /\ info[c].modseq \in Nat
  BY <1>1, ImapFolderAssumption DEF Infos
<1>5. DOMAIN headers[c] \subseteq Uids
  BY <1>2, TableIs
<1>6. Uids \subseteq Nat
  BY DEF Uids
<1> QED BY <1>1, <1>2, <1>3, <1>4, <1>5, <1>6

\* What the mailbox does does not disturb what a cycle knows.
LEMMA KnowsOn ==
  ASSUME ServerTyped, CyclesTyped, BoxAdvances, condstore' = condstore, NEW c \in Syncers, Knows(c),
         pc'[c] = pc[c], loaded'[c] = loaded[c], info'[c] = info[c], all'[c] = all[c],
         new'[c] = new[c], flags'[c] = flags[c], headers'[c] = headers[c]
  PROVE  Knows(c)'
<1>1. /\ validity \in Nat /\ validity' \in Nat /\ uidnext \in Nat /\ uidnext' \in Nat
      /\ highest \in Nat /\ highest' \in Nat /\ validity <= validity'
  BY BoxIs, ImapFolderAssumption DEF BoxAdvances, ServerTyped
<1>2. \A u \in DOMAIN box' : u \in Nat /\ box'[u].modseq \in Nat
  <2>1. ServerTyped' => \A u \in DOMAIN box' : u \in Nat /\ box'[u].modseq \in Nat
    <3>1. ASSUME ServerTyped' PROVE DOMAIN box' \subseteq Uids /\ \A u \in DOMAIN box' : box'[u] \in BoxRow
      <4>1. box' \in Tables(BoxRow)
        BY <3>1 DEF ServerTyped, BoxRow
      <4> QED BY <4>1 DEF Tables
    <3> QED BY <3>1 DEF Uids, BoxRow
  <2> QED BY <2>1 DEF BoxAdvances
<1>3. /\ loaded[c].validity \in Nat /\ loaded[c].uidnext \in Nat /\ loaded[c].modseq \in Nat
      /\ info[c].validity \in Nat /\ info[c].uidnext \in Nat /\ info[c].modseq \in Nat
      /\ \A u \in all[c] : u \in Nat
      /\ \A u \in new[c] : u \in Nat
      /\ \A u \in DOMAIN headers[c] : u \in Nat
  BY CycleIs
<1>4. ASSUME pc[c] \in Selected, validity' = info[c].validity
      PROVE  /\ validity' = validity /\ SameBox(c)
             /\ info[c].uidnext <= uidnext /\ info[c].modseq <= highest
             /\ uidnext <= uidnext' /\ highest <= highest'
  <2>1. info[c].validity <= validity
    BY <1>4, <1>1, <1>3 DEF Knows, KnowsBox
  <2>2. validity' = validity /\ SameBox(c)
    BY <2>1, <1>4, <1>1, <1>3 DEF SameBox
  <2> QED BY <2>2, <1>4 DEF Knows, KnowsBox, BoxAdvances
<1>5. ASSUME pc[c] \in Selected, validity' = info[c].validity, NEW u \in DOMAIN box'
      PROVE  /\ u \in DOMAIN box \/ u >= uidnext
             /\ (u \in DOMAIN box /\ box'[u] = box[u]) \/ box'[u].modseq > info[c].modseq
  <2>1. \/ u \in DOMAIN box /\ box'[u] = box[u]
        \/ box'[u].modseq > highest /\ (u \in DOMAIN box \/ u >= uidnext)
    BY <1>4, <1>5 DEF BoxAdvances
  <2>2. info[c].modseq <= highest
    BY <1>4, <1>5
  <2>3. box'[u].modseq > highest => box'[u].modseq > info[c].modseq
    BY <2>2, <1>1, <1>2, <1>3
  <2> QED BY <2>1, <2>3
<1>6. ASSUME pc[c] \in Selected PROVE KnowsBox(c)'
  <2>1. loaded[c].validity <= info[c].validity /\ info[c].validity \in 1..validity'
    BY <1>6, <1>1, <1>3 DEF Knows, KnowsBox
  <2>2. condstore <=> info[c].modseq # None
    BY <1>6 DEF Knows, KnowsBox
  <2>3. ASSUME validity' = info[c].validity
        PROVE  info[c].uidnext <= uidnext' /\ info[c].modseq <= highest'
    BY <2>3, <1>4, <1>6, <1>1, <1>3
  <2>4. ASSUME validity' = info[c].validity, NEW u \in DOMAIN box', u >= info[c].uidnext
        PROVE  box'[u].modseq > info[c].modseq
    BY <2>4, <1>4, <1>5, <1>6 DEF Knows, KnowsBox
  <2> QED BY <2>1, <2>2, <2>3, <2>4 DEF KnowsBox, SameBox
<1>7. ASSUME validity' = info[c].validity, pc[c] \in Listed PROVE KnowsAll(c)'
  <2>1. pc[c] \in Selected /\ KnowsAll(c)
    BY <1>7, <1>4 DEF Knows, Listed, Selected
  <2> QED BY <2>1, <1>7, <1>4, <1>5, <1>1, <1>2, <1>3 DEF KnowsAll
<1>8. ASSUME validity' = info[c].validity, pc[c] \in Searched PROVE KnowsNew(c)'
  <2>1. pc[c] \in Selected /\ KnowsNew(c)
    BY <1>8, <1>4 DEF Knows, Searched, Listed, Selected
  <2>2. Full(c)' <=> Full(c)
    BY DEF Full
  <2> QED BY <2>1, <2>2, <1>8, <1>4, <1>5, <1>1, <1>2, <1>3 DEF KnowsNew
<1>9. ASSUME validity' = info[c].validity, pc[c] \in Flagged PROVE KnowsFlags(c)'
  <2>1. pc[c] \in Selected /\ KnowsFlags(c)
    BY <1>9, <1>4 DEF Knows, Flagged, Searched, Listed, Selected
  <2>2. Full(c)' <=> Full(c)
    BY DEF Full
  <2>3. \A u \in DOMAIN box' \cap DOMAIN flags[c] :
          flags[c][u] = box'[u].seen \/ box'[u].modseq > info[c].modseq
    BY <2>1, <1>5, <1>9 DEF KnowsFlags, Matches
  <2>4. ~Full(c) /\ condstore /\ loaded[c].modseq # None =>
          \A u \in DOMAIN box' : box'[u].modseq > loaded[c].modseq =>
             u \in DOMAIN flags[c] \/ box'[u].modseq > info[c].modseq
    BY <2>1, <1>5, <1>9 DEF KnowsFlags
  <2> QED BY <2>2, <2>3, <2>4 DEF KnowsFlags, Matches
<1>10. ASSUME validity' = info[c].validity, pc[c] = "fetched" PROVE KnowsHeaders(c)'
  <2>1. pc[c] \in Selected /\ KnowsNew(c) /\ KnowsHeaders(c)
    BY <1>10, <1>4 DEF Knows, Searched, Listed, Selected
  <2>2. \A u \in DOMAIN headers[c] : u < uidnext'
    BY <2>1, <1>4, <1>10, <1>1, <1>3 DEF KnowsHeaders
  <2>3. DOMAIN box' \cap new[c] \subseteq DOMAIN headers[c]
    <3>1. \A u \in new[c] : u < uidnext
      BY <2>1 DEF KnowsNew
    <3>2. \A u \in DOMAIN box' \cap new[c] : u \in DOMAIN box
      BY <3>1, <2>1, <1>5, <1>10, <1>1, <1>3
    <3> QED BY <3>2, <2>1 DEF KnowsHeaders
  <2>4. \A u \in DOMAIN box' \cap DOMAIN headers[c] :
          headers[c][u] = box'[u].seen \/ box'[u].modseq > info[c].modseq
    BY <2>1, <1>5, <1>10 DEF KnowsHeaders, Matches
  <2> QED BY <2>2, <2>3, <2>4 DEF KnowsHeaders, Matches
<1> QED BY <1>6, <1>7, <1>8, <1>9, <1>10 DEF Knows, SameBox

\* Knowledge is about the mailbox and what the cycle holds.
LEMMA SameKnowledge ==
  ASSUME NEW c \in Syncers, UNCHANGED <<condstore, server>>, loaded'[c] = loaded[c], info'[c] = info[c]
  PROVE  /\ KnowsBox(c) => KnowsBox(c)'
         /\ all'[c] = all[c] /\ KnowsAll(c) => KnowsAll(c)'
         /\ new'[c] = new[c] /\ KnowsNew(c) => KnowsNew(c)'
         /\ flags'[c] = flags[c] /\ KnowsFlags(c) => KnowsFlags(c)'
<1>1. box' = box /\ uidnext' = uidnext /\ highest' = highest /\ validity' = validity /\ condstore' = condstore
  BY DEF server
<1>2. (Full(c)' <=> Full(c)) /\ (SameBox(c)' <=> SameBox(c))
  BY <1>1 DEF Full, SameBox
<1>3. KnowsBox(c) => KnowsBox(c)'
  BY <1>1, <1>2 DEF KnowsBox
<1>4. all'[c] = all[c] /\ KnowsAll(c) => KnowsAll(c)'
  BY <1>1 DEF KnowsAll
<1>5. new'[c] = new[c] /\ KnowsNew(c) => KnowsNew(c)'
  BY <1>1, <1>2 DEF KnowsNew
<1>6. flags'[c] = flags[c] /\ KnowsFlags(c) => KnowsFlags(c)'
  BY <1>1, <1>2 DEF KnowsFlags, Matches
<1> QED BY <1>3, <1>4, <1>5, <1>6

-----------------------------------------------------------------------------
(***************************************************************************)
(* The steps in which a cycle only reads.                                  *)
(***************************************************************************)
\* The rest of the system stays, but for the action that ends with its cycle.
ReadsOnly(c) ==
    /\ UNCHANGED <<condstore, server, folder, placed, excuses>>
    /\ action' = action \/ (c = "api" /\ pc[c] # "idle" /\ action' = NoAction)
    /\ \A d \in Syncers \ {c} :
         /\ pc'[d] = pc[d] /\ loaded'[d] = loaded[d] /\ info'[d] = info[d] /\ all'[d] = all[d]
         /\ new'[d] = new[d] /\ flags'[d] = flags[d] /\ headers'[d] = headers[d]
    /\ Running(c)' => (Running(c) /\ loaded'[c] = loaded[c]) \/ loaded'[c] = folder

LEMMA ReadingKeeps ==
  ASSUME IInv, NEW c \in Syncers, ReadsOnly(c), CyclesTyped', ActionTyped', Knows(c)'
  PROVE  IInv'
<1>1. /\ box' = box /\ uidnext' = uidnext /\ highest' = highest /\ validity' = validity
      /\ condstore' = condstore /\ folder' = folder /\ placed' = placed /\ excuses' = excuses
  BY DEF ReadsOnly, server
<1>2. StateTyped'
  BY <1>1 DEF IInv, StateTyped, ServerTyped, FolderTyped, RestTyped
<1>3. action' = action \/ (action.kind = "resync" /\ action'.kind = "none" /\ action'.validity = 0)
  <2>1. pc["api"] # "idle" => action.kind = "resync"
    BY DEF IInv, StateTyped, ActionTyped
  <2> QED BY <2>1 DEF ReadsOnly, NoAction, None
<1>4. (Shaken' <=> Shaken) /\ (Current' <=> Current)
  BY <1>1 DEF Shaken, Current
<1>5. \A d \in Syncers : Running(d)' => (Running(d) /\ loaded'[d] = loaded[d]) \/ loaded'[d] = folder
  BY DEF ReadsOnly, Running
<1>6. Muddled => Muddled'
  BY <1>1, <1>4, <1>5 DEF Muddled, Current
<1>7. OvertakenOnce'
  BY <1>1, <1>4, <1>5 DEF IInv, OvertakenOnce
<1>8. ValiditiesPast'
  <2>1. action'.validity <= validity
    BY <1>3, BoxIs DEF IInv, StateTyped, ValiditiesPast
  <2> QED BY <2>1, <1>1, <1>5 DEF IInv, ValiditiesPast
<1>9. CursorPast'
  BY <1>1, <1>4 DEF IInv, CursorPast
<1>10. \A d \in Syncers : Knows(d)'
  <2> TAKE d \in Syncers
  <2>1. CASE d = c
    BY <2>1
  <2>2. CASE d # c
    <3>1. ServerTyped /\ CyclesTyped /\ Knows(d) /\ BoxAdvances
      BY QuietBox DEF IInv, StateTyped, ReadsOnly
    <3>2. /\ pc'[d] = pc[d] /\ loaded'[d] = loaded[d] /\ info'[d] = info[d] /\ all'[d] = all[d]
          /\ new'[d] = new[d] /\ flags'[d] = flags[d] /\ headers'[d] = headers[d]
      BY <2>2 DEF ReadsOnly
    <3> QED BY <3>1, <3>2, <1>1, KnowsOn
  <2> QED BY <2>1, <2>2
<1>11. PlacedHere'
  BY <1>1, <1>4, <1>6 DEF IInv, PlacedHere
<1>12. ActionHere'
  BY <1>1, <1>3, <1>6 DEF IInv, ActionHere
<1>13. MessagesKept'
  BY <1>1, <1>4 DEF IInv, MessagesKept
<1>14. FlagsKept'
  BY <1>1, <1>3, <1>4 DEF IInv, FlagsKept, Matches
<1> QED BY <1>2, <1>7, <1>8, <1>9, <1>10, <1>11, <1>12, <1>13, <1>14 DEF IInv

LEMMA LoadKeeps ==
  ASSUME IInv, NEW c \in Syncers, Load(c)
  PROVE  IInv'
<1>1. /\ CyclesTyped /\ ActionTyped /\ folder \in Cursors /\ pc[c] = "idle"
      /\ c = "api" => action.kind = "resync"
      /\ pc' = [pc EXCEPT ![c] = "loaded"] /\ loaded' = [loaded EXCEPT ![c] = folder]
      /\ UNCHANGED <<condstore, server, folder, placed, info, all, new, flags, headers,
                     action, counts, excuses>>
  BY DEF IInv, StateTyped, FolderTyped, Load
<1>2. pc'[c] = "loaded" /\ loaded'[c] = folder /\ CyclesTyped'
  BY <1>1 DEF CyclesTyped, Stages, Selected
<1>3. ReadsOnly(c)
  BY <1>1, <1>2 DEF CyclesTyped, ReadsOnly
<1>4. ActionTyped'
  BY <1>1 DEF ActionTyped, CyclesTyped
<1>5. Knows(c)'
  BY <1>2 DEF Knows, Flagged, Searched, Listed, Selected
<1> QED BY <1>2, <1>3, <1>4, <1>5, ReadingKeeps

LEMMA SelectKeeps ==
  ASSUME IInv, NEW c \in Syncers, Select(c)
  PROVE  IInv'
<1> DEFINE seen == [validity |-> validity, uidnext |-> uidnext,
                    modseq |-> IF condstore THEN highest ELSE None]
<1>1. /\ CyclesTyped /\ ActionTyped /\ ServerTyped /\ pc[c] = "loaded"
      /\ pc' = [pc EXCEPT ![c] = "selected"] /\ info' = [info EXCEPT ![c] = seen]
      /\ UNCHANGED <<condstore, server, folder, placed, loaded, all, new, flags, headers,
                     action, counts, excuses>>
  BY DEF IInv, StateTyped, Select
<1>2. seen \in Infos
  BY <1>1, ImapFolderAssumption DEF ServerTyped, Infos, None
<1>3. seen.validity = validity /\ seen.uidnext = uidnext /\ seen.modseq = IF condstore THEN highest ELSE None
  OBVIOUS
<1> HIDE DEF seen
<1>4. pc'[c] = "selected" /\ info'[c] = seen /\ CyclesTyped'
  BY <1>1, <1>2 DEF CyclesTyped, Stages, Selected, Infos
<1>5. ReadsOnly(c)
  BY <1>1, <1>4 DEF CyclesTyped, ReadsOnly, Running
<1>6. ActionTyped'
  BY <1>1 DEF ActionTyped, CyclesTyped
<1>7. KnowsBox(c)'
  <2>1. loaded[c].validity <= validity
    BY <1>1 DEF IInv, ValiditiesPast, Running
  <2>2. condstore <=> seen.modseq # None
    BY <1>1, <1>3 DEF ServerTyped, None
  <2>3. \A u \in DOMAIN box : ~(u >= uidnext)
    BY <1>1, BoxIs
  <2>4. validity \in 1..validity /\ highest >= 0
    BY <1>1, ImapFolderAssumption DEF ServerTyped
  <2>5. box' = box /\ uidnext' = uidnext /\ highest' = highest /\ validity' = validity /\ condstore' = condstore
        /\ loaded' = loaded
    BY <1>1 DEF server
  <2>6. uidnext <= uidnext /\ seen.modseq <= highest
    BY <1>1, <1>3, <2>4, BoxIs DEF None
  <2> QED BY <1>3, <1>4, <2>1, <2>2, <2>3, <2>4, <2>5, <2>6 DEF KnowsBox
<1>8. Knows(c)'
  BY <1>4, <1>7 DEF Knows, Flagged, Searched, Listed, Selected
<1> QED BY <1>4, <1>5, <1>6, <1>8, ReadingKeeps

LEMMA SearchAllKeeps ==
  ASSUME IInv, NEW c \in Syncers, SearchAll(c)
  PROVE  IInv'
<1>1. /\ CyclesTyped /\ ActionTyped /\ ServerTyped /\ pc[c] = "selected" /\ DOMAIN box \in SUBSET Uids
      /\ pc' = [pc EXCEPT ![c] = "listed"] /\ all' = [all EXCEPT ![c] = DOMAIN box]
      /\ UNCHANGED <<condstore, server, folder, placed, loaded, info, new, flags, headers,
                     action, counts, excuses>>
  BY BoxIs DEF IInv, StateTyped, SearchAll
<1>2. pc'[c] = "listed" /\ all'[c] = DOMAIN box /\ CyclesTyped'
  BY <1>1 DEF CyclesTyped, Stages, Selected
<1>3. ReadsOnly(c)
  BY <1>1, <1>2 DEF CyclesTyped, ReadsOnly, Running
<1>4. ActionTyped'
  BY <1>1 DEF ActionTyped, CyclesTyped
<1>5. KnowsBox(c)'
  BY <1>1, SameKnowledge DEF IInv, Knows, Selected
<1>6. KnowsAll(c)'
  BY <1>1, <1>2, BoxIs DEF KnowsAll, server
<1>7. Knows(c)'
  BY <1>2, <1>5, <1>6 DEF Knows, Flagged, Searched, Listed, Selected
<1> QED BY <1>2, <1>3, <1>4, <1>7, ReadingKeeps

LEMMA SearchNewKeeps ==
  ASSUME IInv, NEW c \in Syncers, SearchNew(c)
  PROVE  IInv'
<1> DEFINE found == IF Full(c) \/ loaded[c].uidnext = None
                    THEN all[c]
                    ELSE {u \in DOMAIN box : u >= loaded[c].uidnext}
<1>1. /\ CyclesTyped /\ ActionTyped /\ ServerTyped /\ pc[c] = "listed" /\ SameBox(c)
      /\ pc' = [pc EXCEPT ![c] = "searched"] /\ new' = [new EXCEPT ![c] = found]
      /\ UNCHANGED <<condstore, server, folder, placed, loaded, info, all, flags, headers,
                     action, counts, excuses>>
  BY DEF IInv, StateTyped, SearchNew
<1>2. found \in SUBSET Uids
  BY <1>1, BoxIs, CycleIs
<1>3. KnowsBox(c) /\ KnowsAll(c)
  BY <1>1 DEF IInv, Knows, Listed, Selected
<1>4. /\ \A u \in found : u < uidnext
      /\ \A u \in DOMAIN box :
           u < info[c].uidnext /\ (Full(c) \/ loaded[c].uidnext = None \/ u >= loaded[c].uidnext)
             => u \in found
  BY <1>1, <1>3, BoxIs DEF KnowsAll
<1> HIDE DEF found
<1>5. pc'[c] = "searched" /\ new'[c] = found /\ CyclesTyped'
  BY <1>1, <1>2 DEF CyclesTyped, Stages, Selected
<1>6. ReadsOnly(c)
  BY <1>1, <1>5 DEF CyclesTyped, ReadsOnly, Running
<1>7. ActionTyped'
  BY <1>1 DEF ActionTyped, CyclesTyped
<1>8. KnowsBox(c)' /\ KnowsAll(c)'
  BY <1>1, <1>3, SameKnowledge
<1>9. KnowsNew(c)'
  BY <1>1, <1>4, <1>5 DEF KnowsNew, Full, server
<1>10. Knows(c)'
  BY <1>5, <1>8, <1>9 DEF Knows, Flagged, Searched, Listed, Selected
<1> QED BY <1>5, <1>6, <1>7, <1>10, ReadingKeeps

LEMMA FetchFlagsKeeps ==
  ASSUME IInv, NEW c \in Syncers, FetchFlags(c)
  PROVE  IInv'
<1> DEFINE asked == {u \in all[c] \cap DOMAIN box : box[u].modseq > loaded[c].modseq}
           read == IF ~Full(c) /\ condstore /\ loaded[c].modseq # None
                   THEN Seen(asked)
                   ELSE IF Refreshes(c) THEN Seen(all[c]) ELSE Nothing
<1>1. /\ CyclesTyped /\ ActionTyped /\ ServerTyped /\ pc[c] = "searched" /\ SameBox(c)
      /\ pc' = [pc EXCEPT ![c] = "refreshed"] /\ flags' = [flags EXCEPT ![c] = read]
      /\ UNCHANGED <<condstore, server, folder, placed, loaded, info, all, new, headers,
                     action, counts, excuses>>
  BY DEF IInv, StateTyped, FetchFlags
<1>2. /\ read \in Tables(BOOLEAN)
      /\ \A u \in DOMAIN read : u \in DOMAIN box /\ read[u] = box[u].seen
  <2>1. CASE ~Full(c) /\ condstore /\ loaded[c].modseq # None
    BY <2>1, <1>1, SeenIs
  <2>2. CASE ~(~Full(c) /\ condstore /\ loaded[c].modseq # None) /\ Refreshes(c)
    <3>1. read = Seen(all[c])
      BY <2>2
    <3>2. /\ Seen(all[c]) \in Tables(BOOLEAN) /\ DOMAIN Seen(all[c]) = DOMAIN box \cap all[c]
          /\ \A u \in DOMAIN box \cap all[c] : Seen(all[c])[u] = box[u].seen
      BY <1>1, SeenIs
    <3> QED BY <3>1, <3>2, Zenon
  <2>3. CASE ~(~Full(c) /\ condstore /\ loaded[c].modseq # None) /\ ~Refreshes(c)
    <3>1. read = Nothing
      BY <2>3
    <3> QED BY <3>1, NothingIs
  <2> QED BY <2>1, <2>2, <2>3
<1>3. KnowsBox(c) /\ KnowsAll(c) /\ KnowsNew(c)
  BY <1>1 DEF IInv, Knows, Searched, Listed, Selected
<1>4. ASSUME ~Full(c), condstore, loaded[c].modseq # None, NEW u \in DOMAIN box,
             box[u].modseq > loaded[c].modseq
      PROVE  u \in DOMAIN read \/ box[u].modseq > info[c].modseq
  <2>1. read = Seen(asked)
    BY <1>4
  <2>2. DOMAIN read = DOMAIN box \cap asked
    BY <2>1, <1>1, SeenIs
  <2>3. u < info[c].uidnext => u \in all[c]
    BY <1>3 DEF KnowsAll
  <2>4. u >= info[c].uidnext => box[u].modseq > info[c].modseq
    BY <1>1, <1>3 DEF KnowsBox
  <2>5. u \in Nat /\ info[c].uidnext \in Nat
    BY <1>1, BoxIs, CycleIs
  <2> QED BY <1>4, <2>2, <2>3, <2>4, <2>5
<1> HIDE DEF read
<1>5. pc'[c] = "refreshed" /\ flags'[c] = read /\ CyclesTyped'
  BY <1>1, <1>2 DEF CyclesTyped, Stages, Selected
<1>6. ReadsOnly(c)
  BY <1>1, <1>5 DEF CyclesTyped, ReadsOnly, Running
<1>7. ActionTyped'
  BY <1>1 DEF ActionTyped, CyclesTyped
<1>8. KnowsBox(c)' /\ KnowsAll(c)' /\ KnowsNew(c)'
  BY <1>1, <1>3, SameKnowledge
<1>9. KnowsFlags(c)'
  BY <1>1, <1>2, <1>4, <1>5 DEF KnowsFlags, Matches, Full, server
<1>10. Knows(c)'
  BY <1>5, <1>8, <1>9 DEF Knows, Flagged, Searched, Listed, Selected
<1> QED BY <1>5, <1>6, <1>7, <1>10, ReadingKeeps

LEMMA FetchHeadersKeeps ==
  ASSUME IInv, NEW c \in Syncers, FetchHeaders(c)
  PROVE  IInv'
<1> DEFINE read == Seen(new[c])
<1>1. /\ CyclesTyped /\ ActionTyped /\ ServerTyped /\ pc[c] = "refreshed" /\ SameBox(c)
      /\ pc' = [pc EXCEPT ![c] = "fetched"] /\ headers' = [headers EXCEPT ![c] = read]
      /\ UNCHANGED <<condstore, server, folder, placed, loaded, info, all, new, flags,
                     action, counts, excuses>>
  BY DEF IInv, StateTyped, FetchHeaders
<1>2. /\ read \in Tables(BOOLEAN) /\ DOMAIN read = DOMAIN box \cap new[c]
      /\ \A u \in DOMAIN read : read[u] = box[u].seen
  BY <1>1, SeenIs
<1>3. KnowsBox(c) /\ KnowsAll(c) /\ KnowsNew(c) /\ KnowsFlags(c)
  BY <1>1 DEF IInv, Knows, Flagged, Searched, Listed, Selected
<1> HIDE DEF read
<1>4. pc'[c] = "fetched" /\ headers'[c] = read /\ CyclesTyped'
  BY <1>1, <1>2 DEF CyclesTyped, Stages, Selected
<1>5. ReadsOnly(c)
  BY <1>1, <1>4 DEF CyclesTyped, ReadsOnly, Running
<1>6. ActionTyped'
  BY <1>1 DEF ActionTyped, CyclesTyped
<1>7. KnowsBox(c)' /\ KnowsAll(c)' /\ KnowsNew(c)' /\ KnowsFlags(c)'
  BY <1>1, <1>3, SameKnowledge
<1>8. KnowsHeaders(c)'
  BY <1>1, <1>2, <1>4, BoxIs DEF KnowsHeaders, Matches, server
<1>9. Knows(c)'
  BY <1>4, <1>7, <1>8 DEF Knows, Flagged, Searched, Listed, Selected
<1> QED BY <1>4, <1>5, <1>6, <1>9, ReadingKeeps

LEMMA EndCycleIs ==
  ASSUME IInv, NEW c \in Syncers, EndCycle(c)
  PROVE  /\ CyclesTyped' /\ ActionTyped' /\ pc'[c] = "idle"
         /\ action' = action \/ (c = "api" /\ action' = NoAction)
         /\ \A d \in Syncers \ {c} :
              /\ pc'[d] = pc[d] /\ loaded'[d] = loaded[d] /\ info'[d] = info[d] /\ all'[d] = all[d]
              /\ new'[d] = new[d] /\ flags'[d] = flags[d] /\ headers'[d] = headers[d]
<1>1. /\ CyclesTyped /\ ActionTyped
      /\ pc' = [pc EXCEPT ![c] = "idle"]
      /\ loaded' = [loaded EXCEPT ![c] = NoCursor] /\ info' = [info EXCEPT ![c] = NoInfo]
      /\ all' = [all EXCEPT ![c] = {}] /\ new' = [new EXCEPT ![c] = {}]
      /\ flags' = [flags EXCEPT ![c] = Nothing] /\ headers' = [headers EXCEPT ![c] = Nothing]
      /\ action' = IF c = "api" THEN NoAction ELSE action
  BY DEF IInv, StateTyped, EndCycle
<1>2. NoCursor \in Cursors /\ NoInfo \in Infos /\ Nothing \in Tables(BOOLEAN)
  BY NothingIs, ImapFolderAssumption DEF NoCursor, NoInfo, None, Cursors, Infos
<1>3. CyclesTyped'
  BY <1>1, <1>2 DEF CyclesTyped, Infos, Stages
<1>4. NoAction \in [kind : {"none", "flag", "remove", "drop", "resync"}, uid : 0..MaxUid,
                    seen : BOOLEAN, validity : 0..MaxValidity]
  BY ImapFolderAssumption DEF NoAction, None
<1>5. ActionTyped'
  <2>1. CASE c = "api"
    BY <2>1, <1>1, <1>4 DEF ActionTyped, CyclesTyped
  <2>2. CASE c # "api"
    BY <2>2, <1>1 DEF ActionTyped, CyclesTyped
  <2> QED BY <2>1, <2>2
<1> QED BY <1>1, <1>3, <1>5 DEF CyclesTyped

LEMMA FailKeeps ==
  ASSUME IInv, NEW c \in Syncers, Fail(c)
  PROVE  IInv'
<1>1. EndCycle(c) /\ pc[c] # "idle" /\ UNCHANGED <<condstore, server, folder, placed, excuses>>
  BY DEF Fail
<1>2. CyclesTyped' /\ ActionTyped' /\ pc'[c] = "idle"
  BY <1>1, EndCycleIs
<1>3. ReadsOnly(c)
  <2>1. /\ action' = action \/ (c = "api" /\ action' = NoAction)
        /\ \A d \in Syncers \ {c} :
              /\ pc'[d] = pc[d] /\ loaded'[d] = loaded[d] /\ info'[d] = info[d] /\ all'[d] = all[d]
              /\ new'[d] = new[d] /\ flags'[d] = flags[d] /\ headers'[d] = headers[d]
    BY <1>1, EndCycleIs
  <2> QED BY <1>1, <1>2, <2>1 DEF ReadsOnly, Running
<1>4. Knows(c)'
  BY <1>2 DEF Knows, Flagged, Searched, Listed, Selected
<1> QED BY <1>2, <1>3, <1>4, ReadingKeeps

-----------------------------------------------------------------------------
(***************************************************************************)
(* The steps of the mailbox.                                               *)
(***************************************************************************)
Unsent(u) == action.kind = "flag" /\ action.uid = u /\ placed[u] = action.seen

\* The cycles rest, but for one that may begin.
Onward ==
    \A d \in Syncers :
        \/ /\ pc'[d] = pc[d] /\ loaded'[d] = loaded[d] /\ info'[d] = info[d] /\ all'[d] = all[d]
           /\ new'[d] = new[d] /\ flags'[d] = flags[d] /\ headers'[d] = headers[d]
        \/ pc'[d] = "loaded" /\ loaded'[d] = folder

LEMMA RestingCycles ==
  ASSUME UNCHANGED cycleVars
  PROVE  Onward /\ (CyclesTyped => CyclesTyped')
BY DEF Onward, CyclesTyped, cycleVars

LEMMA MuddledStays ==
  ASSUME Muddled, Onward, UNCHANGED <<folder, excuses>>, validity' = validity
  PROVE  Muddled'
BY DEF Muddled, Shaken, Current, Running, Onward

LEMMA MailboxKeeps ==
  ASSUME IInv, BoxAdvances, UNCHANGED <<condstore, folder, placed, excuses>>, Onward,
         CyclesTyped', ActionTyped', action'.validity <= validity', ActionHere',
         \A u \in DOMAIN box' \cap DOMAIN placed :
             Unsent(u) => Unsent(u)' \/ Matches(placed, u, folder.modseq)'
  PROVE  IInv'
<1>1. /\ condstore' = condstore /\ folder' = folder /\ placed' = placed /\ excuses' = excuses
  OBVIOUS
<1>2. /\ ServerTyped /\ FolderTyped /\ CyclesTyped /\ ServerTyped' /\ validity <= validity'
      /\ folder.validity <= validity /\ folder \in Cursors
  BY DEF IInv, StateTyped, FolderTyped, BoxAdvances, ValiditiesPast
<1>3. StateTyped'
  BY <1>1, <1>2 DEF IInv, StateTyped, FolderTyped, RestTyped
<1>4. /\ validity \in Nat /\ validity' \in Nat /\ uidnext \in Nat /\ uidnext' \in Nat
      /\ highest \in Nat /\ highest' \in Nat
      /\ folder.validity \in Nat /\ folder.uidnext \in Nat /\ folder.modseq \in Nat
  BY <1>2, BoxIs, CursorIs, ImapFolderAssumption DEF ServerTyped
<1>5. /\ DOMAIN box' \subseteq Nat /\ DOMAIN placed \subseteq Nat
      /\ \A u \in DOMAIN box' : box'[u].modseq \in Nat
  <2>1. box' \in Tables(BoxRow) /\ placed \in Tables(BOOLEAN)
    BY <1>2 DEF ServerTyped, FolderTyped, BoxRow
  <2>2. DOMAIN box' \subseteq Uids /\ \A u \in DOMAIN box' : box'[u] \in BoxRow
    BY <2>1 DEF Tables
  <2>3. DOMAIN placed \subseteq Uids
    BY <2>1 DEF Tables
  <2>4. \A u \in DOMAIN box' : box'[u].modseq \in Nat
    BY <2>2 DEF BoxRow
  <2> QED BY <2>2, <2>3, <2>4 DEF Uids
<1>6. ASSUME Current'
      PROVE  /\ validity' = validity /\ Current /\ uidnext <= uidnext' /\ highest <= highest'
             /\ \A u \in DOMAIN box' :
                  \/ u \in DOMAIN box /\ box'[u] = box[u]
                  \/ box'[u].modseq > highest /\ (u \in DOMAIN box \/ u >= uidnext)
  BY <1>1, <1>2, <1>4, <1>6 DEF Current, BoxAdvances
<1>7. Shaken' <=> Shaken
  BY <1>1 DEF Shaken
<1>8. OvertakenOnce'
  BY <1>1, <1>7 DEF IInv, OvertakenOnce, Running, Onward
<1>9. ValiditiesPast'
  <2>1. \A c \in Syncers : Running(c)' => loaded'[c].validity <= validity'
    <3> TAKE c \in Syncers
    <3>1. loaded[c].validity \in Nat
      BY <1>2, CycleIs
    <3> QED BY <3>1, <1>1, <1>2, <1>4 DEF IInv, ValiditiesPast, Running, Onward
  <2> QED BY <2>1, <1>1, <1>2, <1>4 DEF ValiditiesPast
<1>10. CursorPast'
  BY <1>1, <1>4, <1>6, <1>7 DEF IInv, CursorPast
<1>11. \A c \in Syncers : Knows(c)'
  <2> TAKE c \in Syncers
  <2>1. CASE /\ pc'[c] = pc[c] /\ loaded'[c] = loaded[c] /\ info'[c] = info[c] /\ all'[c] = all[c]
             /\ new'[c] = new[c] /\ flags'[c] = flags[c] /\ headers'[c] = headers[c]
    BY <2>1, <1>1, <1>2, KnowsOn DEF IInv
  <2>2. CASE pc'[c] = "loaded"
    BY <2>2 DEF Knows, Flagged, Searched, Listed, Selected
  <2> QED BY <2>1, <2>2 DEF Onward
<1>12. PlacedHere'
  BY <1>1, <1>4, <1>5, <1>6, MuddledStays DEF IInv, PlacedHere
<1>13. MessagesKept'
  <2> SUFFICES ASSUME Current', excuses \subseteq {"unsent"}, NEW u \in DOMAIN box', u < folder.uidnext
               PROVE  u \in DOMAIN placed
    BY <1>1 DEF MessagesKept
  <2>1. folder.uidnext <= uidnext
    BY <1>6 DEF IInv, CursorPast, Shaken
  <2>2. u \in DOMAIN box
    BY <2>1, <1>4, <1>5, <1>6
  <2> QED BY <2>2, <1>6 DEF IInv, MessagesKept
<1>14. FlagsKept'
  <2> SUFFICES ASSUME Current', folder.modseq # None, excuses \subseteq {"misdropped"},
                      NEW u \in DOMAIN box' \cap DOMAIN placed
               PROVE  Matches(placed, u, folder.modseq)' \/ Unsent(u)'
    BY <1>1 DEF FlagsKept, Unsent
  <2>1. folder.modseq <= highest
    BY <1>6 DEF IInv, CursorPast, Shaken
  <2>2. CASE u \in DOMAIN box /\ box'[u] = box[u]
    <3>1. Matches(placed, u, folder.modseq) \/ Unsent(u)
      BY <2>2, <1>6 DEF IInv, FlagsKept, Unsent
    <3> QED BY <3>1, <2>2, <1>1 DEF Matches
  <2>3. CASE box'[u].modseq > highest
    BY <2>1, <2>3, <1>1, <1>4, <1>5 DEF Matches
  <2> QED BY <2>2, <2>3, <1>6
<1> QED BY <1>3, <1>8, <1>9, <1>10, <1>11, <1>12, <1>13, <1>14 DEF IInv

LEMMA OthersChangeKeeps ==
  ASSUME IInv, OthersChange
  PROVE  IInv'
<1>1. UNCHANGED <<condstore, folder, placed, cycleVars, action, excuses>>
  BY DEF OthersChange
<1>2. ServerTyped /\ ActionTyped /\ Onward /\ CyclesTyped'
  BY <1>1, RestingCycles DEF IInv, StateTyped
<1>3. BoxAdvances
  <2>1. CASE Arrive
    BY <1>2, <2>1, ArriveAdvances
  <2>2. CASE Recreate
    BY <1>2, <2>2, RecreateAdvances
  <2>3. ASSUME NEW u \in DOMAIN box, Expunge(u) PROVE BoxAdvances
    BY <1>2, <2>3, ExpungeAdvances
  <2>4. ASSUME NEW u \in DOMAIN box, StoreSeen(u, ~box[u].seen) PROVE BoxAdvances
    <3>1. (~box[u].seen) \in BOOLEAN
      OBVIOUS
    <3> QED BY <1>2, <2>4, <3>1, StoreAdvances
  <2> QED BY <2>1, <2>2, <2>3, <2>4 DEF OthersChange
<1>4. validity \in Nat /\ validity' \in Nat /\ validity <= validity' /\ action.validity \in Nat /\ action.uid \in Nat
  BY <1>2, <1>3, BoxIs, ImapFolderAssumption DEF BoxAdvances, ServerTyped, ActionTyped
<1>5. ActionTyped' /\ action'.validity <= validity'
  BY <1>1, <1>2, <1>4 DEF ActionTyped, cycleVars, IInv, ValiditiesPast
<1>6. ActionHere'
  <2> SUFFICES ASSUME action.kind \in {"remove", "drop"}, action.validity = validity'
               PROVE  Muddled' \/ /\ action.uid < uidnext'
                                  /\ action.kind = "drop" => action.uid \notin DOMAIN box'
    BY <1>1 DEF ActionHere
  <2>1. validity' = validity
    BY <1>4 DEF IInv, ValiditiesPast
  <2>2. CASE Muddled
    BY <1>1, <1>2, <2>1, <2>2, MuddledStays
  <2>3. CASE action.uid < uidnext /\ (action.kind = "drop" => action.uid \notin DOMAIN box)
    <3>1. uidnext \in Nat /\ uidnext' \in Nat /\ uidnext <= uidnext'
      BY <1>2, <1>3, <2>1, BoxIs, ImapFolderAssumption DEF BoxAdvances, ServerTyped
    <3>2. \A u \in DOMAIN box' : u \in DOMAIN box \/ u >= uidnext
      BY <1>3, <2>1 DEF BoxAdvances
    <3> QED BY <2>3, <3>1, <3>2, <1>4
  <2> QED BY <2>1, <2>2, <2>3 DEF IInv, ActionHere
<1> QED BY <1>1, <1>2, <1>3, <1>5, <1>6, MailboxKeeps DEF Unsent

LEMMA SendFlagKeeps ==
  ASSUME IInv, SendFlag
  PROVE  IInv'
<1>1. /\ UNCHANGED <<condstore, folder, placed, cycleVars, excuses>>
      /\ action' = NoAction /\ action.kind = "flag" /\ ServerTyped /\ ActionTyped
      /\ IF action.uid \in DOMAIN box /\ box[action.uid].seen # action.seen
         THEN StoreSeen(action.uid, action.seen)
         ELSE UNCHANGED server
  BY DEF IInv, StateTyped, SendFlag
<1>2. action.seen \in BOOLEAN /\ Onward /\ CyclesTyped'
  BY <1>1, RestingCycles DEF ActionTyped, IInv, StateTyped
<1>3. ActionTyped' /\ action'.kind = "none" /\ action'.validity = 0
  BY <1>1, ImapFolderAssumption DEF ActionTyped, NoAction, None, cycleVars
<1>4. ActionHere'
  BY <1>3 DEF ActionHere
<1>5. CASE action.uid \in DOMAIN box /\ box[action.uid].seen # action.seen
  <2>1. /\ BoxAdvances /\ box'[action.uid].seen = action.seen
    BY <1>1, <1>2, <1>5, StoreAdvances
  <2>2. 0 <= validity'
    BY <2>1, ImapFolderAssumption DEF BoxAdvances, ServerTyped
  <2>3. \A u : Unsent(u) => Matches(placed, u, folder.modseq)'
    BY <1>1, <2>1 DEF Unsent, Matches
  <2> QED BY <1>1, <1>2, <1>3, <1>4, <2>1, <2>2, <2>3, MailboxKeeps
<1>6. CASE ~(action.uid \in DOMAIN box /\ box[action.uid].seen # action.seen)
  <2>1. UNCHANGED server /\ BoxAdvances /\ box' = box
    BY <1>1, <1>6, QuietBox DEF server
  <2>2. 0 <= validity'
    BY <2>1, ImapFolderAssumption DEF BoxAdvances, ServerTyped
  <2>3. \A u \in DOMAIN box' : Unsent(u) => Matches(placed, u, folder.modseq)'
    BY <1>1, <1>6, <2>1 DEF Unsent, Matches
  <2> QED BY <1>1, <1>2, <1>3, <1>4, <2>1, <2>2, <2>3, MailboxKeeps
<1> QED BY <1>5, <1>6

LEMMA SendRemoveKeeps ==
  ASSUME IInv, SendRemove
  PROVE  IInv'
<1>1. /\ UNCHANGED <<condstore, folder, placed, cycleVars, excuses>>
      /\ action' = [action EXCEPT !.kind = "drop"] /\ action.kind = "remove" /\ ServerTyped /\ ActionTyped
      /\ IF action.uid \in DOMAIN box THEN Expunge(action.uid) ELSE UNCHANGED server
  BY DEF IInv, StateTyped, SendRemove
<1>2. /\ BoxAdvances /\ validity' = validity /\ uidnext' = uidnext
      /\ action.uid \notin DOMAIN box'
  <2>1. CASE action.uid \in DOMAIN box
    BY <1>1, <2>1, ExpungeAdvances
  <2>2. CASE action.uid \notin DOMAIN box
    BY <1>1, <2>2, QuietBox DEF server
  <2> QED BY <2>1, <2>2
<1>3. /\ action'.kind = "drop" /\ action'.uid = action.uid /\ action'.validity = action.validity
      /\ Onward /\ CyclesTyped'
  BY <1>1, RestingCycles DEF ActionTyped, IInv, StateTyped
<1>4. ActionTyped'
  BY <1>1 DEF ActionTyped, cycleVars
<1>5. action'.validity <= validity'
  BY <1>2, <1>3 DEF IInv, ValiditiesPast
<1>6. ActionHere'
  BY <1>1, <1>2, <1>3, MuddledStays DEF IInv, ActionHere
<1>7. \A u : ~Unsent(u)
  BY <1>1 DEF Unsent
<1> QED BY <1>1, <1>2, <1>3, <1>4, <1>5, <1>6, <1>7, MailboxKeeps

-----------------------------------------------------------------------------
(***************************************************************************)
(* The actions of the user.                                                *)
(***************************************************************************)
LEMMA NoActionIs ==
  ASSUME NEW kind \in {"none", "flag", "remove", "drop", "resync"}
  PROVE  /\ [NoAction EXCEPT !.kind = kind] \in
                [kind : {"none", "flag", "remove", "drop", "resync"}, uid : 0..MaxUid,
                 seen : BOOLEAN, validity : 0..MaxValidity]
         /\ [NoAction EXCEPT !.kind = kind].kind = kind /\ [NoAction EXCEPT !.kind = kind].validity = 0
<1>1. 0 \in 0..MaxUid /\ 0 \in 0..MaxValidity
  BY ImapFolderAssumption
<1>2. NoAction \in [kind : {"none", "flag", "remove", "drop", "resync"}, uid : 0..MaxUid,
                    seen : BOOLEAN, validity : 0..MaxValidity] /\ NoAction.validity = 0
  BY <1>1 DEF NoAction, None
<1> QED BY <1>2

LEMMA MoveIntoKeeps ==
  ASSUME IInv, MoveInto
  PROVE  IInv'
<1>1. /\ UNCHANGED <<condstore, folder, placed, info, all, new, flags, headers, excuses>>
      /\ action' = [NoAction EXCEPT !.kind = "resync"] /\ action.kind = "none" /\ Arrive
      /\ pc' = [pc EXCEPT !["api"] = "loaded"] /\ loaded' = [loaded EXCEPT !["api"] = folder]
      /\ ServerTyped /\ CyclesTyped /\ ActionTyped /\ folder \in Cursors
  BY DEF IInv, StateTyped, FolderTyped, MoveInto
<1>2. BoxAdvances /\ validity' = validity
  BY <1>1, ArriveAdvances
<1>3. Onward /\ CyclesTyped'
  BY <1>1 DEF Onward, CyclesTyped, Stages, Selected, Syncers
<1>4. action'.kind = "resync" /\ action'.validity = 0
  BY <1>1 DEF NoAction, None
<1>5. ActionTyped'
  BY <1>1, <1>4, NoActionIs DEF ActionTyped
<1>6. ActionHere' /\ action'.validity <= validity'
  BY <1>1, <1>2, <1>4, BoxIs DEF ActionHere
<1>7. \A u : ~Unsent(u)
  BY <1>1 DEF Unsent
<1> QED BY <1>1, <1>2, <1>3, <1>5, <1>6, <1>7, MailboxKeeps

LEMMA LocalKeeps ==
  ASSUME IInv, UNCHANGED <<condstore, server, folder, cycleVars>>, placed' \in Tables(BOOLEAN),
         ActionTyped', RestTyped', Shaken' <=> Shaken, action'.validity <= validity,
         DOMAIN placed' \subseteq DOMAIN placed, ActionHere', MessagesKept', FlagsKept'
  PROVE  IInv'
<1>1. /\ box' = box /\ uidnext' = uidnext /\ highest' = highest /\ validity' = validity
      /\ condstore' = condstore /\ folder' = folder
      /\ pc' = pc /\ loaded' = loaded /\ info' = info /\ all' = all /\ new' = new
      /\ flags' = flags /\ headers' = headers
  BY DEF server, cycleVars
<1>2. StateTyped'
  BY <1>1 DEF IInv, StateTyped, ServerTyped, FolderTyped, CyclesTyped
<1>3. Current' <=> Current
  BY <1>1 DEF Current
<1>4. OvertakenOnce'
  BY <1>1 DEF IInv, OvertakenOnce, Running
<1>5. ValiditiesPast'
  BY <1>1 DEF IInv, ValiditiesPast, Running
<1>6. CursorPast'
  BY <1>1, <1>3 DEF IInv, CursorPast
<1>7. \A c \in Syncers : Knows(c)'
  <2> TAKE c \in Syncers
  <2>1. ServerTyped /\ CyclesTyped /\ Knows(c) /\ BoxAdvances
    BY QuietBox DEF IInv, StateTyped
  <2> QED BY <2>1, <1>1, KnowsOn
<1>8. Muddled => Muddled'
  BY <1>1, <1>3 DEF Muddled, Running
<1>9. PlacedHere'
  BY <1>1, <1>3, <1>8 DEF IInv, PlacedHere
<1> QED BY <1>2, <1>4, <1>5, <1>6, <1>7, <1>9 DEF IInv

LEMMA BeginIs ==
  ASSUME IInv, NEW kind \in {"flag", "remove"}, NEW u \in DOMAIN placed, NEW seen \in BOOLEAN,
         Begin(kind, u, seen), UNCHANGED cycleVars
  PROVE  /\ action.kind = "none" /\ ActionTyped' /\ action'.validity <= validity
         /\ action'.kind = kind /\ action'.uid = u /\ action'.seen = seen
         /\ action'.validity = folder.validity
<1>1. /\ action.kind = "none" /\ ActionTyped /\ folder \in Cursors /\ placed \in Tables(BOOLEAN)
      /\ action' = [kind |-> kind, uid |-> u, seen |-> seen, validity |-> folder.validity]
  BY DEF IInv, StateTyped, FolderTyped, Begin
<1>2. u \in 0..MaxUid
  <2>1. u \in Uids
    BY <1>1, TableIs
  <2> QED BY <2>1, ImapFolderAssumption DEF Uids
<1>3. folder.validity \in 0..MaxValidity
  BY <1>1 DEF Cursors
<1>4. pc'["api"] = "idle"
  BY <1>1 DEF ActionTyped, cycleVars
<1>5. ActionTyped'
  BY <1>1, <1>2, <1>3, <1>4 DEF ActionTyped
<1>6. folder.validity <= validity
  BY DEF IInv, ValiditiesPast
<1> QED BY <1>1, <1>5, <1>6

LEMMA SetFlagKeeps ==
  ASSUME IInv, NEW u \in DOMAIN placed, NEW seen \in BOOLEAN, SetFlag(u, seen)
  PROVE  IInv'
<1>1. /\ UNCHANGED <<condstore, server, folder, cycleVars, excuses>> /\ Begin("flag", u, seen)
      /\ placed' = [placed EXCEPT ![u] = seen] /\ placed \in Tables(BOOLEAN) /\ RestTyped
  BY DEF IInv, StateTyped, FolderTyped, SetFlag
<1>2. /\ action.kind = "none" /\ ActionTyped' /\ action'.validity <= validity
      /\ action'.kind = "flag" /\ action'.uid = u /\ action'.seen = seen
  BY <1>1, BeginIs
<1>3. placed \in [DOMAIN placed -> BOOLEAN] /\ DOMAIN placed \in SUBSET Uids
  BY <1>1 DEF Tables
<1>4. placed' \in [DOMAIN placed -> BOOLEAN]
  BY <1>1, <1>3
<1>5. /\ DOMAIN placed' = DOMAIN placed /\ placed'[u] = seen
      /\ \A v \in DOMAIN placed \ {u} : placed'[v] = placed[v]
  BY <1>1, <1>3
<1>6. placed' \in Tables(BOOLEAN)
  BY <1>3, <1>4, TableOf
<1>7. RestTyped' /\ (Shaken' <=> Shaken)
  BY <1>1 DEF RestTyped, Shaken
<1>8. ActionHere'
  BY <1>2 DEF ActionHere
<1>9. MessagesKept'
  BY <1>1, <1>5 DEF IInv, MessagesKept, Current, server
<1>10. FlagsKept'
  <2>1. box' = box /\ validity' = validity /\ folder' = folder /\ excuses' = excuses
    BY <1>1 DEF server
  <2> SUFFICES ASSUME Current, folder.modseq # None, excuses \subseteq {"misdropped"},
                      NEW v \in DOMAIN box \cap DOMAIN placed
               PROVE  Matches(placed, v, folder.modseq)' \/ Unsent(v)'
    BY <2>1, <1>5 DEF FlagsKept, Unsent, Current
  <2>2. CASE v = u
    BY <2>2, <1>2, <1>5 DEF Unsent
  <2>3. CASE v # u
    <3>1. Matches(placed, v, folder.modseq)
      BY <1>2 DEF IInv, FlagsKept
    <3> QED BY <3>1, <2>1, <2>3, <1>5 DEF Matches
  <2> QED BY <2>2, <2>3
<1> QED BY <1>1, <1>2, <1>5, <1>6, <1>7, <1>8, <1>9, <1>10, LocalKeeps

LEMMA RemoveKeeps ==
  ASSUME IInv, NEW u \in DOMAIN placed, Remove(u)
  PROVE  IInv'
<1>1. /\ UNCHANGED <<condstore, server, folder, placed, cycleVars, excuses>> /\ Begin("remove", u, FALSE)
      /\ placed \in Tables(BOOLEAN) /\ RestTyped
  BY DEF IInv, StateTyped, FolderTyped, Remove
<1>2. /\ action.kind = "none" /\ ActionTyped' /\ action'.validity <= validity
      /\ action'.kind = "remove" /\ action'.uid = u /\ action'.validity = folder.validity
  BY <1>1, BeginIs
<1>3. RestTyped' /\ (Shaken' <=> Shaken)
  BY <1>1 DEF RestTyped, Shaken
<1>4. ActionHere'
  <2> SUFFICES ASSUME folder.validity = validity PROVE Muddled' \/ u < uidnext
    BY <1>1, <1>2 DEF ActionHere, server
  <2>1. Muddled \/ u < uidnext
    BY DEF IInv, PlacedHere, Current
  <2>2. Onward /\ validity' = validity
    BY <1>1, RestingCycles DEF server
  <2> QED BY <2>1, <2>2, <1>1, MuddledStays
<1>5. MessagesKept'
  BY <1>1 DEF IInv, MessagesKept, Current, server
<1>6. FlagsKept'
  BY <1>1, <1>2 DEF IInv, FlagsKept, Matches, Current, server
<1> QED BY <1>1, <1>2, <1>3, <1>4, <1>5, <1>6, LocalKeeps

LEMMA DropPlacementKeeps ==
  ASSUME IInv, DropPlacement
  PROVE  IInv'
<1>1. /\ UNCHANGED <<condstore, server, folder, cycleVars>> /\ action.kind = "drop"
      /\ placed' = Only(placed, Uids \ {action.uid}) /\ action' = [NoAction EXCEPT !.kind = "resync"]
      /\ excuses' = excuses \cup
           {e \in {"misdropped"} : action.uid \in DOMAIN placed /\ action.validity # folder.validity}
      /\ placed \in Tables(BOOLEAN) /\ RestTyped /\ ServerTyped
  BY DEF IInv, StateTyped, FolderTyped, DropPlacement
<1>2. ActionTyped' /\ action'.kind = "resync" /\ action'.validity = 0
  BY <1>1, NoActionIs DEF ActionTyped
<1>3. placed' \in Tables(BOOLEAN)
  BY <1>1, OnlyIs
<1>4. DOMAIN placed' = DOMAIN placed \cap (Uids \ {action.uid}) /\ \A u \in DOMAIN placed' : placed'[u] = placed[u]
  BY <1>1 DEF Only
<1>5. RestTyped' /\ (Shaken' <=> Shaken)
  BY <1>1 DEF RestTyped, Shaken
<1>6. ActionHere' /\ action'.validity <= validity
  BY <1>1, <1>2, BoxIs DEF ActionHere
<1>7. box' = box /\ validity' = validity /\ folder' = folder
  BY <1>1 DEF server
<1>8. MessagesKept'
  <2> SUFFICES ASSUME Current, excuses' \subseteq {"unsent"}, NEW u \in DOMAIN box, u < folder.uidnext
               PROVE  u \in DOMAIN placed'
    BY <1>7 DEF MessagesKept, Current
  <2>1. excuses \subseteq {"unsent"} /\ "misdropped" \notin excuses'
    BY <1>1
  <2>2. u \in DOMAIN placed /\ u \in Uids
    BY <2>1, <1>1, BoxIs DEF IInv, MessagesKept
  <2>3. ASSUME u = action.uid PROVE FALSE
    <3>1. action.validity = validity
      BY <2>1, <2>2, <2>3, <1>1 DEF Current
    <3>2. ~Muddled
      BY <2>1 DEF Muddled, Shaken
    <3> QED BY <2>3, <3>1, <3>2, <1>1 DEF IInv, ActionHere
  <2> QED BY <2>2, <2>3, <1>4
<1>9. FlagsKept'
  <2>1. excuses \subseteq excuses'
    BY <1>1
  <2> QED BY <2>1, <1>1, <1>4, <1>7 DEF IInv, FlagsKept, Matches, Current
<1> QED BY <1>1, <1>2, <1>3, <1>4, <1>5, <1>6, <1>8, <1>9, LocalKeeps

LEMMA ActionFailsKeeps ==
  ASSUME IInv, ActionFails
  PROVE  IInv'
<1>1. /\ UNCHANGED <<condstore, server, folder, placed, cycleVars>>
      /\ action.kind \in {"flag", "remove", "drop"} /\ action' = NoAction
      /\ excuses' = excuses \cup {e \in {"unsent"} : action.kind = "flag"}
      /\ placed \in Tables(BOOLEAN) /\ RestTyped /\ ServerTyped /\ ActionTyped
  BY DEF IInv, StateTyped, FolderTyped, ActionFails
<1>2. ActionTyped' /\ action'.kind = "none" /\ action'.validity = 0
  BY <1>1, ImapFolderAssumption DEF ActionTyped, NoAction, None, cycleVars
<1>3. RestTyped' /\ (Shaken' <=> Shaken)
  BY <1>1 DEF RestTyped, Shaken
<1>4. ActionHere' /\ action'.validity <= validity
  BY <1>1, <1>2, BoxIs DEF ActionHere
<1>5. box' = box /\ validity' = validity /\ folder' = folder /\ excuses \subseteq excuses'
  BY <1>1 DEF server
<1>6. MessagesKept'
  BY <1>1, <1>5 DEF IInv, MessagesKept, Current
<1>7. FlagsKept'
  <2>1. excuses' \subseteq {"misdropped"} => action.kind # "flag" /\ excuses \subseteq {"misdropped"}
    BY <1>1
  <2> QED BY <2>1, <1>1, <1>5 DEF IInv, FlagsKept, Matches, Current
<1> QED BY <1>1, <1>2, <1>3, <1>4, <1>6, <1>7, LocalKeeps

-----------------------------------------------------------------------------
(***************************************************************************)
(* The commit.                                                             *)
(***************************************************************************)
\* The cursor a commit leaves.
LEMMA CommitCursor ==
  ASSUME IInv, NEW c \in Syncers, Commit(c)
  PROVE  /\ folder' \in Cursors
         /\ Full(c) \/ loaded[c] = folder =>
              /\ folder'.validity = info[c].validity /\ folder'.uidnext = info[c].uidnext
              /\ folder'.modseq = info[c].modseq
         /\ ~Full(c) => folder'.validity = folder.validity
<1>1. /\ folder' = [validity |-> Column(c, "validity"), uidnext |-> Column(c, "uidnext"),
                    modseq |-> Column(c, "modseq"), pass |-> (loaded[c].pass + 1) % RefreshEvery]
      /\ folder \in Cursors /\ loaded[c] \in Cursors /\ info[c] \in Infos
  BY CycleIs DEF IInv, StateTyped, FolderTyped, Commit
<1>2. (loaded[c].pass + 1) % RefreshEvery \in 0..(RefreshEvery - 1)
  BY <1>1, CursorIs, ImapFolderAssumption
<1>3. /\ Column(c, "validity") \in 0..MaxValidity /\ Column(c, "uidnext") \in 0..(MaxUid + 1)
      /\ Column(c, "modseq") \in Nat
  BY <1>1 DEF Column, Reported, Cursors, Infos
<1>4. folder' \in Cursors
  BY <1>1, <1>2, <1>3 DEF Cursors
<1>5. /\ folder'.validity = Column(c, "validity") /\ folder'.uidnext = Column(c, "uidnext")
      /\ folder'.modseq = Column(c, "modseq")
  BY <1>1
<1>6. Full(c) \/ loaded[c] = folder =>
        /\ Column(c, "validity") = info[c].validity /\ Column(c, "uidnext") = info[c].uidnext
        /\ Column(c, "modseq") = info[c].modseq
  BY DEF Column, Reported
<1>7. ~Full(c) => Column(c, "validity") = folder.validity
  BY DEF Column, Reported, Full
<1> QED BY <1>4, <1>5, <1>6, <1>7

\* The placements it leaves, and where their flags come from.
LEMMA CommitPlaced ==
  ASSUME IInv, NEW c \in Syncers, Commit(c)
  PROVE  /\ placed' \in Tables(BOOLEAN)
         /\ \A u \in DOMAIN headers[c] : u \in Kept(c) => u \in DOMAIN placed'
         /\ \A u \in DOMAIN placed : ~Full(c) /\ u \in Kept(c) => u \in DOMAIN placed'
         /\ \A u \in DOMAIN placed' :
              \/ u \in DOMAIN headers[c] /\ placed'[u] = headers[c][u]
              \/ ~Full(c) /\ u \in DOMAIN placed /\ u \in DOMAIN flags[c] /\ placed'[u] = flags[c][u]
              \/ ~Full(c) /\ u \in DOMAIN placed /\ u \notin DOMAIN flags[c] /\ placed'[u] = placed[u]
<1> DEFINE known == IF Full(c) THEN Nothing ELSE placed
           heard == Only(flags[c], DOMAIN known)
           fresh == Over(heard, known)
           merged == Over(headers[c], fresh)
<1>1. placed' = Only(merged, Kept(c))
  BY DEF Commit, Refreshed
<1>2. /\ flags[c] \in Tables(BOOLEAN) /\ headers[c] \in Tables(BOOLEAN) /\ placed \in Tables(BOOLEAN)
  BY CycleIs DEF IInv, StateTyped, FolderTyped
<1>3. known \in Tables(BOOLEAN) /\ DOMAIN known = IF Full(c) THEN {} ELSE DOMAIN placed
  BY <1>2, NothingIs
<1>4. \A u \in DOMAIN known : ~Full(c) /\ u \in DOMAIN placed /\ known[u] = placed[u]
  BY <1>3
<1> HIDE DEF known
<1>5. heard \in Tables(BOOLEAN)
  BY <1>2, OnlyIs
<1>6. DOMAIN heard = DOMAIN flags[c] \cap DOMAIN known /\ \A u \in DOMAIN heard : heard[u] = flags[c][u]
  BY DEF Only
<1> HIDE DEF heard
<1>7. fresh \in Tables(BOOLEAN)
  BY <1>3, <1>5, OverIs
<1>8. /\ DOMAIN fresh = DOMAIN heard \cup DOMAIN known
      /\ \A u \in DOMAIN fresh : fresh[u] = IF u \in DOMAIN heard THEN heard[u] ELSE known[u]
  BY DEF Over
<1> HIDE DEF fresh
<1>9. merged \in Tables(BOOLEAN)
  BY <1>2, <1>7, OverIs
<1>10. /\ DOMAIN merged = DOMAIN headers[c] \cup DOMAIN fresh
       /\ \A u \in DOMAIN merged : merged[u] = IF u \in DOMAIN headers[c] THEN headers[c][u] ELSE fresh[u]
  BY DEF Over
<1> HIDE DEF merged
<1>11. placed' \in Tables(BOOLEAN)
  BY <1>1, <1>9, OnlyIs
<1>12. DOMAIN placed' = DOMAIN merged \cap Kept(c) /\ \A u \in DOMAIN placed' : placed'[u] = merged[u]
  BY <1>1 DEF Only
<1>13. DOMAIN fresh = DOMAIN known
  BY <1>6, <1>8
<1>14. \A u \in DOMAIN headers[c] : u \in Kept(c) => u \in DOMAIN placed'
  BY <1>10, <1>12
<1>15. \A u \in DOMAIN placed : ~Full(c) /\ u \in Kept(c) => u \in DOMAIN placed'
  BY <1>3, <1>10, <1>12, <1>13
<1>16. ASSUME NEW u \in DOMAIN placed'
       PROVE  \/ u \in DOMAIN headers[c] /\ placed'[u] = headers[c][u]
              \/ ~Full(c) /\ u \in DOMAIN placed /\ u \in DOMAIN flags[c] /\ placed'[u] = flags[c][u]
              \/ ~Full(c) /\ u \in DOMAIN placed /\ u \notin DOMAIN flags[c] /\ placed'[u] = placed[u]
  <2>1. CASE u \in DOMAIN headers[c]
    BY <2>1, <1>10, <1>12
  <2>2. CASE u \notin DOMAIN headers[c]
    <3>1. u \in DOMAIN known /\ placed'[u] = fresh[u]
      BY <2>2, <1>10, <1>12, <1>13
    <3>2. ~Full(c) /\ u \in DOMAIN placed /\ known[u] = placed[u]
      BY <3>1, <1>4
    <3> QED BY <3>1, <3>2, <1>6, <1>8, <1>13
  <2> QED BY <2>1, <2>2
<1> QED BY <1>11, <1>14, <1>15, <1>16

LEMMA CommitKeeps ==
  ASSUME IInv, NEW c \in Syncers, Commit(c)
  PROVE  IInv'
<1>1. /\ UNCHANGED <<condstore, server>> /\ EndCycle(c) /\ pc[c] = "fetched"
      /\ excuses' = (IF Full(c) THEN {} ELSE excuses)
                      \cup {e \in {"overlapped"} : \E d \in Syncers \ {c} : pc[d] # "idle"}
      /\ ServerTyped /\ FolderTyped /\ CyclesTyped /\ ActionTyped /\ RestTyped
  BY DEF IInv, StateTyped, Commit
<1>2. box' = box /\ uidnext' = uidnext /\ highest' = highest /\ validity' = validity /\ condstore' = condstore
  BY <1>1 DEF server
<1>3. /\ CyclesTyped' /\ ActionTyped' /\ pc'[c] = "idle"
      /\ action' = action \/ (c = "api" /\ action' = NoAction)
  BY <1>1, EndCycleIs
<1>4. \A d \in Syncers \ {c} :
              /\ pc'[d] = pc[d] /\ loaded'[d] = loaded[d] /\ info'[d] = info[d] /\ all'[d] = all[d]
              /\ new'[d] = new[d] /\ flags'[d] = flags[d] /\ headers'[d] = headers[d]
  BY <1>1, EndCycleIs
<1>5. KnowsBox(c) /\ (SameBox(c) => KnowsAll(c) /\ KnowsNew(c) /\ KnowsFlags(c) /\ KnowsHeaders(c))
  BY <1>1 DEF IInv, Knows, Flagged, Searched, Listed, Selected
<1>6. /\ folder' \in Cursors
      /\ Full(c) \/ loaded[c] = folder =>
           /\ folder'.validity = info[c].validity /\ folder'.uidnext = info[c].uidnext
           /\ folder'.modseq = info[c].modseq
      /\ ~Full(c) => folder'.validity = folder.validity
  BY CommitCursor
<1>7. placed' \in Tables(BOOLEAN)
  BY CommitPlaced
<1>8. /\ validity \in Nat /\ folder.validity <= validity /\ loaded[c].validity <= info[c].validity
      /\ info[c].validity <= validity /\ loaded[c].validity \in Nat /\ info[c].validity \in Nat
      /\ folder.validity \in Nat
  <2>1. validity \in Nat /\ loaded[c].validity \in Nat /\ info[c].validity \in Nat
    BY <1>1, BoxIs, CycleIs
  <2>2. folder.validity \in Nat
    BY <1>1, CursorIs DEF FolderTyped
  <2> QED BY <2>1, <2>2, <1>5 DEF IInv, ValiditiesPast, KnowsBox
<1>9. action' = action \/ (action'.kind = "none" /\ action'.validity = 0 /\ action.kind = "resync")
  BY <1>1, <1>3 DEF ActionTyped, NoAction, None
<1>10. StateTyped'
  <2>1. RestTyped' /\ ServerTyped' /\ FolderTyped'
    BY <1>1, <1>2, <1>6, <1>7 DEF RestTyped, ServerTyped, FolderTyped
  <2> QED BY <2>1, <1>3 DEF StateTyped
<1>11. ASSUME ~Shaken'
       PROVE  (Full(c) \/ loaded[c] = folder) /\ \A d \in Syncers : ~Running(d)'
  <2>1. \A d \in Syncers \ {c} : pc[d] = "idle"
    BY <1>1, <1>11 DEF Shaken
  <2>2. Full(c) \/ ~Shaken
    BY <1>1, <1>11 DEF Shaken
  <2>3. \A d \in Syncers : ~Running(d)'
    BY <2>1, <1>3, <1>4 DEF Running
  <2> QED BY <2>2, <2>3, <1>1 DEF IInv, OvertakenOnce, Running
<1>12. OvertakenOnce'
  <2>1. ~Shaken' => \A d \in Syncers : Running(d)' => loaded'[d] = folder'
    BY <1>11
  <2>2. ASSUME NEW d \in Syncers, NEW e \in Syncers, d # e, Running(d)', Running(e)' PROVE FALSE
    BY <2>2, <1>3 DEF Running, Syncers
  <2> QED BY <2>1, <2>2 DEF OvertakenOnce
<1>13. ValiditiesPast'
  <2>1. folder'.validity <= validity
    BY <1>6, <1>8
  <2>2. action'.validity <= validity
    BY <1>8, <1>9 DEF IInv, ValiditiesPast
  <2>3. \A d \in Syncers : Running(d)' => Running(d) /\ loaded'[d] = loaded[d]
    BY <1>3, <1>4 DEF Running
  <2> QED BY <2>1, <2>2, <2>3, <1>2 DEF IInv, ValiditiesPast
<1>14. CursorPast'
  <2> SUFFICES ASSUME Current', ~Shaken'
               PROVE  /\ folder'.uidnext <= uidnext /\ folder'.modseq <= highest
                      /\ condstore <=> folder'.modseq # None
    BY <1>2 DEF CursorPast
  <2>1. /\ folder'.validity = info[c].validity /\ folder'.uidnext = info[c].uidnext
        /\ folder'.modseq = info[c].modseq
    BY <1>6, <1>11
  <2>2. SameBox(c)
    BY <2>1, <1>2 DEF Current, SameBox
  <2> QED BY <2>1, <2>2, <1>5 DEF KnowsBox
<1>15. \A d \in Syncers : Knows(d)'
  <2> TAKE d \in Syncers
  <2>1. CASE d = c
    BY <2>1, <1>3 DEF Knows, Flagged, Searched, Listed, Selected
  <2>2. CASE d # c
    <3>1. Knows(d) /\ BoxAdvances
      BY <1>1, QuietBox DEF IInv
    <3>2. /\ pc'[d] = pc[d] /\ loaded'[d] = loaded[d] /\ info'[d] = info[d] /\ all'[d] = all[d]
          /\ new'[d] = new[d] /\ flags'[d] = flags[d] /\ headers'[d] = headers[d]
      BY <2>2, <1>4
    <3> QED BY <3>1, <3>2, <1>1, <1>2, KnowsOn
  <2> QED BY <2>1, <2>2
<1>16. ASSUME Muddled PROVE Muddled'
  <2>1. loaded[c].validity = validity /\ Shaken /\ Current
    BY <1>1, <1>16 DEF Muddled, Running
  <2>2. ~Full(c)
    BY <2>1, <1>8 DEF Full
  <2>3. Shaken' /\ Current'
    BY <2>1, <2>2, <1>1, <1>2, <1>6 DEF Shaken, Current
  <2>4. \A d \in Syncers : Running(d)' => Running(d) /\ loaded'[d] = loaded[d]
    BY <1>3, <1>4 DEF Running
  <2> QED BY <2>3, <2>4, <1>2, <1>16 DEF Muddled
<1>17. PlacedHere'
  <2> SUFFICES ASSUME Current', ~Muddled', NEW u \in DOMAIN placed'
               PROVE  u < uidnext
    BY <1>2 DEF PlacedHere
  <2>1. CASE ~SameBox(c)
    <3>1. ~Full(c) /\ loaded[c] # folder
      BY <2>1, <1>2, <1>6 DEF Current, SameBox
    <3>2. Current /\ Shaken
      BY <3>1, <1>1, <1>2, <1>6 DEF Current, IInv, OvertakenOnce, Running
    <3>3. Shaken'
      BY <3>1, <3>2, <1>1 DEF Shaken
    <3>4. ASSUME NEW d \in Syncers, Running(d)' PROVE loaded'[d].validity = validity
      <4>1. d # c /\ Running(d) /\ loaded'[d] = loaded[d]
        BY <3>4, <1>3, <1>4 DEF Running
      <4>2. Running(c)
        BY <1>1 DEF Running
      <4>3. loaded[d] = folder
        BY <4>1, <4>2, <3>1 DEF IInv, OvertakenOnce
      <4> QED BY <4>1, <4>3, <3>2 DEF Current
    <3> QED BY <3>3, <3>4, <1>2 DEF Muddled
  <2>2. CASE SameBox(c)
    <3>1. u \in DOMAIN headers[c] \/ (~Full(c) /\ u \in DOMAIN placed)
      BY CommitPlaced
    <3>2. u \in DOMAIN headers[c] => u < uidnext
      BY <2>2, <1>5 DEF KnowsHeaders
    <3>3. ASSUME ~Full(c), u \in DOMAIN placed PROVE u < uidnext
      <4>1. Current
        BY <3>3, <1>2, <1>6 DEF Current
      <4> QED BY <4>1, <3>3, <1>16 DEF IInv, PlacedHere
    <3> QED BY <3>1, <3>2, <3>3
  <2> QED BY <2>1, <2>2
<1>18. ActionHere'
  BY <1>2, <1>9, <1>16 DEF IInv, ActionHere
<1>19. ASSUME ~Shaken', Current'
       PROVE  /\ SameBox(c) /\ folder'.uidnext = info[c].uidnext /\ folder'.modseq = info[c].modseq
              /\ ~Full(c) => /\ loaded[c] = folder /\ Current /\ ~Shaken
                             /\ excuses \subseteq excuses'
  <2>1. /\ folder'.validity = info[c].validity /\ folder'.uidnext = info[c].uidnext
        /\ folder'.modseq = info[c].modseq
    BY <1>6, <1>11, <1>19
  <2>2. SameBox(c)
    BY <2>1, <1>2, <1>19 DEF Current, SameBox
  <2>3. ASSUME ~Full(c) PROVE loaded[c] = folder /\ Current /\ ~Shaken /\ excuses \subseteq excuses'
    BY <2>3, <1>1, <1>2, <1>6, <1>11, <1>19 DEF Current, Shaken
  <2> QED BY <2>1, <2>2, <2>3
<1>20. MessagesKept'
  <2> SUFFICES ASSUME Current', excuses' \subseteq {"unsent"}, NEW u \in DOMAIN box, u < folder'.uidnext
               PROVE  u \in DOMAIN placed'
    BY <1>2 DEF MessagesKept
  <2>1. /\ SameBox(c) /\ u < info[c].uidnext
        /\ ~Full(c) => loaded[c] = folder /\ Current /\ excuses \subseteq excuses'
    BY <1>19 DEF Shaken
  <2>2. u \in all[c] /\ u \in Uids
    BY <2>1, <1>1, <1>5, BoxIs DEF KnowsAll
  <2>3. u \in Kept(c)
    BY <2>2 DEF Kept
  <2>4. CASE Full(c) \/ u >= loaded[c].uidnext
    <3>1. u \in new[c]
      BY <2>1, <2>4, <1>5 DEF KnowsNew
    <3>2. u \in DOMAIN headers[c]
      BY <3>1, <2>1, <1>5 DEF KnowsHeaders
    <3> QED BY <3>2, <2>3, CommitPlaced
  <2>5. CASE ~Full(c) /\ ~(u >= loaded[c].uidnext)
    <3>1. u \in Nat /\ loaded[c].uidnext \in Nat
      BY <1>1, <2>2, CycleIs DEF Uids
    <3>2. u < folder.uidnext
      BY <3>1, <2>1, <2>5
    <3>3. u \in DOMAIN placed
      BY <3>2, <2>1, <2>5 DEF IInv, MessagesKept
    <3> QED BY <3>3, <2>3, <2>5, CommitPlaced
  <2> QED BY <2>4, <2>5
<1>21. FlagsKept'
  <2> SUFFICES ASSUME Current', folder'.modseq # None, excuses' \subseteq {"misdropped"},
                      NEW u \in DOMAIN box, u \in DOMAIN placed'
               PROVE  \/ placed'[u] = box[u].seen \/ box[u].modseq > info[c].modseq
                      \/ Unsent(u)'
    <3>1. Current' /\ excuses' \subseteq {"misdropped"} => folder'.modseq = info[c].modseq
      BY <1>19 DEF Shaken
    <3> QED BY <3>1, <1>2 DEF FlagsKept, Matches, Unsent
  <2>1. /\ SameBox(c) /\ info[c].modseq # None
        /\ ~Full(c) => loaded[c] = folder /\ Current /\ ~Shaken /\ excuses \subseteq excuses'
    BY <1>19 DEF Shaken
  <2>2. CASE u \in DOMAIN headers[c] /\ placed'[u] = headers[c][u]
    BY <2>1, <2>2, <1>5 DEF KnowsHeaders, Matches
  <2>3. CASE u \in DOMAIN flags[c] /\ placed'[u] = flags[c][u]
    BY <2>1, <2>3, <1>5 DEF KnowsFlags, Matches
  <2>4. CASE ~Full(c) /\ u \in DOMAIN placed /\ u \notin DOMAIN flags[c] /\ placed'[u] = placed[u]
    <3>1. condstore
      BY <2>1, <1>5 DEF KnowsBox
    <3>2. folder.modseq # None /\ loaded[c].modseq = folder.modseq
      BY <2>1, <2>4, <3>1 DEF IInv, CursorPast
    <3>3. Matches(placed, u, folder.modseq) \/ Unsent(u)
      BY <2>1, <2>4, <3>2 DEF IInv, FlagsKept, Unsent
    <3>4. CASE placed[u] = box[u].seen
      BY <2>4, <3>4
    <3>5. CASE box[u].modseq > folder.modseq
      BY <2>1, <2>4, <3>1, <3>2, <3>5, <1>5 DEF KnowsFlags
    <3>6. CASE Unsent(u)
      <4>1. action' = action
        BY <3>6, <1>9 DEF Unsent
      <4> QED BY <4>1, <3>6, <2>4 DEF Unsent
    <3> QED BY <3>3, <3>4, <3>5, <3>6 DEF Matches
  <2>5. \/ u \in DOMAIN headers[c] /\ placed'[u] = headers[c][u]
        \/ ~Full(c) /\ u \in DOMAIN placed /\ u \in DOMAIN flags[c] /\ placed'[u] = flags[c][u]
        \/ ~Full(c) /\ u \in DOMAIN placed /\ u \notin DOMAIN flags[c] /\ placed'[u] = placed[u]
    BY CommitPlaced
  <2> QED BY <2>2, <2>3, <2>4, <2>5
<1> QED BY <1>10, <1>12, <1>13, <1>14, <1>15, <1>17, <1>18, <1>20, <1>21 DEF IInv

-----------------------------------------------------------------------------
(***************************************************************************)
(* The theorems.                                                           *)
(***************************************************************************)
LEMMA InitHolds ==
  ASSUME Init
  PROVE  IInv
<1>1. /\ condstore \in BOOLEAN /\ validity = 1 /\ uidnext = 1 /\ highest = 1 /\ excuses = {}
      /\ box = Nothing /\ placed = Nothing /\ folder = NoCursor /\ action = NoAction
      /\ pc = [c \in Syncers |-> "idle"]
      /\ loaded = [c \in Syncers |-> NoCursor] /\ info = [c \in Syncers |-> NoInfo]
      /\ all = [c \in Syncers |-> {}] /\ new = [c \in Syncers |-> {}]
      /\ flags = [c \in Syncers |-> Nothing] /\ headers = [c \in Syncers |-> Nothing]
  BY DEF Init
<1>2. NoCursor \in Cursors /\ NoInfo \in Infos
  BY ImapFolderAssumption DEF NoCursor, NoInfo, None, Cursors, Infos
<1>3. Nothing \in Tables(BOOLEAN) /\ DOMAIN Nothing = {}
  BY NothingIs
<1>4. Nothing \in Tables(BoxRow)
  BY NothingIs
<1>5. ServerTyped
  BY <1>1, <1>3, <1>4, ImapFolderAssumption DEF ServerTyped, BoxRow
<1>6. FolderTyped /\ RestTyped
  BY <1>1, <1>2, <1>3 DEF FolderTyped, RestTyped
<1>7. CyclesTyped
  BY <1>1, <1>2, <1>3 DEF CyclesTyped, Stages, Infos
<1>8. NoAction \in [kind : {"none", "flag", "remove", "drop", "resync"}, uid : 0..MaxUid,
                    seen : BOOLEAN, validity : 0..MaxValidity]
  BY ImapFolderAssumption DEF NoAction, None
<1>9. ActionTyped
  BY <1>1, <1>8 DEF ActionTyped, Syncers
<1>10. folder.validity = 0 /\ action.validity = 0 /\ action.kind = "none"
  BY <1>1 DEF NoCursor, NoAction, None
<1>11. ~Current
  BY <1>1, <1>10 DEF Current
<1>12. \A c \in Syncers : ~Running(c) /\ Knows(c)
  BY <1>1 DEF Running, Knows, Flagged, Searched, Listed, Selected
<1>13. OvertakenOnce /\ ValiditiesPast
  BY <1>1, <1>10, <1>12 DEF OvertakenOnce, ValiditiesPast
<1>14. CursorPast /\ PlacedHere /\ ActionHere /\ MessagesKept /\ FlagsKept
  BY <1>10, <1>11 DEF CursorPast, PlacedHere, ActionHere, MessagesKept, FlagsKept
<1> QED BY <1>5, <1>6, <1>7, <1>9, <1>12, <1>13, <1>14 DEF IInv, StateTyped

LEMMA StutterKeeps ==
  ASSUME IInv, UNCHANGED vars
  PROVE  IInv'
<1>1. UNCHANGED <<condstore, server, folder, cycleVars>> /\ UNCHANGED <<placed, action, excuses>>
  BY DEF vars
<1>2. validity' = validity /\ box' = box /\ uidnext' = uidnext /\ pc' = pc /\ loaded' = loaded
  BY <1>1 DEF server, cycleVars
<1>3. placed' \in Tables(BOOLEAN) /\ ActionTyped' /\ RestTyped' /\ action'.validity <= validity
  BY <1>1, <1>2 DEF IInv, StateTyped, FolderTyped, ActionTyped, RestTyped, ValiditiesPast
<1>4. (Shaken' <=> Shaken) /\ DOMAIN placed' \subseteq DOMAIN placed
  BY <1>1 DEF Shaken
<1>5. ActionHere'
  BY <1>1, <1>2 DEF IInv, ActionHere, Muddled, Shaken, Current, Running
<1>6. MessagesKept' /\ FlagsKept'
  BY <1>1, <1>2 DEF IInv, MessagesKept, FlagsKept, Matches, Current
<1> QED BY <1>1, <1>3, <1>4, <1>5, <1>6, LocalKeeps

LEMMA StepKeeps ==
  ASSUME IInv, [Next]_vars
  PROVE  IInv'
<1>1. ASSUME NEW c \in Syncers, CycleStep(c) PROVE IInv'
  BY <1>1, LoadKeeps, SelectKeeps, SearchAllKeeps, SearchNewKeeps, FetchFlagsKeeps,
     FetchHeadersKeeps, CommitKeeps, FailKeeps DEF CycleStep
<1>2. CASE ActionStep
  BY <1>2, SendFlagKeeps, SendRemoveKeeps, DropPlacementKeeps, ActionFailsKeeps DEF ActionStep
<1>3. ASSUME NEW u \in DOMAIN placed, Remove(u) PROVE IInv'
  BY <1>3, RemoveKeeps
<1>4. ASSUME NEW u \in DOMAIN placed, NEW seen \in BOOLEAN, SetFlag(u, seen) PROVE IInv'
  BY <1>4, SetFlagKeeps
<1> QED BY <1>1, <1>2, <1>3, <1>4, OthersChangeKeeps, MoveIntoKeeps, StutterKeeps DEF Next

LEMMA InvariantHolds == Spec => []IInv
<1>1. Init => IInv
  BY InitHolds
<1>2. IInv /\ [Next]_vars => IInv'
  BY StepKeeps
<1> QED BY <1>1, <1>2, PTL DEF Spec

LEMMA InvariantTypes ==
  ASSUME IInv
  PROVE  TypeOK
<1>1. ServerTyped /\ FolderTyped /\ CyclesTyped /\ ActionTyped /\ RestTyped
  BY DEF IInv, StateTyped
<1>2. /\ DOMAIN box \subseteq 1..(uidnext - 1)
      /\ \A u \in DOMAIN box : box[u] \in [seen : BOOLEAN, modseq : 1..highest]
  <2>1. box \in Tables(BoxRow)
    BY <1>1 DEF ServerTyped, BoxRow
  <2>2. \A u \in DOMAIN box : box[u] \in BoxRow /\ u \in Uids
    BY <2>1 DEF Tables
  <2>3. \A u \in DOMAIN box : u < uidnext /\ box[u].modseq <= highest
    BY <1>1 DEF ServerTyped
  <2>4. uidnext \in Nat /\ highest \in Nat
    BY <1>1, BoxIs
  <2>5. DOMAIN box \subseteq 1..(uidnext - 1)
    BY <2>2, <2>3, <2>4 DEF Uids
  <2>6. \A u \in DOMAIN box : box[u] \in [seen : BOOLEAN, modseq : 1..highest]
    BY <2>2, <2>3, <2>4 DEF BoxRow
  <2> QED BY <2>5, <2>6
<1>3. DOMAIN placed \subseteq Uids /\ \A u \in DOMAIN placed : placed[u] \in BOOLEAN
  BY <1>1, TableIs DEF FolderTyped
<1>4. ASSUME NEW c \in Syncers
      PROVE  /\ pc[c] \in {"idle", "loaded", "selected", "listed", "searched", "refreshed", "fetched"}
             /\ loaded[c] \in Cursors /\ all[c] \in SUBSET Uids /\ new[c] \in SUBSET Uids
             /\ DOMAIN flags[c] \subseteq Uids /\ DOMAIN headers[c] \subseteq Uids
  <2>1. pc[c] \in Stages /\ flags[c] \in Tables(BOOLEAN) /\ headers[c] \in Tables(BOOLEAN)
    BY <1>1, CycleIs
  <2>2. loaded[c] \in Cursors /\ all[c] \in SUBSET Uids /\ new[c] \in SUBSET Uids
    BY <1>1, CycleIs
  <2> QED BY <2>1, <2>2, TableIs DEF Stages, Selected
<1>5. action.kind \in {"none", "flag", "remove", "drop", "resync"} /\ (pc["api"] # "idle" => action.kind = "resync")
  BY <1>1 DEF ActionTyped
<1> QED BY <1>1, <1>2, <1>3, <1>4, <1>5 DEF TypeOK, ServerTyped, FolderTyped, RestTyped

\* The state stays well typed, and every message the mailbox has below the
\* stored uidnext has its placement, whatever other clients do between the
\* commands of a cycle and however often cycles fail (sync_folder), unless two
\* cycles overlapped or an action dropped the placement of another message.
THEOREM MessagesStayListed == Spec => []NoMessageMissed
<1>1. IInv => NoMessageMissed
  BY InvariantTypes DEF IInv, MessagesKept, NoMessageMissed
<1> QED BY <1>1, InvariantHolds, PTL

\* A flag that differs from the server's is above the stored modseq, where the
\* next CHANGEDSINCE finds it, or is the one the user is changing
\* (sync_folder, set_message_flags).
THEOREM FlagsStayReachable == Spec => []NoFlagMissed
<1>1. IInv => NoFlagMissed
  <2> SUFFICES ASSUME IInv, Current, folder.modseq # None, excuses \subseteq {"misdropped"},
                      NEW u \in DOMAIN box \cap DOMAIN placed
               PROVE  \/ placed[u] = box[u].seen \/ box[u].modseq > folder.modseq
                      \/ action.kind = "flag" /\ action.uid = u
    BY DEF NoFlagMissed
  <2> QED BY DEF IInv, FlagsKept, Matches
<1> QED BY <1>1, InvariantHolds, PTL
=============================================================================
