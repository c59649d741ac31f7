--------------------------- MODULE ImapPoolProofs ---------------------------
(***************************************************************************)
(* The safety properties of ImapPool, proved for any number of tasks,      *)
(* pools and faults and any limit.                                         *)
(***************************************************************************)
EXTENDS ImapPool, FiniteSetTheorems, TLAPS

-----------------------------------------------------------------------------
\* What a task that is anywhere but away has is one of the pools made so far.
LEMMA HasPool ==
  ASSUME TypeOK, NEW u \in Users, pc[u] # "away"
  PROVE  at[u] \in 1..made /\ at[u] \in Pools
BY PoolAssumption DEF TypeOK, Pools

LEMMA TypeInit == Init => TypeOK
<1> SUFFICES ASSUME Init PROVE TypeOK
  OBVIOUS
<1>1. MaxPools \in Nat /\ MaxFaults \in Nat /\ 0 \in 0..MaxPools /\ 0 \in 0..MaxFaults
  BY PoolAssumption
<1>2. idle \in [Pools -> Nat] /\ owner \in [Users -> BOOLEAN]
  BY DEF Init
<1>3. /\ pc \in [Users -> {"away", "ready", "entered", "probing", "opening", "using"}]
      /\ at \in [Users -> (1..made) \cup {None}]
      /\ \A u \in Users : pc[u] # "away" => at[u] # None
  BY DEF Init
<1>4. registered \in (1..made) \cup {None} /\ outdated \in BOOLEAN /\ closed \subseteq 1..made
  BY DEF Init
<1>5. made \in 0..MaxPools /\ faults \in 0..MaxFaults
  BY <1>1 DEF Init
<1> QED BY <1>2, <1>3, <1>4, <1>5 DEF TypeOK

LEMMA TypeGetPool ==
  ASSUME TypeOK, NEW u \in Users, GetPool(u)
  PROVE  TypeOK'
<1>1. made \in Nat /\ MaxPools \in Nat
  BY PoolAssumption DEF TypeOK
<1>2. /\ pc' = [pc EXCEPT ![u] = "ready"]
      /\ owner' \in [Users -> BOOLEAN]
      /\ faults' = faults
  BY DEF GetPool, Goes, TypeOK
<1>3. CASE registered # None /\ ~outdated
  <2>1. /\ at' = [at EXCEPT ![u] = registered]
        /\ UNCHANGED <<registered, outdated, made, closed, idle>>
    BY <1>3 DEF GetPool
  <2> QED BY <1>1, <1>2, <1>3, <2>1, PoolAssumption DEF TypeOK, Pools
<1>4. CASE registered = None \/ outdated
  <2>1. /\ made < MaxPools /\ made' = made + 1
        /\ registered' = made + 1 /\ outdated' = FALSE
        /\ at' = [at EXCEPT ![u] = made + 1]
    BY <1>4 DEF GetPool
  <2>2. 1..made \subseteq 1..made' /\ made + 1 \in 1..made' /\ made' \in 0..MaxPools
    BY <1>1, <2>1
  <2>3. closed' \subseteq 1..made' /\ idle' \in [Pools -> Nat]
    <3>1. CASE registered # None
      <4>1. ClosePool(registered) /\ registered \in 1..made
        BY <1>4, <3>1 DEF GetPool, TypeOK
      <4> QED BY <4>1, <2>2 DEF ClosePool, TypeOK
    <3>2. CASE registered = None
      <4>1. UNCHANGED <<closed, idle>>
        BY <1>4, <3>2 DEF GetPool
      <4> QED BY <4>1, <2>2 DEF TypeOK
    <3> QED BY <3>1, <3>2
  <2>4. at' \in [Users -> (1..made') \cup {None}]
    BY <2>1, <2>2 DEF TypeOK
  <2>5. \A v \in Users : pc'[v] # "away" => at'[v] # None
    BY <1>1, <1>2, <2>1, PoolAssumption DEF TypeOK
  <2> QED BY <1>1, <1>2, <2>1, <2>2, <2>3, <2>4, <2>5 DEF TypeOK
<1> QED BY <1>3, <1>4 DEF GetPool

LEMMA TypeLeaves ==
  ASSUME TypeOK, NEW u \in Users, pc[u] # "away", Leaves(u), faults' \in 0..MaxFaults
  PROVE  TypeOK'
<1>1. at[u] \in 1..made
  BY HasPool
<1>2. closed' \subseteq 1..made /\ idle' \in [Pools -> Nat]
  <2>1. CASE owner[u]
    <3>1. ClosePool(at[u])
      BY <2>1, Zenon DEF Leaves
    <3> QED BY <1>1, <3>1 DEF ClosePool, TypeOK
  <2>2. CASE ~owner[u]
    BY <2>2 DEF Leaves, TypeOK
  <2> QED BY <2>1, <2>2
<1> QED BY <1>2 DEF Leaves, Goes, TypeOK

LEMMA TypeStep == TypeOK /\ [Next]_vars => TypeOK'
<1> SUFFICES ASSUME TypeOK, [Next]_vars PROVE TypeOK'
  OBVIOUS
<1>f. faults \in 0..MaxFaults /\ MaxFaults \in Nat
  BY PoolAssumption DEF TypeOK
<1>1. CASE ChangeSettings
  BY <1>1 DEF ChangeSettings, TypeOK
<1>2. CASE ResetPool
  BY <1>2 DEF ResetPool, ClosePool, TypeOK
<1>3. ASSUME NEW u \in Users, GetPool(u) PROVE TypeOK'
  BY <1>3, TypeGetPool
<1>4. ASSUME NEW u \in Users, Enter(u) PROVE TypeOK'
  BY <1>4 DEF Enter, Goes, TypeOK
<1>5. ASSUME NEW u \in Users, Pop(u) PROVE TypeOK'
  <2>1. at[u] \in Pools
    BY <1>5, HasPool DEF Pop
  <2>2. idle' \in [Pools -> Nat]
    BY <1>5, <2>1 DEF Pop, TypeOK
  <2> QED BY <1>5, <2>2 DEF Pop, Goes, TypeOK
<1>6. ASSUME NEW u \in Users, Connected(u) PROVE TypeOK'
  BY <1>6 DEF Connected, Goes, TypeOK
<1>7. ASSUME NEW u \in Users, ProbeFails(u) PROVE TypeOK'
  BY <1>7, <1>f DEF ProbeFails, Fault, Goes, TypeOK
<1>8. ASSUME NEW u \in Users, Release(u) PROVE TypeOK'
  <2>1. idle' \in [Pools -> Nat]
    <3>1. idle' = idle \/ idle' = [idle EXCEPT ![at[u]] = @ + 1]
      BY <1>8 DEF Release
    <3>2. at[u] \in Pools
      BY <1>8, HasPool DEF Release
    <3> QED BY <3>1, <3>2 DEF TypeOK
  <2> QED BY <1>8, <2>1 DEF Release, Goes, TypeOK
<1>9. ASSUME NEW u \in Users, Finish(u) PROVE TypeOK'
  BY <1>9, <1>f, TypeLeaves DEF Finish
<1>10. ASSUME NEW u \in Users, Break(u) PROVE TypeOK'
  <2>1. pc[u] # "away" /\ Leaves(u) /\ faults' \in 0..MaxFaults
    BY <1>10, <1>f DEF Break, Fault
  <2> QED BY <2>1, TypeLeaves
<1>11. CASE UNCHANGED vars
  BY <1>11 DEF vars, TypeOK
<1> QED
  BY <1>1, <1>2, <1>3, <1>4, <1>5, <1>6, <1>7, <1>8, <1>9, <1>10, <1>11 DEF Next, Borrow

\* TypeOK holds whatever the registry and the tasks do.
THEOREM PoolTypeCorrect == Spec => []TypeOK
BY TypeInit, TypeStep, PTL DEF Spec

-----------------------------------------------------------------------------
\* A closed pool stays empty: nobody appends to it, and to close is to empty.
LEMMA ClosedStep == TypeOK /\ ClosedPoolsAreEmpty /\ [Next]_vars => ClosedPoolsAreEmpty'
<1> SUFFICES ASSUME TypeOK, ClosedPoolsAreEmpty, [Next]_vars PROVE ClosedPoolsAreEmpty'
  OBVIOUS
<1>1. \A p \in closed : p \in Pools
  BY PoolAssumption DEF TypeOK, Pools
<1>2. ASSUME NEW p \in Pools, ClosePool(p) PROVE ClosedPoolsAreEmpty'
  BY <1>1, <1>2 DEF ClosePool, ClosedPoolsAreEmpty, TypeOK
<1>3. ASSUME UNCHANGED <<closed, idle>> PROVE ClosedPoolsAreEmpty'
  BY <1>3 DEF ClosedPoolsAreEmpty
<1>r. registered # None => registered \in Pools
  BY PoolAssumption DEF TypeOK, Pools
<1>4. CASE ChangeSettings
  BY <1>3, <1>4 DEF ChangeSettings
<1>5. CASE ResetPool
  BY <1>2, <1>5, <1>r DEF ResetPool
<1>6. ASSUME NEW u \in Users, GetPool(u) PROVE ClosedPoolsAreEmpty'
  BY <1>2, <1>3, <1>6, <1>r DEF GetPool
<1>7. ASSUME NEW u \in Users, Enter(u) \/ Connected(u) \/ ProbeFails(u) PROVE ClosedPoolsAreEmpty'
  BY <1>3, <1>7 DEF Enter, Connected, ProbeFails
<1>8. ASSUME NEW u \in Users, Pop(u) PROVE ClosedPoolsAreEmpty'
  <2>1. at[u] \in Pools
    BY <1>8, HasPool DEF Pop
  <2>2. CASE idle[at[u]] > 0
    <3>1. at[u] \notin closed
      BY <2>2 DEF ClosedPoolsAreEmpty
    <3> QED BY <1>1, <1>8, <2>1, <2>2, <3>1 DEF Pop, ClosedPoolsAreEmpty, TypeOK
  <2>3. CASE ~(idle[at[u]] > 0)
    BY <1>3, <1>8, <2>3 DEF Pop
  <2> QED BY <2>2, <2>3
<1>9. ASSUME NEW u \in Users, Release(u) PROVE ClosedPoolsAreEmpty'
  BY <1>1, <1>9 DEF Release, ClosedPoolsAreEmpty, TypeOK
<1>10. ASSUME NEW u \in Users, Finish(u) \/ Break(u) PROVE ClosedPoolsAreEmpty'
  <2>1. Leaves(u) /\ at[u] \in Pools
    BY <1>10, HasPool DEF Finish, Break
  <2> QED BY <1>2, <1>3, <2>1 DEF Leaves
<1>11. CASE UNCHANGED vars
  BY <1>3, <1>11 DEF vars
<1> QED
  BY <1>4, <1>5, <1>6, <1>7, <1>8, <1>9, <1>10, <1>11 DEF Next, Borrow

\* ClosedPoolsAreEmpty: whatever borrows from it while it is closed, a pool
\* keeps no connection that nobody would close again (ImapPool._release).
THEOREM ClosedPoolsStayEmpty == Spec => []ClosedPoolsAreEmpty
<1>1. Init => ClosedPoolsAreEmpty
  BY DEF Init, ClosedPoolsAreEmpty
<1> QED BY <1>1, ClosedStep, PoolTypeCorrect, PTL DEF Spec

-----------------------------------------------------------------------------
(***************************************************************************)
(* The limit.  A place inside the semaphore is what keeps it: the tasks    *)
(* inside are Max at most, and a new connection is opened by one of them   *)
(* when no connection is idle.                                             *)
(***************************************************************************)
Places == \A p \in Pools : Cardinality(Inside(p)) <= Max

LEMMA SomeUsers ==
  ASSUME NEW S, S \subseteq Users
  PROVE  IsFiniteSet(S) /\ Cardinality(S) \in Nat
BY PoolAssumption, FS_Subset, FS_CardinalityType

\* A set of tasks that gains one, loses one, or stays.
LEMMA OneMore ==
  ASSUME NEW S, S \subseteq Users, NEW T, T \subseteq Users, NEW u \in Users, T \subseteq S \cup {u}
  PROVE  Cardinality(T) <= Cardinality(S) + 1
<1>1. IsFiniteSet(S) /\ S \cup {u} \subseteq Users /\ IsFiniteSet(S \cup {u})
  BY SomeUsers
<1>2. Cardinality(T) <= Cardinality(S \cup {u})
  BY <1>1, FS_Subset
<1>3. Cardinality(S \cup {u}) = IF u \in S THEN Cardinality(S) ELSE Cardinality(S) + 1
  BY <1>1, FS_AddElement
<1> QED BY <1>1, <1>2, <1>3, SomeUsers

LEMMA OneLess ==
  ASSUME NEW S, S \subseteq Users, NEW u \in S, NEW T, T \subseteq S \ {u}
  PROVE  Cardinality(T) <= Cardinality(S) - 1
<1>1. IsFiniteSet(S) /\ IsFiniteSet(S \ {u})
  BY SomeUsers
<1>2. Cardinality(T) <= Cardinality(S \ {u})
  BY <1>1, FS_Subset
<1>3. Cardinality(S \ {u}) = Cardinality(S) - 1
  BY <1>1, FS_RemoveElement
<1> QED BY <1>2, <1>3, SomeUsers

LEMMA NoMore ==
  ASSUME NEW S, S \subseteq Users, NEW T, T \subseteq S
  PROVE  Cardinality(T) <= Cardinality(S)
BY SomeUsers, FS_Subset

Limits == Places /\ WithinLimit

LEMMA Parts ==
  ASSUME NEW p \in Pools
  PROVE  /\ Inside(p) \subseteq Users /\ Holders(p) \subseteq Inside(p)
         /\ Inside(p)' \subseteq Users /\ Holders(p)' \subseteq Inside(p)'
BY DEF Inside, Holders

\* A step after which nobody is inside or a holder who was not before, and no
\* more connections are idle.
LEMMA LimitsKept ==
  ASSUME TypeOK, TypeOK', NEW p \in Pools, Cardinality(Inside(p)) <= Max,
         idle[p] + Cardinality(Holders(p)) <= Max,
         Inside(p)' \subseteq Inside(p), Holders(p)' \subseteq Holders(p), idle'[p] <= idle[p]
  PROVE  /\ Cardinality(Inside(p)') <= Max
         /\ idle'[p] + Cardinality(Holders(p)') <= Max
<1>1. /\ Cardinality(Inside(p)') <= Cardinality(Inside(p))
      /\ Cardinality(Holders(p)') <= Cardinality(Holders(p))
  BY Parts, NoMore
<1>2. /\ Cardinality(Inside(p)') \in Nat /\ Cardinality(Inside(p)) \in Nat
      /\ Cardinality(Holders(p)') \in Nat /\ Cardinality(Holders(p)) \in Nat
  BY Parts, SomeUsers
<1>3. Max \in Nat /\ idle[p] \in Nat /\ idle'[p] \in Nat
  BY PoolAssumption DEF TypeOK
<1> QED BY <1>1, <1>2, <1>3

LEMMA LimitsStep == TypeOK /\ TypeOK' /\ Limits /\ [Next]_vars => Limits'
<1> SUFFICES ASSUME TypeOK, TypeOK', Limits, [Next]_vars, NEW p \in Pools
             PROVE  /\ Cardinality(Inside(p)') <= Max
                    /\ idle'[p] + Cardinality(Holders(p)') <= Max
  BY DEF Limits, Places, WithinLimit, Pools
<1>a. Cardinality(Inside(p)) <= Max /\ idle[p] + Cardinality(Holders(p)) <= Max
  BY DEF Limits, Places, WithinLimit
<1>b. Max \in Nat /\ idle[p] \in Nat /\ idle'[p] \in Nat
  BY PoolAssumption DEF TypeOK
<1>c. /\ Cardinality(Inside(p)') \in Nat /\ Cardinality(Inside(p)) \in Nat
      /\ Cardinality(Holders(p)') \in Nat /\ Cardinality(Holders(p)) \in Nat
  BY Parts, SomeUsers
<1>k. ASSUME Inside(p)' \subseteq Inside(p), Holders(p)' \subseteq Holders(p), idle'[p] <= idle[p]
      PROVE  /\ Cardinality(Inside(p)') <= Max
             /\ idle'[p] + Cardinality(Holders(p)') <= Max
  BY <1>a, <1>k, LimitsKept
<1>z. ASSUME NEW q, ClosePool(q) PROVE idle'[p] <= idle[p]
  BY <1>b, <1>z DEF ClosePool, TypeOK
<1>1. CASE ChangeSettings \/ UNCHANGED vars
  BY <1>1, <1>b, <1>k DEF ChangeSettings, vars, Inside, Holders
<1>2. CASE ResetPool
  BY <1>2, <1>k, <1>z DEF ResetPool, Inside, Holders
<1>3. ASSUME NEW u \in Users, GetPool(u)
      PROVE  /\ Cardinality(Inside(p)') <= Max
             /\ idle'[p] + Cardinality(Holders(p)') <= Max
  <2>1. idle'[p] <= idle[p]
    BY <1>3, <1>b, <1>z DEF GetPool
  <2>2. /\ pc' = [pc EXCEPT ![u] = "ready"]
        /\ \A v \in Users : v # u => at'[v] = at[v]
    BY <1>3 DEF GetPool, Goes, TypeOK
  <2>3. Inside(p)' \subseteq Inside(p) /\ Holders(p)' \subseteq Holders(p)
    BY <2>2 DEF Inside, Holders, TypeOK
  <2> QED BY <1>k, <2>1, <2>3
<1>4. ASSUME NEW u \in Users, Enter(u)
      PROVE  /\ Cardinality(Inside(p)') <= Max
             /\ idle'[p] + Cardinality(Holders(p)') <= Max
  <2>1. idle' = idle /\ at' = at /\ pc' = [pc EXCEPT ![u] = "entered"]
    BY <1>4 DEF Enter, Goes
  <2>2. Holders(p)' \subseteq Holders(p)
    BY <2>1 DEF Inside, Holders, TypeOK
  <2>3. CASE p = at[u]
    <3>1. Cardinality(Inside(p)) < Max
      BY <1>4, <2>3 DEF Enter
    <3>2. Inside(p)' \subseteq Inside(p) \cup {u}
      BY <2>1 DEF Inside, TypeOK
    <3>3. Cardinality(Inside(p)') <= Cardinality(Inside(p)) + 1
      BY <3>2, Parts, OneMore
    <3>4. Cardinality(Holders(p)') <= Cardinality(Holders(p))
      BY <2>2, Parts, NoMore
    <3> QED BY <1>a, <1>b, <1>c, <2>1, <3>1, <3>3, <3>4
  <2>4. CASE p # at[u]
    <3>1. Inside(p)' \subseteq Inside(p)
      BY <2>1, <2>4 DEF Inside, TypeOK
    <3> QED BY <1>b, <1>k, <2>1, <2>2, <3>1
  <2> QED BY <2>3, <2>4
<1>5. ASSUME NEW u \in Users, Pop(u)
      PROVE  /\ Cardinality(Inside(p)') <= Max
             /\ idle'[p] + Cardinality(Holders(p)') <= Max
  <2>1. at' = at /\ pc[u] = "entered" /\ pc' \in {[pc EXCEPT ![u] = "probing"], [pc EXCEPT ![u] = "opening"]}
    BY <1>5 DEF Pop, Goes
  <2>2. Inside(p)' \subseteq Inside(p) /\ Holders(p)' \subseteq Holders(p) \cup {u}
    BY <2>1 DEF Inside, Holders, TypeOK
  <2>3. /\ Cardinality(Inside(p)') <= Cardinality(Inside(p))
        /\ Cardinality(Holders(p)') <= Cardinality(Inside(p)')
        /\ Cardinality(Holders(p)') <= Cardinality(Holders(p)) + 1
    BY <2>2, Parts, NoMore, OneMore
  <2>4. CASE p # at[u]
    <3>1. idle'[p] = idle[p]
      BY <1>5, <2>4 DEF Pop, TypeOK
    <3>2. Holders(p)' \subseteq Holders(p)
      BY <2>1, <2>4 DEF Inside, Holders, TypeOK
    <3> QED BY <1>b, <1>k, <2>2, <3>1, <3>2
  <2>5. CASE p = at[u] /\ idle[p] > 0
    <3>1. idle'[p] = idle[p] - 1
      BY <1>5, <2>5 DEF Pop, TypeOK
    <3> QED BY <1>a, <1>b, <1>c, <2>3, <3>1
  <2>6. CASE p = at[u] /\ ~(idle[p] > 0)
    <3>1. idle'[p] = 0
      BY <1>5, <1>b, <2>6 DEF Pop
    <3> QED BY <1>a, <1>b, <1>c, <2>3, <3>1
  <2> QED BY <2>4, <2>5, <2>6
<1>6. ASSUME NEW u \in Users, Connected(u) \/ ProbeFails(u)
      PROVE  /\ Cardinality(Inside(p)') <= Max
             /\ idle'[p] + Cardinality(Holders(p)') <= Max
  <2>1. /\ idle' = idle /\ at' = at /\ pc[u] \in {"probing", "opening"}
        /\ pc' \in {[pc EXCEPT ![u] = "using"], [pc EXCEPT ![u] = "entered"]}
    BY <1>6 DEF Connected, ProbeFails, Goes
  <2>2. Inside(p)' \subseteq Inside(p) /\ Holders(p)' \subseteq Holders(p)
    BY <2>1 DEF Inside, Holders, TypeOK
  <2> QED BY <1>b, <1>k, <2>1, <2>2
<1>7. ASSUME NEW u \in Users, Release(u)
      PROVE  /\ Cardinality(Inside(p)') <= Max
             /\ idle'[p] + Cardinality(Holders(p)') <= Max
  <2>1. /\ at' = at /\ pc[u] = "using" /\ pc' = [pc EXCEPT ![u] = "ready"]
        /\ idle' = idle \/ idle' = [idle EXCEPT ![at[u]] = @ + 1]
    BY <1>7 DEF Release, Goes
  <2>2. Inside(p)' \subseteq Inside(p) /\ Holders(p)' \subseteq Holders(p) \ {u}
    BY <2>1 DEF Inside, Holders, TypeOK
  <2>3. CASE p = at[u]
    <3>1. u \in Holders(p)
      BY <2>1, <2>3 DEF Inside, Holders
    <3>2. /\ Cardinality(Holders(p)') <= Cardinality(Holders(p)) - 1
          /\ Cardinality(Inside(p)') <= Cardinality(Inside(p))
      BY <2>2, <3>1, Parts, OneLess, NoMore
    <3>3. idle'[p] <= idle[p] + 1
      BY <1>b, <2>1, <2>3 DEF TypeOK
    <3> QED BY <1>a, <1>b, <1>c, <3>2, <3>3
  <2>4. CASE p # at[u]
    <3>1. idle'[p] <= idle[p]
      BY <1>b, <2>1, <2>4 DEF TypeOK
    <3> QED BY <1>k, <2>2, <3>1
  <2> QED BY <2>3, <2>4
<1>8. ASSUME NEW u \in Users, Finish(u) \/ Break(u)
      PROVE  /\ Cardinality(Inside(p)') <= Max
             /\ idle'[p] + Cardinality(Holders(p)') <= Max
  <2>1. Leaves(u)
    BY <1>8 DEF Finish, Break
  <2>2. pc' = [pc EXCEPT ![u] = "away"] /\ at' = [at EXCEPT ![u] = None]
    BY <2>1 DEF Leaves, Goes
  <2>3. Inside(p)' \subseteq Inside(p) /\ Holders(p)' \subseteq Holders(p)
    BY <2>2 DEF Inside, Holders, TypeOK
  <2>4. idle' = idle \/ ClosePool(at[u])
    BY <2>1, Zenon DEF Leaves
  <2> QED BY <1>b, <1>k, <1>z, <2>3, <2>4
<1> QED
  BY <1>1, <1>2, <1>3, <1>4, <1>5, <1>6, <1>7, <1>8 DEF Next, Borrow

\* WithinLimit: borrowed, opening and idle connections of a pool together stay
\* within imap_max_conn_per_account (docs/configuration.md:66).
THEOREM ConnectionsWithinLimit == Spec => []WithinLimit
<1>1. Init => Limits
  <2> SUFFICES ASSUME Init, NEW p \in Pools
               PROVE  /\ Cardinality(Inside(p)) <= Max
                      /\ idle[p] + Cardinality(Holders(p)) <= Max
    BY DEF Limits, Places, WithinLimit
  <2>1. Inside(p) = {} /\ Holders(p) = {} /\ idle[p] = 0
    BY DEF Init, Inside, Holders
  <2> QED BY <2>1, FS_EmptySet, PoolAssumption
<1>2. Limits => WithinLimit
  BY DEF Limits
<1> QED BY <1>1, <1>2, LimitsStep, PoolTypeCorrect, PTL DEF Spec
=============================================================================
