---------------------------- MODULE OutboxProofs ----------------------------
(***************************************************************************)
(* The safety properties of Outbox, proved for any number of rows, worker  *)
(* slots, request handlers, faults and approvals, any batch limit, and any *)
(* job timeout that does not exceed the claim timeout.                     *)
(***************************************************************************)
EXTENDS Outbox, FiniteSetTheorems, WellFoundedInduction, TLAPS

-----------------------------------------------------------------------------
(***************************************************************************)
(* The control part of the inductive invariant.                            *)
(***************************************************************************)

\* A slot holds rows exactly while its job is in the send loop.
SlotsConsistent ==
    \A w \in Workers : todo[w] # {} <=> wpc[w] \in {"send", "accepted"}

\* A running job is not past its deadline, and what it holds was claimed (by
\* itself or, after an approval, later by another job) since it started.
JobsInTime ==
    \A w \in Workers : wpc[w] # "idle" =>
        /\ started[w] <= now /\ now <= started[w] + JobTimeout
        /\ \A r \in todo[w] : started[w] <= lockedAt[r]

\* Only rows past the approval gate are ever claimed.
GateHolds ==
    /\ \A r \in Rows : r \in cleared <=> status[r] \notin {Absent, "pending_approval"}
    /\ \A w \in Workers : todo[w] \subseteq cleared

\* An approve request works on a row that exists.
ApprovesExisting ==
    \A h \in Handlers : hpc[h] = "approve" =>
        /\ hrow[h] \in Rows
        /\ status[hrow[h]] # Absent
        /\ hloaded[h] = "queued" => hrow[h] \in cleared

Control ==
    /\ TypeOK
    /\ SlotsConsistent
    /\ JobsInTime
    /\ GateHolds
    /\ ApprovesExisting

-----------------------------------------------------------------------------
\* A nonempty set of naturals has a least element.
LEMMA LeastNat ==
  ASSUME NEW S, S \subseteq Nat, S # {}
  PROVE  \E x \in S : \A y \in S : x <= y
<1> DEFINE R == OpToRel(<, Nat)
<1>1. IsWellFoundedOn(R, Nat)
  BY NatLessThanWellFounded
<1>2. \E x \in S : \A y \in S : <<y, x>> \notin R
  BY <1>1, WFMin
<1>3. ASSUME NEW x \in Nat, NEW y \in Nat, <<y, x>> \notin R  PROVE x <= y
  BY <1>3 DEF OpToRel
<1> QED BY <1>2, <1>3

\* The oldest of some rows is one of them.
LEMMA OldestIn == \A S \in SUBSET Rows : S # {} => Oldest(S) \in S
<1> SUFFICES ASSUME NEW S \in SUBSET Rows, S # {} PROVE Oldest(S) \in S
  OBVIOUS
<1>1. S \subseteq Nat
  BY OutboxAssumption DEF Rows
<1>2. \E r \in S : \A q \in S : r <= q
  BY <1>1, LeastNat
<1> QED BY <1>2, Zenon DEF Oldest

\* The row a job in the send loop works on is one it claimed.
LEMMA CurrentRow ==
  ASSUME TypeOK, SlotsConsistent, NEW w \in Workers, wpc[w] \in {"send", "accepted"}
  PROVE  Oldest(todo[w]) \in todo[w] /\ Oldest(todo[w]) \in Rows
BY OldestIn DEF SlotsConsistent, TypeOK

\* What Queue does, for the row it creates.
LEMMA QueueRow ==
  ASSUME TypeOK, NEW h \in Handlers, NEW gated \in BOOLEAN, Queue(h, gated)
  PROVE  \E r \in Rows :
           /\ status[r] = Absent
           /\ status' = [status EXCEPT ![r] =
                           IF gated THEN "pending_approval" ELSE "queued"]
           /\ cleared' = IF gated THEN cleared ELSE cleared \cup {r}
           /\ hpc' = [hpc EXCEPT ![h] = IF gated THEN "idle" ELSE "enqueue"]
           /\ UNCHANGED <<lockedAt, jobs, now, hrow, hloaded, approvals,
                          workerVars, faults, delivered, excuses>>
<1> DEFINE missing == {r \in Rows : status[r] = Absent}
<1>1. missing \in SUBSET Rows /\ missing # {}
  BY DEF Queue
<1>2. Oldest(missing) \in missing
  BY <1>1, OldestIn
<1> QED BY <1>2 DEF Queue

\* The control part holds before anything is stored.
LEMMA ControlInit == Init => Control
BY OutboxAssumption
   DEF Init, Control, TypeOK, SlotsConsistent, JobsInTime, GateHolds,
       ApprovesExisting, Rows

\* Every step of a handler, a worker, a crash or the clock keeps the control
\* part: the invariant behind the claim timeout and the approval gate.
LEMMA ControlStep == Control /\ [Next]_vars => Control'
<1> SUFFICES ASSUME Control, [Next]_vars PROVE Control'
  OBVIOUS
<1> USE OutboxAssumption
    DEF Control, TypeOK, SlotsConsistent, JobsInTime, GateHolds,
        ApprovesExisting, Statuses, Absent, NoLock, rowVars, apiVars, workerVars, historyVars
<1>1. ASSUME NEW h \in Handlers, NEW gated \in BOOLEAN, Queue(h, gated)
      PROVE  Control'
  <2>1. PICK r \in Rows :
           /\ status[r] = Absent
           /\ status' = [status EXCEPT ![r] =
                           IF gated THEN "pending_approval" ELSE "queued"]
           /\ cleared' = IF gated THEN cleared ELSE cleared \cup {r}
           /\ hpc' = [hpc EXCEPT ![h] = IF gated THEN "idle" ELSE "enqueue"]
           /\ UNCHANGED <<lockedAt, jobs, now, hrow, hloaded, approvals,
                          workerVars, faults, delivered, excuses>>
    BY <1>1, QueueRow
  <2> QED BY <2>1
<1>2. ASSUME NEW h \in Handlers, NEW r \in Rows, ApproveLoad(h, r) PROVE Control'
  BY <1>2 DEF ApproveLoad
<1>3. ASSUME NEW h \in Handlers, ApproveCommit(h) PROVE Control'
  BY <1>3 DEF ApproveCommit, Excuse
<1>4. ASSUME NEW h \in Handlers, EnqueueJob(h) \/ EnqueueLost(h) PROVE Control'
  BY <1>4 DEF EnqueueJob, EnqueueLost
<1>5. ASSUME NEW w \in Workers, StartJob(w) PROVE Control'
  BY <1>5 DEF StartJob
<1>6. ASSUME NEW w \in Workers, ReleaseStaleClaims(w) PROVE Control'
  <2>1. ASSUME NEW v \in Workers, NEW r \in todo[v]
        PROVE  now <= lockedAt[r] + ClaimTimeout
    <3>1. JobTimeout \in Nat /\ ClaimTimeout \in Nat /\ JobTimeout <= ClaimTimeout
      OBVIOUS
    <3>2. wpc[v] # "idle" /\ r \in Rows /\ started[v] \in Nat
      OBVIOUS
    <3>3. started[v] <= lockedAt[r] /\ now <= started[v] + JobTimeout
      BY <3>2
    <3>4. lockedAt[r] \in Int /\ now \in Nat
      BY <3>2
    <3> QED BY <3>1, <3>2, <3>3, <3>4
  <2>2. \A v \in Workers : \A r \in todo[v] : ~StaleClaim(r)
    <3> SUFFICES ASSUME NEW v \in Workers, NEW r \in todo[v], StaleClaim(r)
                 PROVE  FALSE
      OBVIOUS
    <3>1. r \in Rows /\ lockedAt[r] \in Int /\ now \in Nat /\ ClaimTimeout \in Nat
      OBVIOUS
    <3> QED BY <2>1, <3>1 DEF StaleClaim
  <2>3. /\ status' = [r \in Rows |-> IF StaleClaim(r) THEN "queued" ELSE status[r]]
        /\ lockedAt' = [r \in Rows |-> IF StaleClaim(r) THEN NoLock ELSE lockedAt[r]]
        /\ wpc[w] = "release" /\ wpc' = [wpc EXCEPT ![w] = "claim"]
        /\ UNCHANGED <<jobs, now, apiVars, started, todo, faults, historyVars>>
    BY <1>6 DEF ReleaseStaleClaims
  <2>4. \A r \in Rows : StaleClaim(r) => status[r] = "sending"
    BY DEF StaleClaim
  <2> QED BY <2>2, <2>3, <2>4
<1>7. ASSUME NEW w \in Workers, Claim(w) PROVE Control'
  <2>1. Claimable \in SUBSET {r \in Rows : status[r] = "queued"}
    BY DEF Claimable
  <2> QED BY <2>1, <1>7 DEF Claim
<1>8. ASSUME NEW w \in Workers, Accept(w) PROVE Control'
  BY <1>8, CurrentRow DEF Accept
<1>9. ASSUME NEW w \in Workers,
             RecordSent(w) \/ RecordFailed(w) \/ RecordTransient(w)
      PROVE  Control'
  <2>1. Oldest(todo[w]) \in todo[w] /\ Oldest(todo[w]) \in Rows
    BY <1>9, CurrentRow DEF RecordSent, RecordFailed, RecordTransient
  <2>2. \E outcome \in {"sent", "failed", "queued"} : Finish(w, outcome)
    BY <1>9 DEF RecordSent, RecordFailed, RecordTransient
  <2>3. faults' \in Nat /\ excuses' \in [Rows -> Nat]
    BY <1>9, <2>1 DEF RecordSent, RecordFailed, RecordTransient, Excuse
  <2>4. wpc[w] \in {"send", "accepted"}
    BY <1>9 DEF RecordSent, RecordFailed, RecordTransient
  <2>5. PICK outcome \in {"sent", "failed", "queued"}, r \in todo[w] :
           /\ status' = [status EXCEPT ![r] = outcome]
           /\ todo' = [todo EXCEPT ![w] = todo[w] \ {r}]
           /\ wpc' = [wpc EXCEPT ![w] = IF todo[w] \ {r} = {} THEN "idle" ELSE "send"]
           /\ started' = [started EXCEPT ![w] = IF todo[w] \ {r} = {} THEN 0 ELSE @]
           /\ UNCHANGED <<lockedAt, jobs, now, apiVars, cleared, delivered>>
    BY <2>1, <2>2 DEF Finish
  <2>6. r \in cleared /\ r \in Rows
    OBVIOUS
  <2>7. TypeOK'
    BY <2>3, <2>5, <2>6
  <2>8. SlotsConsistent'
    BY <2>4, <2>5
  <2>9. JobsInTime'
    BY <2>4, <2>5
  <2>10. GateHolds' /\ ApprovesExisting'
    BY <2>5, <2>6
  <2> QED BY <2>7, <2>8, <2>9, <2>10
<1>10. ASSUME NEW w \in Workers, ResendInClient(w) PROVE Control'
  BY <1>10, CurrentRow DEF ResendInClient, Excuse
<1>11. ASSUME NEW w \in Workers, JobRaises(w) \/ CancelAtDeadline(w) \/ Crash(w)
       PROVE  Control'
  <2>1. /\ wpc' = [wpc EXCEPT ![w] = "idle"]
        /\ started' = [started EXCEPT ![w] = 0]
        /\ todo' = [todo EXCEPT ![w] = {}]
        /\ UNCHANGED <<rowVars, now, apiVars, cleared, delivered>>
    BY <1>11 DEF JobRaises, CancelAtDeadline, Crash, Abandon
  <2>2. faults' \in Nat /\ jobs' \in Nat
    BY <1>11 DEF JobRaises, CancelAtDeadline, Crash
  <2>3. excuses' \in [Rows -> Nat]
    BY <1>11, CurrentRow DEF JobRaises, CancelAtDeadline, Crash, Abandon, Excuse
  <2>4. TypeOK'
    BY <2>1, <2>2, <2>3
  <2>5. SlotsConsistent' /\ JobsInTime' /\ GateHolds' /\ ApprovesExisting'
    BY <2>1
  <2> QED BY <2>4, <2>5
<1>12. CASE Tick
  BY <1>12 DEF Tick
<1>13. CASE UNCHANGED vars
  BY <1>13 DEF vars
<1> QED
  BY <1>1, <1>2, <1>3, <1>4, <1>5, <1>6, <1>7, <1>8, <1>9, <1>10, <1>11,
     <1>12, <1>13 DEF Next, HandlerStep, WorkerStep

\* The control part holds in every reachable state.
THEOREM ControlInvariant == Spec => []Control
BY ControlInit, ControlStep, PTL DEF Spec

\* Every reachable state is well typed.
THEOREM TypeCorrect == Spec => []TypeOK
<1>1. Control => TypeOK
  BY DEF Control
<1> QED BY <1>1, ControlInvariant, PTL

\* The timeouts: a claim is made after its job started, the job is not past its
\* deadline, and the deadline is not past the claim timeout.
LEMMA FreshFromControl == Control => HeldClaimIsFresh
<1> SUFFICES ASSUME Control, NEW r \in Rows, NEW w \in Workers, r \in todo[w]
             PROVE  lockedAt[r] # NoLock /\ now <= lockedAt[r] + ClaimTimeout
  BY DEF HeldClaimIsFresh, Holders
<1>1. JobTimeout \in Nat /\ ClaimTimeout \in Nat /\ JobTimeout <= ClaimTimeout
  BY OutboxAssumption
<1>2. wpc[w] # "idle"
  BY DEF Control, SlotsConsistent, TypeOK
<1>3. started[w] <= lockedAt[r] /\ now <= started[w] + JobTimeout
  BY <1>2 DEF Control, JobsInTime
<1>4. started[w] \in Nat /\ now \in Nat /\ lockedAt[r] \in Nat \cup {-1}
  BY DEF Control, TypeOK, NoLock
<1> QED BY <1>1, <1>3, <1>4 DEF NoLock

\* No job can release a claim that a live job still works on.
THEOREM HeldClaimsAreFresh == Spec => []HeldClaimIsFresh
BY ControlInvariant, FreshFromControl, PTL

-----------------------------------------------------------------------------
(***************************************************************************)
(* The accounting part: what is delivered, under way and to come.          *)
(***************************************************************************)

\* Jobs that handed the row over and wait for the answer.
Accepted(r) == {w \in Holders(r) : wpc[w] = "accepted" /\ r = Oldest(todo[w])}

\* One more delivery is due: it was queued, gated, or lost by its job.
Due(r) ==
    IF status[r] \in {"pending_approval", "queued"} \/ Orphaned(r) THEN 1 ELSE 0

Accounted(r) ==
    /\ r \notin cleared => delivered[r] = 0
    /\ Cardinality(Accepted(r)) <= delivered[r]
    /\ delivered[r] + Cardinality(Senders(r)) + Due(r) <= 1 + excuses[r]
    /\ status[r] = "failed" =>
         delivered[r] + Cardinality(Senders(r)) + Due(r) <= excuses[r]
    /\ status[r] = "sent" => delivered[r] > 0

IInv == Control /\ \A r \in Rows : Accounted(r)

\* Sets of job slots are finite and counted as usual.
LEMMA CountSlots ==
  ASSUME NEW S \in SUBSET Workers, NEW w \in Workers
  PROVE  /\ Cardinality(S) \in Nat
         /\ Cardinality(S \cup {w}) =
              IF w \in S THEN Cardinality(S) ELSE Cardinality(S) + 1
         /\ Cardinality(S \ {w}) =
              IF w \in S THEN Cardinality(S) - 1 ELSE Cardinality(S)
         /\ w \in S => Cardinality(S) > 0
<1>1. IsFiniteSet(S)
  BY OutboxAssumption, FS_Subset
<1>2. Cardinality(S) \in Nat
  BY <1>1, FS_CardinalityType
<1>3. w \in S => Cardinality(S) # 0
  BY <1>1, FS_EmptySet
<1>4. /\ Cardinality(S \cup {w}) =
           IF w \in S THEN Cardinality(S) ELSE Cardinality(S) + 1
      /\ Cardinality(S \ {w}) =
           IF w \in S THEN Cardinality(S) - 1 ELSE Cardinality(S)
  BY <1>1, FS_AddElement, FS_RemoveElement
<1> QED BY <1>2, <1>3, <1>4

\* The empty set of slots counts nothing.
LEMMA NoSlots == Cardinality({}) = 0
BY FS_EmptySet

\* A row nobody has created or approved is held by nobody.
LEMMA GatedUnheld ==
  ASSUME Control, NEW r \in Rows, r \notin cleared
  PROVE  Holders(r) = {} /\ Senders(r) = {} /\ Accepted(r) = {}
BY DEF Control, GateHolds, Holders, Senders, Accepted

\* The accounts balance before anything is stored.
LEMMA AccountedInit == Init => \A r \in Rows : Accounted(r)
<1> SUFFICES ASSUME Init, NEW r \in Rows PROVE Accounted(r)
  OBVIOUS
<1>1. Holders(r) = {} /\ Senders(r) = {} /\ Accepted(r) = {}
  BY DEF Init, Holders, Senders, Accepted
<1>2. Due(r) = 0
  BY DEF Init, Due, Orphaned, Absent
<1> QED BY <1>1, <1>2, NoSlots DEF Init, Accounted, Absent

\* A step that moves no row between slots and accepts nothing.
LEMMA SlotsFrame ==
  ASSUME NEW r \in Rows, todo' = todo,
         \A v \in Workers : wpc'[v] = "accepted" <=> wpc[v] = "accepted"
  PROVE  /\ Holders(r)' = Holders(r)
         /\ Senders(r)' = Senders(r)
         /\ Accepted(r)' = Accepted(r)
BY DEF Holders, Senders, Accepted

\* A step that leaves a row, its history and its slots alone keeps its account.
LEMMA RowFrame ==
  ASSUME NEW r \in Rows, Accounted(r), todo' = todo,
         \A v \in Workers : wpc'[v] = "accepted" <=> wpc[v] = "accepted",
         status'[r] = status[r], delivered'[r] = delivered[r],
         excuses'[r] = excuses[r], r \in cleared' <=> r \in cleared
  PROVE  Accounted(r)'
BY SlotsFrame DEF Accounted, Due, Orphaned

\* The counts of a row are natural numbers.
LEMMA RowTypes ==
  ASSUME TypeOK, NEW r \in Rows
  PROVE  /\ delivered[r] \in Nat /\ excuses[r] \in Nat
         /\ Cardinality(Holders(r)) \in Nat
         /\ Cardinality(Senders(r)) \in Nat
         /\ Cardinality(Accepted(r)) \in Nat
<1>1. Holders(r) \in SUBSET Workers /\ Senders(r) \in SUBSET Workers
      /\ Accepted(r) \in SUBSET Workers
  BY DEF Holders, Senders, Accepted
<1>2. \A S \in SUBSET Workers : Cardinality(S) \in Nat
  BY OutboxAssumption, FS_Subset, FS_CardinalityType
<1> QED BY <1>1, <1>2 DEF TypeOK

\* A new row has its first delivery due, and nothing else.
LEMMA AccountedQueue ==
  ASSUME IInv, NEW h \in Handlers, NEW gated \in BOOLEAN, Queue(h, gated),
         NEW r \in Rows
  PROVE  Accounted(r)'
<1>1. PICK n \in Rows :
           /\ status[n] = Absent
           /\ status' = [status EXCEPT ![n] =
                           IF gated THEN "pending_approval" ELSE "queued"]
           /\ cleared' = IF gated THEN cleared ELSE cleared \cup {n}
           /\ hpc' = [hpc EXCEPT ![h] = IF gated THEN "idle" ELSE "enqueue"]
           /\ UNCHANGED <<lockedAt, jobs, now, hrow, hloaded, approvals,
                          workerVars, faults, delivered, excuses>>
  BY QueueRow DEF IInv, Control
<1>2. todo' = todo /\ wpc' = wpc /\ delivered' = delivered /\ excuses' = excuses
  BY <1>1 DEF workerVars
<1>3. status \in [Rows -> Statuses \cup {Absent}]
  BY DEF IInv, Control, TypeOK
<1>4. CASE r # n
  <2>1. status'[r] = status[r] /\ (r \in cleared' <=> r \in cleared)
    BY <1>1, <1>3, <1>4
  <2> QED BY <1>2, <2>1, RowFrame DEF IInv
<1>5. CASE r = n
  <2>1. r \notin cleared
    BY <1>1, <1>5 DEF IInv, Control, GateHolds
  <2>2. Holders(r)' = {} /\ Senders(r)' = {} /\ Accepted(r)' = {}
    BY <1>2, <2>1, GatedUnheld, SlotsFrame DEF IInv
  <2>3. delivered'[r] = 0 /\ excuses'[r] \in Nat
    BY <1>2, <2>1, RowTypes DEF IInv, Accounted, Control
  <2>4. status'[r] \in {"pending_approval", "queued"}
    BY <1>1, <1>3, <1>5
  <2>5. Due(r)' = 1
    BY <2>4 DEF Due
  <2> QED BY <2>2, <2>3, <2>4, <2>5, NoSlots DEF Accounted
<1> QED BY <1>4, <1>5

\* An approval makes a delivery due; of a row that is being sent or was sent,
\* it is an excuse as well.
LEMMA AccountedApproveCommit ==
  ASSUME IInv, NEW h \in Handlers, ApproveCommit(h), NEW r \in Rows
  PROVE  Accounted(r)'
<1>1. todo' = todo /\ wpc' = wpc /\ delivered' = delivered
  BY DEF ApproveCommit, workerVars
<1>2. hrow[h] \in Rows /\ status[hrow[h]] # Absent
      /\ (hloaded[h] = "queued" => hrow[h] \in cleared)
  BY DEF IInv, Control, ApprovesExisting, ApproveCommit
<1>3. status \in [Rows -> Statuses \cup {Absent}] /\ excuses \in [Rows -> Nat]
  BY DEF IInv, Control, TypeOK
<1>4. CASE r # hrow[h] \/ hloaded[h] = "queued"
  <2>1. status'[r] = status[r] /\ excuses'[r] = excuses[r]
        /\ (r \in cleared' <=> r \in cleared)
    BY <1>2, <1>3, <1>4 DEF ApproveCommit, Excuse
  <2> QED BY <1>1, <2>1, RowFrame DEF IInv
<1>5. CASE r = hrow[h] /\ hloaded[h] # "queued"
  <2>1. status'[r] = "queued" /\ r \in cleared'
    BY <1>2, <1>3, <1>5 DEF ApproveCommit
  <2>2. excuses'[r] = IF status[r] \in {"sending", "sent"}
                      THEN excuses[r] + 1 ELSE excuses[r]
    BY <1>2, <1>3, <1>5 DEF ApproveCommit, Excuse
  <2>3. Senders(r)' = Senders(r) /\ Accepted(r)' = Accepted(r)
    BY <1>1, SlotsFrame
  <2>4. Due(r)' = 1
    BY <2>1 DEF Due
  <2>5. status[r] \in {"pending_approval", "queued"} => Due(r) = 1
    BY DEF Due
  <2>6. Due(r) \in {0, 1}
    BY DEF Due
  <2>7. status[r] \in {"pending_approval", "queued", "sending", "sent", "failed"}
    BY <1>2, <1>3, <1>5 DEF Statuses
  <2>8. delivered[r] + Cardinality(Senders(r)) + 1 <= 1 + excuses'[r]
    <3>1. /\ delivered[r] + Cardinality(Senders(r)) + Due(r) <= 1 + excuses[r]
          /\ status[r] = "failed" =>
               delivered[r] + Cardinality(Senders(r)) + Due(r) <= excuses[r]
      BY DEF IInv, Accounted
    <3>2. delivered[r] \in Nat /\ excuses[r] \in Nat /\ Cardinality(Senders(r)) \in Nat
      BY RowTypes DEF IInv, Control
    <3> QED BY <2>2, <2>5, <2>6, <2>7, <3>1, <3>2
  <2>9. Cardinality(Accepted(r)) <= delivered[r]
    BY DEF IInv, Accounted
  <2> QED BY <1>1, <2>1, <2>3, <2>4, <2>8, <2>9 DEF Accounted
<1> QED BY <1>4, <1>5

\* A stale claim has no live holder, so its due delivery stays due.
LEMMA AccountedRelease ==
  ASSUME IInv, NEW w \in Workers, ReleaseStaleClaims(w), NEW r \in Rows
  PROVE  Accounted(r)'
<1>1. /\ todo' = todo /\ delivered' = delivered /\ excuses' = excuses
      /\ cleared' = cleared /\ wpc' = [wpc EXCEPT ![w] = "claim"]
      /\ wpc[w] = "release"
      /\ status'[r] = IF StaleClaim(r) THEN "queued" ELSE status[r]
  BY DEF ReleaseStaleClaims, historyVars
<1>2. \A v \in Workers : wpc'[v] = "accepted" <=> wpc[v] = "accepted"
  BY <1>1 DEF IInv, Control, TypeOK
<1>3. CASE ~StaleClaim(r)
  BY <1>1, <1>2, <1>3, RowFrame DEF IInv
<1>4. CASE StaleClaim(r)
  <2>1. status[r] = "sending" /\ status'[r] = "queued"
    BY <1>1, <1>4 DEF StaleClaim
  <2>2. Holders(r) = {}
    <3>1. lockedAt[r] \in Nat \cup {NoLock} /\ now \in Nat /\ ClaimTimeout \in Nat
      BY OutboxAssumption DEF IInv, Control, TypeOK
    <3>2. HeldClaimIsFresh
      BY FreshFromControl DEF IInv
    <3> QED BY <1>4, <3>1, <3>2 DEF StaleClaim, HeldClaimIsFresh, NoLock
  <2>3. Due(r) = 1 /\ Due(r)' = 1
    BY <2>1, <2>2 DEF Due, Orphaned
  <2> QED BY <1>1, <1>2, <2>1, <2>3, SlotsFrame DEF IInv, Accounted
<1> QED BY <1>3, <1>4

\* A claim turns the due delivery of a queued row into one under way.
LEMMA AccountedClaim ==
  ASSUME IInv, NEW w \in Workers, Claim(w), NEW r \in Rows
  PROVE  Accounted(r)'
<1>1. /\ delivered' = delivered /\ excuses' = excuses /\ cleared' = cleared
      /\ todo' = [todo EXCEPT ![w] = Claimable]
      /\ wpc[w] = "claim"
      /\ wpc' = [wpc EXCEPT ![w] = IF Claimable = {} THEN "idle" ELSE "send"]
      /\ status'[r] = IF r \in Claimable THEN "sending" ELSE status[r]
  BY DEF Claim, historyVars
<1>2. /\ wpc \in [Workers -> {"idle", "release", "claim", "send", "accepted"}]
      /\ todo \in [Workers -> SUBSET Rows]
      /\ todo[w] = {}
  BY <1>1 DEF IInv, Control, TypeOK, SlotsConsistent
<1>3. wpc'[w] # "accepted" /\ \A v \in Workers : v # w => wpc'[v] = wpc[v]
  BY <1>1, <1>2
<1>4. todo'[w] = Claimable /\ \A v \in Workers : v # w => todo'[v] = todo[v]
  BY <1>1, <1>2
<1>5. Accepted(r)' = Accepted(r)
  BY <1>1, <1>2, <1>3, <1>4 DEF Accepted, Holders
<1>6. CASE r \notin Claimable
  <2>1. Holders(r)' = Holders(r) /\ Senders(r)' = Senders(r)
    BY <1>2, <1>3, <1>4, <1>6 DEF Holders, Senders
  <2>2. status'[r] = status[r]
    BY <1>1, <1>6
  <2> QED BY <1>1, <1>5, <2>1, <2>2 DEF IInv, Accounted, Due, Orphaned
<1>7. CASE r \in Claimable
  <2>1. status[r] = "queued" /\ status'[r] = "sending"
    BY <1>1, <1>7 DEF Claimable
  <2>2. Senders(r)' = Senders(r) \cup {w} /\ w \notin Senders(r) /\ w \in Holders(r)'
    BY <1>2, <1>3, <1>4, <1>7 DEF Holders, Senders
  <2>3. Due(r) = 1 /\ Due(r)' = 0
    BY <2>1, <2>2 DEF Due, Orphaned
  <2>4. Senders(r) \in SUBSET Workers
    BY DEF Senders, Holders
  <2>5. Cardinality(Senders(r)') = Cardinality(Senders(r)) + 1
    BY <2>2, <2>4, CountSlots
  <2> QED
    BY <1>1, <1>5, <2>1, <2>3, <2>5, RowTypes DEF IInv, Control, Accounted
<1> QED BY <1>6, <1>7

\* What a job in the send loop contributes to the counts of a row.
LEMMA SlotRole ==
  ASSUME Control, NEW w \in Workers, wpc[w] \in {"send", "accepted"}, NEW r \in Rows
  PROVE  /\ w \in Holders(r) <=> r \in todo[w]
         /\ w \in Accepted(r) <=> wpc[w] = "accepted" /\ r = Oldest(todo[w])
         /\ w \in Senders(r) <=>
              r \in todo[w] /\ ~(wpc[w] = "accepted" /\ r = Oldest(todo[w]))
         /\ Oldest(todo[w]) \in todo[w] /\ Oldest(todo[w]) \in Rows
         /\ status \in [Rows -> Statuses \cup {Absent}]
         /\ excuses \in [Rows -> Nat] /\ delivered \in [Rows -> Nat]
<1>1. Oldest(todo[w]) \in todo[w] /\ Oldest(todo[w]) \in Rows
  BY CurrentRow DEF Control
<1> QED BY <1>1 DEF Control, TypeOK, Holders, Accepted, Senders

\* The provider turns a delivery under way into a delivery made.
LEMMA AccountedAccept ==
  ASSUME IInv, NEW w \in Workers, Accept(w), NEW r \in Rows
  PROVE  Accounted(r)'
<1>1. PICK c \in todo[w] :
        /\ c = Oldest(todo[w])
        /\ delivered' = [delivered EXCEPT ![c] = @ + 1]
        /\ wpc' = [wpc EXCEPT ![w] = "accepted"]
        /\ UNCHANGED <<status, todo, excuses, cleared>>
        /\ wpc[w] = "send"
  BY SlotRole DEF Accept, IInv, rowVars
<1>2. /\ wpc \in [Workers -> {"idle", "release", "claim", "send", "accepted"}]
      /\ delivered \in [Rows -> Nat] /\ c \in Rows
  BY <1>1 DEF IInv, Control, TypeOK
<1>3. Holders(r)' = Holders(r)
  BY <1>1 DEF Holders
<1>4. Due(r)' = Due(r)
  BY <1>1, <1>3 DEF Due, Orphaned
<1>5. wpc'[w] = "accepted" /\ \A v \in Workers : v # w => wpc'[v] = wpc[v]
  BY <1>1, <1>2
<1>6. CASE r # c
  <2>1. Senders(r)' = Senders(r) /\ Accepted(r)' = Accepted(r)
    BY <1>1, <1>3, <1>5, <1>6 DEF Senders, Accepted
  <2>2. delivered'[r] = delivered[r]
    BY <1>1, <1>2, <1>6
  <2> QED BY <1>1, <1>4, <2>1, <2>2 DEF IInv, Accounted
<1>7. CASE r = c
  <2>1. w \in Senders(r) /\ w \notin Accepted(r)
    BY <1>1, <1>7, SlotRole DEF IInv
  <2>2. Senders(r)' = Senders(r) \ {w} /\ Accepted(r)' = Accepted(r) \cup {w}
    BY <1>1, <1>3, <1>5, <1>7, <2>1 DEF Senders, Accepted
  <2>3. Senders(r) \in SUBSET Workers /\ Accepted(r) \in SUBSET Workers
    BY DEF Senders, Accepted, Holders
  <2>4. /\ Cardinality(Senders(r)') = Cardinality(Senders(r)) - 1
        /\ Cardinality(Accepted(r)') = Cardinality(Accepted(r)) + 1
    BY <2>1, <2>2, <2>3, CountSlots
  <2>5. delivered'[r] = delivered[r] + 1
    BY <1>1, <1>2, <1>7
  <2>6. r \in cleared
    BY <1>1, <1>7 DEF IInv, Control, GateHolds
  <2>7. delivered[r] \in Nat
    BY <1>2
  <2>8. Cardinality(Senders(r)) \in Nat /\ Cardinality(Accepted(r)) \in Nat
        /\ Due(r) \in {0, 1} /\ excuses[r] \in Nat
    BY RowTypes DEF IInv, Control, Due
  <2> QED BY <1>1, <1>4, <2>4, <2>5, <2>6, <2>7, <2>8 DEF IInv, Accounted
<1> QED BY <1>6, <1>7

\* The current row leaves the slot with its outcome; a row that went back to
\* the queue has one delivery due again, excused if it had been accepted.
LEMMA AccountedFinish ==
  ASSUME IInv, NEW w \in Workers, NEW r \in Rows,
         RecordSent(w) \/ RecordFailed(w) \/ RecordTransient(w)
  PROVE  Accounted(r)'
<1>1. wpc[w] \in {"send", "accepted"}
  BY DEF RecordSent, RecordFailed, RecordTransient
<1>2. PICK outcome \in {"sent", "failed", "queued"}, c \in todo[w] :
        /\ c = Oldest(todo[w])
        /\ status' = [status EXCEPT ![c] = outcome]
        /\ todo' = [todo EXCEPT ![w] = todo[w] \ {c}]
        /\ wpc' = [wpc EXCEPT ![w] = IF todo[w] \ {c} = {} THEN "idle" ELSE "send"]
        /\ cleared' = cleared /\ delivered' = delivered
        /\ outcome = "sent" => wpc[w] = "accepted"
        /\ outcome = "failed" => wpc[w] = "send"
        /\ excuses' = IF outcome = "queued" /\ wpc[w] = "accepted"
                      THEN [excuses EXCEPT ![c] = @ + 1] ELSE excuses
  <2>1. Oldest(todo[w]) \in todo[w]
    BY <1>1, SlotRole DEF IInv
  <2>2. CASE RecordSent(w)
    BY <2>1, <2>2 DEF RecordSent, Finish
  <2>3. CASE RecordFailed(w)
    BY <2>1, <2>3 DEF RecordFailed, Finish
  <2>4. CASE RecordTransient(w)
    BY <2>1, <2>4 DEF RecordTransient, Finish, Excuse
  <2> QED BY <2>2, <2>3, <2>4
<1>3. /\ wpc \in [Workers -> {"idle", "release", "claim", "send", "accepted"}]
      /\ todo \in [Workers -> SUBSET Rows] /\ c \in Rows /\ c \in cleared
      /\ status \in [Rows -> Statuses \cup {Absent}]
      /\ excuses \in [Rows -> Nat]
  BY DEF IInv, Control, TypeOK, GateHolds
<1>4. /\ wpc'[w] # "accepted" /\ \A v \in Workers : v # w => wpc'[v] = wpc[v]
      /\ todo'[w] = todo[w] \ {c} /\ \A v \in Workers : v # w => todo'[v] = todo[v]
  BY <1>2, <1>3
<1>5. CASE r # c
  <2>1. Holders(r)' = Holders(r)
    BY <1>4, <1>5 DEF Holders
  <2>2. Senders(r)' = Senders(r) /\ Accepted(r)' = Accepted(r)
    BY <1>2, <1>4, <1>5, <2>1 DEF Senders, Accepted
  <2>3. status'[r] = status[r] /\ excuses'[r] = excuses[r]
    BY <1>2, <1>3, <1>5
  <2> QED BY <1>2, <2>1, <2>2, <2>3 DEF IInv, Accounted, Due, Orphaned
<1>6. CASE r = c
  <2>1. status'[r] = outcome
    BY <1>2, <1>3, <1>6
  <2>2. excuses'[r] = IF outcome = "queued" /\ wpc[w] = "accepted"
                      THEN excuses[r] + 1 ELSE excuses[r]
    BY <1>2, <1>3, <1>6
  <2>3. Due(r)' = IF outcome = "queued" THEN 1 ELSE 0
    BY <2>1 DEF Due, Orphaned
  <2>4. Senders(r) \in SUBSET Workers /\ Accepted(r) \in SUBSET Workers
    BY DEF Senders, Accepted, Holders
  <2>5. Senders(r)' = Senders(r) \ {w} /\ Accepted(r)' = Accepted(r) \ {w}
    BY <1>4, <1>6 DEF Senders, Accepted, Holders
  <2>6. /\ w \in Senders(r) <=> wpc[w] = "send"
        /\ w \in Accepted(r) <=> wpc[w] = "accepted"
    BY <1>1, <1>2, <1>6, SlotRole DEF IInv
  <2>7. /\ Cardinality(Senders(r)') =
             IF wpc[w] = "send" THEN Cardinality(Senders(r)) - 1
                                ELSE Cardinality(Senders(r))
        /\ Cardinality(Accepted(r)') =
             IF wpc[w] = "accepted" THEN Cardinality(Accepted(r)) - 1
                                    ELSE Cardinality(Accepted(r))
        /\ wpc[w] = "accepted" => Cardinality(Accepted(r)) > 0
    <3>1. \A S \in SUBSET Workers :
            /\ Cardinality(S \ {w}) =
                 IF w \in S THEN Cardinality(S) - 1 ELSE Cardinality(S)
            /\ w \in S => Cardinality(S) > 0
      BY CountSlots
    <3>2. /\ Cardinality(Senders(r)') =
               IF w \in Senders(r) THEN Cardinality(Senders(r)) - 1
                                   ELSE Cardinality(Senders(r))
          /\ Cardinality(Accepted(r)') =
               IF w \in Accepted(r) THEN Cardinality(Accepted(r)) - 1
                                    ELSE Cardinality(Accepted(r))
          /\ w \in Accepted(r) => Cardinality(Accepted(r)) > 0
      BY <2>4, <2>5, <3>1
    <3> QED BY <2>6, <3>2
  <2>8. /\ Cardinality(Senders(r)) \in Nat /\ Cardinality(Accepted(r)) \in Nat
        /\ delivered[r] \in Nat /\ excuses[r] \in Nat /\ Due(r) \in {0, 1}
    BY RowTypes DEF IInv, Control, Due
  <2>9. /\ delivered'[r] = delivered[r]
        /\ Cardinality(Accepted(r)) <= delivered[r]
        /\ delivered[r] + Cardinality(Senders(r)) + Due(r) <= 1 + excuses[r]
    BY <1>2 DEF IInv, Accounted
  <2>10. r \in cleared'
    BY <1>2, <1>3, <1>6
  <2>11. outcome \in {"sent", "failed", "queued"}
         /\ (outcome = "sent" => wpc[w] = "accepted")
         /\ (outcome = "failed" => wpc[w] = "send")
         /\ wpc[w] \in {"send", "accepted"}
    BY <1>1, <1>2
  <2>12. /\ Cardinality(Accepted(r)') <= delivered'[r]
         /\ status'[r] = "sent" => delivered'[r] > 0
    BY <2>1, <2>7, <2>8, <2>9, <2>11
  <2>13. /\ delivered'[r] + Cardinality(Senders(r)') + Due(r)' <= 1 + excuses'[r]
         /\ status'[r] = "failed" =>
              delivered'[r] + Cardinality(Senders(r)') + Due(r)' <= excuses'[r]
    <3>1. CASE outcome = "sent"
      BY <3>1, <2>1, <2>2, <2>3, <2>7, <2>8, <2>9, <2>11
    <3>2. CASE outcome = "failed"
      BY <3>2, <2>1, <2>2, <2>3, <2>7, <2>8, <2>9, <2>11
    <3>3. CASE outcome = "queued"
      BY <3>3, <2>1, <2>2, <2>3, <2>7, <2>8, <2>9, <2>11
    <3> QED BY <3>1, <3>2, <3>3
  <2> QED BY <2>10, <2>12, <2>13 DEF Accounted
<1> QED BY <1>5, <1>6

\* A repeated POST puts an accepted row under way again, with an excuse.
LEMMA AccountedResend ==
  ASSUME IInv, NEW w \in Workers, ResendInClient(w), NEW r \in Rows
  PROVE  Accounted(r)'
<1>1. PICK c \in todo[w] :
        /\ c = Oldest(todo[w])
        /\ excuses' = [excuses EXCEPT ![c] = @ + 1]
        /\ wpc' = [wpc EXCEPT ![w] = "send"]
        /\ UNCHANGED <<status, todo, delivered, cleared>>
        /\ wpc[w] = "accepted"
  BY SlotRole DEF ResendInClient, Excuse, IInv, rowVars
<1>2. /\ wpc \in [Workers -> {"idle", "release", "claim", "send", "accepted"}]
      /\ excuses \in [Rows -> Nat] /\ c \in Rows
  BY <1>1 DEF IInv, Control, TypeOK
<1>3. Holders(r)' = Holders(r)
  BY <1>1 DEF Holders
<1>4. Due(r)' = Due(r)
  BY <1>1, <1>3 DEF Due, Orphaned
<1>5. wpc'[w] = "send" /\ \A v \in Workers : v # w => wpc'[v] = wpc[v]
  BY <1>1, <1>2
<1>6. CASE r # c
  <2>1. Senders(r)' = Senders(r) /\ Accepted(r)' = Accepted(r)
    BY <1>1, <1>3, <1>5, <1>6 DEF Senders, Accepted
  <2>2. excuses'[r] = excuses[r]
    BY <1>1, <1>2, <1>6
  <2> QED BY <1>1, <1>4, <2>1, <2>2 DEF IInv, Accounted
<1>7. CASE r = c
  <2>1. w \notin Senders(r) /\ w \in Accepted(r) /\ w \in Holders(r)
    BY <1>1, <1>7, SlotRole DEF IInv
  <2>2. Senders(r)' = Senders(r) \cup {w} /\ Accepted(r)' = Accepted(r) \ {w}
    BY <1>1, <1>3, <1>5, <1>7, <2>1 DEF Senders, Accepted
  <2>3. Senders(r) \in SUBSET Workers /\ Accepted(r) \in SUBSET Workers
    BY DEF Senders, Accepted, Holders
  <2>4. /\ Cardinality(Senders(r)') = Cardinality(Senders(r)) + 1
        /\ Cardinality(Accepted(r)') = Cardinality(Accepted(r)) - 1
    BY <2>1, <2>2, <2>3, CountSlots
  <2>5. excuses'[r] = excuses[r] + 1
    BY <1>1, <1>2, <1>7
  <2>6. Cardinality(Senders(r)) \in Nat /\ Cardinality(Accepted(r)) \in Nat
        /\ Due(r) \in {0, 1} /\ excuses[r] \in Nat /\ delivered[r] \in Nat
    BY RowTypes DEF IInv, Control, Due
  <2> QED BY <1>1, <1>4, <2>4, <2>5, <2>6 DEF IInv, Accounted
<1> QED BY <1>6, <1>7

\* A job that stops drops its rows: a row under way is due again, and one that
\* was accepted without a recorded outcome is excused.
LEMMA AccountedAbandon ==
  ASSUME IInv, NEW w \in Workers, Abandon(w), NEW r \in Rows
  PROVE  Accounted(r)'
<1>1. /\ wpc' = [wpc EXCEPT ![w] = "idle"]
      /\ todo' = [todo EXCEPT ![w] = {}]
      /\ status' = status /\ delivered' = delivered /\ cleared' = cleared
  BY DEF Abandon, rowVars
<1>2. /\ wpc \in [Workers -> {"idle", "release", "claim", "send", "accepted"}]
      /\ todo \in [Workers -> SUBSET Rows] /\ excuses \in [Rows -> Nat]
  BY DEF IInv, Control, TypeOK
<1>3. /\ wpc'[w] = "idle" /\ \A v \in Workers : v # w => wpc'[v] = wpc[v]
      /\ todo'[w] = {} /\ \A v \in Workers : v # w => todo'[v] = todo[v]
  BY <1>1, <1>2
<1>4. Holders(r)' = Holders(r) \ {w}
  BY <1>3 DEF Holders
<1>5. Senders(r)' = Senders(r) \ {w} /\ Accepted(r)' = Accepted(r) \ {w}
  BY <1>1, <1>3 DEF Senders, Accepted, Holders
<1>6. Senders(r) \in SUBSET Workers /\ Accepted(r) \in SUBSET Workers
  BY DEF Senders, Accepted, Holders
<1>7. /\ Cardinality(Senders(r)) \in Nat /\ Cardinality(Accepted(r)) \in Nat
      /\ delivered[r] \in Nat /\ excuses[r] \in Nat /\ Due(r) \in {0, 1}
      /\ Due(r)' \in {0, 1}
  BY RowTypes DEF IInv, Control, Due
<1>8. /\ Cardinality(Senders(r)') =
           IF w \in Senders(r) THEN Cardinality(Senders(r)) - 1
                               ELSE Cardinality(Senders(r))
      /\ Cardinality(Accepted(r)') <= Cardinality(Accepted(r))
  <2>1. \A S \in SUBSET Workers :
          Cardinality(S \ {w}) =
            IF w \in S THEN Cardinality(S) - 1 ELSE Cardinality(S)
    BY CountSlots
  <2>2. /\ Cardinality(Senders(r)') =
             IF w \in Senders(r) THEN Cardinality(Senders(r)) - 1
                                 ELSE Cardinality(Senders(r))
        /\ Cardinality(Accepted(r)') =
             IF w \in Accepted(r) THEN Cardinality(Accepted(r)) - 1
                                  ELSE Cardinality(Accepted(r))
    BY <1>5, <1>6, <2>1
  <2> QED BY <1>7, <2>2
<1>9. excuses'[r] = excuses[r] \/ excuses'[r] = excuses[r] + 1
  <2>1. wpc[w] = "accepted" => Oldest(todo[w]) \in Rows
    BY SlotRole DEF IInv
  <2> QED BY <1>2, <2>1 DEF Abandon, Excuse
<1>10. CASE w \in Holders(r)
  <2>1. wpc[w] \in {"send", "accepted"}
    BY <1>10 DEF IInv, Control, SlotsConsistent, TypeOK, Holders
  <2>2. w \notin Senders(r) => excuses'[r] = excuses[r] + 1
    <3>1. w \notin Senders(r) => wpc[w] = "accepted" /\ r = Oldest(todo[w])
      BY <1>10 DEF Senders
    <3> QED BY <1>2, <3>1 DEF Abandon, Excuse
  <2>3. Due(r)' = 1 => status[r] # "failed"
    BY <1>1 DEF Due, Orphaned
  <2>4. w \in Senders(r) => Cardinality(Senders(r)) > 0
    BY <1>6, CountSlots
  <2>5. /\ delivered[r] + Cardinality(Senders(r)') + Due(r)' <= 1 + excuses'[r]
        /\ status[r] = "failed" =>
             delivered[r] + Cardinality(Senders(r)') + Due(r)' <= excuses'[r]
    <3>1. /\ delivered[r] + Cardinality(Senders(r)) + Due(r) <= 1 + excuses[r]
          /\ status[r] = "failed" =>
               delivered[r] + Cardinality(Senders(r)) + Due(r) <= excuses[r]
      BY DEF IInv, Accounted
    <3> QED BY <1>7, <1>8, <1>9, <2>2, <2>3, <2>4, <3>1
  <2>6. Cardinality(Accepted(r)') <= delivered[r]
    <3>1. Accepted(r)' \in SUBSET Workers
      BY <1>5, <1>6
    <3>2. Cardinality(Accepted(r)') \in Nat
      BY <3>1, OutboxAssumption, FS_Subset, FS_CardinalityType
    <3>3. Cardinality(Accepted(r)) <= delivered[r]
      BY DEF IInv, Accounted
    <3> QED BY <1>7, <1>8, <3>2, <3>3
  <2> QED BY <1>1, <2>5, <2>6 DEF IInv, Accounted
<1>11. CASE w \notin Holders(r)
  <2>1. Holders(r)' = Holders(r) /\ Senders(r)' = Senders(r) /\ Accepted(r)' = Accepted(r)
    BY <1>4, <1>5, <1>11 DEF Senders, Accepted
  <2>2. Due(r)' = Due(r)
    BY <1>1, <2>1 DEF Due, Orphaned
  <2> QED BY <1>1, <1>7, <1>9, <2>1, <2>2 DEF IInv, Accounted
<1> QED BY <1>10, <1>11

\* Every step keeps the accounts of every row balanced.
LEMMA AccountedStep == IInv /\ [Next]_vars => \A r \in Rows : Accounted(r)'
<1> SUFFICES ASSUME IInv, [Next]_vars, NEW r \in Rows PROVE Accounted(r)'
  OBVIOUS
<1>1. ASSUME NEW h \in Handlers, NEW gated \in BOOLEAN, Queue(h, gated)
      PROVE  Accounted(r)'
  BY <1>1, AccountedQueue
<1>2. ASSUME NEW h \in Handlers, ApproveCommit(h) PROVE Accounted(r)'
  BY <1>2, AccountedApproveCommit
<1>3. ASSUME NEW h \in Handlers, NEW q \in Rows,
             ApproveLoad(h, q) \/ EnqueueJob(h) \/ EnqueueLost(h)
      PROVE  Accounted(r)'
  <2>1. UNCHANGED <<status, todo, wpc, delivered, excuses, cleared>>
    BY <1>3 DEF ApproveLoad, EnqueueJob, EnqueueLost, rowVars, workerVars, historyVars
  <2> QED BY <2>1, RowFrame DEF IInv
<1>4. ASSUME NEW w \in Workers, StartJob(w) PROVE Accounted(r)'
  <2>1. UNCHANGED <<status, todo, delivered, excuses, cleared>>
        /\ wpc' = [wpc EXCEPT ![w] = "release"] /\ wpc[w] = "idle"
    BY <1>4 DEF StartJob, rowVars, historyVars
  <2>2. \A v \in Workers : wpc'[v] = "accepted" <=> wpc[v] = "accepted"
    BY <2>1 DEF IInv, Control, TypeOK
  <2> QED BY <2>1, <2>2, RowFrame DEF IInv
<1>5. ASSUME NEW w \in Workers, ReleaseStaleClaims(w) PROVE Accounted(r)'
  BY <1>5, AccountedRelease
<1>6. ASSUME NEW w \in Workers, Claim(w) PROVE Accounted(r)'
  BY <1>6, AccountedClaim
<1>7. ASSUME NEW w \in Workers, Accept(w) PROVE Accounted(r)'
  BY <1>7, AccountedAccept
<1>8. ASSUME NEW w \in Workers, RecordSent(w) \/ RecordFailed(w) \/ RecordTransient(w)
      PROVE  Accounted(r)'
  BY <1>8, AccountedFinish
<1>9. ASSUME NEW w \in Workers, ResendInClient(w) PROVE Accounted(r)'
  BY <1>9, AccountedResend
<1>10. ASSUME NEW w \in Workers, JobRaises(w) \/ CancelAtDeadline(w) \/ Crash(w)
       PROVE  Accounted(r)'
  <2>1. Abandon(w)
    BY <1>10 DEF JobRaises, CancelAtDeadline, Crash
  <2> QED BY <2>1, AccountedAbandon
<1>11. CASE Tick \/ UNCHANGED vars
  <2>1. UNCHANGED <<status, todo, wpc, delivered, excuses, cleared>>
    BY <1>11 DEF Tick, vars, rowVars, workerVars, historyVars
  <2> QED BY <2>1, RowFrame DEF IInv
<1> QED
  BY <1>1, <1>2, <1>3, <1>4, <1>5, <1>6, <1>7, <1>8, <1>9, <1>10, <1>11
     DEF Next, HandlerStep, WorkerStep

\* The control part and the accounts hold in every reachable state.
THEOREM InductiveInvariant == Spec => []IInv
<1>1. Init => IInv
  BY ControlInit, AccountedInit DEF IInv
<1>2. IInv /\ [Next]_vars => IInv'
  BY ControlStep, AccountedStep DEF IInv
<1> QED BY <1>1, <1>2, PTL DEF Spec

-----------------------------------------------------------------------------
(***************************************************************************)
(* The properties of the run, from the inductive invariant.                *)
(***************************************************************************)

\* Every delivery past the first is owed to an excuse.
THEOREM DeliveriesAreAccountedFor == Spec => []DeliveriesAccountedFor
<1>1. IInv => DeliveriesAccountedFor
  BY DEF IInv, Accounted, DeliveriesAccountedFor, Claims, Due
<1> QED BY <1>1, InductiveInvariant, PTL

\* Two live jobs share a row only after an approval gave it out again.
THEOREM HoldersAreSole == Spec => []SoleHolder
<1>1. ASSUME IInv, NEW r \in Rows, excuses[r] = 0
      PROVE  Cardinality(Holders(r)) <= 1
  <2>1. Senders(r) \in SUBSET Workers /\ Accepted(r) \in SUBSET Workers
    BY DEF Senders, Accepted, Holders
  <2>2. IsFiniteSet(Senders(r)) /\ IsFiniteSet(Accepted(r))
    BY <2>1, OutboxAssumption, FS_Subset
  <2>3. Holders(r) = Senders(r) \cup Accepted(r) /\ Senders(r) \cap Accepted(r) = {}
    BY DEF Senders, Accepted, Holders
  <2>4. Cardinality(Holders(r)) = Cardinality(Senders(r)) + Cardinality(Accepted(r))
    <3>1. Cardinality(Senders(r) \cup Accepted(r)) =
            Cardinality(Senders(r)) + Cardinality(Accepted(r))
              - Cardinality(Senders(r) \cap Accepted(r))
      BY <2>2, FS_Union
    <3>2. Cardinality(Senders(r)) \in Nat /\ Cardinality(Accepted(r)) \in Nat
      BY RowTypes, <1>1 DEF IInv, Control
    <3>3. Cardinality(Senders(r) \cap Accepted(r)) = 0
      BY <2>3, NoSlots
    <3>4. Cardinality(Holders(r)) = Cardinality(Senders(r) \cup Accepted(r))
      BY <2>3
    <3> QED BY <3>1, <3>2, <3>3, <3>4
  <2>5. /\ Cardinality(Accepted(r)) <= delivered[r]
        /\ delivered[r] + Cardinality(Senders(r)) + Due(r) <= 1 + excuses[r]
    BY <1>1 DEF IInv, Accounted
  <2>6. /\ delivered[r] \in Nat /\ Due(r) \in {0, 1}
        /\ Cardinality(Senders(r)) \in Nat /\ Cardinality(Accepted(r)) \in Nat
    BY RowTypes, <1>1 DEF IInv, Control, Due
  <2> QED BY <1>1, <2>4, <2>5, <2>6
<1>2. IInv => SoleHolder
  BY <1>1 DEF SoleHolder
<1> QED BY <1>2, InductiveInvariant, PTL

\* `sent` and `failed` say what the provider did.
THEOREM OutcomesAreHonest == Spec => []HonestOutcome
<1>1. ASSUME IInv, NEW r \in Rows, status[r] = "failed", excuses[r] = 0
      PROVE  delivered[r] = 0
  <2>1. delivered[r] + Cardinality(Senders(r)) + Due(r) <= 0
    BY <1>1 DEF IInv, Accounted
  <2>2. /\ delivered[r] \in Nat /\ Due(r) \in {0, 1}
        /\ Cardinality(Senders(r)) \in Nat
    BY RowTypes, <1>1 DEF IInv, Control, Due
  <2> QED BY <2>1, <2>2
<1>2. IInv => HonestOutcome
  BY <1>1 DEF HonestOutcome, IInv, Accounted
<1> QED BY <1>2, InductiveInvariant, PTL

-----------------------------------------------------------------------------
(***************************************************************************)
(* Outbox implements Delivery.                                             *)
(***************************************************************************)
LEMMA PromiseInit == Init => Promise!Init
BY DEF Init, Promise!Init

\* Handing over a row of a live job is a delivery the promise allows.
LEMMA AcceptDelivers ==
  ASSUME IInv, NEW w \in Workers, Accept(w)
  PROVE  \E r \in Rows : Promise!Deliver(r)
<1>1. PICK r \in todo[w] :
        /\ r = Oldest(todo[w])
        /\ delivered' = [delivered EXCEPT ![r] = @ + 1]
        /\ UNCHANGED <<status, excuses, cleared>>
        /\ wpc[w] = "send"
  BY CurrentRow DEF Accept, IInv, Control, rowVars
<1>2. r \in Rows /\ r \in cleared
  BY <1>1 DEF IInv, Control, TypeOK, GateHolds
<1>3. w \in Senders(r)
  BY <1>1, <1>2, SlotRole DEF IInv
<1>4. Cardinality(Senders(r)) > 0
  <2>1. Senders(r) \in SUBSET Workers
    BY DEF Senders, Holders
  <2> QED BY <1>3, <2>1, CountSlots
<1>5. delivered[r] <= excuses[r]
  <2>1. delivered[r] + Cardinality(Senders(r)) + Due(r) <= 1 + excuses[r]
    BY <1>2 DEF IInv, Accounted
  <2>2. /\ delivered[r] \in Nat /\ excuses[r] \in Nat /\ Due(r) \in {0, 1}
        /\ Cardinality(Senders(r)) \in Nat
    BY <1>2, RowTypes DEF IInv, Control, Due
  <2> QED BY <1>4, <2>1, <2>2
<1> QED BY <1>1, <1>2, <1>5 DEF Promise!Deliver

\* An outcome is lost only after the provider accepted the row.
LEMMA LostOutcome ==
  ASSUME IInv, NEW w \in Workers, wpc[w] = "accepted", Excuse(Oldest(todo[w])),
         UNCHANGED <<delivered, cleared>>,
         \A r \in Rows : status'[r] # Absent <=> status[r] # Absent
  PROVE  \E r \in Rows : Promise!LoseTrack(r)
<1>1. Oldest(todo[w]) \in Rows /\ w \in Accepted(Oldest(todo[w]))
  BY CurrentRow DEF IInv, Control, Accepted, Holders
<1>2. delivered[Oldest(todo[w])] > 0
  <2> DEFINE r == Oldest(todo[w])
  <2>1. Accepted(r) \in SUBSET Workers
    BY DEF Accepted, Holders
  <2>2. Cardinality(Accepted(r)) > 0 /\ Cardinality(Accepted(r)) \in Nat
    BY <1>1, <2>1, CountSlots
  <2>3. Cardinality(Accepted(r)) <= delivered[r] /\ delivered[r] \in Nat
    BY <1>1 DEF IInv, Accounted, Control, TypeOK
  <2> QED BY <2>2, <2>3
<1> QED BY <1>1, <1>2 DEF Promise!LoseTrack, Excuse

\* A step that keeps the submitted, released, delivered and excused messages.
LEMMA PromiseStutter ==
  ASSUME UNCHANGED <<delivered, excuses, cleared>>,
         \A r \in Rows : status'[r] # Absent <=> status[r] # Absent
  PROVE  UNCHANGED Promise!dvars
BY DEF Promise!dvars

\* Every step of the outbox is a step of Delivery or leaves it unchanged.
LEMMA PromiseStep == IInv /\ [Next]_vars => [Promise!Next]_(Promise!dvars)
<1> SUFFICES ASSUME IInv, [Next]_vars PROVE [Promise!Next]_(Promise!dvars)
  OBVIOUS
<1>0. status \in [Rows -> Statuses \cup {Absent}]
  BY DEF IInv, Control, TypeOK
<1>1. ASSUME NEW h \in Handlers, NEW gated \in BOOLEAN, Queue(h, gated)
      PROVE  Promise!Next
  <2>1. PICK n \in Rows :
           /\ status[n] = Absent
           /\ status' = [status EXCEPT ![n] =
                           IF gated THEN "pending_approval" ELSE "queued"]
           /\ cleared' = IF gated THEN cleared ELSE cleared \cup {n}
           /\ hpc' = [hpc EXCEPT ![h] = IF gated THEN "idle" ELSE "enqueue"]
           /\ UNCHANGED <<lockedAt, jobs, now, hrow, hloaded, approvals,
                          workerVars, faults, delivered, excuses>>
    BY <1>1, QueueRow DEF IInv, Control
  <2>2. {r \in Rows : status'[r] # Absent} = {r \in Rows : status[r] # Absent} \cup {n}
    BY <1>0, <2>1 DEF Absent
  <2> QED BY <2>1, <2>2 DEF Promise!Next, Promise!Submit
<1>2. ASSUME NEW h \in Handlers, ApproveCommit(h) PROVE Promise!Next
  <2>1. hrow[h] \in Rows /\ status[hrow[h]] # Absent
    BY <1>2 DEF IInv, Control, ApprovesExisting, ApproveCommit
  <2>2. \A r \in Rows : status'[r] # Absent <=> status[r] # Absent
    BY <1>0, <1>2, <2>1 DEF ApproveCommit, Absent
  <2>3. /\ cleared' = cleared \cup {hrow[h]} /\ delivered' = delivered
        /\ excuses' = excuses \/ excuses' = [excuses EXCEPT ![hrow[h]] = @ + 1]
    BY <1>2 DEF ApproveCommit, Excuse
  <2> QED BY <2>1, <2>2, <2>3 DEF Promise!Next, Promise!Approve
<1>3. ASSUME NEW h \in Handlers,
             (\E r \in Rows : ApproveLoad(h, r)) \/ EnqueueJob(h) \/ EnqueueLost(h)
      PROVE  UNCHANGED Promise!dvars
  BY <1>3, PromiseStutter
     DEF ApproveLoad, EnqueueJob, EnqueueLost, rowVars, historyVars
<1>4. ASSUME NEW w \in Workers, StartJob(w) PROVE UNCHANGED Promise!dvars
  BY <1>4, PromiseStutter DEF StartJob, rowVars, historyVars
<1>5. ASSUME NEW w \in Workers, ReleaseStaleClaims(w)
      PROVE  UNCHANGED Promise!dvars
  <2>1. \A r \in Rows : status'[r] # Absent <=> status[r] # Absent
    BY <1>5 DEF ReleaseStaleClaims, StaleClaim, Absent
  <2> QED BY <1>5, <2>1, PromiseStutter DEF ReleaseStaleClaims, historyVars
<1>6. ASSUME NEW w \in Workers, Claim(w) PROVE UNCHANGED Promise!dvars
  <2>1. \A r \in Rows : status'[r] # Absent <=> status[r] # Absent
    BY <1>6 DEF Claim, Claimable, Absent
  <2> QED BY <1>6, <2>1, PromiseStutter DEF Claim, historyVars
<1>7. ASSUME NEW w \in Workers, Accept(w) PROVE Promise!Next
  BY <1>7, AcceptDelivers DEF Promise!Next
<1>8. ASSUME NEW w \in Workers, RecordSent(w) \/ RecordFailed(w) \/ RecordTransient(w)
      PROVE  Promise!Next \/ UNCHANGED Promise!dvars
  <2>1. wpc[w] \in {"send", "accepted"}
    BY <1>8 DEF RecordSent, RecordFailed, RecordTransient
  <2>2. Oldest(todo[w]) \in Rows /\ status[Oldest(todo[w])] # Absent
    BY <2>1, CurrentRow DEF IInv, Control, GateHolds
  <2>3. UNCHANGED <<delivered, cleared>>
    BY <1>8 DEF RecordSent, RecordFailed, RecordTransient, Finish
  <2>4. \E o \in {"sent", "failed", "queued"} :
          status' = [status EXCEPT ![Oldest(todo[w])] = o]
    BY <1>8 DEF RecordSent, RecordFailed, RecordTransient, Finish
  <2>5. \A r \in Rows : status'[r] # Absent <=> status[r] # Absent
    BY <1>0, <2>2, <2>4 DEF Absent
  <2>6. excuses' = excuses \/ (wpc[w] = "accepted" /\ Excuse(Oldest(todo[w])))
    BY <1>8 DEF RecordSent, RecordFailed, RecordTransient
  <2> QED BY <2>3, <2>5, <2>6, LostOutcome, PromiseStutter DEF Promise!Next
<1>9. ASSUME NEW w \in Workers, ResendInClient(w) PROVE Promise!Next
  BY <1>9, LostOutcome DEF ResendInClient, rowVars, Promise!Next
<1>10. ASSUME NEW w \in Workers, JobRaises(w) \/ CancelAtDeadline(w) \/ Crash(w)
       PROVE  Promise!Next \/ UNCHANGED Promise!dvars
  <2>1. Abandon(w)
    BY <1>10 DEF JobRaises, CancelAtDeadline, Crash
  <2>2. UNCHANGED <<status, delivered, cleared>>
    BY <2>1 DEF Abandon, rowVars
  <2>3. excuses' = excuses \/ (wpc[w] = "accepted" /\ Excuse(Oldest(todo[w])))
    BY <2>1 DEF Abandon
  <2> QED BY <2>2, <2>3, LostOutcome, PromiseStutter DEF Promise!Next
<1>11. CASE Tick \/ UNCHANGED vars
  BY <1>11, PromiseStutter DEF Tick, vars, rowVars, historyVars
<1>12. ASSUME NEW h \in Handlers, HandlerStep(h)
       PROVE  Promise!Next \/ UNCHANGED Promise!dvars
  BY <1>1, <1>2, <1>3, <1>12 DEF HandlerStep
<1>13. ASSUME NEW w \in Workers, WorkerStep(w) \/ Crash(w)
       PROVE  Promise!Next \/ UNCHANGED Promise!dvars
  BY <1>4, <1>5, <1>6, <1>7, <1>8, <1>9, <1>10, <1>13 DEF WorkerStep
<1> QED BY <1>11, <1>12, <1>13 DEF Next

\* The outbox keeps its promise: nothing leaves it before it was released, and
\* no message is accepted more often than the excuses allow.
THEOREM OutboxImplementsDelivery == Spec => ImplementsDelivery
<1>1. Spec => Promise!Spec
  BY InductiveInvariant, PromiseInit, PromiseStep, PTL DEF Spec, Promise!Spec
<1> QED BY <1>1 DEF ImplementsDelivery
=============================================================================
