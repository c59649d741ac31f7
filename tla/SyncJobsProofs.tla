--------------------------- MODULE SyncJobsProofs ---------------------------
(***************************************************************************)
(* The safety properties of SyncJobs, proved for any number of job slots,  *)
(* any time-outs and any number of faults.                                 *)
(***************************************************************************)
EXTENDS SyncJobs, SequenceTheorems, FiniteSetTheorems, TLAPS

-----------------------------------------------------------------------------
(***************************************************************************)
(* The inductive invariant.                                                *)
(***************************************************************************)
Queued == {"cron", "manual"}

\* A slot in use knows its job, and what watches is a watcher.
JobsKnown ==
    \A s \in Slots :
        /\ pc[s] # "free" => job[s] \in Jobs
        /\ pc[s] \in {"begin", "open", "idle"} => job[s] = "idle"

\* While nothing has lapsed, who runs holds the lock, and runs alone.
RunsUnderLock ==
    ~lapsed => /\ Running # {} => lock # NoKey
               /\ \A s, t \in Running : s = t

\* A queued job ends by its time-out, and a queued cycle before its lock does.
EndsInTime ==
    \A s \in Slots : pc[s] # "free" /\ job[s] \in Queued =>
        /\ left[s] <= JobTimeout
        /\ s \in Running /\ ~lapsed => left[s] <= lock

CronsWaiting == {i \in DOMAIN waiting : waiting[i] = "cron"}

\* While no marker was lost, a job of the cron waits under its marker, alone.
WaitsUnderMarker ==
    ~unmarked => /\ CronsWaiting # {} => queued # NoKey /\ ~marking
                 /\ \A i, j \in CronsWaiting : i = j

LockInv == TypeOK /\ JobsKnown /\ RunsUnderLock /\ EndsInTime
QueueInv == TypeOK /\ JobsKnown /\ WaitsUnderMarker

-----------------------------------------------------------------------------
(***************************************************************************)
(* Types.                                                                  *)
(***************************************************************************)
SlotsTyped ==
    /\ job \in [Slots -> Jobs \cup {"none"}]
    /\ pc \in [Slots -> {"free", "marker", "lock", "check", "cycle", "begin", "open", "idle"}]
    /\ left \in [Slots -> Nat]
    /\ attempt \in [Slots -> 0..Reconnects]
    /\ beating \in SUBSET Slots

KeysTyped ==
    /\ queued \in NoKey..QueuedTTL
    /\ lock \in NoKey..LockTTL
    /\ watchKey \in NoKey..WatchTTL

RestTyped ==
    /\ status \in {"active", "error", "stopped"}
    /\ due \in 0..Interval
    /\ waiting \in Seq({"cron", "manual", "idle"})
    /\ marking \in BOOLEAN
    /\ manual \in Nat
    /\ faults \in Nat
    /\ lapsed \in BOOLEAN
    /\ unmarked \in BOOLEAN

LEMMA TypeParts == TypeOK <=> SlotsTyped /\ KeysTyped /\ RestTyped
BY DEF TypeOK, SlotsTyped, KeysTyped, RestTyped

\* The job of slot s is over, or back to watching; other slots go on as they were.
Leaves(s) ==
    /\ SlotsTyped'
    /\ pc'[s] \in {"free", "begin", "idle"}
    /\ pc'[s] # "free" => job'[s] = "idle"
    /\ \A t \in Slots \ {s} : job'[t] = job[t] /\ pc'[t] = pc[t] /\ left'[t] = left[t]

LEMMA FreeLeaves ==
  ASSUME SlotsTyped, NEW s \in Slots, Free(s)
  PROVE  Leaves(s)
BY SyncJobsAssumption DEF SlotsTyped, Free, Leaves

LEMMA AfterSyncLeaves ==
  ASSUME SlotsTyped, JobsKnown, NEW s \in Slots, pc[s] # "free", AfterSync(s)
  PROVE  Leaves(s)
<1>1. CASE job[s] \in {"cron", "manual"}
  BY <1>1, FreeLeaves DEF AfterSync
<1>2. CASE job[s] = "idle"
  BY <1>2 DEF AfterSync, SlotsTyped, Leaves
<1>3. CASE job[s] = "race"
  BY <1>3, SyncJobsAssumption DEF AfterSync, SlotsTyped, Leaves, Jobs
<1> QED BY <1>1, <1>2, <1>3 DEF JobsKnown, Jobs

LEMMA LeavesKeepsJobs ==
  ASSUME JobsKnown, NEW s \in Slots, Leaves(s)
  PROVE  JobsKnown'
BY DEF JobsKnown, Leaves, Jobs

LEMMA LeavesRunning ==
  ASSUME SlotsTyped, NEW s \in Slots, Leaves(s)
  PROVE  Running' = Running \ {s}
BY DEF Leaves, Running

LEMMA TypeInit == Init => TypeOK /\ JobsKnown
<1> SUFFICES ASSUME Init PROVE TypeOK /\ JobsKnown
  OBVIOUS
<1>1. SlotsTyped /\ JobsKnown
  BY SyncJobsAssumption DEF Init, SlotsTyped, JobsKnown
<1>2. KeysTyped
  BY SyncJobsAssumption DEF Init, KeysTyped, NoKey
<1>3. RestTyped
  <2>1. waiting \in Seq({"cron", "manual", "idle"}) /\ due \in 0..Interval
    BY SyncJobsAssumption, EmptySeq DEF Init
  <2> QED BY <2>1 DEF Init, RestTyped
<1> QED BY <1>1, <1>2, <1>3, TypeParts

\* What waits is well typed after a job is added behind or ahead, or started.
LEMMA TypeRequeue ==
  ASSUME SlotsTyped, RestTyped, JobsKnown, NEW s \in Slots, pc[s] # "free", Requeue(s)
  PROVE  waiting' \in Seq({"cron", "manual", "idle"}) /\ unmarked' \in BOOLEAN
<1> DEFINE again == IF job[s] = "race" THEN "idle" ELSE job[s]
<1>1. again \in {"cron", "manual", "idle"}
  BY DEF JobsKnown, Jobs
<1>2. waiting' = <<again>> \o waiting /\ unmarked' = (unmarked \/ again = "cron")
  BY DEF Requeue
<1> QED BY <1>1, <1>2 DEF RestTyped

LEMMA TypeUnwind ==
  ASSUME SlotsTyped, KeysTyped, RestTyped, NEW s \in Slots, Unwind(s)
  PROVE  /\ Leaves(s) /\ lapsed' \in BOOLEAN
         /\ lock' \in NoKey..LockTTL /\ watchKey' \in NoKey..WatchTTL
<1>1. Leaves(s)
  BY FreeLeaves DEF Unwind
<1>2. NoKey \in NoKey..LockTTL /\ NoKey \in NoKey..WatchTTL
  BY SyncJobsAssumption DEF NoKey
<1>3. watchKey' \in NoKey..WatchTTL
  BY <1>2 DEF Unwind, KeysTyped
<1>4. lock' \in NoKey..LockTTL /\ lapsed' \in BOOLEAN
  BY <1>2 DEF Unwind, ReleaseLock, KeysTyped, RestTyped
<1> QED BY <1>1, <1>3, <1>4

LEMMA TypeExitWatcher ==
  ASSUME SlotsTyped, KeysTyped, NEW s \in Slots, ExitWatcher(s)
  PROVE  Leaves(s) /\ watchKey' \in NoKey..WatchTTL
<1>1. Leaves(s)
  BY FreeLeaves DEF ExitWatcher
<1>2. NoKey \in NoKey..WatchTTL
  BY SyncJobsAssumption DEF NoKey
<1> QED BY <1>1, <1>2 DEF ExitWatcher, KeysTyped

-----------------------------------------------------------------------------
LEMMA TypeSlotStep ==
  ASSUME TypeOK, JobsKnown, NEW s \in Slots, SlotStep(s)
  PROVE  TypeOK' /\ JobsKnown'
<1> USE DEF NoKey
<1>0. /\ SlotsTyped /\ KeysTyped /\ RestTyped
      /\ LockTTL \in Nat /\ WatchTTL \in Nat /\ QueuedTTL \in Nat /\ Reconnects \in Nat
      /\ Interval \in Nat /\ JobTimeout \in Nat /\ WatchTimeout \in Nat
  BY TypeParts, SyncJobsAssumption
<1>1. CASE StartJob(s)
  <2>1. Head(waiting) \in {"cron", "manual", "idle"} /\ Tail(waiting) \in Seq({"cron", "manual", "idle"})
    BY <1>0, <1>1, HeadTailProperties DEF StartJob, RestTyped
  <2>2. SlotsTyped' /\ JobsKnown'
    BY <1>0, <1>1, <2>1 DEF StartJob, SlotsTyped, JobsKnown, Jobs
  <2>3. KeysTyped' /\ RestTyped'
    BY <1>0, <1>1, <2>1 DEF StartJob, KeysTyped, RestTyped, keyVars
  <2> QED BY <2>2, <2>3, TypeParts DEF TypeOK, SlotsTyped, KeysTyped, RestTyped
<1>2. CASE ClearMarker(s)
  BY <1>0, <1>2 DEF ClearMarker, TypeOK, SlotsTyped, KeysTyped, RestTyped, JobsKnown
<1>3. CASE TakeLock(s)
  BY <1>0, <1>3 DEF TakeLock, TypeOK, SlotsTyped, KeysTyped, RestTyped, JobsKnown, historyVars
<1>4. CASE SkipLocked(s)
  <2>1. Leaves(s)
    BY <1>0, <1>4, AfterSyncLeaves DEF SkipLocked
  <2> QED BY <1>0, <1>4, <2>1, LeavesKeepsJobs
          DEF SkipLocked, Leaves, TypeOK, SlotsTyped, KeysTyped, RestTyped, keyVars, historyVars
<1>5. CASE SkipStopped(s)
  <2>1. Leaves(s)
    BY <1>0, <1>5, AfterSyncLeaves DEF SkipStopped
  <2>2. lapsed' \in BOOLEAN
    BY <1>0, <1>5, Zenon DEF SkipStopped, ReleaseLock, RestTyped
  <2>3. KeysTyped' /\ RestTyped'
    BY <1>0, <1>5, <2>2 DEF SkipStopped, ReleaseLock, KeysTyped, RestTyped
  <2> QED BY <2>1, <2>3, LeavesKeepsJobs DEF Leaves, TypeOK, SlotsTyped, KeysTyped, RestTyped
<1>6. CASE EnterCycle(s)
  BY <1>0, <1>6 DEF EnterCycle, TypeOK, SlotsTyped, KeysTyped, RestTyped, JobsKnown, keyVars, historyVars
<1>7. CASE BeginWatch(s)
  <2>1. CASE ExitWatcher(s)
    <3>1. Leaves(s) /\ watchKey' \in NoKey..WatchTTL
      BY <1>0, <2>1, TypeExitWatcher
    <3> QED BY <1>0, <1>7, <3>1, LeavesKeepsJobs
            DEF BeginWatch, Leaves, TypeOK, SlotsTyped, KeysTyped, RestTyped, historyVars
  <2>2. CASE /\ pc' = [pc EXCEPT ![s] = "open"]
             /\ UNCHANGED <<job, left, attempt, beating, watchKey>>
    BY <1>0, <1>7, <2>2 DEF BeginWatch, TypeOK, SlotsTyped, KeysTyped, RestTyped, JobsKnown, historyVars
  <2> QED BY <1>7, <2>1, <2>2 DEF BeginWatch
<1>8. CASE Heartbeat(s)
  BY <1>0, <1>8 DEF Heartbeat, TypeOK, SlotsTyped, KeysTyped, RestTyped, JobsKnown, slotVars, historyVars
<1>9. CASE EndCycle(s)
  <2>1. Leaves(s)
    BY <1>0, <1>9, AfterSyncLeaves DEF EndCycle
  <2>2. status' \in {"active", "error", "stopped"} /\ due' \in 0..Interval
    BY <1>0, <1>9 DEF EndCycle, RestTyped
  <2>3. lapsed' \in BOOLEAN
    BY <1>0, <1>9, Zenon DEF EndCycle, ReleaseLock, RestTyped
  <2>4. KeysTyped' /\ RestTyped'
    BY <1>0, <1>9, <2>2, <2>3 DEF EndCycle, ReleaseLock, KeysTyped, RestTyped
  <2> QED BY <2>1, <2>4, LeavesKeepsJobs DEF Leaves, TypeOK, SlotsTyped, KeysTyped, RestTyped
<1>10. CASE OpenWatch(s)
  BY <1>0, <1>10 DEF OpenWatch, TypeOK, SlotsTyped, KeysTyped, RestTyped, JobsKnown, keyVars, historyVars
<1>11. CASE NoticeChange(s)
  BY <1>0, <1>11 DEF NoticeChange, TypeOK, SlotsTyped, KeysTyped, RestTyped, JobsKnown, Jobs, keyVars, historyVars
<1>12. CASE LoseConnection(s)
  <2>1. CASE attempt[s] < Reconnects
    <3>1. SlotsTyped' /\ JobsKnown'
      BY <1>0, <1>12, <2>1 DEF LoseConnection, SlotsTyped, JobsKnown
    <3>2. KeysTyped' /\ RestTyped'
      BY <1>0, <1>12, <2>1 DEF LoseConnection, KeysTyped, RestTyped, historyVars
    <3> QED BY <3>1, <3>2 DEF TypeOK, SlotsTyped, KeysTyped, RestTyped
  <2>2. CASE ~(attempt[s] < Reconnects)
    <3>1. Leaves(s) /\ watchKey' \in NoKey..WatchTTL
      BY <1>0, <1>12, <2>2, TypeExitWatcher DEF LoseConnection
    <3> QED BY <1>0, <1>12, <3>1, LeavesKeepsJobs
            DEF LoseConnection, Leaves, TypeOK, SlotsTyped, KeysTyped, RestTyped, historyVars
  <2> QED BY <2>1, <2>2
<1>13. CASE WatchAuthError(s)
  <2>1. Leaves(s) /\ watchKey' \in NoKey..WatchTTL
    BY <1>0, <1>13, TypeExitWatcher DEF WatchAuthError
  <2> QED BY <1>0, <1>13, <2>1, LeavesKeepsJobs
          DEF WatchAuthError, Leaves, TypeOK, SlotsTyped, KeysTyped, RestTyped, historyVars
<1>14. CASE HeartbeatDies(s)
  BY <1>0, <1>14
     DEF HeartbeatDies, Fault, TypeOK, SlotsTyped, KeysTyped, RestTyped, JobsKnown, keyVars, historyVars
<1>15. CASE CancelAtDeadline(s)
  <2>1. /\ Leaves(s) /\ lapsed' \in BOOLEAN
        /\ lock' \in NoKey..LockTTL /\ watchKey' \in NoKey..WatchTTL
    BY <1>0, <1>15, TypeUnwind DEF CancelAtDeadline
  <2> QED BY <1>0, <1>15, <2>1, LeavesKeepsJobs
          DEF CancelAtDeadline, Leaves, TypeOK, SlotsTyped, KeysTyped, RestTyped
<1>16. CASE Shutdown(s)
  <2>1. /\ Leaves(s) /\ lapsed' \in BOOLEAN
        /\ lock' \in NoKey..LockTTL /\ watchKey' \in NoKey..WatchTTL
    BY <1>0, <1>16, TypeUnwind DEF Shutdown
  <2>2. waiting' \in Seq({"cron", "manual", "idle"}) /\ unmarked' \in BOOLEAN
    BY <1>0, <1>16, TypeRequeue DEF Shutdown
  <2>3. KeysTyped' /\ RestTyped'
    BY <1>0, <1>16, <2>1, <2>2 DEF Shutdown, Fault, KeysTyped, RestTyped
  <2> QED BY <2>1, <2>3, LeavesKeepsJobs DEF Leaves, TypeOK, SlotsTyped, KeysTyped, RestTyped
<1>17. CASE Crash(s)
  <2>1. Leaves(s)
    BY <1>0, <1>17, FreeLeaves DEF Crash
  <2>2. waiting' \in Seq({"cron", "manual", "idle"}) /\ unmarked' \in BOOLEAN
    BY <1>0, <1>17, TypeRequeue DEF Crash
  <2>3. lapsed' \in BOOLEAN
    BY <1>0, <1>17, Zenon DEF Crash, RestTyped
  <2>4. KeysTyped' /\ RestTyped'
    BY <1>0, <1>17, <2>2, <2>3 DEF Crash, Fault, KeysTyped, RestTyped, keyVars
  <2> QED BY <2>1, <2>4, LeavesKeepsJobs DEF Leaves, TypeOK, SlotsTyped, KeysTyped, RestTyped
<1> QED
  BY <1>1, <1>2, <1>3, <1>4, <1>5, <1>6, <1>7, <1>8, <1>9, <1>10, <1>11, <1>12,
     <1>13, <1>14, <1>15, <1>16, <1>17 DEF SlotStep, Advance

LEMMA TypeStep ==
  ASSUME TypeOK, JobsKnown, [Next]_vars
  PROVE  TypeOK' /\ JobsKnown'
<1> USE DEF NoKey
<1>0. /\ SlotsTyped /\ KeysTyped /\ RestTyped
      /\ LockTTL \in Nat /\ WatchTTL \in Nat /\ QueuedTTL \in Nat /\ Reconnects \in Nat
      /\ Interval \in Nat /\ JobTimeout \in Nat /\ WatchTimeout \in Nat
  BY TypeParts, SyncJobsAssumption
<1> SUFFICES SlotsTyped' /\ JobsKnown' /\ KeysTyped' /\ RestTyped'
  BY DEF TypeOK, SlotsTyped, KeysTyped, RestTyped
<1>1. CASE TriggerSync
  BY <1>0, <1>1 DEF TriggerSync, SlotsTyped, KeysTyped, RestTyped, JobsKnown, slotVars, keyVars, historyVars
<1>2. CASE SetStatus
  BY <1>0, <1>2 DEF SetStatus, SlotsTyped, KeysTyped, RestTyped, JobsKnown, slotVars, keyVars, historyVars
<1>3. CASE MarkQueued
  BY <1>0, <1>3 DEF MarkQueued, SlotsTyped, KeysTyped, RestTyped, JobsKnown, slotVars, historyVars
<1>4. CASE QueueSync
  <2>1. unmarked' \in BOOLEAN
    BY <1>0, <1>4, Zenon DEF QueueSync, RestTyped
  <2>2. waiting' = Append(waiting, "cron") /\ waiting \in Seq({"cron", "manual", "idle"})
    BY <1>0, <1>4, Zenon DEF QueueSync, RestTyped
  <2>3. waiting' \in Seq({"cron", "manual", "idle"})
    BY <2>2
  <2>4. RestTyped'
    BY <1>0, <1>4, <2>1, <2>3, Zenon DEF QueueSync, RestTyped
  <2> QED BY <1>0, <1>4, <2>4 DEF QueueSync, SlotsTyped, KeysTyped, JobsKnown, slotVars, keyVars
<1>5. CASE QueueSyncLost
  <2>1. faults' \in Nat
    BY <1>0, <1>5 DEF QueueSyncLost, Fault, RestTyped
  <2>2. RestTyped'
    BY <1>0, <1>5, <2>1, Zenon DEF QueueSyncLost, RestTyped, historyVars
  <2> QED BY <1>0, <1>5, <2>2 DEF QueueSyncLost, SlotsTyped, KeysTyped, JobsKnown, slotVars, keyVars
<1>6. CASE EnsureIdleWatcher
  BY <1>0, <1>6 DEF EnsureIdleWatcher, SlotsTyped, KeysTyped, RestTyped, JobsKnown, slotVars, keyVars, historyVars
<1>7. CASE \E s \in Slots : SlotStep(s)
  BY <1>7, TypeSlotStep, TypeParts DEF TypeOK, SlotsTyped, KeysTyped, RestTyped
<1>8. CASE Tick
  <2>1. SlotsTyped' /\ JobsKnown'
    BY <1>0, <1>8 DEF Tick, Less, SlotsTyped, JobsKnown
  <2>2. KeysTyped'
    BY <1>0, <1>8 DEF Tick, Less, LockAfterTick, WatchKeyAfterTick, KeysTyped
  <2>3. due' \in 0..Interval
    BY <1>0, <1>8 DEF Tick, Less, RestTyped
  <2>4. lapsed' \in BOOLEAN /\ unmarked' \in BOOLEAN
    BY <1>0, <1>8, Zenon DEF Tick, RestTyped
  <2> QED BY <1>0, <1>8, <2>1, <2>2, <2>3, <2>4 DEF Tick, RestTyped
<1>9. CASE UNCHANGED vars
  BY <1>0, <1>9 DEF vars, SlotsTyped, KeysTyped, RestTyped, JobsKnown, slotVars, keyVars, historyVars
<1> QED BY <1>1, <1>2, <1>3, <1>4, <1>5, <1>6, <1>7, <1>8, <1>9 DEF Next, SyncAll

LEMMA AlwaysTyped == Spec => [](TypeOK /\ JobsKnown)
BY TypeInit, TypeStep, PTL DEF Spec

-----------------------------------------------------------------------------
(***************************************************************************)
(* The lock.                                                               *)
(***************************************************************************)
LEMMA LockInit == Init => RunsUnderLock /\ EndsInTime
BY DEF Init, RunsUnderLock, EndsInTime, Running

\* A slot that leaves, with or without its lock, leaves the lock in order.
LEMMA LockLeaves ==
  ASSUME LockInv, NEW s \in Slots, Leaves(s),
         \/ lock' = lock /\ lapsed' = lapsed
         \/ s \in Running /\ ReleaseLock(s)
         \/ lock' = lock /\ lapsed' = (lapsed /\ Running # {s})
  PROVE  RunsUnderLock' /\ EndsInTime'
<1>1. Running' = Running \ {s}
  BY LeavesRunning, TypeParts DEF LockInv
<1>2. CASE lapsed'
  <2>1. RunsUnderLock'
    BY <1>2, Zenon DEF RunsUnderLock
  <2>2. EndsInTime'
    BY <1>2 DEF LockInv, EndsInTime, Leaves, Queued
  <2> QED BY <2>1, <2>2
<1>3. CASE ~lapsed' /\ lapsed
  <2>1. Running' = {}
    BY <1>1, <1>3 DEF ReleaseLock
  <2>2. RunsUnderLock'
    BY <2>1 DEF RunsUnderLock
  <2>3. EndsInTime'
    BY <1>3, <2>1 DEF LockInv, EndsInTime, Leaves, Queued
  <2> QED BY <2>2, <2>3
<1>4. CASE ~lapsed' /\ ~lapsed
  <2>1. \A t, u \in Running : t = u
    BY <1>4 DEF LockInv, RunsUnderLock
  <2>2. lock' = lock \/ Running' = {}
    BY <1>1, <2>1 DEF ReleaseLock
  <2>3. RunsUnderLock'
    BY <1>1, <1>4, <2>1, <2>2 DEF LockInv, RunsUnderLock
  <2>4. EndsInTime'
    BY <1>1, <1>4, <2>2 DEF LockInv, EndsInTime, Leaves, Queued
  <2> QED BY <2>3, <2>4
<1> QED BY <1>2, <1>3, <1>4

\* So does a step that starts and ends no cycle and touches no lock.
LEMMA LockAside ==
  ASSUME LockInv, Running' = Running, lock' = lock, lapsed' = lapsed,
         \A t \in Slots : pc'[t] # "free" /\ job'[t] \in Queued =>
             \/ left'[t] <= JobTimeout /\ t \notin Running
             \/ pc[t] # "free" /\ job'[t] = job[t] /\ left'[t] = left[t]
  PROVE  RunsUnderLock' /\ EndsInTime'
<1>1. RunsUnderLock'
  BY DEF LockInv, RunsUnderLock
<1>2. EndsInTime'
  BY DEF LockInv, EndsInTime
<1> QED BY <1>1, <1>2

LEMMA LockSlotStep ==
  ASSUME LockInv, NEW s \in Slots, SlotStep(s)
  PROVE  RunsUnderLock' /\ EndsInTime'
<1> USE DEF NoKey
<1>0. /\ TypeOK /\ JobsKnown /\ SlotsTyped /\ KeysTyped /\ RestTyped
      /\ JobTimeout \in Nat /\ LockTTL \in Nat /\ JobTimeout <= LockTTL
  BY TypeParts, SyncJobsAssumption DEF LockInv
<1>1. CASE StartJob(s)
  <2>1. Running' = Running
    BY <1>0, <1>1 DEF StartJob, Running, SlotsTyped
  <2> QED BY <1>0, <1>1, <2>1, LockAside DEF StartJob, SlotsTyped, Running, Queued, keyVars
<1>2. CASE ClearMarker(s)
  <2>1. Running' = Running
    BY <1>0, <1>2 DEF ClearMarker, Running, SlotsTyped
  <2> QED BY <1>0, <1>2, <2>1, LockAside DEF ClearMarker, SlotsTyped
<1>3. CASE TakeLock(s)
  <2>1. CASE lapsed
    BY <1>0, <1>3, <2>1 DEF TakeLock, LockInv, RunsUnderLock, EndsInTime, SlotsTyped, historyVars
  <2>2. CASE ~lapsed
    <3>1. Running' = {s}
      BY <1>0, <1>3, <2>2 DEF TakeLock, LockInv, RunsUnderLock, Running, SlotsTyped
    <3>2. lock' = LockTTL /\ ~lapsed'
      BY <1>3, <2>2 DEF TakeLock, historyVars
    <3>3. RunsUnderLock'
      BY <1>0, <3>1, <3>2 DEF RunsUnderLock
    <3>4. EndsInTime'
      BY <1>0, <1>3, <3>1, <3>2 DEF TakeLock, LockInv, EndsInTime, SlotsTyped
    <3> QED BY <3>3, <3>4
  <2> QED BY <2>1, <2>2
<1>4. CASE SkipLocked(s)
  BY <1>0, <1>4, AfterSyncLeaves, LockLeaves DEF SkipLocked, keyVars, historyVars
<1>5. CASE SkipStopped(s)
  BY <1>0, <1>5, AfterSyncLeaves, LockLeaves DEF SkipStopped, Running
<1>6. CASE EnterCycle(s)
  <2>1. Running' = Running
    BY <1>0, <1>6 DEF EnterCycle, Running, SlotsTyped
  <2> QED BY <1>0, <1>6, <2>1, LockAside DEF EnterCycle, SlotsTyped, keyVars, historyVars
<1>7. CASE BeginWatch(s)
  <2>1. CASE ExitWatcher(s)
    BY <1>0, <1>7, <2>1, FreeLeaves, LockLeaves DEF BeginWatch, ExitWatcher, historyVars
  <2>2. CASE /\ pc' = [pc EXCEPT ![s] = "open"]
             /\ UNCHANGED <<job, left, attempt, beating, watchKey>>
    <3>1. Running' = Running
      BY <1>0, <1>7, <2>2 DEF BeginWatch, Running, SlotsTyped
    <3> QED BY <1>0, <1>7, <2>2, <3>1, LockAside DEF BeginWatch, SlotsTyped, historyVars
  <2> QED BY <1>7, <2>1, <2>2 DEF BeginWatch
<1>8. CASE Heartbeat(s)
  BY <1>0, <1>8, LockAside DEF Heartbeat, Running, slotVars, historyVars
<1>9. CASE EndCycle(s)
  BY <1>0, <1>9, AfterSyncLeaves, LockLeaves DEF EndCycle, Running
<1>10. CASE OpenWatch(s)
  <2>1. Running' = Running
    BY <1>0, <1>10 DEF OpenWatch, Running, SlotsTyped
  <2> QED BY <1>0, <1>10, <2>1, LockAside DEF OpenWatch, SlotsTyped, keyVars, historyVars
<1>11. CASE NoticeChange(s)
  <2>1. Running' = Running
    BY <1>0, <1>11 DEF NoticeChange, Running, SlotsTyped
  <2> QED BY <1>0, <1>11, <2>1, LockAside DEF NoticeChange, SlotsTyped, Queued, keyVars, historyVars
<1>12. CASE LoseConnection(s)
  <2>1. CASE attempt[s] < Reconnects
    <3>1. Running' = Running
      BY <1>0, <1>12, <2>1 DEF LoseConnection, Running, SlotsTyped
    <3> QED BY <1>0, <1>12, <2>1, <3>1, LockAside DEF LoseConnection, SlotsTyped, historyVars
  <2>2. CASE ~(attempt[s] < Reconnects)
    BY <1>0, <1>12, <2>2, FreeLeaves, LockLeaves DEF LoseConnection, ExitWatcher, historyVars
  <2> QED BY <2>1, <2>2
<1>13. CASE WatchAuthError(s)
  BY <1>0, <1>13, FreeLeaves, LockLeaves DEF WatchAuthError, ExitWatcher, historyVars
<1>14. CASE HeartbeatDies(s)
  BY <1>0, <1>14, LockAside DEF HeartbeatDies, Running, keyVars, historyVars
<1>15. CASE CancelAtDeadline(s)
  BY <1>0, <1>15, FreeLeaves, LockLeaves DEF CancelAtDeadline, Unwind
<1>16. CASE Shutdown(s)
  BY <1>0, <1>16, FreeLeaves, LockLeaves DEF Shutdown, Unwind
<1>17. CASE Crash(s)
  BY <1>0, <1>17, FreeLeaves, LockLeaves DEF Crash, keyVars
<1> QED
  BY <1>1, <1>2, <1>3, <1>4, <1>5, <1>6, <1>7, <1>8, <1>9, <1>10, <1>11, <1>12,
     <1>13, <1>14, <1>15, <1>16, <1>17 DEF SlotStep, Advance

LEMMA LockStep ==
  ASSUME LockInv, [Next]_vars
  PROVE  LockInv'
<1> USE DEF NoKey
<1>0. TypeOK /\ JobsKnown /\ SlotsTyped /\ KeysTyped /\ TypeOK' /\ JobsKnown'
  BY TypeParts, TypeStep DEF LockInv
<1> SUFFICES RunsUnderLock' /\ EndsInTime'
  BY <1>0 DEF LockInv
<1>1. CASE \E s \in Slots : SlotStep(s)
  BY <1>1, LockSlotStep
<1>2. CASE Tick
  <2>1. /\ pc' = pc /\ job' = job /\ Running' = Running
        /\ left' = [s \in Slots |-> Less(left[s], 0)]
        /\ lock' = Less(lock, NoKey)
        /\ lapsed' = (lapsed \/ (lock = 0 /\ Running # {}))
    BY <1>2 DEF Tick, LockAfterTick, Running
  <2>2. \A s \in Slots : pc[s] # "free" => left[s] > 0
    BY <1>2 DEF Tick
  <2>3. RunsUnderLock'
    <3>1. CASE lapsed'
      BY <3>1, Zenon DEF RunsUnderLock
    <3>2. CASE ~lapsed'
      <4>1. ~lapsed /\ (lock # 0 \/ Running = {}) /\ lock \in Int
        <5>1. lock \in Int
          BY <1>0, SyncJobsAssumption DEF KeysTyped
        <5> QED BY <2>1, <3>2, <5>1, Zenon
      <4>2. \A s, t \in Running : s = t
        BY <4>1 DEF LockInv, RunsUnderLock
      <4>3. Running # {} => lock # NoKey /\ lock' # NoKey
        BY <2>1, <4>1 DEF LockInv, RunsUnderLock, Less
      <4> QED BY <2>1, <4>2, <4>3, Zenon DEF RunsUnderLock
    <3> QED BY <3>1, <3>2
  <2>4. EndsInTime'
    <3> SUFFICES ASSUME NEW s \in Slots, pc[s] # "free", job[s] \in Queued
                 PROVE  /\ left'[s] <= JobTimeout
                        /\ s \in Running /\ ~lapsed' => left'[s] <= lock'
      BY <2>1 DEF EndsInTime
    <3>1. left[s] \in Nat /\ left'[s] = left[s] - 1 /\ left[s] <= JobTimeout /\ JobTimeout \in Nat
      BY <1>0, <2>1, <2>2, SyncJobsAssumption DEF LockInv, EndsInTime, Less, SlotsTyped
    <3>2. ASSUME s \in Running, ~lapsed'
          PROVE  left'[s] <= lock'
      <4>1. ~lapsed
        BY <2>1, <3>2, Zenon
      <4>2. left[s] <= lock
        BY <3>2, <4>1 DEF LockInv, EndsInTime
      <4>3. lock \in Int
        BY <1>0, SyncJobsAssumption DEF KeysTyped
      <4> QED BY <2>1, <2>2, <3>1, <4>2, <4>3 DEF Less
    <3> QED BY <3>1, <3>2
  <2> QED BY <2>3, <2>4
<1>3. CASE UNCHANGED <<slotVars, lock, lapsed>>
  BY <1>3, LockAside DEF slotVars, Running
<1>4. CASE TriggerSync \/ SetStatus \/ SyncAll \/ QueueSyncLost \/ EnsureIdleWatcher \/ UNCHANGED vars
  BY <1>3, <1>4 DEF TriggerSync, SetStatus, SyncAll, MarkQueued, QueueSync, QueueSyncLost,
     EnsureIdleWatcher, vars, keyVars, historyVars
<1> QED BY <1>1, <1>2, <1>4 DEF Next

LEMMA AlwaysLocked == Spec => []LockInv
BY TypeInit, LockInit, LockStep, PTL DEF Spec, LockInv

\* At most one cycle of an account runs while its lock has not expired under
\* one: the SET NX of sync_account and its `finally` keep cycles apart.
THEOREM CyclesKeptApart == Spec => []SoleCycle
<1>1. LockInv => SoleCycle
  <2> SUFFICES ASSUME LockInv, ~lapsed PROVE Cardinality(Running) <= 1
    BY DEF SoleCycle, LockInv
  <2>1. CASE Running = {}
    BY <2>1, FS_EmptySet
  <2>2. CASE Running # {}
    <3>1. PICK s : Running = {s}
      BY <2>2 DEF LockInv, RunsUnderLock
    <3>2. Cardinality(Running) = 1
      BY <3>1, FS_Singleton, Zenon
    <3> QED BY <3>2
  <2> QED BY <2>1, <2>2
<1> QED BY <1>1, AlwaysLocked, PTL

\* The lock of a queued cycle outlasts its job, because job time-out and lock
\* time-out are both 900 s: it first expires under a watcher's inline cycle.
THEOREM LockOutlivesQueuedJobs == Spec => OnlyInlineOutlivesLock
<1>1. ASSUME LockInv, [Next]_vars, lapsed', ~lapsed
      PROVE  \E s \in Running : job[s] \in {"idle", "race"}
  <2>0. SlotsTyped /\ JobsKnown
    BY <1>1, TypeParts DEF LockInv
  <2>1. Tick
    BY <1>1 DEF Next, SlotStep, Advance, TriggerSync, SetStatus, SyncAll, MarkQueued, QueueSync,
       QueueSyncLost, EnsureIdleWatcher, StartJob, ClearMarker, TakeLock, SkipLocked, SkipStopped,
       EnterCycle, EndCycle, BeginWatch, OpenWatch, NoticeChange, LoseConnection, WatchAuthError,
       Heartbeat, HeartbeatDies, CancelAtDeadline, Shutdown, Crash, Unwind, ReleaseLock, vars,
       historyVars
  <2>2. lock = 0 /\ Running # {}
    BY <1>1, <2>1 DEF Tick
  <2>3. PICK s \in Running : TRUE
    BY <2>2
  <2>4. s \in Slots /\ pc[s] # "free" /\ left[s] > 0 /\ left[s] \in Nat
    BY <2>0, <2>1, <2>3 DEF Running, Tick, SlotsTyped
  <2>5. job[s] \notin Queued
    BY <1>1, <2>2, <2>3, <2>4 DEF LockInv, EndsInTime
  <2> QED BY <2>0, <2>3, <2>4, <2>5 DEF JobsKnown, Jobs, Queued
<1>2. LockInv /\ [Next]_vars => [(lapsed' /\ ~lapsed) => \E s \in Running : job[s] \in {"idle", "race"}]_vars
  BY <1>1
<1> QED BY <1>2, AlwaysLocked, PTL DEF Spec, OnlyInlineOutlivesLock

-----------------------------------------------------------------------------
(***************************************************************************)
(* The queue.                                                              *)
(***************************************************************************)
LEMMA PendingCrons ==
  ASSUME RestTyped
  PROVE  /\ Pending({"cron"}) > 0 <=> CronsWaiting # {}
         /\ (\A i, j \in CronsWaiting : i = j) => Pending({"cron"}) <= 1
<1>1. Pending({"cron"}) = Cardinality(CronsWaiting)
  BY DEF Pending, CronsWaiting
<1>2. IsFiniteSet(CronsWaiting)
  <2>1. DOMAIN waiting = 1..Len(waiting) /\ Len(waiting) \in Nat
    BY DEF RestTyped
  <2>2. IsFiniteSet(1..Len(waiting))
    BY <2>1, FS_Interval
  <2> QED BY <2>1, <2>2, FS_Subset DEF CronsWaiting
<1>3. Cardinality(CronsWaiting) \in Nat /\ (Cardinality(CronsWaiting) = 0 <=> CronsWaiting = {})
  BY <1>2, FS_CardinalityType, FS_EmptySet
<1>4. ASSUME \A i, j \in CronsWaiting : i = j
      PROVE  Cardinality(CronsWaiting) <= 1
  <2>1. CASE CronsWaiting = {}
    BY <1>3, <2>1
  <2>2. CASE CronsWaiting # {}
    <3>1. PICK i : CronsWaiting = {i}
      BY <1>4, <2>2
    <3>2. Cardinality(CronsWaiting) = 1
      BY <3>1, FS_Singleton, Zenon
    <3> QED BY <3>2
  <2> QED BY <2>1, <2>2
<1> QED BY <1>1, <1>3, <1>4

LEMMA QueueInit == Init => WaitsUnderMarker
BY DEF Init, WaitsUnderMarker, CronsWaiting

\* Another job goes to the end of the queue.
LEMMA QueueAppend ==
  ASSUME RestTyped, NEW k \in {"cron", "manual", "idle"}, waiting' = Append(waiting, k)
  PROVE  CronsWaiting' = IF k = "cron" THEN CronsWaiting \cup {Len(waiting) + 1} ELSE CronsWaiting
<1>1. waiting \in Seq({"cron", "manual", "idle"})
  BY DEF RestTyped
<1>2. Len(waiting) \in Nat /\ DOMAIN waiting = 1..Len(waiting) /\ DOMAIN waiting' = 1..(Len(waiting) + 1)
  BY <1>1
<1>3. \A i \in DOMAIN waiting' : waiting'[i] = IF i = Len(waiting) + 1 THEN k ELSE waiting[i]
  BY <1>1, <1>2, AppendProperties
<1> QED BY <1>2, <1>3 DEF CronsWaiting

\* A step that changes nothing of what the cron sees.
LEMMA QueueAside ==
  ASSUME WaitsUnderMarker, CronsWaiting' = CronsWaiting, queued' = queued,
         marking' = marking, unmarked' = unmarked
  PROVE  WaitsUnderMarker'
BY DEF WaitsUnderMarker

LEMMA QueueRequeue ==
  ASSUME SlotsTyped, RestTyped, JobsKnown, WaitsUnderMarker, NEW s \in Slots, pc[s] # "free",
         Requeue(s), queued' = queued, marking' = marking
  PROVE  WaitsUnderMarker'
<1> DEFINE again == IF job[s] = "race" THEN "idle" ELSE job[s]
<1>1. again \in {"cron", "manual", "idle"} /\ waiting \in Seq({"cron", "manual", "idle"})
  BY DEF JobsKnown, Jobs, RestTyped
<1>2. waiting' = <<again>> \o waiting /\ unmarked' = (unmarked \/ again = "cron")
  BY DEF Requeue
<1>3. CASE unmarked'
  BY <1>3, Zenon DEF WaitsUnderMarker
<1>4. CASE ~unmarked'
  <2>1. ~unmarked /\ again # "cron"
    BY <1>2, <1>4, Zenon
  <2>2. <<again>> \in Seq({"cron", "manual", "idle"}) /\ Len(<<again>>) = 1 /\ <<again>>[1] = again
    BY <1>1
  <2>3. /\ Len(waiting) \in Nat /\ DOMAIN waiting = 1..Len(waiting)
        /\ DOMAIN waiting' = 1..(1 + Len(waiting))
        /\ \A i \in 1..(1 + Len(waiting)) : waiting'[i] = IF i <= 1 THEN again ELSE waiting[i - 1]
    BY <1>1, <1>2, <2>2, ConcatProperties
  <2>4. \A i \in CronsWaiting' : i \in Nat /\ i - 1 \in CronsWaiting
    BY <2>1, <2>3 DEF CronsWaiting
  <2>5. /\ CronsWaiting # {} => queued # NoKey /\ ~marking
        /\ \A i, j \in CronsWaiting : i = j
    BY <2>1 DEF WaitsUnderMarker
  <2>6. \A i, j \in CronsWaiting' : i = j
    BY <2>4, <2>5
  <2>7. CronsWaiting' # {} => queued' # NoKey /\ ~marking'
    BY <2>4, <2>5
  <2> QED BY <2>6, <2>7 DEF WaitsUnderMarker
<1> QED BY <1>3, <1>4

LEMMA QueueSlotStep ==
  ASSUME QueueInv, NEW s \in Slots, SlotStep(s)
  PROVE  WaitsUnderMarker'
<1>0. TypeOK /\ JobsKnown /\ SlotsTyped /\ KeysTyped /\ RestTyped /\ WaitsUnderMarker
  BY TypeParts DEF QueueInv
<1>1. CASE StartJob(s)
  <2>1. waiting' = Tail(waiting) /\ waiting # <<>> /\ waiting \in Seq({"cron", "manual", "idle"})
    BY <1>0, <1>1 DEF StartJob, RestTyped
  <2>2. /\ Len(waiting) \in Nat /\ DOMAIN waiting = 1..Len(waiting)
        /\ DOMAIN waiting' = 1..(Len(waiting) - 1)
        /\ \A i \in 1..(Len(waiting) - 1) : waiting'[i] = waiting[i + 1]
    BY <2>1, HeadTailProperties
  <2>3. \A i \in CronsWaiting' : i \in Nat /\ i + 1 \in CronsWaiting
    BY <2>2 DEF CronsWaiting
  <2>4. unmarked' = (unmarked /\ CronsWaiting' # {})
    BY <1>1 DEF StartJob, CronsWaiting
  <2>5. queued' = queued /\ marking' = marking
    BY <1>1 DEF StartJob, keyVars
  <2>6. CASE unmarked
    BY <2>4, <2>6 DEF WaitsUnderMarker
  <2>7. CASE ~unmarked
    BY <1>0, <2>3, <2>4, <2>5, <2>7 DEF WaitsUnderMarker
  <2> QED BY <2>6, <2>7
<1>2. CASE ClearMarker(s)
  <2>1. /\ queued' = NoKey /\ marking' = marking /\ CronsWaiting' = CronsWaiting
        /\ unmarked' = (unmarked \/ (queued # NoKey /\ CronsWaiting # {}))
    BY <1>0, <1>2, PendingCrons DEF ClearMarker, CronsWaiting
  <2> QED BY <1>0, <2>1 DEF WaitsUnderMarker
<1>3. CASE Shutdown(s)
  BY <1>0, <1>3, QueueRequeue DEF Shutdown
<1>4. CASE Crash(s)
  BY <1>0, <1>4, QueueRequeue DEF Crash, keyVars
<1>5. CASE TakeLock(s) \/ SkipLocked(s) \/ SkipStopped(s) \/ EnterCycle(s) \/ BeginWatch(s) \/ Heartbeat(s)
  BY <1>0, <1>5, QueueAside DEF TakeLock, SkipLocked, SkipStopped, EnterCycle, BeginWatch, Heartbeat,
     CronsWaiting, slotVars, keyVars, historyVars
<1>6. CASE \/ EndCycle(s) \/ OpenWatch(s) \/ NoticeChange(s) \/ LoseConnection(s)
           \/ WatchAuthError(s) \/ HeartbeatDies(s) \/ CancelAtDeadline(s)
  BY <1>0, <1>6, QueueAside DEF EndCycle, OpenWatch, NoticeChange, LoseConnection, WatchAuthError,
     HeartbeatDies, CancelAtDeadline, CronsWaiting, keyVars, historyVars
<1> QED BY <1>1, <1>2, <1>3, <1>4, <1>5, <1>6 DEF SlotStep, Advance

LEMMA QueueStep ==
  ASSUME QueueInv, [Next]_vars
  PROVE  QueueInv'
<1>0. TypeOK /\ JobsKnown /\ KeysTyped /\ RestTyped /\ TypeOK' /\ JobsKnown' /\ WaitsUnderMarker
  BY TypeParts, TypeStep DEF QueueInv
<1> SUFFICES WaitsUnderMarker'
  BY <1>0 DEF QueueInv
<1>1. CASE TriggerSync
  <2>1. CronsWaiting' = CronsWaiting
    BY <1>0, <1>1, QueueAppend DEF TriggerSync
  <2> QED BY <1>0, <1>1, <2>1, QueueAside DEF TriggerSync, keyVars, historyVars
<1>2. CASE SetStatus
  BY <1>0, <1>2, QueueAside DEF SetStatus, CronsWaiting, keyVars, historyVars
<1>3. CASE MarkQueued
  <2>1. /\ queued = NoKey /\ queued' = QueuedTTL /\ marking' = TRUE
        /\ CronsWaiting' = CronsWaiting /\ unmarked' = unmarked
    BY <1>3 DEF MarkQueued, CronsWaiting, historyVars
  <2> QED BY <1>0, <2>1 DEF WaitsUnderMarker
<1>4. CASE QueueSync
  <2>1. CronsWaiting' = CronsWaiting \cup {Len(waiting) + 1}
    BY <1>0, <1>4, QueueAppend DEF QueueSync
  <2>2. marking /\ ~marking' /\ queued' = queued /\ unmarked' = (unmarked \/ queued = NoKey)
    BY <1>4 DEF QueueSync, keyVars
  <2> QED BY <1>0, <2>1, <2>2 DEF WaitsUnderMarker
<1>5. CASE QueueSyncLost
  <2>1. ~marking' /\ queued' = queued /\ CronsWaiting' = CronsWaiting /\ unmarked' = unmarked
    BY <1>5 DEF QueueSyncLost, CronsWaiting, keyVars, historyVars
  <2> QED BY <1>0, <2>1 DEF WaitsUnderMarker
<1>6. CASE EnsureIdleWatcher
  <2>1. CronsWaiting' = CronsWaiting
    BY <1>0, <1>6, QueueAppend DEF EnsureIdleWatcher
  <2> QED BY <1>0, <1>6, <2>1, QueueAside DEF EnsureIdleWatcher, keyVars, historyVars
<1>7. CASE \E s \in Slots : SlotStep(s)
  BY <1>7, QueueSlotStep
<1>8. CASE Tick
  <2>1. /\ queued' = Less(queued, NoKey) /\ marking' = marking /\ CronsWaiting' = CronsWaiting
        /\ unmarked' = (unmarked \/ (queued = 0 /\ CronsWaiting # {}))
    BY <1>0, <1>8, PendingCrons DEF Tick, CronsWaiting
  <2>2. CASE unmarked'
    BY <2>2, Zenon DEF WaitsUnderMarker
  <2>3. CASE ~unmarked'
    <3>1. ~unmarked /\ (queued # 0 \/ CronsWaiting = {})
      BY <2>1, <2>3, Zenon
    <3>2. queued \in Int
      BY <1>0, SyncJobsAssumption DEF KeysTyped
    <3>3. /\ CronsWaiting # {} => queued # NoKey /\ ~marking
          /\ \A i, j \in CronsWaiting : i = j
      BY <1>0, <3>1 DEF WaitsUnderMarker
    <3>4. CronsWaiting # {} => queued' # NoKey
      BY <2>1, <3>1, <3>2, <3>3 DEF Less, NoKey
    <3> QED BY <2>1, <3>3, <3>4, Zenon DEF WaitsUnderMarker
  <2> QED BY <2>2, <2>3
<1>9. CASE UNCHANGED vars
  BY <1>0, <1>9, QueueAside DEF vars, CronsWaiting, keyVars, historyVars
<1> QED BY <1>1, <1>2, <1>3, <1>4, <1>5, <1>6, <1>7, <1>8, <1>9 DEF Next, SyncAll

\* At most one job of the cron waits per account, as sync_all_accounts sets
\* its marker with NX, until a marker expires or is deleted under a waiting
\* job, or arq queues a started job again.
THEOREM CronQueuesOnce == Spec => []OnePendingJob
<1>1. Init => QueueInv
  BY TypeInit, QueueInit DEF QueueInv
<1>2. QueueInv => OnePendingJob
  BY TypeParts, PendingCrons DEF QueueInv, WaitsUnderMarker, OnePendingJob
<1> QED BY <1>1, <1>2, QueueStep, PTL DEF Spec
=============================================================================
