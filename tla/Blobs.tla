------------------------------- MODULE Blobs --------------------------------
(* One blob of the content-addressed store (blobs.py): threads of several    *)
(* processes store the same message under one name.  The temporary file is   *)
(* named after the process, so the threads of a process share it.  A file    *)
(* descriptor follows its inode, also after a rename.  The data of an inode  *)
(* is written in two halves; every writer writes the same.                   *)
EXTENDS Naturals, FiniteSets

CONSTANTS
    Threads,
    Process,        \* Process[t]: where a thread runs
    MaxPuts,        \* bound: calls of put()
    MaxFaults,      \* bound: processes that die, disks that are full
    NoInode

ASSUME BlobAssumption ==
    /\ IsFiniteSet(Threads) /\ NoInode \notin Nat
    /\ {MaxPuts, MaxFaults} \subseteq Nat

VARIABLES
    target,         \* the inode under the final name, or NoInode
    tmp,            \* process -> the inode under its temporary name, or NoInode
    data,           \* inode -> the halves that are written
    thread,         \* [pc, inode]
    puts, faults,
    collided        \* history: two threads of a process were writing at once

blobVars == <<target, tmp, data, thread, puts, faults, collided>>

Processes == {Process[t] : t \in Threads}
Inodes    == 1..MaxPuts
Whole     == {"head", "tail"}
Over      == {"idle", "stored", "failed", "full"}
Done(how) == [pc |-> how, inode |-> NoInode]

BlobInit ==
    /\ target = NoInode
    /\ tmp = [q \in Processes |-> NoInode]
    /\ data = [n \in Inodes |-> {}]
    /\ thread = [t \in Threads |-> Done("idle")]
    /\ puts = 0 /\ faults = 0 /\ collided = FALSE

Writers(n) == {t \in Threads : thread[t].inode = n}
Others(t)  == {u \in Threads \ {t} : Process[u] = Process[t] /\ thread[u].pc \notin Over \cup {"new"}}

\* As Name, without the process.
NameOfNobody(t) == CHOOSE q \in Processes : TRUE

\* The temporary name is the blob's with the process id.
Name(t) == Process[t]

Goes(t, place) == thread' = [thread EXCEPT ![t].pc = place]

-----------------------------------------------------------------------------
\* put: a blob that is there already is not written again.
Put(t) ==
    /\ thread[t].pc \in Over /\ puts < MaxPuts
    /\ puts' = puts + 1
    /\ thread' = [thread EXCEPT ![t] = Done(IF target = NoInode THEN "new" ELSE "stored")]
    /\ UNCHANGED <<target, tmp, data, faults, collided>>

\* gzip.open(tmp, "wb"): a new file, or the one that has this name, emptied.
Open(t) ==
    LET q == Name(t)
        n == IF tmp[q] # NoInode THEN tmp[q] ELSE CHOOSE i \in Inodes :
                 i # target /\ Writers(i) = {} /\ \A r \in Processes : tmp[r] # i
    IN /\ thread[t].pc = "new"
       /\ tmp' = [tmp EXCEPT ![q] = n]
       /\ data' = [data EXCEPT ![n] = {}]
       /\ thread' = [thread EXCEPT ![t] = [pc |-> "head", inode |-> n]]
       /\ collided' = (collided \/ Others(t) # {})
       /\ UNCHANGED <<target, puts, faults>>

Write(t) ==
    /\ thread[t].pc \in Whole
    /\ data' = [data EXCEPT ![thread[t].inode] = @ \cup {thread[t].pc}]
    /\ Goes(t, IF thread[t].pc = "head" THEN "tail" ELSE "written")
    /\ UNCHANGED <<target, tmp, puts, faults, collided>>

DiskFull(t) ==
    /\ thread[t].pc \in Whole /\ faults < MaxFaults
    /\ faults' = faults + 1
    /\ thread' = [thread EXCEPT ![t] = Done("refused")]
    /\ UNCHANGED <<target, tmp, data, puts, collided>>

\* os.replace, with whatever has the temporary name by now.
Renamed(t) ==
    LET q == Name(t)
    IN IF tmp[q] # NoInode
       THEN /\ target' = tmp[q] /\ tmp' = [tmp EXCEPT ![q] = NoInode]
            /\ thread' = [thread EXCEPT ![t] = Done("replaced")]
       ELSE /\ thread' = [thread EXCEPT ![t] = Done("broken")]
            /\ UNCHANGED <<target, tmp>>

\* As Replace, before the file is closed.
ReplaceEarly(t) ==
    /\ thread[t].pc \in {"tail", "written"} /\ Renamed(t)
    /\ UNCHANGED <<data, puts, faults, collided>>

Replace(t) ==
    /\ thread[t].pc = "written" /\ Renamed(t)
    /\ UNCHANGED <<data, puts, faults, collided>>

Outcome == [replaced |-> "stored", broken |-> "failed", refused |-> "full"]

\* finally: whatever has the temporary name by now goes.
Unlink(t) ==
    /\ thread[t].pc \in DOMAIN Outcome
    /\ tmp' = [tmp EXCEPT ![Name(t)] = NoInode]
    /\ Goes(t, Outcome[thread[t].pc])
    /\ UNCHANGED <<target, data, puts, faults, collided>>

\* The temporary file stays; the next process may get the same number.
Kill(q) ==
    /\ faults < MaxFaults
    /\ faults' = faults + 1
    /\ thread' = [t \in Threads |-> IF Process[t] = q THEN Done("idle") ELSE thread[t]]
    /\ UNCHANGED <<target, tmp, data, puts, collided>>

-----------------------------------------------------------------------------
BlobNext ==
    \/ \E t \in Threads :
         Put(t) \/ Open(t) \/ Write(t) \/ DiskFull(t) \/ Replace(t) \/ Unlink(t)
    \/ \E q \in Processes : Kill(q)

BlobSpec == BlobInit /\ [][BlobNext]_blobVars

-----------------------------------------------------------------------------
\* A file has one name.
BlobTypeOK ==
    /\ target \in Inodes \cup {NoInode}
    /\ tmp \in [Processes -> (Inodes \cup {NoInode}) \ ({target} \ {NoInode})]
    /\ \A q, r \in Processes : tmp[q] = tmp[r] => q = r \/ tmp[q] = NoInode
    /\ data \in [Inodes -> SUBSET Whole]
    /\ thread \in [Threads -> [pc : Over \cup Whole \cup {"new", "written"} \cup DOMAIN Outcome,
                               inode : Inodes \cup {NoInode}]]
    /\ puts \in 0..MaxPuts /\ faults \in 0..MaxFaults /\ collided \in BOOLEAN

\* The state is well typed and, blobs.py:2 (atomic writes), a blob that can be
\* read is whole, across crashes and in every interleaving of processes.
\* Threads of one process that write at the same time break it for as long as
\* one of them still writes; if the process dies or the disk is full then, the
\* blob stays torn.
ReadableIsWhole ==
    /\ BlobTypeOK
    /\ target # NoInode /\ data[target] # Whole =>
         collided /\ (Writers(target) # {} \/ faults > 0)

\* blobs.py:61 (idempotent): whoever stores the same message at the same time,
\* put() fails for want of its temporary file only where two threads of a
\* process collide, and then, unless a fault happened, the blob is there all
\* the same.
FailureIsHarmless ==
    \A t \in Threads : thread[t].pc = "failed" => collided /\ (target # NoInode \/ faults > 0)
=============================================================================
