----------------------------- MODULE MCSyncJobs -----------------------------
(* Instance of SyncJobs for TLC.                                            *)
EXTENDS SyncJobs, TLC

\* Job slots are interchangeable.
Interchangeable == Permutations(Slots)
=============================================================================
