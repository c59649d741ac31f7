------------------------------ MODULE MCOutbox ------------------------------
(* Instance of Outbox for TLC.                                              *)
EXTENDS Outbox, TLC

\* Job slots are interchangeable, and so are request handlers.
Interchangeable == Permutations(Workers) \cup Permutations(Handlers)
=============================================================================
