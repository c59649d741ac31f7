------------------------------ MODULE MCAccess ------------------------------
(* Instance of Access for TLC. *)
EXTENDS Access, TLC

Interchangeable == Permutations(Handlers)
=============================================================================
