------------------------- MODULE MCAccountLifecycle -------------------------
(* Instance of AccountLifecycle for TLC.                                    *)
EXTENDS AccountLifecycle, TLC

\* Credentials are interchangeable.
Interchangeable == Permutations(Credentials)
=============================================================================
