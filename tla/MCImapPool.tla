----------------------------- MODULE MCImapPool -----------------------------
(* Instance of ImapPool for TLC.                                             *)
EXTENDS ImapPool
=============================================================================
