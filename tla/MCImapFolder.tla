---------------------------- MODULE MCImapFolder ----------------------------
(* Instance of ImapFolder for TLC.                                          *)
EXTENDS ImapFolder
=============================================================================
