----------------------------- MODULE MCJournal ------------------------------
(***************************************************************************)
(* Journal for TLC.                                                        *)
(***************************************************************************)
EXTENDS Journal
=============================================================================
