------------------------------- MODULE MCInbox -------------------------------
(***************************************************************************)
(* Instances of Inbox for TLC.  No symmetry: liveness is checked.          *)
(***************************************************************************)
EXTENDS Inbox, TLC
==============================================================================
