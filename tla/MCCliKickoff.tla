---------------------------- MODULE MCCliKickoff ----------------------------
(***************************************************************************)
(* Instances of CliKickoff for TLC.                                        *)
(***************************************************************************)
EXTENDS CliKickoff

\* A CLI older than 2.1.278, and a current one.
OldAndNew == {"legacy", "announcing"}
=============================================================================
