--------------------------- MODULE MCObserverWake ---------------------------
(***************************************************************************)
(* Instances of ObserverWake for TLC.  A turn without a reply is one that  *)
(* the completion watchdog ends.                                           *)
(***************************************************************************)
EXTENDS ObserverWake

TwoReplies == {"findings", "junk"}
=============================================================================
