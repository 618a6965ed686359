---------------------------- MODULE MCAutoResume ----------------------------
(***************************************************************************)
(* The instances of AutoResume that TLC checks: the two halves of a pair   *)
(* and two reset times that the scheduler tells apart.                     *)
(***************************************************************************)
EXTENDS AutoResume

CONSTANTS orch, obs, now5h, weekly

Pair == {orch, obs}
TwoLimits == {now5h, weekly}

EveryRequest == {"message", "cancel", "setting", "stop", "archive", "delete", "exit", "manual"}
=============================================================================
