--------------------------- MODULE MCAutoProceed ---------------------------
(***************************************************************************)
(* The instance of AutoProceed that TLC checks: two STOPs, so that a       *)
(* release may leave another one behind.                                   *)
(***************************************************************************)
EXTENDS AutoProceed

CONSTANTS stopA, stopB

Stops == {stopA, stopB}
=============================================================================
