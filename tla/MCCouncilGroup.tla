--------------------------- MODULE MCCouncilGroup ---------------------------
(***************************************************************************)
(* The instances of CouncilGroup that TLC checks: one pair, one failed     *)
(* relaunch allowed, and the outside requests each run lets happen.        *)
(***************************************************************************)
EXTENDS CouncilGroup

OneRelaunch == 1

\* One life of the server, with every request the user makes.
OneServerLife == {"browser", "stop", "manual", "archive", "delete", "autoheal"}

\* Deploys: the server is shut down in order, as often as it likes.
Deploys == {"stop", "archive", "restart"}

\* Crashes and deploys of the server, and its own idle kills.
Restarts == {"stop", "idle", "archive", "crash", "restart"}

NoRequests == {}
Idling == {"browser", "idle"}
=============================================================================
