---------------------------- MODULE PairLifecycle ----------------------------
(***************************************************************************)
(* What a council pair promises to its readers (the browser panel, the     *)
(* observer wake, auto-proceed): a status, and at most one lost half that  *)
(* the pair is waiting for. It says nothing of processes, marks, timers or *)
(* retries; CouncilGroup implements it.                                    *)
(***************************************************************************)
VARIABLES
    pair,       \* the status the readers see
    awaiting    \* the half whose return is awaited, or "none"

vars == <<pair, awaiting>>

Roles == {"orchestrator", "observer"}
Live == {"active", "degraded", "reconnecting"}

Init == pair = "none" /\ awaiting = "none"

Create == pair = "none" /\ pair' = "pairing" /\ UNCHANGED awaiting
Ready == pair = "pairing" /\ pair' = "active" /\ UNCHANGED awaiting
Abandon == pair = "pairing" /\ pair' = "none" /\ UNCHANGED awaiting

(* One half is lost. Losing one again while degraded awaits it without a   *)
(* change of status.                                                       *)
Await ==
    /\ awaiting = "none" /\ pair \in {"active", "degraded"}
    /\ awaiting' \in Roles
    /\ pair' = IF pair = "active" THEN "reconnecting" ELSE pair

Return ==
    /\ awaiting # "none"
    /\ awaiting' = "none"
    /\ pair' = IF pair = "reconnecting" THEN "active" ELSE pair

GiveUp ==
    /\ awaiting # "none"
    /\ awaiting' = "none"
    /\ pair' = "degraded"

Degrade == pair = "active" /\ pair' = "degraded" /\ UNCHANGED awaiting
Respawn == pair = "degraded" /\ awaiting = "none" /\ pair' = "active" /\ UNCHANGED awaiting
Archive == pair \in Live /\ pair' = "archived" /\ awaiting' = "none"

(* A restart of the server re-reads the pair from what survived on disk.   *)
Reload == pair' \in {"none", "active", "degraded"} /\ awaiting' = "none"

Next ==
    \/ Create
    \/ Ready
    \/ Abandon
    \/ Await
    \/ Return
    \/ GiveUp
    \/ Degrade
    \/ Respawn
    \/ Archive
    \/ Reload

(* A wait always ends.                                                     *)
Spec == Init /\ [][Next]_vars /\ WF_vars(Return \/ GiveUp)
==============================================================================
