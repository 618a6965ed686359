------------------------ MODULE CouncilGroup_proofs ------------------------
(***************************************************************************)
(* Proofs about CouncilGroup, for every relaunch budget and every set of   *)
(* outside requests: type correctness, the invariants the runs check, two  *)
(* action properties, and the safety half of the refinement of             *)
(* PairLifecycle.                                                          *)
(***************************************************************************)
EXTENDS CouncilGroup, TLAPS

(* The state machine of a group stays within its statuses. *)
LEMMA TransitionType ==
    ASSUME NEW s \in Statuses, NEW e
    PROVE  Transition(s, e) \in Statuses
  BY DEF Transition, Statuses

(* What the two exit listeners leave behind is well typed. *)
LEMMA ExitType ==
    ASSUME TypeOK, NEW r \in Roles, Exit(r)
    PROVE  /\ status' \in Statuses
           /\ window' \in Roles \cup {"none"}
           /\ cli' \in [Roles -> {"gone", "down", "starting", "up"}]
           /\ mark' \in [Roles -> {"none", "transient", "durable"}]
           /\ timer' \in [Roles -> {"none", "keepalive", "boot"}]
  <1>1. cli' \in [Roles -> {"gone", "down", "starting", "up"}]
    BY DEF TypeOK, Exit
  <1>2. timer' \in [Roles -> {"none", "keepalive", "boot"}]
    BY DEF TypeOK, Exit, KeepaliveHearsExit
  <1>3. /\ status' \in Statuses
        /\ window' \in Roles \cup {"none"}
        /\ mark' \in [Roles -> {"none", "transient", "durable"}]
    <2>1. CouncilHearsExit(r)
      BY DEF Exit
    <2> USE TransitionType DEF TypeOK, Durable
    <2>2. CASE ExitIsIgnored(r)
      BY <2>2 DEF ExitIsIgnored
    <2>3. CASE ExitAfterExhaustion(r)
      BY <2>3 DEF ExitAfterExhaustion
    <2>4. CASE ExitOfSecondHalf(r)
      BY <2>4 DEF ExitOfSecondHalf
    <2>5. CASE ExitArmsReconnect(r)
      BY <2>5 DEF ExitArmsReconnect
    <2>6. CASE ExitWhileArmed(r)
      BY <2>6 DEF ExitWhileArmed
    <2>7. QED
      BY <2>1, <2>2, <2>3, <2>4, <2>5, <2>6 DEF CouncilHearsExit
  <1>4. QED
    BY <1>1, <1>2, <1>3

(* The listener of a failed relaunch keeps the types, if the mark table it *)
(* is given has its own.                                                   *)
LEMMA RelaunchFailedType ==
    ASSUME TypeOK, NEW r \in Roles, NEW m \in [Roles -> {"none", "transient", "durable"}],
           CouncilHearsRelaunchFailed(r, m)
    PROVE  /\ status' \in Statuses
           /\ window' \in Roles \cup {"none"}
           /\ mark' \in [Roles -> {"none", "transient", "durable"}]
  BY TransitionType DEF TypeOK, CouncilHearsRelaunchFailed, Durable, groupVars

LEMMA TransientType ==
    ASSUME NEW m \in [Roles -> {"none", "transient", "durable"}], NEW r \in Roles
    PROVE  WithTransient(m, r) \in [Roles -> {"none", "transient", "durable"}]
  BY DEF WithTransient

LEMMA MarksAfterFlightType ==
    ASSUME TypeOK, NEW r \in Roles
    PROVE  MarksAfterFlight(r) \in [Roles -> {"none", "transient", "durable"}]
  BY TransientType DEF TypeOK, MarksAfterFlight

LEMMA ClaimsType ==
    ASSUME TypeOK, NEW S
    PROVE  ClaimsFor(S) \in [Roles -> {"free", "grace", "flight", "cooldown"}]
  BY DEF TypeOK, ClaimsFor

LEMMA FlightEndsType ==
    ASSUME TypeOK, NEW r \in Roles, FlightEnds(r)
    PROVE  /\ claim' \in [Roles -> {"free", "grace", "flight", "cooldown"}]
           /\ direct' \in [Roles -> {"none", "queued", "running"}]
           /\ doomed' \in [Roles -> BOOLEAN]
  BY DEF TypeOK, FlightEnds

LEMMA JobType ==
    ASSUME NEW k \in {"none", "rollback", "stop", "archive", "idle", "delete"},
           NEW S \in SUBSET Roles
    PROVE  Job(k, S) \in [kind : {"none", "rollback", "stop", "archive", "idle", "delete"},
                          scope : SUBSET Roles, left : SUBSET Roles]
  BY DEF Job

-----------------------------------------------------------------------------
(* Type correctness *)

(* A step the server takes by itself keeps the types. *)
LEMMA ServerTypeStep ==
    ASSUME TypeOK, ServerStep
    PROVE  TypeOK'
  <1> USE DEF groupVars, relaunchVars, userVars
  <1>1. CASE WindowExpires
    BY <1>1, TransitionType DEF WindowExpires, TypeOK
  <1>2. CASE KillOne
    <2> DEFINE r == NextToKill
    <2>1. r \in Roles
      BY DEF NextToKill, Roles
    <2>2. /\ status' \in Statuses
          /\ window' \in Roles \cup {"none"}
          /\ cli' \in [Roles -> {"gone", "down", "starting", "up"}]
          /\ mark' \in [Roles -> {"none", "transient", "durable"}]
          /\ timer' \in [Roles -> {"none", "keepalive", "boot"}]
      <3>1. CASE Exit(r)
        BY <2>1, <3>1, ExitType
      <3>2. CASE ~Alive(r) /\ UNCHANGED <<groupVars, cli, mark, timer>>
        BY <3>2 DEF TypeOK
      <3>3. QED
        BY <1>2, <3>1, <3>2 DEF KillOne
    <2>3. job' \in [kind : {"none", "rollback", "stop", "archive", "idle", "delete"},
                    scope : SUBSET Roles, left : SUBSET Roles]
      BY <1>2 DEF KillOne, TypeOK, NoJob
    <2>4. /\ archived' \in [Roles -> BOOLEAN]
          /\ exhausted' \in [Roles -> BOOLEAN]
          /\ count' \in [Roles -> 0..MaxAutoRelaunches]
      BY <1>2, <2>1, BudgetAssumption DEF KillOne, TypeOK
    <2>5. /\ claim' \in [Roles -> {"free", "grace", "flight", "cooldown"}]
          /\ direct' \in [Roles -> {"none", "queued", "running"}]
          /\ stopped' \in [Roles -> BOOLEAN]
          /\ doomed' \in [Roles -> BOOLEAN]
      BY <1>2 DEF KillOne, TypeOK
    <2>6. QED
      BY <2>2, <2>3, <2>4, <2>5 DEF TypeOK
  <1>3. CASE DeleteForgets
    <2>1. NextToKill \in Roles
      BY DEF NextToKill, Roles
    <2>2. QED
      BY <1>3, <2>1, BudgetAssumption DEF DeleteForgets, TypeOK, NoJob
  <1>4. ASSUME NEW r \in Roles, KeepaliveFires(r)
        PROVE  TypeOK'
    BY <1>4, ClaimsType DEF KeepaliveFires, ClaimsIfRunning, TypeOK
  <1>5. ASSUME NEW r \in Roles, BootResumeFires(r)
        PROVE  TypeOK'
    BY <1>5, ClaimsType DEF BootResumeFires, ClaimsIfRunning, TypeOK
  <1>6. ASSUME NEW r \in Roles, GraceEnds(r)
        PROVE  TypeOK'
    <2>1. CASE GraceSkips(r)
      BY <2>1 DEF GraceSkips, TypeOK
    <2>2. CASE GraceExhausts(r)
      <3>1. /\ status' \in Statuses
            /\ window' \in Roles \cup {"none"}
            /\ mark' \in [Roles -> {"none", "transient", "durable"}]
        BY <2>2, RelaunchFailedType DEF GraceExhausts, TypeOK
      <3>2. QED
        BY <2>2, <3>1 DEF GraceExhausts, TypeOK
    <2>3. CASE GraceRelaunches(r)
      <3>1. mark' \in [Roles -> {"none", "transient", "durable"}]
        BY <2>3, TransientType DEF GraceRelaunches, TypeOK
      <3>2. count' \in [Roles -> 0..MaxAutoRelaunches]
        BY <2>3, BudgetAssumption DEF GraceRelaunches, TypeOK
      <3>3. QED
        BY <2>3, <3>1, <3>2 DEF GraceRelaunches, TypeOK
    <2>4. QED
      BY <1>6, <2>1, <2>2, <2>3 DEF GraceEnds
  <1>7. ASSUME NEW r \in Roles, RelaunchKills(r)
        PROVE  TypeOK'
    BY <1>7, ExitType DEF RelaunchKills, TypeOK
  <1>8. ASSUME NEW r \in Roles, RelaunchEnds(r)
        PROVE  TypeOK'
    <2> USE MarksAfterFlightType, FlightEndsType
    <2>1. CASE RelaunchSpawns(r)
      BY <2>1, BudgetAssumption DEF RelaunchSpawns, TypeOK
    <2>2. CASE RelaunchFails(r)
      <3>1. /\ status' \in Statuses
            /\ window' \in Roles \cup {"none"}
            /\ mark' \in [Roles -> {"none", "transient", "durable"}]
        BY <2>2, RelaunchFailedType DEF RelaunchFails, TypeOK
      <3>2. QED
        BY <2>2, <3>1 DEF RelaunchFails, TypeOK
    <2>3. CASE r = "observer" /\ LauncherRefuses
      <3>1. /\ status' \in Statuses
            /\ window' \in Roles \cup {"none"}
            /\ mark' \in [Roles -> {"none", "transient", "durable"}]
        BY <2>3, RelaunchFailedType DEF LauncherRefuses
      <3>2. count' \in [Roles -> 0..MaxAutoRelaunches]
        BY <2>3, BudgetAssumption DEF LauncherRefuses, TypeOK
      <3>3. QED
        BY <2>3, <3>1, <3>2 DEF LauncherRefuses, TypeOK
    <2>4. QED
      BY <1>8, <2>1, <2>2, <2>3 DEF RelaunchEnds
  <1>9. ASSUME NEW r \in Roles, CooldownEnds(r)
        PROVE  TypeOK'
    BY <1>9 DEF CooldownEnds, TypeOK
  <1>10. ASSUME NEW r \in Roles, RelaunchSpawnsArchived(r)
         PROVE  TypeOK'
    BY <1>10 DEF RelaunchSpawnsArchived, TypeOK
  <1>11. QED
    BY <1>1, <1>2, <1>3, <1>4, <1>5, <1>6, <1>7, <1>8, <1>9, <1>10 DEF ServerStep

(* So does a step that is done to it. *)
LEMMA OutsideTypeStep ==
    ASSUME TypeOK, OutsideStep
    PROVE  TypeOK'
  <1> USE DEF groupVars, relaunchVars, userVars
  <1>1. CASE SpawnPrimary
    BY <1>1 DEF SpawnPrimary, TypeOK, Statuses, Roles
  <1>2. CASE SpawnObserver
    BY <1>2, TransitionType DEF SpawnObserver, TypeOK
  <1>3. CASE SpawnObserverFails
    BY <1>3 DEF SpawnObserverFails, TypeOK, Statuses, Roles, Job
  <1>4. CASE EscalateToDegraded
    BY <1>4, TransitionType DEF EscalateToDegraded, TypeOK
  <1>5. CASE Autoheal
    <2>1. WithTransient(mark, "observer") \in [Roles -> {"none", "transient", "durable"}]
      BY TransientType DEF TypeOK, Roles
    <2>2. QED
      BY <1>5, <2>1 DEF Autoheal, TypeOK
  <1>6. CASE IdleKill
    BY <1>6 DEF IdleKill, TypeOK, Roles, Job
  <1>7. ASSUME NEW owed \in SUBSET Roles, NEW survivors \in SUBSET Roles,
               Reboot(owed, survivors)
        PROVE  TypeOK'
    <2>1. ReconciledStatus \in Statuses
      BY TransitionType DEF ReconciledStatus, Statuses
    <2>2. cli' \in [Roles -> {"gone", "down", "starting", "up"}]
      BY <1>7 DEF Reboot
    <2>3. QED
      BY <1>7, <2>1, <2>2, BudgetAssumption DEF Reboot, TypeOK, NoJob
  <1>8. CASE ServerCrash
    BY <1>7, <1>8 DEF ServerCrash
  <1>9. CASE GracefulRestart
    <2>1. OwedAtShutdown \in SUBSET Roles
      BY DEF OwedAtShutdown, Present
    <2>2. QED
      BY <1>7, <1>9, <2>1 DEF GracefulRestart
  <1>10. ASSUME NEW r \in Roles, Crash(r)
         PROVE  TypeOK'
    BY <1>10, ExitType DEF Crash, TypeOK
  <1>11. ASSUME NEW r \in Roles, Handshake(r)
         PROVE  TypeOK'
    <2>1. status' \in Statuses /\ window' \in Roles \cup {"none"}
      BY <1>11, TransitionType
         DEF Handshake, HandshakeClosesWindow, HandshakeRespawns, HandshakeIsDropped, TypeOK
    <2>2. QED
      BY <1>11, <2>1 DEF Handshake, TypeOK
  <1>12. ASSUME NEW r \in Roles, RelaunchNeeded(r)
         PROVE  TypeOK'
    BY <1>12, ClaimsType DEF RelaunchNeeded, ClaimsIfRunning, TypeOK
  <1>13. ASSUME NEW r \in Roles
         PROVE  Scope(r) \in SUBSET Roles
    BY DEF Scope
  <1>14. ASSUME NEW r \in Roles, StopSession(r)
         PROVE  TypeOK'
    BY <1>13, <1>14, JobType DEF StopSession, TypeOK
  <1>15. ASSUME NEW r \in Roles
         PROVE  MarksAfterResume(r) \in [Roles -> {"none", "transient", "durable"}]
    BY DEF MarksAfterResume, TypeOK
  <1>16. ASSUME NEW r \in Roles, UserMessage(r)
         PROVE  TypeOK'
    BY <1>15, <1>16, ClaimsType DEF UserMessage, TypeOK
  <1>17. ASSUME NEW r \in Roles, ManualRelaunch(r)
         PROVE  TypeOK'
    <2>1. mark' \in [Roles -> {"none", "transient", "durable"}]
      BY <1>15, <1>17, TransientType DEF ManualRelaunch
    <2>2. /\ direct' \in [Roles -> {"none", "queued", "running"}]
          /\ count' \in [Roles -> 0..MaxAutoRelaunches]
          /\ exhausted' \in [Roles -> BOOLEAN]
          /\ stopped' \in [Roles -> BOOLEAN]
      BY <1>17, BudgetAssumption DEF ManualRelaunch, TypeOK
    <2>3. claim' \in [Roles -> {"free", "grace", "flight", "cooldown"}]
      BY <1>17, ClaimsType DEF ManualRelaunch
    <2>4. QED
      BY <1>17, <2>1, <2>2, <2>3 DEF ManualRelaunch, TypeOK
  <1>18. ASSUME NEW r \in Roles, ArchiveSession(r)
         PROVE  TypeOK'
    <2>1. status' \in Statuses /\ window' \in Roles \cup {"none"}
      BY <1>18, TransitionType DEF ArchiveSession, TypeOK
    <2>2. QED
      BY <1>13, <1>18, <2>1, JobType DEF ArchiveSession, TypeOK
  <1>19. ASSUME NEW r \in Roles, Unarchive(r)
         PROVE  TypeOK'
    BY <1>19 DEF Unarchive, TypeOK
  <1>20. ASSUME NEW r \in Roles, DeleteSession(r)
         PROVE  TypeOK'
    BY <1>20, JobType DEF DeleteSession, TypeOK
  <1>21. QED
    BY <1>1, <1>2, <1>3, <1>4, <1>5, <1>6, <1>8, <1>9, <1>10, <1>11, <1>12, <1>14,
       <1>16, <1>17, <1>18, <1>19, <1>20 DEF OutsideStep

(* Every variable keeps its type, whatever the budget and the requests. *)
THEOREM TypeCorrect == Spec => []TypeOK
  <1>1. Init => TypeOK
    BY BudgetAssumption DEF Init, TypeOK, Statuses, NoJob
  <1>2. TypeOK /\ [Next]_vars => TypeOK'
    <2>1. TypeOK /\ UNCHANGED vars => TypeOK'
      BY DEF TypeOK, vars
    <2>2. QED
      BY <2>1, ServerTypeStep, OutsideTypeStep DEF Next
  <1>3. QED
    BY <1>1, <1>2, PTL DEF Spec

-----------------------------------------------------------------------------
(* What a step can do to the group: everything the proofs below need to    *)
(* know of the thirty actions.                                             *)
GroupEffect ==
    \/ UNCHANGED groupVars
    \/ /\ status = "none" /\ status' = "pairing" /\ UNCHANGED window
       /\ cli'["observer"] = "gone"
    \/ /\ status = "pairing" /\ status' \in {"active", "failed"} /\ UNCHANGED window
    \/ /\ Tracked /\ window = "none" /\ window' \in Roles
       /\ status' = Transition(status, "reconnect_started")
    \/ /\ status' = Transition(status, "half_died") /\ UNCHANGED window
    \/ /\ window # "none" /\ window' = "none"
       /\ status' = Transition(status, "reconnect_failed")
    \/ /\ window # "none" /\ window' = "none" /\ cli'[window] = "up"
       /\ status' = Transition(status, "reconnect_ok")
    \/ /\ window = "none" /\ status = "degraded" /\ status' = "active" /\ UNCHANGED window
    \/ /\ Tracked /\ status' = "archived" /\ window' = "none"
    \/ /\ Rebooting /\ status' \in {"none", "active", "degraded"} /\ window' = "none"

LEMMA ExitGroupEffect ==
    ASSUME NEW r \in Roles, Exit(r)
    PROVE  GroupEffect
  <1>1. CouncilHearsExit(r)
    BY DEF Exit
  <1> USE DEF GroupEffect, groupVars
  <1>2. CASE ExitIsIgnored(r)
    BY <1>2 DEF ExitIsIgnored
  <1>3. CASE ExitAfterExhaustion(r)
    BY <1>3 DEF ExitAfterExhaustion
  <1>4. CASE ExitOfSecondHalf(r)
    BY <1>4 DEF ExitOfSecondHalf
  <1>5. CASE ExitArmsReconnect(r)
    BY <1>5 DEF ExitArmsReconnect
  <1>6. CASE ExitWhileArmed(r)
    BY <1>6 DEF ExitWhileArmed
  <1>7. QED
    BY <1>1, <1>2, <1>3, <1>4, <1>5, <1>6 DEF CouncilHearsExit

LEMMA RelaunchFailedGroupEffect ==
    ASSUME NEW r \in Roles, NEW m, CouncilHearsRelaunchFailed(r, m)
    PROVE  GroupEffect
  BY DEF CouncilHearsRelaunchFailed, GroupEffect, groupVars, Roles

LEMMA HandshakeGroupEffect ==
    ASSUME TypeOK, NEW r \in Roles, Handshake(r)
    PROVE  GroupEffect
  <1>1. cli'[r] = "up"
    BY DEF Handshake, TypeOK
  <1>2. CASE HandshakeClosesWindow(r)
    BY <1>1, <1>2 DEF HandshakeClosesWindow, GroupEffect, Roles
  <1>3. CASE HandshakeRespawns(r)
    BY <1>3 DEF HandshakeRespawns, GroupEffect, Transition
  <1>4. CASE HandshakeIsDropped(r)
    BY <1>4 DEF HandshakeIsDropped, GroupEffect
  <1>5. QED
    BY <1>2, <1>3, <1>4 DEF Handshake

LEMMA RebootGroupEffect ==
    ASSUME Rebooting
    PROVE  GroupEffect
  <1>1. ASSUME NEW owed, NEW survivors, Reboot(owed, survivors)
        PROVE  status' \in {"none", "active", "degraded"} /\ window' = "none"
    BY <1>1 DEF Reboot, ReconciledStatus, Transition
  <1>2. QED
    BY <1>1 DEF Rebooting, ServerCrash, GracefulRestart, GroupEffect

LEMMA GroupSteps ==
    ASSUME TypeOK, [Next]_vars
    PROVE  GroupEffect
  <1> USE DEF groupVars, relaunchVars, userVars
  <1>1. CASE UNCHANGED vars
    BY <1>1 DEF vars, GroupEffect
  <1>2. CASE ServerStep
    <2>1. CASE WindowExpires
      BY <2>1 DEF WindowExpires, GroupEffect
    <2>2. CASE KillOne
      <3>1. NextToKill \in Roles
        BY DEF NextToKill, Roles
      <3>2. CASE Exit(NextToKill)
        BY <3>1, <3>2, ExitGroupEffect
      <3>3. CASE UNCHANGED groupVars
        BY <3>3 DEF GroupEffect
      <3>4. QED
        BY <2>2, <3>2, <3>3 DEF KillOne
    <2>3. CASE DeleteForgets
      BY <2>3 DEF DeleteForgets, GroupEffect
    <2>4. ASSUME NEW r \in Roles, \/ KeepaliveFires(r) \/ BootResumeFires(r)
                               \/ CooldownEnds(r) \/ RelaunchSpawnsArchived(r)
          PROVE  GroupEffect
      BY <2>4 DEF KeepaliveFires, BootResumeFires, CooldownEnds, RelaunchSpawnsArchived,
                  GroupEffect
    <2>5. ASSUME NEW r \in Roles, GraceEnds(r)
          PROVE  GroupEffect
      <3>1. CASE GraceExhausts(r)
        BY <3>1, RelaunchFailedGroupEffect DEF GraceExhausts
      <3>2. CASE GraceSkips(r) \/ GraceRelaunches(r)
        BY <3>2 DEF GraceSkips, GraceRelaunches, GroupEffect
      <3>3. QED
        BY <2>5, <3>1, <3>2 DEF GraceEnds
    <2>6. ASSUME NEW r \in Roles, RelaunchKills(r)
          PROVE  GroupEffect
      BY <2>6, ExitGroupEffect DEF RelaunchKills
    <2>7. ASSUME NEW r \in Roles, RelaunchEnds(r)
          PROVE  GroupEffect
      <3>1. CASE RelaunchSpawns(r)
        BY <3>1 DEF RelaunchSpawns, GroupEffect
      <3>2. CASE RelaunchFails(r)
        <4>1. CASE UNCHANGED groupVars
          BY <4>1 DEF GroupEffect
        <4>2. QED
          BY <3>2, <4>1, RelaunchFailedGroupEffect DEF RelaunchFails
      <3>3. CASE r = "observer" /\ LauncherRefuses
        BY <3>3, RelaunchFailedGroupEffect DEF LauncherRefuses
      <3>4. QED
        BY <2>7, <3>1, <3>2, <3>3 DEF RelaunchEnds
    <2>8. QED
      BY <1>2, <2>1, <2>2, <2>3, <2>4, <2>5, <2>6, <2>7 DEF ServerStep
  <1>3. CASE OutsideStep
    <2>1. CASE SpawnPrimary \/ SpawnObserver \/ SpawnObserverFails
      BY <2>1 DEF SpawnPrimary, SpawnObserver, SpawnObserverFails, Transition, GroupEffect,
                  TypeOK, Roles
    <2>2. CASE EscalateToDegraded
      BY <2>2 DEF EscalateToDegraded, GroupEffect
    <2>3. CASE Autoheal \/ IdleKill
      BY <2>3 DEF Autoheal, IdleKill, GroupEffect
    <2>4. CASE ServerCrash \/ GracefulRestart
      BY <2>4, RebootGroupEffect DEF Rebooting
    <2>5. ASSUME NEW r \in Roles, Crash(r)
          PROVE  GroupEffect
      BY <2>5, ExitGroupEffect DEF Crash
    <2>6. ASSUME NEW r \in Roles, Handshake(r)
          PROVE  GroupEffect
      BY <2>6, HandshakeGroupEffect
    <2>7. ASSUME NEW r \in Roles,
                 \/ RelaunchNeeded(r) \/ StopSession(r) \/ UserMessage(r)
                 \/ ManualRelaunch(r) \/ Unarchive(r) \/ DeleteSession(r)
          PROVE  GroupEffect
      BY <2>7 DEF RelaunchNeeded, StopSession, UserMessage, ManualRelaunch, Unarchive,
                  DeleteSession, GroupEffect
    <2>8. ASSUME NEW r \in Roles, ArchiveSession(r)
          PROVE  GroupEffect
      BY <2>8 DEF ArchiveSession, Transition, GroupEffect
    <2>9. QED
      BY <1>3, <2>1, <2>2, <2>3, <2>4, <2>5, <2>6, <2>7, <2>8 DEF OutsideStep
  <1>4. QED
    BY <1>1, <1>2, <1>3 DEF Next

(* A reconnecting pair always has the window that resolves it, and a window*)
(* is armed on no other pair than a reconnecting or a degraded one.        *)
THEOREM WindowCorrect == Spec => []WindowMatchesStatus
  <1>1. Init => WindowMatchesStatus
    BY DEF Init, WindowMatchesStatus
  <1>2. TypeOK /\ WindowMatchesStatus /\ [Next]_vars => WindowMatchesStatus'
    BY GroupSteps DEF GroupEffect, WindowMatchesStatus, Transition, Tracked, Roles, groupVars
  <1>3. QED
    BY <1>1, <1>2, TypeCorrect, PTL DEF Spec

(* An archived group is never revived, and only the handshake of the half  *)
(* that was lost ends a reconnection well.                                 *)
THEOREM RevivalCorrect == Spec => RevivalIsEarned
  <1>1. TypeOK /\ [Next]_vars =>
          [~Rebooting =>
             /\ status = "archived" => status' = "archived"
             /\ status = "reconnecting" /\ status' = "active" => cli'[window] = "up"]_vars
    BY GroupSteps DEF GroupEffect, Transition, Tracked, groupVars
  <1>2. QED
    BY <1>1, TypeCorrect, PTL DEF Spec, RevivalIsEarned

-----------------------------------------------------------------------------
(* Refinement: each step of the pair is a step of PairLifecycle, or one    *)
(* that its readers do not see.                                            *)
LEMMA PairStep ==
    ASSUME TypeOK, WindowMatchesStatus, [Next]_vars
    PROVE  [Pair!Next]_(Pair!vars)
  <1>1. GroupEffect
    BY GroupSteps
  <1> USE DEF Pair!vars, Pair!Next, Pair!Create, Pair!Ready, Pair!Abandon, Pair!Await,
              Pair!Return, Pair!GiveUp, Pair!Degrade, Pair!Respawn, Pair!Archive,
              Pair!Reload, Pair!Roles, Pair!Live, Roles, Tracked, Transition,
              WindowMatchesStatus, groupVars
  <1>2. QED
    BY <1>1 DEF GroupEffect

(* The promise of PairLifecycle, without its fairness, holds of the pair.  *)
THEOREM PairSafety == Spec => Pair!Init /\ [][Pair!Next]_(Pair!vars)
  <1>1. Init => Pair!Init
    BY DEF Init, Pair!Init
  <1>2. QED
    BY <1>1, PairStep, TypeCorrect, WindowCorrect, PTL DEF Spec

-----------------------------------------------------------------------------
(* Claims, marks and stops. The four invariants hold each other up: a mark *)
(* released at the end of a flight is nobody else's because only one       *)
(* flight runs, and a spent budget stays unclaimed because only a claimed  *)
(* half can spend it.                                                      *)
RelaunchInv ==
    /\ SingleFlight
    /\ TransientMarkIsOwned
    /\ StoppedIsLeftAlone
    /\ ExhaustedIsUnclaimed

(* An exit leaves the marks alone or makes both durable, and arms a timer  *)
(* only for a half that carries no mark.                                   *)
LEMMA ExitEffect ==
    ASSUME TypeOK, NEW r \in Roles, Exit(r)
    PROVE  /\ mark' \in {mark, Durable}
           /\ \A x \in Roles : timer'[x] # timer[x] => mark[x] = "none"
  <1>1. mark' \in {mark, Durable}
    BY DEF Exit, CouncilHearsExit, ExitIsIgnored, ExitAfterExhaustion, ExitOfSecondHalf,
           ExitArmsReconnect, ExitWhileArmed
  <1>2. \A x \in Roles : timer'[x] # timer[x] => mark[x] = "none"
    BY DEF Exit, KeepaliveHearsExit, TypeOK
  <1>3. QED
    BY <1>1, <1>2

LEMMA ExitRelaunchInv ==
    ASSUME TypeOK, RelaunchInv, NEW r \in Roles, Exit(r),
           UNCHANGED <<claim, direct, stopped>>,
           \A x \in Roles : exhausted'[x] => exhausted[x]
    PROVE  RelaunchInv'
  <1>1. /\ mark' \in {mark, Durable}
        /\ \A x \in Roles : timer'[x] # timer[x] => mark[x] = "none"
    BY ExitEffect
  <1>2. SingleFlight' /\ ExhaustedIsUnclaimed'
    BY DEF RelaunchInv, SingleFlight, ExhaustedIsUnclaimed
  <1>3. TransientMarkIsOwned'
    BY <1>1 DEF RelaunchInv, TransientMarkIsOwned, Durable, InFlight
  <1>4. StoppedIsLeftAlone'
    BY <1>1 DEF RelaunchInv, StoppedIsLeftAlone, Durable
  <1>5. QED
    BY <1>2, <1>3, <1>4 DEF RelaunchInv

(* Claiming touches free halves with a budget only. *)
Claimed(x, c) ==
    \/ c[x] = claim[x]
    \/ claim[x] = "free" /\ c[x] = "grace" /\ ~exhausted[x]

LEMMA ClaimsEffect ==
    ASSUME TypeOK, NEW S
    PROVE  \A x \in Roles : Claimed(x, ClaimsFor(S))
  BY DEF ClaimsFor, Claimed, TypeOK

LEMMA ClaimsIfRunningEffect ==
    ASSUME TypeOK, NEW r \in Roles
    PROVE  \A x \in Roles : Claimed(x, claim) /\ Claimed(x, ClaimsIfRunning(r))
  <1> DEFINE S == {x \in {r} : ~stopped[x]}
  <1>1. \A x \in Roles : Claimed(x, ClaimsFor(S))
    BY ClaimsEffect
  <1>2. QED
    BY <1>1 DEF ClaimsIfRunning, Claimed

LEMMA ServerRelaunchStep ==
    ASSUME TypeOK, RelaunchInv, ServerStep
    PROVE  RelaunchInv'
  <1> USE DEF groupVars, relaunchVars, userVars
  <1>1. CASE WindowExpires
    BY <1>1 DEF WindowExpires, RelaunchInv, SingleFlight, TransientMarkIsOwned,
                StoppedIsLeftAlone, ExhaustedIsUnclaimed, InFlight
  <1>2. CASE KillOne
    <2>1. NextToKill \in Roles
      BY DEF NextToKill, Roles
    <2>2. /\ UNCHANGED <<claim, direct, stopped>>
          /\ \A x \in Roles : exhausted'[x] => exhausted[x]
      BY <1>2, <2>1 DEF KillOne, TypeOK
    <2>3. CASE Exit(NextToKill)
      BY <2>1, <2>2, <2>3, ExitRelaunchInv
    <2>4. CASE UNCHANGED <<mark, timer>>
      BY <2>2, <2>4 DEF RelaunchInv, SingleFlight, TransientMarkIsOwned,
                        StoppedIsLeftAlone, ExhaustedIsUnclaimed, InFlight
    <2>5. QED
      BY <1>2, <2>3, <2>4 DEF KillOne
  <1>3. CASE DeleteForgets
    <2>1. NextToKill \in Roles
      BY DEF NextToKill, Roles
    <2>2. QED
      BY <1>3, <2>1 DEF DeleteForgets, TypeOK, RelaunchInv, SingleFlight,
             TransientMarkIsOwned, StoppedIsLeftAlone, ExhaustedIsUnclaimed, InFlight
  <1>4. ASSUME NEW r \in Roles, KeepaliveFires(r) \/ BootResumeFires(r)
        PROVE  RelaunchInv'
    <2>1. \A x \in Roles : Claimed(x, claim')
      <3>1. claim' \in {claim, ClaimsIfRunning(r)}
        BY <1>4 DEF KeepaliveFires, BootResumeFires
      <3>2. QED
        BY <3>1, ClaimsIfRunningEffect
    <2>2. \A x \in Roles : timer'[x] \in {timer[x], "none"}
      BY <1>4 DEF KeepaliveFires, BootResumeFires, TypeOK
    <2>3. UNCHANGED <<mark, direct, exhausted, stopped>>
      BY <1>4 DEF KeepaliveFires, BootResumeFires
    <2>4. QED
      BY <2>1, <2>2, <2>3 DEF Claimed, RelaunchInv, SingleFlight, TransientMarkIsOwned,
             StoppedIsLeftAlone, ExhaustedIsUnclaimed, InFlight
  <1>5. ASSUME NEW r \in Roles, GraceEnds(r)
        PROVE  RelaunchInv'
    <2>1. CASE GraceSkips(r)
      BY <2>1 DEF GraceSkips, TypeOK, RelaunchInv, SingleFlight, TransientMarkIsOwned,
             StoppedIsLeftAlone, ExhaustedIsUnclaimed, InFlight
    <2>2. CASE GraceExhausts(r)
      <3>1. mark' \in {mark, Durable}
        BY <2>2 DEF GraceExhausts, CouncilHearsRelaunchFailed
      <3>2. QED
        BY <2>2, <3>1 DEF GraceExhausts, MayRelaunch, Durable, TypeOK, RelaunchInv,
               SingleFlight, TransientMarkIsOwned, StoppedIsLeftAlone,
               ExhaustedIsUnclaimed, InFlight
    <2>3. CASE GraceRelaunches(r)
      <3>1. claim[r] = "grace" /\ direct[r] # "running"
        BY <2>3 DEF GraceRelaunches, MayRelaunch
      <3>2. QED
        BY <2>3, <3>1 DEF GraceRelaunches, WithTransient, TypeOK, RelaunchInv,
               SingleFlight, TransientMarkIsOwned, StoppedIsLeftAlone,
               ExhaustedIsUnclaimed, InFlight
    <2>4. QED
      BY <1>5, <2>1, <2>2, <2>3 DEF GraceEnds
  <1>6. ASSUME NEW r \in Roles, RelaunchKills(r)
        PROVE  RelaunchInv'
    BY <1>6, ExitRelaunchInv DEF RelaunchKills
  <1>7. ASSUME NEW r \in Roles, RelaunchEnds(r)
        PROVE  RelaunchInv'
    <2>1. FlightEnds(r) /\ UNCHANGED <<timer, stopped>>
      BY <1>7 DEF RelaunchEnds, RelaunchSpawns, RelaunchFails, LauncherRefuses
    <2>2. mark' \in {MarksAfterFlight(r), Durable}
      BY <1>7 DEF RelaunchEnds, RelaunchSpawns, RelaunchFails, LauncherRefuses,
                  CouncilHearsRelaunchFailed
    <2>3. \A x \in Roles : exhausted'[x] => exhausted[x]
      BY <1>7 DEF RelaunchEnds, RelaunchSpawns, RelaunchFails, LauncherRefuses, TypeOK
    <2>4. SingleFlight'
      BY <2>1 DEF FlightEnds, InFlight, TypeOK, RelaunchInv, SingleFlight
    <2>5. TransientMarkIsOwned'
      <3>1. CASE mark' = Durable
        BY <3>1 DEF TransientMarkIsOwned, Durable
      <3>2. CASE mark' = MarksAfterFlight(r)
        <4>1. \A x \in Roles \ {r} : mark'[x] = mark[x] /\ (InFlight(x) => InFlight(x)')
          BY <2>1, <3>2 DEF FlightEnds, MarksAfterFlight, WithTransient, InFlight, TypeOK
        <4>2. mark'[r] = "transient" => InFlight(r)'
          BY <2>1, <3>2 DEF FlightEnds, MarksAfterFlight, WithTransient, InFlight, TypeOK
        <4>3. QED
          BY <4>1, <4>2 DEF RelaunchInv, TransientMarkIsOwned
      <3>3. QED
        BY <2>2, <3>1, <3>2
    <2>6. StoppedIsLeftAlone'
      BY <2>1, <2>2 DEF MarksAfterFlight, WithTransient, Durable, TypeOK, RelaunchInv,
                        StoppedIsLeftAlone
    <2>7. ExhaustedIsUnclaimed'
      BY <2>1, <2>3 DEF FlightEnds, TypeOK, RelaunchInv, ExhaustedIsUnclaimed
    <2>8. QED
      BY <2>4, <2>5, <2>6, <2>7 DEF RelaunchInv
  <1>8. ASSUME NEW r \in Roles, CooldownEnds(r)
        PROVE  RelaunchInv'
    BY <1>8 DEF CooldownEnds, TypeOK, RelaunchInv, SingleFlight, TransientMarkIsOwned,
           StoppedIsLeftAlone, ExhaustedIsUnclaimed, InFlight
  <1>9. ASSUME NEW r \in Roles, RelaunchSpawnsArchived(r)
        PROVE  RelaunchInv'
    BY <1>9 DEF RelaunchSpawnsArchived, RelaunchInv, SingleFlight, TransientMarkIsOwned,
           StoppedIsLeftAlone, ExhaustedIsUnclaimed, InFlight
  <1>10. QED
    BY <1>1, <1>2, <1>3, <1>4, <1>5, <1>6, <1>7, <1>8, <1>9 DEF ServerStep

LEMMA OutsideRelaunchStep ==
    ASSUME TypeOK, RelaunchInv, OutsideStep
    PROVE  RelaunchInv'
  <1> USE DEF groupVars, relaunchVars, userVars
  <1>1. CASE UNCHANGED <<mark, timer, claim, direct, exhausted, stopped>>
    BY <1>1 DEF RelaunchInv, SingleFlight, TransientMarkIsOwned, StoppedIsLeftAlone,
                ExhaustedIsUnclaimed, InFlight
  <1>2. CASE SpawnPrimary \/ SpawnObserver \/ SpawnObserverFails \/ EscalateToDegraded
    BY <1>1, <1>2 DEF SpawnPrimary, SpawnObserver, SpawnObserverFails, EscalateToDegraded
  <1>3. CASE Autoheal
    BY <1>3 DEF Autoheal, WithTransient, TypeOK, RelaunchInv, SingleFlight,
           TransientMarkIsOwned, StoppedIsLeftAlone, ExhaustedIsUnclaimed, InFlight
  <1>4. CASE IdleKill
    BY <1>4 DEF IdleKill, TypeOK, RelaunchInv, SingleFlight, TransientMarkIsOwned,
           StoppedIsLeftAlone, ExhaustedIsUnclaimed, InFlight
  <1>5. CASE ServerCrash \/ GracefulRestart
    BY <1>5 DEF ServerCrash, GracefulRestart, Reboot, RelaunchInv, SingleFlight,
           TransientMarkIsOwned, StoppedIsLeftAlone, ExhaustedIsUnclaimed
  <1>6. ASSUME NEW r \in Roles, Crash(r)
        PROVE  RelaunchInv'
    BY <1>6, ExitRelaunchInv DEF Crash
  <1>7. ASSUME NEW r \in Roles, Handshake(r) \/ Unarchive(r)
        PROVE  RelaunchInv'
    BY <1>1, <1>7 DEF Handshake, Unarchive
  <1>8. ASSUME NEW r \in Roles, RelaunchNeeded(r)
        PROVE  RelaunchInv'
    <2>1. \A x \in Roles : Claimed(x, claim')
      BY <1>8, ClaimsIfRunningEffect DEF RelaunchNeeded
    <2>2. UNCHANGED <<mark, timer, direct, exhausted, stopped>>
      BY <1>8 DEF RelaunchNeeded
    <2>3. QED
      BY <2>1, <2>2 DEF Claimed, RelaunchInv, SingleFlight, TransientMarkIsOwned,
             StoppedIsLeftAlone, ExhaustedIsUnclaimed, InFlight
  <1>9. ASSUME NEW r \in Roles, StopSession(r)
        PROVE  RelaunchInv'
    BY <1>9 DEF StopSession, TypeOK, RelaunchInv, SingleFlight, TransientMarkIsOwned,
           StoppedIsLeftAlone, ExhaustedIsUnclaimed, InFlight
  <1>10. ASSUME NEW r \in Roles, UserMessage(r)
         PROVE  RelaunchInv'
    <2>1. \A x \in Roles : Claimed(x, claim')
      BY <1>10, ClaimsEffect DEF UserMessage
    <2>2. UNCHANGED <<timer, direct, exhausted>>
      BY <1>10 DEF UserMessage
    <2>3. \A x \in Roles : mark'[x] = mark[x] \/ (mark'[x] = "none" /\ ~stopped'[x])
      BY <1>10 DEF UserMessage, MarksAfterResume
    <2>4. \A x \in Roles : stopped'[x] => stopped[x]
      BY <1>10 DEF UserMessage
    <2>5. QED
      BY <2>1, <2>2, <2>3, <2>4 DEF Claimed, RelaunchInv, SingleFlight, TransientMarkIsOwned,
             StoppedIsLeftAlone, ExhaustedIsUnclaimed, InFlight
  <1>11. ASSUME NEW r \in Roles, ManualRelaunch(r)
         PROVE  RelaunchInv'
    <2>1. \A x \in Roles : Claimed(x, claim')
      BY <1>11, ClaimsEffect DEF ManualRelaunch
    <2>2. UNCHANGED timer /\ direct[r] = "none"
      BY <1>11 DEF ManualRelaunch
    <2>3. \A x \in Roles : (exhausted'[x] => exhausted[x]) /\ (stopped'[x] => stopped[x])
      BY <1>11 DEF ManualRelaunch, TypeOK
    <2>4. \A x \in Roles : direct'[x] = direct[x] \/ x = r
      BY <1>11 DEF ManualRelaunch, TypeOK
    <2>5. direct'[r] = IF InFlight(r) THEN "queued" ELSE "running"
      BY <1>11 DEF ManualRelaunch, TypeOK
    <2>6. \A x \in Roles :
             \/ mark'[x] = mark[x]
             \/ mark'[x] = "none" /\ ~stopped'[x]
             \/ mark'[x] = "transient" /\ ~InFlight(x) /\ x = r /\ ~stopped'[x]
      <3> DEFINE m == MarksAfterResume(r)
      <3>1. \A x \in Roles : m[x] = mark[x] \/ (m[x] = "none" /\ ~stopped'[x])
        BY <1>11 DEF ManualRelaunch, MarksAfterResume
      <3>2. \A x \in Roles : mark[x] = "none" => ~stopped'[x]
        BY <2>3 DEF RelaunchInv, StoppedIsLeftAlone
      <3>3. m \in [Roles -> {"none", "transient", "durable"}]
        BY DEF MarksAfterResume, TypeOK
      <3>4. CASE InFlight(r)
        <4>1. mark' = m
          BY <1>11, <3>4 DEF ManualRelaunch
        <4> HIDE DEF m
        <4>2. QED
          BY <3>1, <4>1
      <3>5. CASE ~InFlight(r)
        <4>1. mark' = [m EXCEPT ![r] = IF @ = "none" THEN "transient" ELSE @]
          BY <1>11, <3>5 DEF ManualRelaunch, WithTransient
        <4> HIDE DEF m
        <4>2. \A x \in Roles \ {r} : mark'[x] = m[x]
          BY <3>3, <4>1
        <4>3. mark'[r] = IF m[r] = "none" THEN "transient" ELSE m[r]
          BY <3>3, <4>1
        <4>4. ~stopped'[r] \/ m[r] # "none"
          BY <3>1, <3>2
        <4>5. QED
          BY <3>1, <3>5, <4>2, <4>3, <4>4
      <3>6. QED
        BY <3>4, <3>5
    <2>7. SingleFlight' /\ ExhaustedIsUnclaimed'
      BY <2>1, <2>2, <2>3, <2>4, <2>5 DEF Claimed, RelaunchInv, SingleFlight, ExhaustedIsUnclaimed,
             InFlight
    <2>8. TransientMarkIsOwned'
      BY <2>1, <2>2, <2>4, <2>5, <2>6 DEF Claimed, RelaunchInv, TransientMarkIsOwned, InFlight
    <2>9. StoppedIsLeftAlone'
      BY <2>2, <2>3, <2>6 DEF RelaunchInv, StoppedIsLeftAlone
    <2>10. QED
      BY <2>7, <2>8, <2>9 DEF RelaunchInv
  <1>12. ASSUME NEW r \in Roles, ArchiveSession(r)
         PROVE  RelaunchInv'
    BY <1>12 DEF ArchiveSession, TypeOK, RelaunchInv, SingleFlight, TransientMarkIsOwned,
           StoppedIsLeftAlone, ExhaustedIsUnclaimed, InFlight
  <1>13. ASSUME NEW r \in Roles, DeleteSession(r)
         PROVE  RelaunchInv'
    BY <1>13 DEF DeleteSession, TypeOK, RelaunchInv, SingleFlight, TransientMarkIsOwned,
           StoppedIsLeftAlone, ExhaustedIsUnclaimed, InFlight
  <1>14. QED
    BY <1>2, <1>3, <1>4, <1>5, <1>6, <1>7, <1>8, <1>9, <1>10, <1>11, <1>12, <1>13
       DEF OutsideStep

(* The four invariants together, then each of them. *)
LEMMA RelaunchInvariant == Spec => []RelaunchInv
  <1>1. Init => RelaunchInv
    BY DEF Init, RelaunchInv, SingleFlight, TransientMarkIsOwned, StoppedIsLeftAlone,
           ExhaustedIsUnclaimed
  <1>2. TypeOK /\ RelaunchInv /\ [Next]_vars => RelaunchInv'
    <2>1. RelaunchInv /\ UNCHANGED vars => RelaunchInv'
      BY DEF vars, RelaunchInv, SingleFlight, TransientMarkIsOwned, StoppedIsLeftAlone,
             ExhaustedIsUnclaimed, InFlight
    <2>2. QED
      BY <2>1, ServerRelaunchStep, OutsideRelaunchStep DEF Next
  <1>3. QED
    BY <1>1, <1>2, TypeCorrect, PTL DEF Spec

(* At most one relaunch of a half runs at a time.                          *)
THEOREM OneFlight == Spec => []SingleFlight
  BY RelaunchInvariant, PTL DEF RelaunchInv

(* No relaunch leaves its own mark behind.                                 *)
THEOREM TransientMarksEnd == Spec => []TransientMarkIsOwned
  BY RelaunchInvariant, PTL DEF RelaunchInv

(* A half the user stopped keeps its mark and has no timer pending.        *)
THEOREM StopsLast == Spec => []StoppedIsLeftAlone
  BY RelaunchInvariant, PTL DEF RelaunchInv

(* A half that spent its budget is never claimed again until it is cleared.*)
THEOREM BudgetHolds == Spec => []ExhaustedIsUnclaimed
  BY RelaunchInvariant, PTL DEF RelaunchInv

-----------------------------------------------------------------------------
(* Marks under a running relaunch, and stops against claims.               *)
KeepsItsMark(x) ==
    InFlight(x) /\ mark[x] # "none" /\ InFlight(x)'
        => mark'[x] # "none" \/ (stopped[x] /\ ~stopped'[x])

WinsOverGrace(x) ==
    stopped[x] /\ stopped'[x] /\ claim'[x] \in {"grace", "flight"}
        => claim'[x] = claim[x]

LEMMA ExitKeepsMarks ==
    ASSUME TypeOK, NEW r \in Roles, Exit(r), UNCHANGED claim
    PROVE  \A x \in Roles : KeepsItsMark(x) /\ WinsOverGrace(x)
  <1>1. mark' \in {mark, Durable}
    BY ExitEffect
  <1>2. QED
    BY <1>1 DEF KeepsItsMark, WinsOverGrace, Durable

(* No step of the server takes a mark from a running relaunch, or starts   *)
(* one for a half that stays stopped.                                      *)
LEMMA ServerMarkStep ==
    ASSUME TypeOK, ServerStep
    PROVE  \A x \in Roles : KeepsItsMark(x) /\ WinsOverGrace(x)
  <1> USE DEF groupVars, relaunchVars, userVars
  <1>1. CASE UNCHANGED <<mark, claim>>
    BY <1>1 DEF KeepsItsMark, WinsOverGrace
  <1>2. CASE WindowExpires
    BY <1>1, <1>2 DEF WindowExpires
  <1>3. CASE KillOne
    <2>1. NextToKill \in Roles
      BY DEF NextToKill, Roles
    <2>2. QED
      BY <1>1, <1>3, <2>1, ExitKeepsMarks DEF KillOne
  <1>4. CASE DeleteForgets
    <2>1. NextToKill \in Roles
      BY DEF NextToKill, Roles
    <2>2. QED
      BY <1>4, <2>1 DEF DeleteForgets, TypeOK, KeepsItsMark, WinsOverGrace, InFlight
  <1>5. ASSUME NEW r \in Roles, KeepaliveFires(r) \/ BootResumeFires(r)
        PROVE  \A x \in Roles : KeepsItsMark(x) /\ WinsOverGrace(x)
    BY <1>5 DEF KeepaliveFires, BootResumeFires, ClaimsIfRunning, ClaimsFor,
                KeepsItsMark, WinsOverGrace
  <1>6. ASSUME NEW r \in Roles, GraceEnds(r)
        PROVE  \A x \in Roles : KeepsItsMark(x) /\ WinsOverGrace(x)
    <2>1. CASE GraceSkips(r)
      BY <2>1 DEF GraceSkips, TypeOK, KeepsItsMark, WinsOverGrace
    <2>2. CASE GraceExhausts(r)
      <3>1. mark' \in {mark, Durable}
        BY <2>2 DEF GraceExhausts, CouncilHearsRelaunchFailed
      <3>2. QED
        BY <2>2, <3>1 DEF GraceExhausts, TypeOK, Durable, KeepsItsMark, WinsOverGrace
    <2>3. CASE GraceRelaunches(r)
      BY <2>3 DEF GraceRelaunches, MayRelaunch, WithTransient, TypeOK, KeepsItsMark,
             WinsOverGrace
    <2>4. QED
      BY <1>6, <2>1, <2>2, <2>3 DEF GraceEnds
  <1>7. ASSUME NEW r \in Roles, RelaunchKills(r)
        PROVE  \A x \in Roles : KeepsItsMark(x) /\ WinsOverGrace(x)
    BY <1>7, ExitKeepsMarks DEF RelaunchKills
  <1>8. ASSUME NEW r \in Roles, RelaunchEnds(r)
        PROVE  \A x \in Roles : KeepsItsMark(x) /\ WinsOverGrace(x)
    <2>1. FlightEnds(r)
      BY <1>8 DEF RelaunchEnds, RelaunchSpawns, RelaunchFails, LauncherRefuses
    <2>2. mark' \in {MarksAfterFlight(r), Durable}
      BY <1>8 DEF RelaunchEnds, RelaunchSpawns, RelaunchFails, LauncherRefuses,
                  CouncilHearsRelaunchFailed
    <2>3. \A x \in Roles : WinsOverGrace(x)
      BY <2>1 DEF FlightEnds, TypeOK, WinsOverGrace
    <2>4. CASE mark' = Durable
      BY <2>3, <2>4 DEF Durable, KeepsItsMark
    <2>5. CASE mark' = MarksAfterFlight(r)
      <3>1. \A x \in Roles \ {r} : mark'[x] = mark[x]
        BY <2>5 DEF MarksAfterFlight, WithTransient, TypeOK
      <3>2. mark'[r] = "none" => ~InFlight(r)'
        BY <2>1, <2>5 DEF FlightEnds, MarksAfterFlight, WithTransient, InFlight, TypeOK
      <3>3. QED
        BY <2>3, <3>1, <3>2 DEF KeepsItsMark
    <2>6. QED
      BY <2>2, <2>4, <2>5
  <1>9. ASSUME NEW r \in Roles, CooldownEnds(r)
        PROVE  \A x \in Roles : KeepsItsMark(x) /\ WinsOverGrace(x)
    BY <1>9 DEF CooldownEnds, TypeOK, KeepsItsMark, WinsOverGrace
  <1>10. ASSUME NEW r \in Roles, RelaunchSpawnsArchived(r)
         PROVE  \A x \in Roles : KeepsItsMark(x) /\ WinsOverGrace(x)
    BY <1>1, <1>10 DEF RelaunchSpawnsArchived
  <1>11. QED
    BY <1>2, <1>3, <1>4, <1>5, <1>6, <1>7, <1>8, <1>9, <1>10 DEF ServerStep

(* Outside it, only a user who resumes a stopped pair takes marks away.    *)
LEMMA OutsideMarkStep ==
    ASSUME TypeOK, OutsideStep
    PROVE  \A x \in Roles : KeepsItsMark(x) /\ WinsOverGrace(x)
  <1> USE DEF groupVars, relaunchVars, userVars
  <1>1. CASE /\ UNCHANGED claim
             /\ \A x \in Roles : mark'[x] \in {mark[x], "durable"}
    BY <1>1 DEF KeepsItsMark, WinsOverGrace
  <1>2. CASE SpawnPrimary \/ SpawnObserver \/ SpawnObserverFails \/ EscalateToDegraded
    BY <1>1, <1>2 DEF SpawnPrimary, SpawnObserver, SpawnObserverFails, EscalateToDegraded
  <1>3. CASE Autoheal
    BY <1>3 DEF Autoheal, WithTransient, TypeOK, KeepsItsMark, WinsOverGrace
  <1>4. CASE IdleKill
    BY <1>1, <1>4 DEF IdleKill, TypeOK
  <1>5. CASE ServerCrash \/ GracefulRestart
    BY <1>5 DEF ServerCrash, GracefulRestart, Reboot, KeepsItsMark, WinsOverGrace, InFlight
  <1>6. ASSUME NEW r \in Roles, Crash(r)
        PROVE  \A x \in Roles : KeepsItsMark(x) /\ WinsOverGrace(x)
    BY <1>6, ExitKeepsMarks DEF Crash
  <1>7. ASSUME NEW r \in Roles, Handshake(r) \/ Unarchive(r)
        PROVE  \A x \in Roles : KeepsItsMark(x) /\ WinsOverGrace(x)
    BY <1>1, <1>7 DEF Handshake, Unarchive
  <1>8. ASSUME NEW r \in Roles, RelaunchNeeded(r)
        PROVE  \A x \in Roles : KeepsItsMark(x) /\ WinsOverGrace(x)
    BY <1>8 DEF RelaunchNeeded, ClaimsIfRunning, ClaimsFor, KeepsItsMark, WinsOverGrace
  <1>9. ASSUME NEW r \in Roles, StopSession(r) \/ ArchiveSession(r) \/ DeleteSession(r)
        PROVE  \A x \in Roles : KeepsItsMark(x) /\ WinsOverGrace(x)
    BY <1>1, <1>9 DEF StopSession, ArchiveSession, DeleteSession, TypeOK
  <1>10. ASSUME NEW r \in Roles, UserMessage(r) \/ ManualRelaunch(r)
         PROVE  \A x \in Roles : KeepsItsMark(x) /\ WinsOverGrace(x)
    <2> DEFINE m == MarksAfterResume(r)
    <2>1. \A x \in Roles : stopped'[x] = (stopped[x] /\ x \notin Resumed(r))
      BY <1>10 DEF UserMessage, ManualRelaunch
    <2>2. claim' \in {ClaimsFor(Resumed(r)), ClaimsFor(Resumed(r) \ {r})}
      BY <1>10 DEF UserMessage, ManualRelaunch
    <2>3. \A x \in Roles : x \in Resumed(r) => stopped[x]
      BY DEF Resumed
    <2>4. \A x \in Roles : WinsOverGrace(x)
      BY <2>1, <2>2 DEF ClaimsFor, WinsOverGrace
    <2>5. /\ m \in [Roles -> {"none", "transient", "durable"}]
          /\ \A x \in Roles : m[x] = mark[x] \/ x \in Resumed(r)
      BY DEF MarksAfterResume, TypeOK
    <2>6. mark' \in {m, WithTransient(m, r)}
      BY <1>10 DEF UserMessage, ManualRelaunch
    <2> HIDE DEF m
    <2>7. \A x \in Roles : mark'[x] = "none" => m[x] = "none"
      BY <2>5, <2>6 DEF WithTransient
    <2>8. QED
      BY <2>1, <2>3, <2>4, <2>5, <2>7 DEF KeepsItsMark
  <1>11. QED
    BY <1>2, <1>3, <1>4, <1>5, <1>6, <1>7, <1>8, <1>9, <1>10 DEF OutsideStep

LEMMA MarkSteps ==
    ASSUME TypeOK, [Next]_vars
    PROVE  \A x \in Roles : KeepsItsMark(x) /\ WinsOverGrace(x)
  <1>1. CASE UNCHANGED vars
    BY <1>1 DEF vars, KeepsItsMark, WinsOverGrace
  <1>2. QED
    BY <1>1, ServerMarkStep, OutsideMarkStep DEF Next

(* The exit of the process a relaunch kills stays hidden from the pair.    *)
THEOREM FlightsKeepMarks == Spec => FlightKeepsItsMark
  <1>1. TypeOK /\ [Next]_vars
          => [\A r \in Roles : InFlight(r) /\ mark[r] # "none" /\ InFlight(r)'
                => mark'[r] # "none" \/ (stopped[r] /\ ~stopped'[r])]_vars
    BY MarkSteps DEF KeepsItsMark
  <1>2. QED
    BY <1>1, TypeCorrect, PTL DEF Spec, FlightKeepsItsMark

(* A stop wins over a claim that is still in its grace pause.              *)
THEOREM StopsWin == Spec => StopWinsOverGrace
  <1>1. TypeOK /\ [Next]_vars
          => [\A r \in Roles : stopped[r] /\ stopped'[r] /\ claim'[r] \in {"grace", "flight"}
                => claim'[r] = claim[r]]_vars
    BY MarkSteps DEF WinsOverGrace
  <1>2. QED
    BY <1>1, TypeCorrect, PTL DEF Spec, StopWinsOverGrace

-----------------------------------------------------------------------------
(* Archived rows. A flag is only ever on a row that exists, the observer   *)
(* has no row before it is spawned, and a kill is owed by a flight only.   *)
RowInv ==
    /\ \A r \in Roles : archived[r] => cli[r] # "gone"
    /\ status = "pairing" => cli["observer"] = "gone"
    /\ \A r \in Roles : doomed[r] => InFlight(r)

(* What a step may do to the row of x: rows are not made but by the two    *)
(* spawns, a flag needs a row, an archived row gets a process from a       *)
(* relaunch that owes its kill, and the debt ends with the process.        *)
RowIsMade(x) ==
    \/ status = "none" /\ status' = "pairing" /\ x = "orchestrator"
    \/ status = "pairing" /\ status' = "active" /\ x = "observer"
SpawnIsOwed(x) ==
    archived[x] /\ ~Alive(x) /\ archived'[x] /\ Alive(x)' => InFlight(x)' /\ doomed'[x]
DebtIsPaid(x) ==
    doomed[x] /\ ~(InFlight(x)' /\ doomed'[x]) => ~Alive(x)' \/ Rebooting
RowEffect(x) ==
    /\ cli[x] = "gone" /\ cli'[x] # "gone" => RowIsMade(x)
    /\ archived'[x] => cli'[x] # "gone"
    /\ SpawnIsOwed(x)
    /\ DebtIsPaid(x)
    /\ doomed'[x] => InFlight(x)'

(* Most steps touch neither the rows nor the ends of a flight.             *)
LEMMA QuietRows ==
    ASSUME TypeOK, RowInv, UNCHANGED <<cli, archived, doomed>>,
           \A x \in Roles : doomed[x] => InFlight(x)'
    PROVE  \A x \in Roles : RowEffect(x)
  BY DEF RowInv, RowEffect, SpawnIsOwed, DebtIsPaid, Alive

(* A step that starts or takes no process in a flight keeps its debt.      *)
LEMMA FlightRows ==
    ASSUME TypeOK, RowInv, UNCHANGED <<claim, direct, doomed>>,
           \A x \in Roles : archived'[x] => cli'[x] # "gone",
           \A x \in Roles : cli[x] = "gone" /\ cli'[x] # "gone" => RowIsMade(x),
           \A x \in Roles : archived[x] /\ ~Alive(x) /\ archived'[x] => ~Alive(x)'
    PROVE  \A x \in Roles : RowEffect(x)
  <1>1. \A x \in Roles : InFlight(x)' = InFlight(x)
    BY DEF InFlight
  <1>2. QED
    BY <1>1 DEF RowInv, RowEffect, SpawnIsOwed, DebtIsPaid

LEMMA ExitRows ==
    ASSUME TypeOK, RowInv, NEW r \in Roles, Exit(r), UNCHANGED <<archived, claim, direct, doomed>>
    PROVE  \A x \in Roles : RowEffect(x)
  <1>1. \A x \in Roles : cli'[x] = cli[x] \/ (Alive(x) /\ cli'[x] = "down")
    BY DEF Exit, TypeOK
  <1>2. QED
    BY <1>1, FlightRows DEF RowInv, Alive

(* Claims are only added to, and a grace or a cooldown is no flight.       *)
LEMMA ClaimRows ==
    ASSUME TypeOK, RowInv, UNCHANGED <<cli, archived, direct, doomed>>,
           \A x \in Roles : claim[x] = "flight" => claim'[x] = "flight"
    PROVE  \A x \in Roles : RowEffect(x)
  BY QuietRows DEF RowInv, InFlight

LEMMA ServerRows ==
    ASSUME TypeOK, RowInv, ServerStep
    PROVE  \A x \in Roles : RowEffect(x)
  <1> USE DEF groupVars, relaunchVars, userVars
  <1>1. CASE WindowExpires
    BY <1>1, ClaimRows DEF WindowExpires
  <1>2. CASE KillOne
    <2>1. NextToKill \in Roles
      BY DEF NextToKill, Roles
    <2>2. \A x \in Roles : cli'[x] = cli[x] \/ (Alive(x) /\ cli'[x] = "down")
      BY <1>2, <2>1 DEF KillOne, Exit, TypeOK
    <2>3. \A x \in Roles : archived'[x] => archived[x] \/ cli[x] # "gone"
      BY <1>2 DEF KillOne, TypeOK
    <2>4. UNCHANGED <<claim, direct, doomed>>
      BY <1>2 DEF KillOne
    <2>5. QED
      BY <2>2, <2>3, <2>4, FlightRows DEF RowInv, Alive
  <1>3. CASE DeleteForgets
    <2>1. NextToKill \in Roles
      BY DEF NextToKill, Roles
    <2>2. \A x \in Roles \ {NextToKill} :
             /\ cli'[x] = cli[x] /\ archived'[x] = archived[x]
             /\ doomed'[x] = doomed[x] /\ claim'[x] = claim[x] /\ direct'[x] = direct[x]
      BY <1>3 DEF DeleteForgets, TypeOK
    <2>3. cli'[NextToKill] = "gone" /\ ~archived'[NextToKill] /\ ~doomed'[NextToKill]
      BY <1>3, <2>1 DEF DeleteForgets, TypeOK
    <2>4. QED
      BY <2>2, <2>3 DEF RowInv, RowEffect, SpawnIsOwed, DebtIsPaid, Alive, InFlight
  <1>4. ASSUME NEW r \in Roles, KeepaliveFires(r) \/ BootResumeFires(r)
        PROVE  \A x \in Roles : RowEffect(x)
    BY <1>4, ClaimRows DEF KeepaliveFires, BootResumeFires, ClaimsIfRunning, ClaimsFor
  <1>5. ASSUME NEW r \in Roles, GraceEnds(r) \/ CooldownEnds(r)
        PROVE  \A x \in Roles : RowEffect(x)
    <2>1. claim[r] # "flight"
      BY <1>5 DEF GraceEnds, GraceSkips, GraceExhausts, GraceRelaunches, MayRelaunch,
                  CooldownEnds
    <2>2. \A x \in Roles \ {r} : claim'[x] = claim[x]
      BY <1>5 DEF GraceEnds, GraceSkips, GraceExhausts, GraceRelaunches, CooldownEnds, TypeOK
    <2>3. UNCHANGED <<cli, archived, direct, doomed>>
      BY <1>5 DEF GraceEnds, GraceSkips, GraceExhausts, GraceRelaunches, CooldownEnds
    <2>4. QED
      BY <2>1, <2>2, <2>3, ClaimRows
  <1>6. ASSUME NEW r \in Roles, RelaunchKills(r)
        PROVE  \A x \in Roles : RowEffect(x)
    BY <1>6, ExitRows DEF RelaunchKills
  <1>7. ASSUME NEW r \in Roles, RelaunchEnds(r)
        PROVE  \A x \in Roles : RowEffect(x)
    <2>1. /\ FlightEnds(r)
          /\ UNCHANGED archived
      BY <1>7 DEF RelaunchEnds, RelaunchSpawns, RelaunchFails, LauncherRefuses
    <2>2. \A x \in Roles \ {r} :
             /\ claim'[x] = claim[x] /\ direct'[x] = direct[x] /\ doomed'[x] = doomed[x]
      BY <2>1 DEF FlightEnds, TypeOK
    <2>3. ~doomed'[r] /\ (doomed[r] => ~Alive(r))
      BY <2>1 DEF FlightEnds, TypeOK
    <2>4. \/ UNCHANGED cli
          \/ /\ cli[r] = "down" /\ ~doomed[r] /\ ~archived[r]
             /\ cli' = [cli EXCEPT ![r] = "starting"]
      BY <1>7 DEF RelaunchEnds, RelaunchSpawns, RelaunchFails, LauncherRefuses
    <2>5. \A x \in Roles \ {r} : cli'[x] = cli[x]
      BY <2>4 DEF TypeOK
    <2>6. \A x \in Roles \ {r} : RowEffect(x)
      BY <2>1, <2>2, <2>5 DEF RowInv, RowEffect, SpawnIsOwed, DebtIsPaid, Alive, InFlight
    <2>7. RowEffect(r)
      BY <2>1, <2>3, <2>4 DEF TypeOK, RowInv, RowEffect, SpawnIsOwed, DebtIsPaid, Alive
    <2>8. QED
      BY <2>6, <2>7
  <1>8. ASSUME NEW r \in Roles, RelaunchSpawnsArchived(r)
        PROVE  \A x \in Roles : RowEffect(x)
    <2>1. \A x \in Roles \ {r} : cli'[x] = cli[x] /\ doomed'[x] = doomed[x]
      BY <1>8 DEF RelaunchSpawnsArchived, TypeOK
    <2>2. /\ doomed'[r] /\ InFlight(r)
          /\ cli[r] = "down" /\ cli'[r] = "starting"
      BY <1>8 DEF RelaunchSpawnsArchived, TypeOK
    <2>3. UNCHANGED <<claim, direct, archived>>
      BY <1>8 DEF RelaunchSpawnsArchived
    <2>4. QED
      BY <2>1, <2>2, <2>3 DEF RowInv, RowEffect, SpawnIsOwed, DebtIsPaid, Alive, InFlight
  <1>9. QED
    BY <1>1, <1>2, <1>3, <1>4, <1>5, <1>6, <1>7, <1>8 DEF ServerStep

LEMMA OutsideRows ==
    ASSUME TypeOK, RowInv, OutsideStep
    PROVE  \A x \in Roles : RowEffect(x)
  <1> USE DEF groupVars, relaunchVars, userVars
  <1>1. CASE SpawnPrimary
    <2>1. /\ \A x \in Roles : cli[x] = "gone"
          /\ cli' = [cli EXCEPT !["orchestrator"] = "starting"]
          /\ status = "none" /\ status' = "pairing"
          /\ UNCHANGED <<claim, direct, doomed, archived>>
      BY <1>1 DEF SpawnPrimary
    <2>2. QED
      BY <2>1, FlightRows DEF RowInv, RowIsMade, TypeOK
  <1>2. CASE SpawnObserver
    <2>1. /\ status = "pairing" /\ status' = "active"
          /\ cli' = [cli EXCEPT !["observer"] = "starting"]
          /\ UNCHANGED <<claim, direct, doomed, archived>>
      BY <1>2 DEF SpawnObserver, Transition
    <2>2. \A x \in Roles \ {"observer"} : cli'[x] = cli[x]
      BY <2>1 DEF TypeOK
    <2>3. ~archived["observer"]
      BY <2>1 DEF RowInv, Roles
    <2>4. QED
      BY <2>1, <2>2, <2>3, FlightRows DEF RowInv, RowIsMade, Alive
  <1>3. CASE SpawnObserverFails \/ EscalateToDegraded \/ IdleKill
    BY <1>3, ClaimRows DEF SpawnObserverFails, EscalateToDegraded, IdleKill
  <1>4. CASE Autoheal
    <2>1. \A x \in Roles : InFlight(x) => InFlight(x)'
      BY <1>4 DEF Autoheal, TypeOK, InFlight
    <2>2. QED
      BY <1>4, <2>1, QuietRows DEF Autoheal, RowInv
  <1>5. CASE ServerCrash \/ GracefulRestart
    <2>1. PICK owed, survivors :
             /\ survivors \in SUBSET {r \in Roles : Alive(r)}
             /\ Reboot(owed, survivors)
      BY <1>5 DEF ServerCrash, GracefulRestart
    <2>2. \A x \in Roles :
             /\ cli[x] = "gone" => cli'[x] = "gone"
             /\ cli[x] # "gone" => cli'[x] # "gone"
             /\ ~Alive(x) => ~Alive(x)'
      BY <2>1 DEF Reboot, Alive
    <2>3. UNCHANGED archived /\ \A x \in Roles : ~doomed'[x]
      BY <2>1 DEF Reboot
    <2>4. QED
      BY <1>5, <2>2, <2>3 DEF Rebooting, RowInv, RowEffect, SpawnIsOwed, DebtIsPaid
  <1>6. ASSUME NEW r \in Roles, Crash(r)
        PROVE  \A x \in Roles : RowEffect(x)
    BY <1>6, ExitRows DEF Crash
  <1>7. ASSUME NEW r \in Roles, Handshake(r) \/ Unarchive(r)
        PROVE  \A x \in Roles : RowEffect(x)
    <2>1. UNCHANGED <<claim, direct, doomed>>
      BY <1>7 DEF Handshake, Unarchive
    <2>2. \A x \in Roles : cli'[x] = cli[x] \/ (Alive(x) /\ cli'[x] = "up")
      BY <1>7 DEF Handshake, Unarchive, TypeOK
    <2>3. \A x \in Roles : archived'[x] => archived[x]
      BY <1>7 DEF Handshake, Unarchive, TypeOK
    <2>4. QED
      BY <2>1, <2>2, <2>3, FlightRows DEF RowInv, Alive
  <1>8. ASSUME NEW r \in Roles, StopSession(r) \/ ArchiveSession(r) \/ DeleteSession(r)
        PROVE  \A x \in Roles : RowEffect(x)
    BY <1>8, ClaimRows DEF StopSession, ArchiveSession, DeleteSession
  <1>9. ASSUME NEW r \in Roles, RelaunchNeeded(r) \/ UserMessage(r)
        PROVE  \A x \in Roles : RowEffect(x)
    BY <1>9, ClaimRows DEF RelaunchNeeded, UserMessage, ClaimsIfRunning, ClaimsFor
  <1>10. ASSUME NEW r \in Roles, ManualRelaunch(r)
         PROVE  \A x \in Roles : RowEffect(x)
    <2>1. \A x \in Roles : claim[x] = "flight" => claim'[x] = "flight"
      BY <1>10 DEF ManualRelaunch, ClaimsFor
    <2>2. \A x \in Roles : direct[x] = "running" => direct'[x] = "running"
      BY <1>10 DEF ManualRelaunch, TypeOK
    <2>3. UNCHANGED <<cli, archived, doomed>>
      BY <1>10 DEF ManualRelaunch
    <2>4. QED
      BY <2>1, <2>2, <2>3, QuietRows DEF RowInv, InFlight
  <1>11. QED
    BY <1>1, <1>2, <1>3, <1>4, <1>5, <1>6, <1>7, <1>8, <1>9, <1>10 DEF OutsideStep

LEMMA RowSteps ==
    ASSUME TypeOK, RowInv, [Next]_vars
    PROVE  RowInv' /\ \A x \in Roles : SpawnIsOwed(x) /\ DebtIsPaid(x)
  <1>1. \A x \in Roles : RowEffect(x)
    <2>1. CASE UNCHANGED vars
      BY <2>1, ClaimRows DEF vars
    <2>2. QED
      BY <2>1, ServerRows, OutsideRows DEF Next
  <1>2. \A x \in Roles : archived'[x] => cli'[x] # "gone"
    BY <1>1 DEF RowEffect
  <1>3. status' = "pairing" => cli'["observer"] = "gone"
    <2>1. status' = "pairing" => status = "pairing" \/ cli'["observer"] = "gone"
      BY GroupSteps DEF GroupEffect, Transition, groupVars
    <2>2. QED
      BY <1>1, <2>1 DEF RowEffect, RowIsMade, RowInv, Roles
  <1>4. \A x \in Roles : doomed'[x] => InFlight(x)'
    BY <1>1 DEF RowEffect
  <1>5. QED
    BY <1>1, <1>2, <1>3, <1>4 DEF RowInv, RowEffect

(* An archived row gets a process only from a relaunch that was in flight  *)
(* already, and that relaunch kills it before it ends.                     *)
THEOREM ArchivedSpawnEnds == Spec => ArchivedSpawnIsUndone
  <1>1. Init => RowInv
    BY DEF Init, RowInv
  <1>2. TypeOK /\ RowInv /\ [Next]_vars => RowInv'
    BY RowSteps
  <1>3. TypeOK /\ RowInv /\ [Next]_vars
          => [\A r \in Roles :
                 /\ archived[r] /\ ~Alive(r) /\ archived'[r] /\ Alive(r)'
                       => InFlight(r)' /\ doomed'[r]
                 /\ doomed[r] /\ ~(InFlight(r)' /\ doomed'[r])
                       => ~Alive(r)' \/ Rebooting]_vars
    BY RowSteps DEF SpawnIsOwed, DebtIsPaid
  <1>4. QED
    BY <1>1, <1>2, <1>3, TypeCorrect, PTL DEF Spec, ArchivedSpawnIsUndone

=============================================================================
