---------------------------- MODULE CouncilGroup ----------------------------
(***************************************************************************)
(* One council pair of the Aura server: an orchestrator and an observer    *)
(* CLI session, the group record that SessionGroupCoordinator keeps for    *)
(* them, the bus listeners of CouncilLifecycle, and the relaunch           *)
(* bookkeeping of SessionRecovery that the same exit events drive.         *)
(* Every action is one turn of the server's event loop: the code between   *)
(* two awaits, with the bus listeners it calls synchronously.              *)
(***************************************************************************)
EXTENDS Naturals

CONSTANTS
    MaxAutoRelaunches,   \* MAX_AUTO_RELAUNCHES, the budget of failed relaunches
    Requests             \* which outside events the environment issues

Roles == {"orchestrator", "observer"}

RequestKinds == {"browser", "stop", "manual", "archive", "delete", "idle",
                 "crash", "restart", "autoheal"}

ASSUME BudgetAssumption == MaxAutoRelaunches \in Nat \ {0}
ASSUME RequestsAssumption == Requests \subseteq RequestKinds

VARIABLES
    status,     \* GroupRecord.status; "none" and "failed" mean no record
    window,     \* the dead half whose reconnect window is armed, or "none"
    cli,        \* what the launcher knows of each half's process
    mark,       \* IntentionalKills: no mark, a relaunch's own, or a durable one
    timer,      \* the pending keepalive or boot-resume timer of each half
    claim,      \* relaunchingSet and where the claimed auto-relaunch is
    direct,     \* a relaunch without a claim: manual or observer auto-heal
    count,      \* autoRelaunchCounts
    exhausted,  \* relaunchExhaustedNotified
    doomed,     \* runRelaunch spawned an archived half and awaits its kill
    stopped,    \* stoppedByUser
    archived,   \* the launcher row's archived flag
    job         \* the request whose awaited kills are running

groupVars == <<status, window>>
relaunchVars == <<claim, direct, count, exhausted, doomed>>
userVars == <<stopped, archived, job>>
vars == <<status, window, cli, mark, timer, claim, direct, count, exhausted,
          doomed, stopped, archived, job>>

Statuses == {"none", "failed", "pairing", "active", "degraded",
             "reconnecting", "archived"}
NoJob == [kind |-> "none", scope |-> {}, left |-> {}]
Job(kind, S) == [kind |-> kind, scope |-> S, left |-> S]
Durable == [r \in Roles |-> "durable"]

TypeOK ==
    /\ status \in Statuses
    /\ window \in Roles \cup {"none"}
    /\ cli \in [Roles -> {"gone", "down", "starting", "up"}]
    /\ mark \in [Roles -> {"none", "transient", "durable"}]
    /\ timer \in [Roles -> {"none", "keepalive", "boot"}]
    /\ claim \in [Roles -> {"free", "grace", "flight", "cooldown"}]
    /\ direct \in [Roles -> {"none", "queued", "running"}]
    /\ count \in [Roles -> 0..MaxAutoRelaunches]
    /\ exhausted \in [Roles -> BOOLEAN]
    /\ doomed \in [Roles -> BOOLEAN]
    /\ stopped \in [Roles -> BOOLEAN]
    /\ archived \in [Roles -> BOOLEAN]
    /\ job \in [kind : {"none", "rollback", "stop", "archive", "idle", "delete"},
                scope : SUBSET Roles, left : SUBSET Roles]

Init ==
    /\ status = "none"
    /\ window = "none"
    /\ cli = [r \in Roles |-> "gone"]
    /\ mark = [r \in Roles |-> "none"]
    /\ timer = [r \in Roles |-> "none"]
    /\ claim = [r \in Roles |-> "free"]
    /\ direct = [r \in Roles |-> "none"]
    /\ count = [r \in Roles |-> 0]
    /\ exhausted = [r \in Roles |-> FALSE]
    /\ doomed = [r \in Roles |-> FALSE]
    /\ stopped = [r \in Roles |-> FALSE]
    /\ archived = [r \in Roles |-> FALSE]
    /\ job = NoJob

-----------------------------------------------------------------------------
(* The pure state machine of a group. *)

Transition(from, event) ==
    CASE event = "user_archived" -> "archived"
      [] from = "pairing" /\ event = "both_ready" -> "active"
      [] from = "active" /\ event = "half_died" -> "degraded"
      [] from = "active" /\ event = "reconnect_started" -> "reconnecting"
      [] from = "degraded" /\ event = "half_respawned" -> "active"
      [] from = "reconnecting" /\ event = "reconnect_ok" -> "active"
      [] from = "reconnecting" /\ event = "reconnect_failed" -> "degraded"
      [] OTHER -> from

(* A group is tracked while councilGroupMeta has it: from its registration *)
(* until group:exited tears the tracking down.                             *)
Tracked == status \in {"active", "degraded", "reconnecting"}
Alive(r) == cli[r] \in {"starting", "up"}
InFlight(r) == claim[r] = "flight" \/ direct[r] = "running"

(* The sessions a stop or an archive of r covers. *)
Scope(r) == IF Tracked THEN Roles ELSE {r}

-----------------------------------------------------------------------------
(* session:exited: the keepalive listener runs first, then the council one. *)

KeepaliveHearsExit(r) ==
    timer' = IF mark[r] = "none" /\ ~archived[r] /\ ~exhausted[r] /\ claim[r] = "free"
             THEN [timer EXCEPT ![r] = "keepalive"]
             ELSE timer

ExitIsIgnored(r) ==
    /\ mark[r] # "none" \/ ~Tracked
    /\ UNCHANGED <<status, window, mark>>

ExitAfterExhaustion(r) ==
    /\ mark[r] = "none" /\ Tracked /\ exhausted[r]
    /\ mark' = Durable
    /\ status' = Transition(status, "half_died")
    /\ UNCHANGED window

ExitOfSecondHalf(r) ==
    /\ mark[r] = "none" /\ Tracked /\ ~exhausted[r]
    /\ window \notin {"none", r}
    /\ window' = "none"
    /\ mark' = Durable
    /\ status' = Transition(status, "reconnect_failed")

ExitArmsReconnect(r) ==
    /\ mark[r] = "none" /\ Tracked /\ ~exhausted[r]
    /\ window = "none"
    /\ window' = r
    /\ status' = Transition(status, "reconnect_started")
    /\ UNCHANGED mark

ExitWhileArmed(r) ==
    /\ mark[r] = "none" /\ Tracked /\ ~exhausted[r]
    /\ window = r
    /\ UNCHANGED <<status, window, mark>>

CouncilHearsExit(r) ==
    \/ ExitIsIgnored(r)
    \/ ExitAfterExhaustion(r)
    \/ ExitOfSecondHalf(r)
    \/ ExitArmsReconnect(r)
    \/ ExitWhileArmed(r)

Exit(r) ==
    /\ Alive(r)
    /\ cli' = [cli EXCEPT ![r] = "down"]
    /\ KeepaliveHearsExit(r)
    /\ CouncilHearsExit(r)

(* The CLI dies on its own, or a watchdog (silent stdio, model fallback)   *)
(* kills it without marking it.                                            *)
Crash(r) ==
    /\ ~InFlight(r)
    /\ Exit(r)
    /\ UNCHANGED <<relaunchVars, userVars>>

-----------------------------------------------------------------------------
(* session:cli-id-received and session:relaunch-failed. *)

\* Faulty variant: any half's handshake closes the window.
AnyHandshakeClosesWindow(r) ==
    /\ window # "none"
    /\ window' = "none"
    /\ status' = Transition(status, "reconnect_ok")

HandshakeClosesWindow(r) ==
    /\ window = r
    /\ window' = "none"
    /\ status' = Transition(status, "reconnect_ok")

HandshakeRespawns(r) ==
    /\ window = "none" /\ status = "degraded"
    /\ status' = Transition(status, "half_respawned")
    /\ UNCHANGED window

HandshakeIsDropped(r) ==
    /\ window # r
    /\ ~(window = "none" /\ status = "degraded")
    /\ UNCHANGED groupVars

(* Every init frame of a CLI reports its id again, and so does the first   *)
(* attach of a resumed one.                                                *)
Handshake(r) ==
    /\ Alive(r)
    /\ cli' = [cli EXCEPT ![r] = "up"]
    /\ \/ HandshakeClosesWindow(r)
       \/ HandshakeRespawns(r)
       \/ HandshakeIsDropped(r)
    /\ UNCHANGED <<mark, timer, relaunchVars, userVars>>

(* The council listener of session:relaunch-failed; marks is the mark      *)
(* table at the moment of the emit.                                        *)
CouncilHearsRelaunchFailed(r, marks) ==
    \/ /\ window = r
       /\ window' = "none"
       /\ mark' = Durable
       /\ status' = Transition(status, "reconnect_failed")
    \/ /\ window # r
       /\ mark' = marks
       /\ UNCHANGED groupVars

WindowExpires ==
    /\ window # "none"
    /\ window' = "none"
    /\ status' = Transition(status, "reconnect_failed")
    /\ UNCHANGED <<cli, mark, timer, relaunchVars, userVars>>

(* The catch-up wake gave up on an observer that never became reachable.   *)
EscalateToDegraded ==
    /\ "autoheal" \in Requests
    /\ status \in {"active", "reconnecting"}
    /\ status' = Transition(status, "half_died")
    /\ UNCHANGED <<window, cli, mark, timer, relaunchVars, userVars>>

-----------------------------------------------------------------------------
(* createGroup: two awaited spawns, the record registered after the second. *)

SpawnPrimary ==
    /\ status = "none"
    /\ \A r \in Roles : cli[r] = "gone"
    /\ status' = "pairing"
    /\ cli' = [cli EXCEPT !["orchestrator"] = "starting"]
    /\ UNCHANGED <<window, mark, timer, relaunchVars, userVars>>

SpawnObserver ==
    /\ status = "pairing"
    /\ status' = Transition(status, "both_ready")
    /\ cli' = [cli EXCEPT !["observer"] = "starting"]
    /\ UNCHANGED <<window, mark, timer, relaunchVars, userVars>>

SpawnObserverFails ==
    /\ status = "pairing" /\ job = NoJob
    /\ status' = "failed"
    /\ job' = Job("rollback", {"orchestrator"})
    /\ UNCHANGED <<window, cli, mark, timer, relaunchVars, stopped, archived>>

-----------------------------------------------------------------------------
(* Automatic relaunch: claim, grace pause, flight, cooldown. *)

(* handleAutoRelaunch for the halves S, none of them stopped by the user.  *)
ClaimsFor(S) ==
    [r \in Roles |-> IF r \in S /\ claim[r] = "free" /\ ~archived[r] /\ ~exhausted[r]
                     THEN "grace" ELSE claim[r]]
ClaimsIfRunning(r) == ClaimsFor({x \in {r} : ~stopped[x]})

KeepaliveFires(r) ==
    /\ timer[r] = "keepalive"
    /\ timer' = [timer EXCEPT ![r] = "none"]
    /\ claim' = IF cli[r] \in {"down", "starting"} THEN ClaimsIfRunning(r) ELSE claim
    /\ UNCHANGED <<groupVars, cli, mark, direct, count, exhausted, doomed, userVars>>

BootResumeFires(r) ==
    /\ timer[r] = "boot"
    /\ timer' = [timer EXCEPT ![r] = "none"]
    /\ claim' = IF cli[r] = "down" /\ mark[r] = "none" THEN ClaimsIfRunning(r) ELSE claim
    /\ UNCHANGED <<groupVars, cli, mark, direct, count, exhausted, doomed, userVars>>

(* session:relaunch-needed from a returning browser, or the re-check of a  *)
(* CLI that is still starting when its settle window closes.               *)
RelaunchNeeded(r) ==
    /\ "browser" \in Requests
    /\ cli[r] \in {"down", "starting"}
    /\ ClaimsIfRunning(r) # claim
    /\ claim' = ClaimsIfRunning(r)
    /\ UNCHANGED <<groupVars, cli, mark, timer, direct, count, exhausted, doomed, userVars>>

\* Faulty variant: the way out for an archived session keeps the claim.
GraceSkipsUnarchived(r) ==
    /\ claim[r] = "grace"
    /\ cli[r] # "down" \/ direct[r] = "running" \/ stopped[r]
    /\ claim' = [claim EXCEPT ![r] = "free"]
    /\ UNCHANGED <<groupVars, cli, mark, timer, direct, count, exhausted, doomed, userVars>>

(* After the grace pause everything is checked again: a CLI that is back,  *)
(* settling or gone, a running relaunch, an archive, a user stop.          *)
GraceSkips(r) ==
    /\ claim[r] = "grace"
    /\ cli[r] # "down" \/ direct[r] = "running" \/ archived[r] \/ stopped[r]
    /\ claim' = [claim EXCEPT ![r] = "free"]
    /\ UNCHANGED <<groupVars, cli, mark, timer, direct, count, exhausted, doomed, userVars>>

\* Faulty variants: a running relaunch, and a stop, are not looked at again.
MayRelaunchTwice(r) ==
    /\ claim[r] = "grace"
    /\ cli[r] \in {"down", "starting"}
    /\ ~archived[r] /\ ~stopped[r]
MayRelaunchStopped(r) ==
    /\ claim[r] = "grace"
    /\ cli[r] \in {"down", "starting"}
    /\ direct[r] # "running"
    /\ ~archived[r]

MayRelaunch(r) ==
    /\ claim[r] = "grace"
    /\ cli[r] \in {"down", "starting"}
    /\ direct[r] # "running"
    /\ ~archived[r] /\ ~stopped[r]

GraceExhausts(r) ==
    /\ MayRelaunch(r)
    /\ count[r] = MaxAutoRelaunches
    /\ exhausted' = [exhausted EXCEPT ![r] = TRUE]
    /\ claim' = [claim EXCEPT ![r] = "free"]
    /\ CouncilHearsRelaunchFailed(r, mark)
    /\ UNCHANGED <<cli, timer, direct, count, doomed, userVars>>

(* IntentionalKills.addTransient, on the mark table m *)
WithTransient(m, r) == [m EXCEPT ![r] = IF @ = "none" THEN "transient" ELSE @]

\* Faulty variant: one attempt too many.
GraceRelaunchesOnceMore(r) ==
    /\ MayRelaunch(r)
    /\ count[r] <= MaxAutoRelaunches
    /\ count' = [count EXCEPT ![r] = @ + 1]
    /\ claim' = [claim EXCEPT ![r] = "flight"]
    /\ mark' = WithTransient(mark, r)
    /\ UNCHANGED <<groupVars, cli, timer, direct, exhausted, doomed, userVars>>

GraceRelaunches(r) ==
    /\ MayRelaunch(r)
    /\ count[r] < MaxAutoRelaunches
    /\ count' = [count EXCEPT ![r] = @ + 1]
    /\ claim' = [claim EXCEPT ![r] = "flight"]
    /\ mark' = WithTransient(mark, r)
    /\ UNCHANGED <<groupVars, cli, timer, direct, exhausted, doomed, userVars>>

(* launcher.relaunch terminates the old process before it spawns, and      *)
(* runRelaunch the new one of an archived half.                            *)
RelaunchKills(r) ==
    /\ InFlight(r)
    /\ Exit(r)
    /\ UNCHANGED <<relaunchVars, userVars>>

\* Faulty variants: the mark is kept, or not taken for the queued relaunch.
MarksKept(r) == mark
MarksReleased(r) == [mark EXCEPT ![r] = IF @ = "transient" THEN "none" ELSE @]

(* The end of runRelaunch: its own mark is released, a queued manual       *)
(* relaunch takes over at once, a claim is kept for the cooldown.          *)
MarksAfterFlight(r) ==
    LET released == [mark EXCEPT ![r] = IF @ = "transient" THEN "none" ELSE @]
    IN  IF direct[r] = "queued" THEN WithTransient(released, r) ELSE released

(* A flight that spawned an archived half lasts until that process is dead.*)
FlightEnds(r) ==
    /\ InFlight(r)
    /\ doomed[r] => ~Alive(r)
    /\ doomed' = [doomed EXCEPT ![r] = FALSE]
    /\ claim' = [claim EXCEPT ![r] = IF @ = "flight" THEN "cooldown" ELSE @]
    /\ direct' = [direct EXCEPT ![r] = IF @ = "queued" THEN "running" ELSE "none"]

RelaunchSpawns(r) ==
    /\ FlightEnds(r)
    /\ cli[r] = "down" /\ ~doomed[r] /\ ~archived[r]
    /\ cli' = [cli EXCEPT ![r] = "starting"]
    /\ mark' = MarksAfterFlight(r)
    /\ count' = [count EXCEPT ![r] = IF claim[r] = "flight" THEN 0 ELSE @]
    /\ exhausted' = [exhausted EXCEPT ![r] = @ /\ claim[r] # "flight"]
    /\ UNCHANGED <<groupVars, timer, userVars>>

(* launcher.relaunch spawns an archived half like any other; runRelaunch   *)
(* finds the flag when the process is there, and awaits its kill, which is *)
(* RelaunchKills again.                                                    *)
RelaunchSpawnsArchived(r) ==
    /\ InFlight(r)
    /\ cli[r] = "down" /\ ~doomed[r] /\ archived[r]
    /\ cli' = [cli EXCEPT ![r] = "starting"]
    /\ doomed' = [doomed EXCEPT ![r] = TRUE]
    /\ UNCHANGED <<groupVars, mark, timer, claim, direct, count, exhausted, userVars>>

(* The relaunch fails, refuses before it kills, or has killed what it      *)
(* spawned for an archived half. Only a claimed one tells the group.       *)
RelaunchFails(r) ==
    /\ FlightEnds(r)
    /\ IF claim[r] = "flight"
       THEN CouncilHearsRelaunchFailed(r, MarksAfterFlight(r))
       ELSE mark' = MarksAfterFlight(r) /\ UNCHANGED groupVars
    /\ UNCHANGED <<cli, timer, count, exhausted, userVars>>

(* The launcher refuses the observer's prompt: it emits relaunch-failed    *)
(* itself and the attempt is given back.                                   *)
LauncherRefuses ==
    LET r == "observer" IN
    /\ FlightEnds(r)
    /\ cli[r] = "down" /\ ~doomed[r]
    /\ CouncilHearsRelaunchFailed(r, MarksAfterFlight(r))
    /\ IF claim[r] = "flight"
       THEN \E before \in 0..(MaxAutoRelaunches - 1) :
                /\ count[r] \in {0, before + 1}
                /\ count' = [count EXCEPT ![r] = before]
       ELSE UNCHANGED count
    /\ UNCHANGED <<cli, timer, exhausted, userVars>>

CooldownEnds(r) ==
    /\ claim[r] = "cooldown"
    /\ claim' = [claim EXCEPT ![r] = "free"]
    /\ UNCHANGED <<groupVars, cli, mark, timer, direct, count, exhausted, doomed, userVars>>

(* The observer auto-heal relaunches without a claim; it joins a running   *)
(* relaunch and leaves a settling CLI, a stopped or a marked one alone.    *)
Autoheal ==
    LET r == "observer" IN
    /\ "autoheal" \in Requests
    /\ Tracked /\ ~archived[r]
    /\ \A x \in Roles : ~stopped[x]
    /\ mark[r] = "none" /\ ~InFlight(r)
    /\ cli[r] \in {"down", "up"}
    /\ direct' = [direct EXCEPT ![r] = "running"]
    /\ mark' = WithTransient(mark, r)
    /\ UNCHANGED <<groupVars, cli, timer, claim, count, exhausted, doomed, userVars>>

-----------------------------------------------------------------------------
(* Requests of the user and their awaited kills, orchestrator half first.  *)

\* Faulty variant: a pending keepalive survives the stop.
StopKeepsTimers(r) ==
    /\ "stop" \in Requests
    /\ job = NoJob /\ cli[r] # "gone"
    /\ mark' = [x \in Roles |-> IF x \in Scope(r) THEN "durable" ELSE mark[x]]
    /\ stopped' = [x \in Roles |-> x \in Scope(r) \/ stopped[x]]
    /\ job' = Job("stop", Scope(r))
    /\ UNCHANGED <<groupVars, cli, timer, relaunchVars, archived>>

StopSession(r) ==
    /\ "stop" \in Requests
    /\ job = NoJob /\ cli[r] # "gone"
    /\ mark' = [x \in Roles |-> IF x \in Scope(r) THEN "durable" ELSE mark[x]]
    /\ stopped' = [x \in Roles |-> x \in Scope(r) \/ stopped[x]]
    /\ timer' = [x \in Roles |-> IF x \in Scope(r) THEN "none" ELSE timer[x]]
    /\ job' = Job("stop", Scope(r))
    /\ UNCHANGED <<groupVars, cli, relaunchVars, archived>>

Resumed(r) == IF stopped[r] THEN {x \in Scope(r) : stopped[x]} ELSE {}
MarksAfterResume(r) == [x \in Roles |-> IF x \in Resumed(r) THEN "none" ELSE mark[x]]

(* A browser-typed message ends a user stop and relaunches the pair.       *)
UserMessage(r) ==
    /\ stopped[r] /\ job.kind # "delete"
    /\ stopped' = [x \in Roles |-> stopped[x] /\ x \notin Resumed(r)]
    /\ mark' = MarksAfterResume(r)
    /\ claim' = ClaimsFor(Resumed(r))
    /\ UNCHANGED <<groupVars, cli, timer, direct, count, exhausted, doomed, archived, job>>

ManualRelaunch(r) ==
    /\ "manual" \in Requests
    /\ cli[r] # "gone" /\ ~archived[r] /\ direct[r] = "none" /\ job.kind # "delete"
    /\ count' = [count EXCEPT ![r] = 0]
    /\ exhausted' = [exhausted EXCEPT ![r] = FALSE]
    /\ stopped' = [x \in Roles |-> stopped[x] /\ x \notin Resumed(r)]
    /\ claim' = ClaimsFor(Resumed(r) \ {r})
    /\ IF InFlight(r)
       THEN /\ direct' = [direct EXCEPT ![r] = "queued"]
            /\ mark' = MarksAfterResume(r)
       ELSE /\ direct' = [direct EXCEPT ![r] = "running"]
            /\ mark' = WithTransient(MarksAfterResume(r), r)
    /\ UNCHANGED <<groupVars, cli, timer, doomed, archived, job>>

(* Only an orchestrator half that no browser watches is killed for idling. *)
IdleKill ==
    LET r == "orchestrator" IN
    /\ "idle" \in Requests
    /\ job = NoJob /\ Alive(r) /\ ~archived[r]
    /\ mark' = [mark EXCEPT ![r] = "durable"]
    /\ job' = Job("idle", {r})
    /\ UNCHANGED <<groupVars, cli, timer, relaunchVars, stopped, archived>>

\* Faulty variant: the group is archived with its window still armed.
ArchiveKeepsWindow(r) ==
    /\ "archive" \in Requests
    /\ job = NoJob /\ cli[r] # "gone" /\ ~archived[r]
    /\ mark' = [x \in Roles |-> IF x \in Scope(r) THEN "durable" ELSE mark[x]]
    /\ stopped' = [x \in Roles |-> stopped[x] /\ x \notin Scope(r)]
    /\ timer' = [x \in Roles |-> IF x \in Scope(r) THEN "none" ELSE timer[x]]
    /\ status' = IF Tracked THEN Transition(status, "user_archived") ELSE status
    /\ job' = Job("archive", Scope(r))
    /\ UNCHANGED <<window, cli, relaunchVars, archived>>

(* A tracked half archives its group: archived at once, killed next, and   *)
(* flagged in the launcher rows only after both kills.                     *)
ArchiveSession(r) ==
    /\ "archive" \in Requests
    /\ job = NoJob /\ cli[r] # "gone" /\ ~archived[r]
    /\ mark' = [x \in Roles |-> IF x \in Scope(r) THEN "durable" ELSE mark[x]]
    /\ stopped' = [x \in Roles |-> stopped[x] /\ x \notin Scope(r)]
    /\ timer' = [x \in Roles |-> IF x \in Scope(r) THEN "none" ELSE timer[x]]
    /\ IF Tracked
       THEN window' = "none" /\ status' = Transition(status, "user_archived")
       ELSE UNCHANGED groupVars
    /\ job' = Job("archive", Scope(r))
    /\ UNCHANGED <<cli, relaunchVars, archived>>

Unarchive(r) ==
    /\ archived[r]
    /\ archived' = [archived EXCEPT ![r] = FALSE]
    /\ UNCHANGED <<groupVars, cli, mark, timer, relaunchVars, stopped, job>>

NextToKill == IF "orchestrator" \in job.left THEN "orchestrator" ELSE "observer"

\* Faulty variant: a half that is already down is waited for.
KillOnlyAlive ==
    LET r == NextToKill
        last == job.left = {r}
    IN  /\ job.left # {} /\ job.kind # "delete"
        /\ Exit(r)
        /\ job' = IF last THEN NoJob ELSE [job EXCEPT !.left = @ \ {r}]
        /\ archived' = IF last /\ job.kind = "archive"
                       THEN [x \in Roles |-> archived[x] \/ (x \in job.scope /\ cli[x] # "gone")]
                       ELSE archived
        /\ UNCHANGED <<claim, direct, count, exhausted, doomed, stopped>>

KillOne ==
    LET r == NextToKill
        last == job.left = {r}
    IN  /\ job.left # {} /\ job.kind # "delete"
        /\ \/ Exit(r)
           \/ ~Alive(r) /\ UNCHANGED <<groupVars, cli, mark, timer>>
        /\ job' = IF last THEN NoJob ELSE [job EXCEPT !.left = @ \ {r}]
        /\ archived' = IF last /\ job.kind = "archive"
                       THEN [x \in Roles |-> archived[x] \/ (x \in job.scope /\ cli[x] # "gone")]
                       ELSE archived
        /\ count' = IF job.kind = "idle" THEN [count EXCEPT ![r] = 0] ELSE count
        /\ exhausted' = IF job.kind = "idle" THEN [exhausted EXCEPT ![r] = FALSE]
                        ELSE exhausted
        /\ UNCHANGED <<claim, direct, doomed, stopped>>

DeleteSession(r) ==
    /\ "delete" \in Requests
    /\ job = NoJob /\ cli[r] # "gone"
    /\ mark' = [mark EXCEPT ![r] = "durable"]
    /\ timer' = [timer EXCEPT ![r] = "none"]
    /\ job' = Job("delete", {r})
    /\ UNCHANGED <<groupVars, cli, relaunchVars, stopped, archived>>

(* The awaited kill of a delete, whose exit the durable mark hides, and    *)
(* forgetSession: a relaunch in flight is forgotten, not stopped.          *)
DeleteForgets ==
    LET r == NextToKill IN
    /\ job.kind = "delete"
    /\ job' = NoJob
    /\ cli' = [cli EXCEPT ![r] = "gone"]
    /\ mark' = [mark EXCEPT ![r] = "none"]
    /\ claim' = [claim EXCEPT ![r] = "free"]
    /\ direct' = [direct EXCEPT ![r] = "none"]
    /\ count' = [count EXCEPT ![r] = 0]
    /\ exhausted' = [exhausted EXCEPT ![r] = FALSE]
    /\ doomed' = [doomed EXCEPT ![r] = FALSE]
    /\ stopped' = [stopped EXCEPT ![r] = FALSE]
    /\ archived' = [archived EXCEPT ![r] = FALSE]
    /\ UNCHANGED <<groupVars, timer>>

-----------------------------------------------------------------------------
(* Restart of the server: only the launcher rows survive.                  *)

Present == {r \in Roles : cli[r] # "gone"}

\* Faulty variant: a partial pair waits for its lost half without a window.
ReconciledToWaiting ==
    CASE Present = {} \/ (\E r \in Present : archived[r]) -> "none"
      [] Present = Roles -> "active"
      [] OTHER -> "reconnecting"

(* reconcileCouncilGroups over the rows restoreFromDisk read back.         *)
ReconciledStatus ==
    CASE Present = {} \/ (\E r \in Present : archived[r]) -> "none"
      [] Present = Roles -> "active"
      [] OTHER -> Transition("active", "half_died")

(* The halves in owed get a boot-resume timer; those in survivors keep a   *)
(* process that reattaches (a container, or a CLI on the WS transport).    *)
Reboot(owed, survivors) ==
    /\ status' = ReconciledStatus
    /\ window' = "none"
    /\ cli' = [r \in Roles |-> CASE r \in survivors -> "starting"
                                [] cli[r] = "gone" -> "gone"
                                [] OTHER -> "down"]
    /\ mark' = [r \in Roles |-> "none"]
    /\ timer' = [r \in Roles |-> IF r \in owed \ survivors THEN "boot" ELSE "none"]
    /\ claim' = [r \in Roles |-> "free"]
    /\ direct' = [r \in Roles |-> "none"]
    /\ count' = [r \in Roles |-> 0]
    /\ exhausted' = [r \in Roles |-> FALSE]
    /\ doomed' = [r \in Roles |-> FALSE]
    /\ stopped' = [r \in Roles |-> FALSE]
    /\ job' = NoJob
    /\ UNCHANGED archived

(* The server dies: what was alive and not archived is owed a resume.      *)
ServerCrash ==
    /\ "crash" \in Requests
    /\ \E survivors \in SUBSET {r \in Roles : Alive(r)} :
           Reboot({r \in Roles : Alive(r) /\ ~archived[r]}, survivors)

\* Faulty variant: a half that only has a timer pending is not written down.
OwedWithoutTimers ==
    {r \in Present : /\ ~archived[r] /\ ~stopped[r]
                     /\ Alive(r) \/ claim[r] # "free" \/ InFlight(r)}

(* A graceful shutdown also marks every half a relaunch is still owed to,  *)
(* leaves out the stopped ones, and kills the tracked pair.                *)
OwedAtShutdown ==
    {r \in Present : /\ ~archived[r] /\ ~stopped[r]
                     /\ Alive(r) \/ timer[r] # "none" \/ claim[r] # "free" \/ InFlight(r)}

GracefulRestart ==
    /\ "restart" \in Requests
    /\ \E survivors \in SUBSET {r \in Roles : Alive(r) /\ ~Tracked} :
           Reboot(OwedAtShutdown, survivors)

-----------------------------------------------------------------------------
GraceEnds(r) == GraceSkips(r) \/ GraceExhausts(r) \/ GraceRelaunches(r)
RelaunchEnds(r) == RelaunchSpawns(r) \/ RelaunchFails(r) \/ (r = "observer" /\ LauncherRefuses)

(* What the server does by itself once it is due. *)
ServerStep ==
    \/ WindowExpires
    \/ KillOne
    \/ DeleteForgets
    \/ \E r \in Roles : \/ KeepaliveFires(r)
                        \/ BootResumeFires(r)
                        \/ GraceEnds(r)
                        \/ RelaunchKills(r)
                        \/ RelaunchSpawnsArchived(r)
                        \/ RelaunchEnds(r)
                        \/ CooldownEnds(r)

(* What happens to it. *)
OutsideStep ==
    \/ SpawnPrimary
    \/ SpawnObserver
    \/ SpawnObserverFails
    \/ EscalateToDegraded
    \/ Autoheal
    \/ IdleKill
    \/ ServerCrash
    \/ GracefulRestart
    \/ \E r \in Roles : \/ Crash(r)
                        \/ Handshake(r)
                        \/ RelaunchNeeded(r)
                        \/ StopSession(r)
                        \/ UserMessage(r)
                        \/ ManualRelaunch(r)
                        \/ ArchiveSession(r)
                        \/ Unarchive(r)
                        \/ DeleteSession(r)

Next == ServerStep \/ OutsideStep

Spec == Init /\ [][Next]_vars

Fairness ==
    /\ WF_vars(WindowExpires)
    /\ WF_vars(KillOne)
    /\ WF_vars(DeleteForgets)
    /\ \A r \in Roles : /\ WF_vars(KeepaliveFires(r))
                        /\ WF_vars(BootResumeFires(r))
                        /\ WF_vars(GraceEnds(r))
                        /\ WF_vars(RelaunchKills(r))
                        /\ WF_vars(RelaunchEnds(r))
                        /\ WF_vars(CooldownEnds(r))

FairSpec == Spec /\ Fairness

-----------------------------------------------------------------------------
(* Properties *)

Rebooting == ServerCrash \/ GracefulRestart

(* A pair that says it is reconnecting has a window armed, so a timer will *)
(* resolve it; a window is only ever armed on a reconnecting pair, or on a *)
(* degraded one whose relaunched half died again.                          *)
WindowMatchesStatus ==
    /\ status = "reconnecting" => window # "none"
    /\ window # "none" => status \in {"reconnecting", "degraded"}

(* At most one relaunch of a half runs, whichever path asked for it: two   *)
(* would resume one conversation twice.                                    *)
SingleFlight ==
    \A r \in Roles :
        /\ ~(claim[r] = "flight" /\ direct[r] = "running")
        /\ direct[r] = "queued" => claim[r] = "flight"

(* A relaunch's own mark never outlives the relaunch: it would lock the    *)
(* keepalive out of the half for good.                                     *)
TransientMarkIsOwned ==
    \A r \in Roles : mark[r] = "transient" => InFlight(r)

(* A half the user stopped stays marked, and no keepalive or boot-resume   *)
(* timer is left that could revive it.                                     *)
StoppedIsLeftAlone ==
    \A r \in Roles : stopped[r] => mark[r] = "durable" /\ timer[r] = "none"

(* A half whose budget is spent is not claimed again until it is cleared.  *)
ExhaustedIsUnclaimed ==
    \A r \in Roles : exhausted[r] => claim[r] = "free"

(* The old process a relaunch is about to kill is marked, so that its exit *)
(* does not make a healthy pair flicker: only a user who resumes a stopped *)
(* pair takes the mark away under a running relaunch.                      *)
FlightKeepsItsMark ==
    [][\A r \in Roles : InFlight(r) /\ mark[r] # "none" /\ InFlight(r)'
                            => mark'[r] # "none" \/ (stopped[r] /\ ~stopped'[r])]_vars

(* Nothing revives an archived group within the life of the server, and a  *)
(* reconnecting pair becomes active only when the half that was lost is the*)
(* one that shook hands.                                                   *)
RevivalIsEarned ==
    [][~Rebooting =>
          /\ status = "archived" => status' = "archived"
          /\ status = "reconnecting" /\ status' = "active" => cli'[window] = "up"]_vars

(* No automatic relaunch is started for a half that stays stopped: a stop  *)
(* that lands in the grace pause wins.                                     *)
StopWinsOverGrace ==
    [][\A r \in Roles : stopped[r] /\ stopped'[r] /\ claim'[r] \in {"grace", "flight"}
                            => claim'[r] = claim[r]]_vars

(* A relaunch that was in flight when its half was archived may still spawn*)
(* it, but nothing else may; and from then on the relaunch owes the kill:  *)
(* whatever the user does meanwhile, unarchiving included, it does not end *)
(* while the process lives, unless the server itself goes down.            *)
ArchivedSpawnIsUndone ==
    [][\A r \in Roles :
          /\ archived[r] /\ ~Alive(r) /\ archived'[r] /\ Alive(r)'
                => InFlight(r)' /\ doomed'[r]
          /\ doomed[r] /\ ~(InFlight(r)' /\ doomed'[r])
                => ~Alive(r)' \/ Rebooting]_vars

(* Every claim of handleAutoRelaunch is released on every way out.         *)
ClaimIsReleased ==
    \A r \in Roles : (claim[r] # "free") ~> (claim[r] = "free")

(* A relaunch that a timer owes is attempted, over graceful restarts too   *)
(* once these end, unless the half is back, archived, exhausted or marked  *)
(* as killed on purpose meanwhile.                                         *)
OwedRelaunchIsAttempted ==
    <>[][~GracefulRestart]_vars =>
        \A r \in Roles :
            (timer[r] # "none") ~> (\/ InFlight(r) \/ cli[r] # "down"
                                   \/ exhausted[r] \/ archived[r]
                                   \/ mark[r] = "durable")

(* Every request's kills run to the end, whatever else happens meanwhile.  *)
RequestCompletes == (job # NoJob) ~> (job = NoJob)

(* The pair keeps the promise of PairLifecycle. A group that createGroup   *)
(* rolled back has no record, as before its creation.                      *)
Pair == INSTANCE PairLifecycle WITH
            pair <- IF status = "failed" THEN "none" ELSE status,
            awaiting <- window
ImplementsPairLifecycle == Pair!Spec

-----------------------------------------------------------------------------
(* What comments and documents say, and the code does not do. *)

(* "auto-relaunch crashed CLI processes even without a browser connected": *)
(* the crash of an unmarked half leaves something pending that revives it. *)
CrashIsFollowedUp ==
    [][\A r \in Roles :
          Crash(r) /\ mark[r] = "none" /\ ~archived[r] /\ ~exhausted[r]
          => timer'[r] # "none" \/ claim'[r] = "grace"]_vars

(* "active -> degraded on one-half death": the death of a half that nobody *)
(* is killing takes the pair out of active.                                *)
CrashLeavesActive ==
    [][\A r \in Roles : status = "active" /\ job = NoJob /\ Crash(r)
                            => status' # "active"]_vars
=============================================================================
