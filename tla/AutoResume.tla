----------------------------- MODULE AutoResume -----------------------------
(***************************************************************************)
(* Auto-resume after a usage limit: the one-shot scheduler with its file,  *)
(* the executor that a fire starts, and the handlers of the orchestrator   *)
(* that arm and cancel it, for one council pair.                           *)
(*                                                                         *)
(* The clock is abstract: a timer may fire at any moment after it is armed *)
(* and the window in which a hit counts as a re-hit ends at any moment.    *)
(* Schedules are numbered by scheduledAt; 0 stands for no schedule.        *)
(***************************************************************************)
EXTENDS Naturals, FiniteSets

CONSTANTS
    Sessions,               \* the halves of one pair
    Observer,               \* the half that is only ever woken
    Limits,                 \* reset times further apart than the tolerance
    MaxConsecutiveRehits,   \* MAX_CONSECUTIVE_REHITS
    MaxSchedules,           \* bound: schedules armed in a behaviour
    MaxCrashes,             \* bound: restarts of the server
    MaxRequests,            \* bound: outside requests in a behaviour
    Requests                \* the outside requests a run allows

ASSUME SessionsAssumption == IsFiniteSet(Sessions) /\ Observer \in Sessions
ASSUME LimitsAssumption == Limits # {}
ASSUME BoundsAssumption ==
    /\ MaxConsecutiveRehits \in Nat \ {0}
    /\ MaxSchedules \in Nat /\ MaxCrashes \in Nat /\ MaxRequests \in Nat

VARIABLES
    up,         \* the server process runs
    crashes,
    enabled,    \* the autoResumeAfterLimit setting
    schedule,   \* schedule[s]: the schedule armed in memory
    resetOf,    \* resetOf[s]: the reset time of the latest schedule of s
    rehits,     \* rehits[s]: the attempt record's count
    recent,     \* recent[s]: the last fire of s is inside REHIT_WINDOW_MS
    paused,     \* sessions paused by the repeat-limit guard
    disk,       \* auto-resume.json
    resumes,    \* executor runs that have not settled
    inFlight,   \* inFlight[s]: the run that cancel can abort
    banner,     \* banner[s]: SessionState.auto_resume
    alive,      \* sessions with a CLI process
    usable,     \* sessions that exist and are not archived
    stopped,    \* sessions stopped by the user
    requests    \* stops, archives and deletes that still await kills

\* Seen by the properties only.
VARIABLES
    asked,      \* outside requests so far
    armed,      \* how many schedules were ever armed
    spent,      \* schedules whose resume was started
    void,       \* schedules cancelled, replaced, dropped or aborted
    continued,  \* schedules whose session was told to go on
    burnt,      \* burnt[s]: consecutive fires of s that re-hit
    open,       \* open[s]: the last fire of s was not followed by a hit yet
    forgot      \* forgot[s]: a restart dropped a count of s

timerVars == <<schedule, resetOf, rehits, recent, paused>>
resumeVars == <<resumes, inFlight>>
sessionVars == <<alive, usable, stopped, requests>>
serverVars == <<up, crashes, enabled>>
history == <<armed, spent, void, continued, burnt, open, forgot>>
vars == <<asked, serverVars, timerVars, disk, resumeVars, banner, sessionVars, history>>

Partners(s) == Sessions \ {s}
None == 0

TypeOK ==
    /\ up \in BOOLEAN /\ crashes \in 0 .. MaxCrashes /\ enabled \in BOOLEAN
    /\ armed \in 0 .. MaxSchedules /\ asked \in 0 .. MaxRequests
    /\ schedule \in [Sessions -> 0 .. armed]
    /\ resetOf \in [Sessions -> Limits]
    /\ rehits \in [Sessions -> 0 .. MaxConsecutiveRehits]
    /\ recent \in [Sessions -> BOOLEAN]
    /\ paused \subseteq Sessions
    /\ disk \in [schedule : [Sessions -> 0 .. armed],
                 rehits : [Sessions -> 0 .. MaxConsecutiveRehits],
                 paused : SUBSET Sessions]
    /\ resumes \subseteq [of : Sessions, at : 1 .. armed, waits : {"self", "partner"},
                          dead : BOOLEAN, aborted : BOOLEAN, messaged : BOOLEAN]
    /\ inFlight \in [Sessions -> 0 .. armed]
    /\ banner \in [Sessions -> {"none", "armed", "paused"}]
    /\ alive \subseteq Sessions /\ usable \subseteq Sessions
    /\ stopped \subseteq Sessions
    /\ requests \subseteq [kind : {"stop", "archive", "delete"},
                           scope : SUBSET Sessions, todo : SUBSET Sessions]
    /\ spent \subseteq 1 .. armed /\ void \subseteq 1 .. armed
    /\ continued \subseteq 1 .. armed
    /\ burnt \in [Sessions -> Nat]
    /\ open \in [Sessions -> BOOLEAN] /\ forgot \in [Sessions -> BOOLEAN]

Init ==
    /\ up = TRUE /\ crashes = 0 /\ enabled = TRUE
    /\ schedule = [s \in Sessions |-> None]
    /\ resetOf \in [Sessions -> {CHOOSE l \in Limits : TRUE}]
    /\ rehits = [s \in Sessions |-> 0]
    /\ recent = [s \in Sessions |-> FALSE]
    /\ paused = {}
    /\ disk = [schedule |-> schedule, rehits |-> rehits, paused |-> {}]
    /\ resumes = {} /\ inFlight = [s \in Sessions |-> None]
    /\ banner = [s \in Sessions |-> "none"]
    /\ alive = Sessions /\ usable = Sessions /\ stopped = {} /\ requests = {}
    /\ asked = 0 /\ armed = 0 /\ spent = {} /\ void = {} /\ continued = {}
    /\ burnt = [s \in Sessions |-> 0]
    /\ open = [s \in Sessions |-> FALSE] /\ forgot = [s \in Sessions |-> FALSE]

\* A request from outside: of a user, or a CLI that dies.
Ask(kind) ==
    /\ up /\ kind \in Requests /\ asked < MaxRequests
    /\ asked' = asked + 1

\* Faulty variant: the pauses are left out of the file.
PersistWithoutPauses ==
    disk' = [schedule |-> schedule', rehits |-> rehits', paused |-> disk.paused]

\* persist(): the file is rewritten whole after every mutation.
Persist == disk' = [schedule |-> schedule', rehits |-> rehits', paused |-> paused']

-----------------------------------------------------------------------------
(***************************************************************************)
(* schedule(): a usage limit reported by a CLI that still runs.            *)
(***************************************************************************)

\* The hit is counted against the last fire, or starts the count afresh.
CountHit(s) ==
    /\ burnt' = [burnt EXCEPT ![s] = IF ~recent[s] THEN 0 ELSE IF open[s] THEN @ + 1 ELSE @]
    /\ open' = [open EXCEPT ![s] = FALSE]
    /\ forgot' = [forgot EXCEPT ![s] = @ /\ recent[s]]

\* Faulty variant: schedule() does not ask whether the session is paused.
HeardWhilePaused(s, l) ==
    /\ up /\ s \in alive /\ s \in usable
    /\ enabled
    /\ ~(schedule[s] # None /\ resetOf[s] = l)

\* handleUsageLimit and the early returns of schedule().
Heard(s, l) ==
    /\ up /\ s \in alive /\ s \in usable
    /\ enabled /\ s \notin paused
    /\ ~(schedule[s] # None /\ resetOf[s] = l)

\* Faulty variant: the schedule goes, but no pause is recorded.
PauseWithoutRecord(s) ==
    /\ schedule' = [schedule EXCEPT ![s] = None]
    /\ UNCHANGED paused
    /\ Persist

\* pause()
Pause(s) ==
    /\ schedule' = [schedule EXCEPT ![s] = None]
    /\ paused' = paused \union {s}
    /\ Persist

\* The second re-hit in a row pauses the session.
HitPauses(s, l) ==
    /\ Heard(s, l) /\ recent[s] /\ rehits[s] + 1 >= MaxConsecutiveRehits
    /\ rehits' = [rehits EXCEPT ![s] = @ + 1]
    /\ Pause(s)
    /\ banner' = [banner EXCEPT ![s] = "paused"]
    /\ void' = void \union ({schedule[s]} \ {None})
    /\ CountHit(s)
    /\ UNCHANGED <<asked, serverVars, resetOf, recent, resumeVars, sessionVars,
                   armed, spent, continued>>

HitArms(s, l) ==
    /\ Heard(s, l) /\ ~(recent[s] /\ rehits[s] + 1 >= MaxConsecutiveRehits)
    /\ armed < MaxSchedules
    /\ armed' = armed + 1
    /\ rehits' = [rehits EXCEPT ![s] = IF recent[s] THEN @ + 1 ELSE 0]
    /\ schedule' = [schedule EXCEPT ![s] = armed']
    /\ resetOf' = [resetOf EXCEPT ![s] = l]
    /\ UNCHANGED paused
    /\ Persist
    /\ banner' = [banner EXCEPT ![s] = "armed"]
    /\ void' = void \union ({schedule[s]} \ {None})
    /\ CountHit(s)
    /\ UNCHANGED <<asked, serverVars, recent, resumeVars, sessionVars, spent, continued>>

\* REHIT_WINDOW_MS after the last fire, whether the server runs or not.
WindowPasses(s) ==
    /\ recent[s]
    /\ recent' = [recent EXCEPT ![s] = FALSE]
    /\ UNCHANGED <<asked, serverVars, schedule, resetOf, rehits, paused, disk, resumeVars,
                   banner, sessionVars, history>>

-----------------------------------------------------------------------------
(***************************************************************************)
(* cancel(): for every session of S.  The schedule or the pause goes, the  *)
(* fire history goes, and the run in flight is told to abort.              *)
(***************************************************************************)

Running(S) == {r \in resumes : r.of \in S /\ inFlight[r.of] = r.at}

\* Faulty variant: cancel does not reach the run in flight.
NotAborted(r) == r

Aborted(r) == [r EXCEPT !.aborted = TRUE]

\* A person's message is noted by lastUserFrameAt, which the executor reads.
Messaged(r) == [r EXCEPT !.messaged = TRUE]

Cancel(S) ==
    /\ schedule' = [s \in Sessions |-> IF s \in S THEN None ELSE schedule[s]]
    /\ rehits' = [s \in Sessions |-> IF s \in S THEN 0 ELSE rehits[s]]
    /\ recent' = [s \in Sessions |-> recent[s] /\ s \notin S]
    /\ paused' = paused \ S
    /\ Persist
    /\ banner' = [s \in Sessions |-> IF s \in S /\ (schedule[s] # None \/ s \in paused)
                                     THEN "none" ELSE banner[s]]
    /\ void' = void \union ({schedule[s] : s \in S} \ {None}) \union {r.at : r \in Running(S)}
    /\ burnt' = [s \in Sessions |-> IF s \in S THEN 0 ELSE burnt[s]]
    /\ open' = [s \in Sessions |-> open[s] /\ s \notin S]
    /\ forgot' = [s \in Sessions |-> forgot[s] /\ s \notin S]
    /\ UNCHANGED <<up, crashes, resetOf, inFlight, armed, spent, continued>>

Abort(S) == {IF r \in Running(S) THEN Aborted(r) ELSE r : r \in resumes}

\* onUserFrameObserved: a message also ends the stop of the pair.
UserMessage(s) ==
    /\ Ask("message") /\ s \in usable
    /\ stopped' = IF s \in stopped THEN {} ELSE stopped
    /\ Cancel({s})
    /\ resumes' = {IF r.of = s THEN Messaged(r) ELSE r : r \in Abort({s})}
    /\ UNCHANGED <<enabled, alive, usable, requests>>

\* DELETE /sessions/:id/auto-resume
UserCancel(s) ==
    /\ Ask("cancel")
    /\ Cancel({s})
    /\ resumes' = Abort({s})
    /\ UNCHANGED <<enabled, sessionVars>>

\* cancelAll("disabled"): the sessions with a schedule, a pause or a run.
TurnOff ==
    /\ Ask("setting") /\ enabled
    /\ enabled' = FALSE
    /\ LET S == paused \union {s \in Sessions : schedule[s] # None \/ inFlight[s] # None}
       IN  Cancel(S) /\ resumes' = Abort(S)
    /\ UNCHANGED <<sessionVars>>

TurnOn ==
    /\ Ask("setting") /\ ~enabled
    /\ enabled' = TRUE
    /\ UNCHANGED <<up, crashes, timerVars, disk, resumeVars, banner, sessionVars, history>>

\* A stop, an archive or a delete cancels first and then awaits its kills.
Begin(kind, s, scope) ==
    /\ Ask(kind) /\ s \in usable
    /\ \A q \in requests : q.kind # kind
    /\ Cancel(scope)
    /\ resumes' = Abort(scope)
    /\ requests' = requests \union {[kind |-> kind, scope |-> scope, todo |-> scope]}
    /\ UNCHANGED <<enabled, alive, usable>>

\* killSession: both halves are marked before the first kill.
Stop(s) ==
    /\ Begin("stop", s, Sessions)
    /\ stopped' = Sessions

\* archiveSession: an archive supersedes the stop.
Archive(s) ==
    /\ Begin("archive", s, Sessions)
    /\ stopped' = {}

\* deleteSession knows of the one session only.
Delete(s) ==
    /\ Begin("delete", s, {s})
    /\ UNCHANGED stopped

\* launcher.kill, one half after the other; the flags follow the last kill.
Kill(q, s) ==
    /\ up /\ s \in q.todo /\ (s = Observer => q.todo = {s})
    /\ alive' = alive \ {s}
    /\ requests' = (requests \ {q}) \union
                   (IF q.todo = {s} THEN {} ELSE {[q EXCEPT !.todo = @ \ {s}]})
    /\ usable' = IF q.todo = {s} /\ q.kind # "stop" THEN usable \ q.scope ELSE usable
    /\ UNCHANGED <<asked, serverVars, timerVars, disk, resumeVars, banner, stopped, history>>

-----------------------------------------------------------------------------
(***************************************************************************)
(* fire() and the executor.                                                *)
(***************************************************************************)

\* relaunchSession on a dead half ends a user stop of the pair.
RelaunchStarts(s) == stopped' = IF s \notin alive /\ s \in stopped THEN {} ELSE stopped

\* The record leaves memory and file before the resume starts.
DropRecord(s) ==
    /\ schedule' = [schedule EXCEPT ![s] = None]
    /\ UNCHANGED <<rehits, paused>>
    /\ Persist

\* A fire; the delay of a minute or more outlasts the kills of a stop or delete.
Fire(s) ==
    /\ up /\ schedule[s] # None
    /\ \A q \in requests : s \in q.scope => q.kind = "archive"
    /\ DropRecord(s)
    /\ recent' = [recent EXCEPT ![s] = TRUE]
    /\ open' = [open EXCEPT ![s] = TRUE]
    /\ UNCHANGED resetOf
    /\ banner' = [banner EXCEPT ![s] = "none"]
    /\ spent' = IF enabled THEN spent \union {schedule[s]} ELSE spent
    /\ void' = IF enabled THEN void ELSE void \union {schedule[s]}
    /\ IF enabled /\ s \in usable
       THEN /\ resumes' = resumes \union
                 {[of |-> s, at |-> schedule[s], waits |-> "self", dead |-> s \notin alive,
                   aborted |-> FALSE, messaged |-> FALSE]}
            /\ inFlight' = [inFlight EXCEPT ![s] = schedule[s]]
            /\ RelaunchStarts(s)
       ELSE /\ inFlight' = IF enabled THEN [inFlight EXCEPT ![s] = None] ELSE inFlight
            /\ UNCHANGED <<resumes, stopped>>
    /\ UNCHANGED <<asked, serverVars, alive, usable, requests, armed, continued, burnt, forgot>>

\* The finally of fire(): the entry goes only if it is still this run's.
Settle(r) ==
    /\ resumes' = resumes \ {r}
    /\ inFlight' = IF inFlight[r.of] = r.at THEN [inFlight EXCEPT ![r.of] = None] ELSE inFlight

\* The session is told to go on: a prompt for the orchestrator, a wake for the observer.
GoOn(r) == Settle(r) /\ continued' = continued \union {r.at}

GiveUp(r) == Settle(r) /\ UNCHANGED continued

\* The checks right before the inject.
Inject(r) ==
    IF r.messaged \/ r.aborted \/ r.of \notin usable THEN GiveUp(r) ELSE GoOn(r)

AwaitPartner(r, p) ==
    /\ resumes' = (resumes \ {r}) \union {[r EXCEPT !.waits = "partner", !.dead = p \notin alive]}
    /\ RelaunchStarts(p)
    /\ UNCHANGED <<inFlight, continued>>

ResumeUnchanged ==
    UNCHANGED <<asked, serverVars, timerVars, disk, banner, usable, requests,
                armed, spent, void, burnt, open, forgot>>

\* ensureAlive(id) came back: the process was up, or its relaunch succeeded.
SelfReady(r) ==
    /\ up /\ r \in resumes /\ r.waits = "self"
    /\ alive' = IF r.dead /\ r.of \in usable THEN alive \union {r.of} ELSE alive
    /\ LET partners == Partners(r.of) \intersect usable
       IN  IF r.aborted \/ r.of \notin usable
           THEN GiveUp(r) /\ UNCHANGED stopped
           ELSE IF r.of = Observer
           THEN GoOn(r) /\ UNCHANGED stopped
           ELSE IF partners = {}
           THEN Inject(r) /\ UNCHANGED stopped
           ELSE \E p \in partners : AwaitPartner(r, p)
    /\ ResumeUnchanged

SelfFails(r) ==
    /\ up /\ r \in resumes /\ r.waits = "self" /\ r.dead
    /\ GiveUp(r)
    /\ UNCHANGED <<alive, stopped>>
    /\ ResumeUnchanged

\* The observer's relaunch may fail: the orchestrator is resumed all the same.
PartnerReady(r) ==
    /\ up /\ r \in resumes /\ r.waits = "partner"
    /\ \/ UNCHANGED alive
       \/ r.dead /\ alive' = alive \union (Partners(r.of) \intersect usable)
    /\ IF r.aborted THEN GiveUp(r) ELSE Inject(r)
    /\ UNCHANGED stopped
    /\ ResumeUnchanged

-----------------------------------------------------------------------------
(***************************************************************************)
(* Processes, and restarts of the server.                                  *)
(***************************************************************************)

Exit(s) ==
    /\ Ask("exit") /\ s \in alive
    /\ alive' = alive \ {s}
    /\ UNCHANGED <<serverVars, timerVars, disk, resumeVars, banner, usable, stopped,
                   requests, history>>

\* Any automatic relaunch: keepalive, boot resume, a browser that opens.
Revive(s) ==
    /\ up /\ s \in usable \ (alive \union stopped)
    /\ alive' = alive \union {s}
    /\ UNCHANGED <<asked, serverVars, timerVars, disk, resumeVars, banner, usable, stopped,
                   requests, history>>

\* The user's relaunch button ends the stop; it cancels no schedule.
ManualRelaunch(s) ==
    /\ Ask("manual") /\ s \in usable
    /\ alive' = alive \union {s}
    /\ stopped' = IF s \in stopped THEN {} ELSE stopped
    /\ UNCHANGED <<serverVars, timerVars, disk, resumeVars, banner, usable, requests,
                   armed, spent, void, continued, burnt, open, forgot>>

\* The process ends, in order or not; the saved banner may be an old one.
ServerDown ==
    /\ up /\ crashes < MaxCrashes
    /\ up' = FALSE /\ crashes' = crashes + 1
    /\ schedule' = [s \in Sessions |-> None]
    /\ rehits' = [s \in Sessions |-> 0]
    /\ paused' = {}
    /\ resumes' = {} /\ inFlight' = [s \in Sessions |-> None]
    /\ banner' \in [Sessions -> {"none", "armed"}]
    /\ alive' = {} /\ stopped' = {} /\ requests' = {}
    /\ UNCHANGED <<asked, enabled, resetOf, recent, disk, usable, history>>

\* Faulty variants: restore keeps the schedules of live processes only,
\* and nothing clears a stale banner.
RestoredIfAlive(s) == IF s \in usable \intersect alive THEN disk.schedule[s] ELSE None
StaleBanner(s) ==
    IF schedule'[s] # None THEN "armed" ELSE IF s \in paused' THEN "paused" ELSE banner[s]

\* What restore() re-arms, which pauses it takes over, and the banner of a
\* session after the sweep of stale banners that follows it.
Restored(s) == IF s \in usable THEN disk.schedule[s] ELSE None
RestoredPauses == disk.paused \intersect usable
RestoredBanner(s) ==
    IF schedule'[s] # None THEN "armed" ELSE IF s \in paused' THEN "paused" ELSE "none"

\* Attempt records older than the window are not taken over.
Boot ==
    /\ ~up /\ up' = TRUE
    /\ schedule' = [s \in Sessions |-> Restored(s)]
    /\ recent' = [s \in Sessions |-> recent[s] /\ s \in usable]
    /\ rehits' = [s \in Sessions |-> IF recent'[s] THEN disk.rehits[s] ELSE 0]
    /\ paused' = RestoredPauses
    /\ Persist
    /\ banner' = [s \in Sessions |-> RestoredBanner(s)]
    /\ void' = void \union ({disk.schedule[s] : s \in Sessions \ usable} \ {None})
    /\ forgot' = [s \in Sessions |-> forgot[s] \/ rehits'[s] # disk.rehits[s]]
    /\ UNCHANGED <<asked, crashes, enabled, resetOf, resumeVars, sessionVars,
                   armed, spent, continued, burnt, open>>

\* A continuation whose promise is resolved runs before any other event.
Ready == {r \in resumes : ~r.dead}

Resuming(r) == SelfReady(r) \/ SelfFails(r) \/ PartnerReady(r)

Event ==
    \/ \E s \in Sessions, l \in Limits : HitArms(s, l) \/ HitPauses(s, l)
    \/ \E s \in Sessions :
          \/ UserMessage(s) \/ UserCancel(s) \/ Stop(s) \/ Archive(s) \/ Delete(s)
          \/ Exit(s) \/ Revive(s) \/ ManualRelaunch(s)
    \/ TurnOff \/ TurnOn

TimerFires(s) == Ready = {} /\ Fire(s)

NextKill == Ready = {} /\ \E q \in requests : \E s \in q.scope : Kill(q, s)

Next ==
    \/ Ready = {} /\ Event
    \/ \E s \in Sessions : TimerFires(s) \/ WindowPasses(s)
    \/ NextKill
    \/ \E r \in resumes : Resuming(r)
    \/ ServerDown \/ Boot

Spec == Init /\ [][Next]_vars

\* Timers fire, kills and resolved promises come back, and the server is
\* started again; users, CLIs and relaunches owe nothing.
FairSpec ==
    /\ Spec
    /\ WF_vars(Boot) /\ WF_vars(NextKill) /\ WF_vars(\E r \in Ready : Resuming(r))
    /\ \A s \in Sessions : WF_vars(TimerFires(s))

-----------------------------------------------------------------------------
(***************************************************************************)
(* Properties.                                                             *)
(***************************************************************************)

\* What a restart would read is what the scheduler knows: every mutation of
\* schedules, attempts and pauses is followed by persist() before it returns.
DiskAgrees ==
    up => disk = [schedule |-> schedule, rehits |-> rehits, paused |-> paused]

\* The banner a browser is shown tells whether a resume is pending, paused or
\* neither, also after a restart that found an older banner on the session.
BannerAgrees ==
    up => \A s \in usable :
             /\ banner[s] = "armed" <=> schedule[s] # None
             /\ banner[s] = "paused" <=> s \in paused

\* Fire-once: a schedule that fired, or that was cancelled, is neither armed
\* nor in the file, so no crash, restore or later hit can fire it again.
FireOnce ==
    \A s \in Sessions : \A n \in spent \union void :
        schedule[s] # n /\ disk.schedule[s] # n

\* A schedule that was cancelled, or a resume that was aborted in flight,
\* does not tell its session to go on.
CancelledIsQuiet == continued \intersect void = {}

\* A session whose fires ran straight back into the limit twice in a row is
\* paused with nothing armed, as long as no restart dropped its count.
RehitBound ==
    up => \A s \in usable :
             burnt[s] >= MaxConsecutiveRehits /\ ~forgot[s] =>
                 s \in paused /\ schedule[s] = None

\* Only the user ends a pause: neither a fire, nor a hit, nor a restart does.
PauseNeedsUser ==
    [][\A s \in usable : s \in disk.paused /\ s \notin disk'.paused =>
          \/ UserMessage(s) \/ UserCancel(s) \/ Delete(s) \/ TurnOff
          \/ \E t \in Sessions : Stop(t) \/ Archive(t)]_vars

\* What the file says of every schedule is a behaviour of OneShot: spent once
\* or void, continued at most once and never after a cancel, and never left
\* armed for ever, whatever the server's restarts.
OS == INSTANCE OneShot WITH ticket <- disk.schedule, issued <- armed

ImplementsOneShot == OS!Spec
=============================================================================
