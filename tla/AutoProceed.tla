---------------------------- MODULE AutoProceed ----------------------------
(***************************************************************************)
(* Auto-proceed: the idle timer of one orchestrator half that opted in,    *)
(* with its iteration count and trace file (IdleTimerManager), the STOPs   *)
(* that hold it back (CouncilAutoProceedController), the turn state of the *)
(* adapter, and the CLI that works through the prompts.                    *)
(*                                                                         *)
(* The clock is abstract: an armed timer may fire at any moment.           *)
(* ensureRestored reads synchronously behind an await, so nothing but the  *)
(* rest of its caller can come in between: a restore is part of the action *)
(* that asks for it.                                                       *)
(***************************************************************************)
EXTENDS Naturals, Sequences

CONSTANTS
    Findings,       \* ids of blocking STOPs the observer may raise
    MaxIterations,  \* min(config.maxIterations, the ceiling)
    MaxQueue        \* bound: prompts that wait in the CLI or in the bridge

ASSUME BoundsAssumption == MaxIterations \in Nat \ {0} /\ MaxQueue \in Nat \ {0}

VARIABLES
    \* IdleTimerManager, in memory
    count,      \* iterationCount
    armed,      \* a timer is scheduled
    limited,    \* apiLimitReached
    pending,    \* pendingSyntheticTurnToken is set
    \* the controller's hold record of the group, in memory
    restore,    \* "none": no record, "open": not (fully) restored, or "done"
    hold,       \* unresolved
    resolved,   \* resolved
    waiting,    \* idleWaiting
    \* on disk
    saved,      \* iterationCount of the trace
    raised,     \* STOPs of the reviews
    dismissed,  \* STOP resolutions
    disputed,   \* STOPs that match a recorded dispute
    gap,        \* some review file cannot be read and is not ignored
    exceeded,   \* the budget is spent and nobody continued the pair
    \* the pair and the orchestrator's CLI
    status,     \* of the group
    stopped,    \* by the user
    link,       \* the adapter has an open transport
    turn,       \* orchestratorTurnState; "inflight" too while there is no adapter
    cli,        \* prompts in the CLI, the running one first
    queued      \* prompts in the bridge's pendingMessages

\* Seen by the properties only.
VARIABLES
    sends,      \* synthetic turns since the last human message
    overtaken,  \* the last of them was sent while the CLI had work
    going       \* a prompt was sent and no fault has swallowed an idle edge since

managerVars == <<count, armed, limited, pending>>
holdVars == <<restore, hold, resolved, waiting>>
reviewVars == <<raised, dismissed, disputed, gap>>
pairVars == <<status, stopped>>
cliVars == <<link, turn, cli, queued>>
history == <<sends, overtaken, going>>
vars == <<managerVars, holdVars, saved, reviewVars, exceeded, pairVars, cliVars, history>>

ManagerTypes ==
    /\ count \in 0 .. MaxIterations /\ saved \in 0 .. MaxIterations
    /\ armed \in BOOLEAN /\ limited \in BOOLEAN /\ pending \in BOOLEAN
    /\ sends \in Nat /\ overtaken \in BOOLEAN /\ going \in BOOLEAN

HoldTypes ==
    /\ restore \in {"none", "open", "done"} /\ waiting \in BOOLEAN
    /\ hold \subseteq Findings /\ resolved \subseteq Findings
    /\ raised \subseteq Findings /\ dismissed \subseteq Findings
    /\ disputed \subseteq Findings /\ gap \in BOOLEAN

PairTypes ==
    /\ exceeded \in BOOLEAN /\ stopped \in BOOLEAN
    /\ status \in {"active", "reconnecting", "degraded", "archived"}

CliTypes ==
    /\ link \in BOOLEAN /\ turn \in {"awaiting", "inflight"}
    /\ cli \in Seq({"prompt", "auto"}) /\ Len(cli) <= MaxQueue
    /\ queued \in 0 .. MaxQueue

TypeOK == ManagerTypes /\ HoldTypes /\ PairTypes /\ CliTypes

\* A pair that was just created, before its first prompt.
Init ==
    /\ count = 0 /\ armed = FALSE /\ limited = FALSE /\ pending = FALSE
    /\ restore = "none" /\ hold = {} /\ resolved = {} /\ waiting = FALSE
    /\ saved = 0 /\ raised = {} /\ dismissed = {} /\ disputed = {}
    /\ gap = FALSE /\ exceeded = FALSE
    /\ status = "active" /\ stopped = FALSE
    /\ link = TRUE /\ turn = "awaiting" /\ cli = <<>> /\ queued = 0
    /\ sends = 0 /\ overtaken = FALSE /\ going = FALSE

\* The group is known to the orchestrator's maps until it is torn down.
Tracked == status # "archived"

\* The STOPs the blocker banner shows: dismissals count in memory and on disk.
Banner == raised \ (disputed \union dismissed \union resolved)

-----------------------------------------------------------------------------
(***************************************************************************)
(* Idle edges and the hold.                                                *)
(***************************************************************************)

\* Faulty variant: one iteration too many.
PastCap == count > MaxIterations
AtCap == count >= MaxIterations

\* checkGate(), as index.ts feeds it: the grace and blockedByStop are constant.
GateOpen == ~limited /\ turn = "awaiting" /\ status = "active"

\* noteOrchestratorIdle up to arm(): what an idle edge must find.
Armable == ~exceeded /\ restore = "done" /\ hold = {} /\ ~AtCap /\ GateOpen

\* The timer after an event that raises STOPs or is an idle edge.
TimerAfter(edge) ==
    /\ UNCHANGED <<count, limited, sends, overtaken>>
    /\ armed' = (hold' = {} /\ (armed \/ (edge /\ Armable')))
    /\ going' = (going /\ ~(edge /\ status # "active" /\ turn' = "awaiting"))

\* Faulty variant: the restore does not look at the disputes.
RestoredRaw == raised' \ resolved'

\* The STOPs a restore finds on disk, less those already let go.
Restored == raised' \ (disputed \union resolved')

\* ensureRestored, with the STOPs of a new review; an idle edge may wait for it.
EnsureRestored(new, idle) ==
    IF restore = "done"
    THEN /\ hold' = hold \union (new \ resolved)
         /\ UNCHANGED <<restore, resolved, waiting>>
    ELSE /\ resolved' = resolved \union dismissed
         /\ hold' = ((hold \union new) \ resolved') \union Restored
         /\ restore' = IF gap' THEN "open" ELSE "done"
         /\ waiting' = (gap' /\ (waiting \/ idle))

\* A restore that completes runs the idle edge that waited for it.
WaitingEdge == restore # "done" /\ waiting /\ ~gap'

-----------------------------------------------------------------------------
(***************************************************************************)
(* Prompts.                                                                *)
(***************************************************************************)

\* To the CLI, or to the bridge's queue while there is no transport.
Deliver ==
    IF link
    THEN /\ Len(cli) < MaxQueue
         /\ cli' = Append(cli, "prompt") /\ turn' = "inflight"
         /\ UNCHANGED queued
    ELSE /\ queued < MaxQueue
         /\ queued' = queued + 1
         /\ UNCHANGED <<cli, turn>>

\* Faulty variant: the mark of a synthetic turn goes with the user's message.
HumanMessageUnmarks ==
    /\ Deliver
    /\ armed' = FALSE /\ limited' = FALSE /\ count' = 0 /\ pending' = FALSE
    /\ saved' \in (IF count = 0 THEN {saved} ELSE {saved, 0})
    /\ stopped' = FALSE
    /\ sends' = 0 /\ going' = TRUE
    /\ UNCHANGED <<holdVars, reviewVars, exceeded, status, link, overtaken>>

\* noteUserMessage and resetIterationCount, whose write may fail; a stop ends.
HumanMessage ==
    /\ Deliver
    /\ armed' = FALSE /\ limited' = FALSE /\ count' = 0
    /\ saved' \in (IF count = 0 THEN {saved} ELSE {saved, 0})
    /\ stopped' = FALSE
    /\ sends' = 0 /\ going' = TRUE
    /\ UNCHANGED <<pending, holdVars, reviewVars, exceeded, status, link, overtaken>>

\* A prompt of the server's own: no observer of user frames hears it.
ServerPrompt ==
    /\ Deliver
    /\ going' = TRUE
    /\ UNCHANGED <<managerVars, holdVars, saved, reviewVars, exceeded, pairVars, link,
                   sends, overtaken>>

\* Faulty variant: the end of a synthetic turn is not taken for an idle edge.
TurnEndsUnheard ==
    /\ link /\ cli # <<>>
    /\ \E n \in 1 .. Len(cli) : cli' = SubSeq(cli, n + 1, Len(cli))
    /\ turn' = "awaiting"
    /\ pending' = (pending /\ turn = "awaiting")
    /\ UNCHANGED <<saved, reviewVars, exceeded, pairVars, link, queued>>
    /\ IF turn = "awaiting" \/ exceeded \/ ~Tracked \/ pending
       THEN UNCHANGED <<holdVars, count, armed, limited, history>>
       ELSE EnsureRestored({}, TRUE) /\ TimerAfter(TRUE)

\* A result, for one prompt or for several the CLI took together.  Only the
\* first one after a send is the end of a turn to the adapter.
TurnEnds ==
    /\ link /\ cli # <<>>
    /\ \E n \in 1 .. Len(cli) : cli' = SubSeq(cli, n + 1, Len(cli))
    /\ turn' = "awaiting"
    /\ pending' = (pending /\ turn = "awaiting")
    /\ UNCHANGED <<saved, reviewVars, exceeded, pairVars, link, queued>>
    /\ IF turn = "awaiting" \/ exceeded \/ ~Tracked
       THEN UNCHANGED <<holdVars, count, armed, limited, history>>
       ELSE EnsureRestored({}, TRUE) /\ TimerAfter(TRUE)

-----------------------------------------------------------------------------
(***************************************************************************)
(* Reviews, STOPs and what a human does about them; budget and limit.      *)
(***************************************************************************)

\* Faulty variant: a STOP does not cancel the timer that is armed.
ReviewKeepsTimer(new) ==
    /\ Tracked
    /\ raised' = raised \union new
    /\ UNCHANGED <<pending, saved, dismissed, disputed, gap, exceeded, pairVars, cliVars>>
    /\ EnsureRestored(new, FALSE)
    /\ UNCHANGED <<count, armed, limited, history>>

\* noteGroupReview: a clean review releases nothing, but may complete a restore.
Review(new) ==
    /\ Tracked
    /\ raised' = raised \union new
    /\ UNCHANGED <<pending, saved, dismissed, disputed, gap, exceeded, pairVars, cliVars>>
    /\ EnsureRestored(new, FALSE)
    /\ TimerAfter(WaitingEdge)

\* release(): the last STOP out is an idle edge.
Release(f) ==
    /\ hold' = hold \ {f}
    /\ UNCHANGED <<restore, waiting>>
    /\ TimerAfter(f \in hold /\ hold' = {} /\ restore = "done")

\* resolveStop: released in memory even if the write fails.
Dismiss(f) ==
    /\ Tracked /\ f \in Banner
    /\ dismissed' \in {dismissed, dismissed \union {f}}
    /\ resolved' = IF restore = "none" THEN resolved ELSE resolved \union {f}
    /\ UNCHANGED <<pending, saved, raised, disputed, gap, exceeded, pairVars, cliVars>>
    /\ Release(f)

\* noteDispute, after the dispute was recorded.
Dispute(f) ==
    /\ Tracked /\ f \in Banner
    /\ disputed' = disputed \union {f}
    /\ UNCHANGED <<pending, saved, resolved, raised, dismissed, gap, exceeded, pairVars, cliVars>>
    /\ Release(f)

\* A review file that cannot be read, parsed or verified.
GapAppears ==
    /\ ~gap /\ gap' = TRUE
    /\ UNCHANGED <<managerVars, holdVars, saved, raised, dismissed, disputed, exceeded,
                   pairVars, cliVars, history>>

\* ignoreRestoreGap: an incomplete restore runs again.
IgnoreGap ==
    /\ Tracked /\ gap /\ gap' = FALSE
    /\ UNCHANGED <<pending, saved, raised, dismissed, disputed, exceeded, pairVars, cliVars>>
    /\ IF restore = "open"
       THEN EnsureRestored({}, FALSE) /\ TimerAfter(WaitingEdge)
       ELSE UNCHANGED <<holdVars, count, armed, limited, history>>

\* noteBudgetExceeded
BudgetCrossed ==
    /\ Tracked /\ ~exceeded
    /\ exceeded' = TRUE /\ armed' = FALSE
    /\ UNCHANGED <<count, limited, pending, holdVars, saved, reviewVars, pairVars, cliVars,
                   history>>

\* noteBudgetContinued: as good as an idle edge.
BudgetContinued ==
    /\ Tracked /\ exceeded /\ exceeded' = FALSE
    /\ UNCHANGED <<pending, saved, reviewVars, pairVars, cliVars>>
    /\ EnsureRestored({}, TRUE)
    /\ TimerAfter(TRUE)

\* noteApiLimitReached
LimitHit ==
    /\ link /\ cli # <<>>
    /\ limited' = TRUE /\ armed' = FALSE
    /\ UNCHANGED <<count, pending, holdVars, saved, reviewVars, exceeded, pairVars, cliVars,
                   history>>

-----------------------------------------------------------------------------
(***************************************************************************)
(* fire()                                                                  *)
(***************************************************************************)

Fireable == GateOpen /\ ~AtCap

\* The gate is closed by now.
FireSkips ==
    /\ ~Fireable
    /\ going' = (going /\ ~(status # "active" /\ turn = "awaiting"))
    /\ UNCHANGED <<count, pending, saved, turn, cli, sends, overtaken>>

\* The trace could not be written: no send.
FireUnsaved ==
    /\ Fireable /\ going' = FALSE
    /\ UNCHANGED <<count, pending, saved, turn, cli, sends, overtaken>>

\* Faulty variant: the count is kept in memory only.
Uncounted == count' = count + 1 /\ UNCHANGED saved

\* The trace is written before anything is sent.
Counted == count' = count + 1 /\ saved' = count + 1

\* Counted, but the transport is gone, closed or congested.
FireUnsent ==
    /\ Fireable /\ Counted /\ going' = FALSE
    /\ UNCHANGED <<pending, turn, cli, sends, overtaken>>

FireSends ==
    /\ Fireable /\ link /\ Counted
    /\ cli' = Append(cli, "auto") /\ turn' = "inflight" /\ pending' = TRUE
    /\ sends' = sends + 1 /\ overtaken' = (cli # <<>>) /\ going' = TRUE

Fire ==
    /\ armed /\ armed' = FALSE
    /\ FireSkips \/ FireUnsaved \/ FireUnsent \/ FireSends
    /\ UNCHANGED <<limited, holdVars, reviewVars, exceeded, pairVars, link, queued>>

-----------------------------------------------------------------------------
(***************************************************************************)
(* The pair, the CLI and the server.                                       *)
(***************************************************************************)

\* The other half is lost, comes back, or is given up.
PairMoves ==
    /\ \/ status = "active" /\ status' = "reconnecting"
       \/ status = "reconnecting" /\ status' \in {"active", "degraded"}
       \/ status = "degraded" /\ status' = "active"
    /\ UNCHANGED <<managerVars, holdVars, saved, reviewVars, exceeded, stopped, cliVars, history>>

\* killSession: the timer goes before the awaited kills.
UserStop ==
    /\ Tracked /\ ~stopped
    /\ stopped' = TRUE /\ armed' = FALSE /\ going' = FALSE
    /\ UNCHANGED <<count, limited, pending, holdVars, saved, reviewVars, exceeded, status, cliVars,
                   sends, overtaken>>

\* The relaunch button ends a stop.
ManualRelaunch ==
    /\ stopped /\ stopped' = FALSE
    /\ UNCHANGED <<managerVars, holdVars, saved, reviewVars, exceeded, status, cliVars, history>>

\* The exit clears the mark; handleTransportClose leaves the turn as it was.
OrchestratorExits ==
    /\ link /\ link' = FALSE
    /\ cli' = <<>> /\ pending' = FALSE /\ going' = FALSE
    /\ status' = IF status = "active" /\ ~stopped THEN "reconnecting" ELSE status
    /\ UNCHANGED <<count, armed, limited, holdVars, saved, reviewVars, exceeded, stopped, turn,
                   queued, sends, overtaken>>

\* A new process is attached: a fresh turn, then the bridge's queue.
Attach ==
    /\ ~link /\ ~stopped /\ link' = TRUE
    /\ cli' = [i \in 1 .. queued |-> "prompt"] /\ queued' = 0
    /\ turn' = IF queued = 0 THEN "awaiting" ELSE "inflight"
    /\ UNCHANGED <<managerVars, holdVars, saved, reviewVars, exceeded, pairVars, history>>

\* archiveSession: mark, timer and hold record go, the kills follow.
Archive ==
    /\ Tracked /\ status' = "archived" /\ stopped' = FALSE
    /\ armed' = FALSE /\ pending' = FALSE
    /\ restore' = "none" /\ hold' = {} /\ resolved' = {} /\ waiting' = FALSE
    /\ UNCHANGED <<count, limited, saved, reviewVars, exceeded, cliVars, history>>

\* The server goes down, in the middle of a fire it may be, and comes back; the
\* trace is read again.  Only an archived pair stays out; an unarchive before the
\* boot is folded into it.
ServerRestart ==
    /\ saved' \in {saved} \union (IF armed /\ Fireable THEN {count + 1} ELSE {})
    /\ count' = saved' /\ armed' = FALSE /\ limited' = FALSE /\ pending' = FALSE
    /\ restore' = "none" /\ hold' = {} /\ resolved' = {} /\ waiting' = FALSE
    /\ status' \in {"active", "degraded"} \union (IF Tracked THEN {} ELSE {"archived"})
    /\ stopped' = FALSE
    /\ link' = FALSE /\ turn' = "inflight" /\ cli' = <<>>
    /\ going' = FALSE
    /\ UNCHANGED <<reviewVars, exceeded, queued, sends, overtaken>>

Next ==
    \/ HumanMessage \/ ServerPrompt \/ TurnEnds
    \/ \E new \in SUBSET (Findings \ disputed) : Review(new)
    \/ \E f \in Findings : Dismiss(f) \/ Dispute(f)
    \/ GapAppears \/ IgnoreGap \/ BudgetCrossed \/ BudgetContinued \/ LimitHit
    \/ Fire
    \/ PairMoves \/ UserStop \/ ManualRelaunch \/ OrchestratorExits \/ Attach
    \/ Archive \/ ServerRestart

Spec == Init /\ [][Next]_vars

\* The CLI ends a turn or exits.  The server enforces that only for a prompt: the
\* silence watchdog is not armed for a synthetic turn.
TurnIsOver == cli # <<>> /\ (TurnEnds \/ OrchestratorExits)

\* Timers fire, and the CLI works; nobody else owes anything.
FairSpec == Spec /\ WF_vars(Fire) /\ WF_vars(TurnIsOver)

-----------------------------------------------------------------------------
(***************************************************************************)
(* Properties.                                                             *)
(***************************************************************************)

\* A human who is away gets at most MaxIterations turns they did not ask for,
\* whatever restarts, crashes in the middle of a fire and failed writes happen.
EpisodeWithinCap == sends <= MaxIterations

\* No synthetic turn is sent while the banner shows a STOP, on any path: a STOP
\* raised after the timer was armed, one restored from disk, one of several.
HoldIsRespected == [][sends' = sends + 1 => Banner = {}]_vars

\* The sticky mark, which the permission gate asks for, is set only while a
\* synthetic prompt is in the CLI, and is set while one runs that was sent to
\* an idle CLI, whatever the user types meanwhile, until the pair is archived.
MarkFitsTurn ==
    /\ pending => \E i \in 1 .. Len(cli) : cli[i] = "auto"
    /\ Tracked /\ ~overtaken /\ cli # <<>> => (cli[1] = "auto" => pending)

\* What may rightly keep an idle orchestrator waiting.
Held ==
    \/ limited \/ exceeded \/ stopped \/ status # "active"
    \/ restore # "done" \/ Banner # {}

\* No idle edge is lost to the holds: once the last reason to wait is gone, in
\* whichever order they come and go, the timer of an idle orchestrator is armed.
IdleIsArmed == link /\ turn = "awaiting" /\ going /\ ~Held /\ ~AtCap => armed

\* Left alone, a loop that is going ends at its cap, or in a hold or a fault.
LoopReachesItsCap ==
    <>[][~(HumanMessage \/ ServerPrompt)]_vars
        => (going ~> (AtCap \/ Held \/ ~link \/ ~going))
=============================================================================
