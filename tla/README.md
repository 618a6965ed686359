# TLA+ models of Aura Companion

Aura Companion is a browser UI and a Hono/Bun server (`src/web/server`) that runs Claude Code and
Codex CLI processes as *sessions*. In *Council Mode* two sessions form a pair: an **orchestrator**
half that works, and an **observer** half that reviews it. The server keeps the pair alive through
crashes of either half, restarts of itself, and stops, archives and deletes by the user.
This directory holds the TLA+ models of that server, the TLC configurations that check them, and
proofs for TLAPS. Six parts are modelled: the life of a council pair, the pipeline that wakes the
observer, the auto-proceed of an unattended orchestrator, the queue and the init probe between
server and CLI, the socket between server and browser, and the auto-resume after a usage limit.

## Inventory

| Part | State it keeps | Operations and how it interacts | What makes it correct |
|---|---|---|---|
| Group state machine (`group-state-machine.ts`) | none (pure) | `transition`, `deriveSideEffects` | archived is terminal; unknown pairs are no-ops |
| Group coordinator (`session-group-coordinator.ts`) | group records, one reconnect window per group | `createGroup` (two awaited spawns, rollback), `applyEvent`, `armReconnect` and its timer, `archiveGroup`; emits `group:*` on the bus | a wait for a lost half always ends; a window has one owner |
| Council lifecycle (`council-lifecycle.ts`) | `groupMeta` (which sessions are tracked), watchers | listeners of `session:exited`, `session:cli-id-received`, `session:relaunch-failed`, `group:*`; `reconcileCouncilGroups` at boot | reacts only to real deaths; recovers only by the lost half |
| Intentional kills (`intentional-kills.ts`) | a set of marks, some *transient* | `add`, `addTransient`, `releaseTransient`, `delete`; read by both exit listeners | a relaunch's own mark ends with it; a durable one is not released by it |
| Session recovery (`session-recovery.ts`) | claims, counts, exhaustion, keepalive and boot timers, relaunch in flight, stops | `handleAutoRelaunch` (claim, 2 s grace, flight, 5 s cooldown), `relaunchOnce`, `scheduleProactiveRelaunch`, boot resume, drift recovery | single flight; a claim is released; a stop wins; a budget bounds failures |
| Session orchestrator (`session-orchestrator.ts`) | the wiring | kill, relaunch, archive, unarchive, delete, user message, idle kill | the pair acts as one; kills are awaited and marked |
| CLI launcher (`cli-launcher.ts`) | a row per session (state, archived, resume mark), persisted | `launch`, `relaunch` (kill, then spawn), `kill`, exit handlers, `restoreFromDisk` | rows agree with processes |
| Observer wake (`council-checkpoint-pipeline.ts`, `council-observer-scheduler.ts`, `council-observer-autoheal.ts`, `council-wake-*.ts`, `checkpoint-watcher.ts`, `review-watcher.ts`) | one waiting checkpoint, the last one woken for, review deadline, poll timers, rejections, an episode of auto-heal, a recovery in waiting; sentinel and review files | `handleCouncilCheckpoint`, `dispatchObserverWake`, `drainPendingObserverWake`, the scan, the catch-up polls, `heal`, `onWakeUnanswered`, `finalizeObserverReply`, the deadline and two watchdogs | the newest checkpoint is woken for; a reply answers its own wake; a deaf observer is replaced |
| Auto-proceed (`idle-timer-manager.ts`, `auto-proceed-*.ts`, `council-auto-proceed-controller.ts`) | timer, turn token, iteration count and its trace file, mark of a synthetic turn; per group the unresolved and resolved STOPs and a restore; files of resolutions and of ignored gaps | `arm`, `fire`, `cancel`, `noteUserMessage`, `noteApiLimitReached`, `rehydrate`; `noteOrchestratorIdle`, `noteGroupReview`, `resolveStop`, `noteDispute`, `ensureRestored`, `ignoreRestoreGap`, the budget and archive calls | no turn under a STOP or past the cap; no idle edge lost to a hold; the mark fits the turn |
| Browser channel (`ws-bridge*.ts`, `web/src/ws.ts`) | sequence number, replay buffer, history, known message ids, their file; the tab's cursor, queue and timers; the prompt queue of a session without a CLI | publish, subscribe and replay, dedup, save and restore; connect, reconnect, hide, queue; route, enqueue, flush, drain | no hole in the conversation, no streamed piece twice, no message left behind; prompts in order, once, or announced as lost |
| Usage-limit auto-resume (`auto-resume-*.ts`) | per session a schedule, a count of re-hits, a pause, and a file with all of it; running continuations | `onLimitHit`, `cancel`, `fire`, `restore`, `abort`, the executor's relaunch and send | fires once; never after a cancel or a stop; a repeated limit pauses |
| Session phases (`session-state-machine.ts`) | a phase per session | a table of transitions | terminated is left only by a start |
| Convergence, budget, second review | counters over reviews | pure decisions | bounded rounds |
| Cron, image pulls, session store, worktrees, cleanup, relay | files, single pulls, sockets | scheduled or on request | outside the core |
| CLI adapters (`claude-adapter.ts`, `codex-adapter.ts`) | transport, init probe, turn state, watchdogs | `attachTransport`, `sendInitProbe`, `cancelQueuedProbe`, `interruptProbe`, message and lifecycle handlers | the probe's interrupt never hits a real turn |
| Routes, UI | HTTP, rendering | | not modelled |

Hard behaviour, in the order of how much depends on it:
- **One exit, two listeners.** Every process exit is heard by the keepalive of `SessionRecovery`
  and by `CouncilLifecycle`, in that order and in one turn of the event loop. Both decide from the
  same kill mark, which five different operations set and three release.
- **Awaits.** A relaunch awaits the death of the old process and the spawn of the new one; a stop
  awaits two kills; `createGroup` awaits two spawns. Between them anything else runs.
- **Timers.** Window, keepalive, boot resume, grace and cooldown race with answers.
- **Restarts.** Only launcher rows survive; groups, marks, counts and stops are rebuilt or lost.
  Sequence numbers, schedules and wake sentinels come from files that were written at other times.
- **One stdin.** Prompts of the user, prompts that waited, the init probe and the interrupt that is
  to end it share a pipe to a process that runs its own queue and may be replaced.
- **Lost events.** `fs.watch`, a socket and a turn's end can each be lost without a trace; scans,
  replays and watchdogs make up for them and may do so twice.

## Modules

| Module | What it is |
|---|---|
| `CouncilGroup.tla` | The pair: group record, both exit listeners, marks, claims, relaunches, user requests, restarts |
| `PairLifecycle.tla` | What a pair promises its readers: a status and at most one awaited half; a wait always ends |
| `AutoResume.tla` | The auto-resume after a usage limit: scheduler, file, executor, banner, requests, restarts |
| `OneShot.tla` | What a schedule promises: a ticket is spent or revoked once, and only a spent one may continue the session |
| `BrowserChannel.tla` | The socket between one session and one tab: numbers, buffer, history, file; cursor, queue, reconnects |
| `CliKickoff.tla` | The prompt queue and the init probe before a Claude CLI on stdio that is relaunched |
| `AutoProceed.tla` | The idle timer of an orchestrator, its count and trace, the STOPs that hold it, the turn state and the CLI |
| `ObserverWake.tla` | The pipeline from a checkpoint to its review: watchers, scan, polls, wake, watchdogs, recovery, auto-heal |
| `MC*.tla` | The instances that TLC checks |
| `*_proofs.tla` | The theorems |

The modules do not share variables. Where one part acts on another, the other appears by what it
does to the first: a relaunch of `CouncilGroup` is `Relaunch` in `CliKickoff` and `HealSpawned` in
`ObserverWake`, the group's status is `status` in `ObserverWake` and `AutoProceed`, a stop is a request in
`CouncilGroup`, `AutoResume`, `AutoProceed` and `ObserverWake`. The definitions commented "Faulty variant" are no
part of any `Next`; each is the change of a definition that shows that a property can fail.

### `CouncilGroup`: variables and code

| Variable | Code |
|---|---|
| `status` | `GroupRecord.status`; `none`: no record (yet, or not reconciled), `failed`: `createGroup` rolled back |
| `window` | the half whose `ReconnectContext` is armed |
| `cli[r]` | `SdkSessionInfo.state` with the liveness of the process: `gone` (no row), `down` (`exited`), `starting`, `up` (`connected` / `running` with an adapter) |
| `mark[r]` | `IntentionalKills`: absent, transient, durable |
| `timer[r]` | `keepaliveTimers` and `bootResumeQueued`; `boot` covers the stagger timer and the wait for a slot |
| `claim[r]` | `relaunchingSet` and where its owner is: `grace`, `flight`, `cooldown` |
| `direct[r]` | a `relaunchOnce` without a claim (manual, auto-heal); `queued` behind the running one |
| `count`, `exhausted`, `stopped` | `autoRelaunchCounts`, `relaunchExhaustedNotified`, `stoppedByUser` |
| `archived[r]` | the row's flag |
| `doomed[r]` | `runRelaunch` found the row archived after its spawn and awaits the kill of the new process |
| `job` | the stop, archive, delete, idle kill or rollback whose awaited kills are running |

Each action is one turn of the event loop. `Exit(r)` is a process exit with both listeners; it is
part of `Crash` (nobody asked for it), `RelaunchKills` (the old process of a relaunch, and the new
one of an archived half) and `KillOne` (an awaited kill). `Handshake` is `session:cli-id-received`,
emitted for every init frame, so also by the half that never died. `GraceSkips`, `GraceExhausts` and
`GraceRelaunches` are what `runAutoRelaunch` does when the grace pause is over; `RelaunchSpawns`,
`RelaunchFails` and `LauncherRefuses` are the ends of a flight. `launcher.relaunch` does not look at
the archived flag, so a flight whose half was archived meanwhile spawns it all the same
(`RelaunchSpawnsArchived`), and `runRelaunch` then kills the process, which until then may shake
hands or die by itself, before the flight ends as a failure. `StopSession`, `UserMessage`,
`ManualRelaunch`, `ArchiveSession`, `Unarchive`, `DeleteSession` and `IdleKill` are the first
synchronous part of a request, `KillOne` and `DeleteForgets` its awaited parts. `ServerCrash` and
`GracefulRestart` are the end of one server and the boot of the next, with `restoreFromDisk` and
`reconcileCouncilGroups`.
`Requests` says which outside events an instance lets happen, so that each run can afford the ones
its question needs.

Abstractions, each of which a later module may lift:
- One pair, with one operator request at a time: a second stop, archive, delete or idle kill waits
  for the kills of the first. Messages and manual relaunches do interleave with those kills,
  except with the single kill of a delete.
- At most one manual relaunch is queued per half.
- A half has at most one process. The late exit of an old process, a process whose adapter is lost,
  and the process that a relaunch spawns for a deleted half need process generations.
- Durations are left out: any pending timer may fire. The settle window after a relaunch appears as
  `cli = "starting"`; drift recovery and model fallback appear as unmarked kills, that is `Crash`.
- A shutdown and the next boot are one step. A half that keeps its process over a restart (a
  container, or a CLI on the WebSocket transport) is chosen freely.
- Boot resume: sessions are recent enough, carry a CLI session id, and the crash-loop guard is open.

### `AutoResume`

| Variable | Code |
|---|---|
| `enabled` | the `autoResumeAfterLimit` setting |
| `schedule`, `resetOf`, `rehits`, `recent`, `paused` | the scheduler's map of timers with the reset time each was made for, the re-hit counts, whether the last fire is inside `REHIT_WINDOW_MS`, and the sessions that the repeat-limit guard paused |
| `disk` | `auto-resume.json` |
| `resumes`, `inFlight` | runs of the executor (relaunch, wait, send) and the schedule each serves |
| `banner` | `SessionState.auto_resume` |
| `alive`, `usable`, `stopped` | process and row of each half, and the user's stop |
| `requests` | a stop, archive or delete whose awaited kills are running |
| `asked`, `armed`, `spent`, `void`, `continued`, `burnt`, `open`, `forgot` | seen by the properties only |

`LimitHit` is `onLimitHit` with its refusals, replacement and re-hit count; `Fire` is `fire`, which
takes the schedule off the file before it starts the executor; `Cancel`, user messages, stops,
archives and deletes call `cancel` and `abort`; `ServerDown` and `Boot` are the end of the server
and `restore`. `OneShot` has one ticket per session with `Arm`, `Spend`, `Revoke`, `Continue`, and
promises that a ticket comes to an end; `AutoResume` implements it with the file for the ticket.

Left out: the clock (any armed schedule may come due), unarchive, a failing write of the file, a
second request of the same kind for a session. `Fire` waits for the kills of a stop or delete that
is running, because the jitter of a schedule is at least a minute and a kill's escalation seconds.
Continuations that are ready run before other events of the session.

### `BrowserChannel`

| Variable | Code |
|---|---|
| `nextSeq`, `buffer`, `recorded`, `processed` | `nextEventSeq`, `eventBuffer`, `messageHistory`, `processedClientMessageIds` |
| `saved` | the session's file |
| `conn`, `link` | the tab's socket as the tab sees it, and what carries it; a `dead` link with an `open` socket is half-open |
| `down`, `upward` | frames under way |
| `lastSeq`, `shown`, `queue`, `timer`, `hidden` | cursor in localStorage, what the page handled, `pendingOutgoingBySession`, reconnect timer, page visibility |
| `events`, `twice`, `lost`, `torn`, `faults` | seen by the properties only; `torn`: the server forgot numbers that the tab has seen |

An event is `chat` (recorded and buffered), `transient` (buffered only) or `snapshot` (numbered, not
buffered); a `message` is the user's and becomes an event when it is taken. `Emit` and `TakeMessage`
are `broadcastToBrowsers` after `appendHistory`, `Accept` is `handleBrowserOpen` (the socket gets
the history and is broadcast to from then on), `Subscribe` is `handleSessionSubscribe` with its
three cases, `Receive` is `handleParsedMessage` with the cursor. `Break`, `ServerDies`, `Reload`,
`Disconnect` and `Hide` are faults, at most `MaxFaults` of them.

Left out: acknowledgements (the server only records them), `session_init` and status frames,
`error` frames, a second tab, the limit on known message ids. Frames under way are lost with their
socket. `ServerDies` is a crash or the exit at the end of a shutdown, whose flush is `Save`.

### `CliKickoff`

| Variable | Code |
|---|---|
| `pending`, `linked`, `drainTimer`, `present` | `pendingMessages`, an adapter with a transport, the drain after the last browser left, a browser |
| `probe`, `lifecycle` | `InitProbeState` (`live`, `foreign`, `cancelSent`, the grace `timer`), `lifecycleSeenThisProcess` |
| `proc`, `overrun`, `cli` | the newest process, a replaced one whose exit is still to be handled, and what the processes report of their commands: `legacy` ones nothing |
| `stdin`, `inbox`, `turn`, `inited`, `stdout` | the process: its pipe, its queue, the commands of the running turn, init reported, frames under way |
| `accepted`, `written`, `told`, `over`, `hurt`, `excused` and the counters | seen by the properties only |

`UserMessage` and `StatusPoll` are `routeBrowserMessage`; `Spawn` is `spawnClaudeStdio` with
`openCliTransport`, which flushes what waits or sends the probe; `ReadStdin`, `StartTurn`,
`FoldPrompt`, `EndTurn`, `CronDue` are the CLI; `ReadStdout` is `handleRawMessage` with
`handleCommandLifecycle` and `onInitForProbe`; `GraceEnds` the timer of the latter; `LateExit` the
exit handler of a replaced process, which has no generation check.

Left out: interrupts by the user, permission answers, `set_model`, wakes by the server; the
adapter's own queue stays empty with a stdio transport. `EndTurn` states the one assumption of time:
a turn of the probe takes an API round trip, which outlasts frames in the pipes and the 200 ms
grace (the comment at `claude-adapter.ts:69-75` reasons so). A prompt written to a process that then
ends counts as `over`: it is the CLI's to resume. Crons are only modelled for CLIs that report
them, and the last process that a run counts does not exit by itself.

### `ObserverWake`

The handlers of the pipeline call each other: the end of a turn may drain the queue into a new wake,
whose refusal starts a poll, whose time-out starts a heal, whose failure degrades the pair. They are
therefore functions of one record `pair`, composed as the code composes them, and an action applies
one of them.

| Field of `pair` | Code |
|---|---|
| `status`, `lost` | the coordinator's record |
| `obs`, `hello`, `cli`, `turn`, `heard` | the observer: its adapter, whether it owes its init frame, the wakes its process works on, `observerTurnState`, and whether a frame came since the wake |
| `last`, `pending`, `deadline`, `expect`, `rejections`, `reviewed` | `CouncilWatcherEntry` |
| `polls`, `timeouts` | the catch-up polls and the consecutive time-outs |
| `recovery`, `heal`, `slots` | `WakeRecovery`, an episode of auto-heal with its owner, and its hourly budget |
| `sentinel`, `review`, `fresh`, `before` | files: the wake sentinel, the reviews, which of them postdate their wake, and the checkpoints that were there before the watcher |

`Checkpoint` is `handleCouncilCheckpoint`, `Dispatch` `dispatchObserverWake` with its gates in order
(already asked, already reviewed, observer not ready or busy, send), `Enqueue` the one-slot queue in which
the newest wins, `Scan` the fail-safe scan of the files, `PollReady`, `PollTimeout` and
`PollExpires` the catch-up polls with their strikes, `HealRound` and what follows it `heal`,
`OnWakeUnanswered`, `StartRecovery` and `OnTurnDone` the recovery, `Finalize` the recording of the
reply, `Silence` and `ForceRelease` the two watchdogs of the adapter, `DeadlineFires` the review deadline.

Left out: the spawn checkpoint, observers that write their review file themselves, the gates of
budget, probe, API limit and backpressure, the wake retry of the Codex adapter, the second
reviewer, a relaunch that joins another one's flight. Each checkpoint is its own phase. A behaviour
lasts an hour at most, so a slot of the hourly budget is not given back. What is assumed of time is
what the constants fix: silence (120 s) before the review deadline (300 s) before the
completion watchdog (360 s), and the waits of a heal round shorter than the watchdogs of a wake sent
meanwhile (`WatchdogsMayFire`). A send fails only as a fault.

### `AutoProceed`

| Variable | Code |
|---|---|
| `count`, `armed`, `limited`, `pending` | `ArmedTimerState`: `iterationCount`, `timer`, `apiLimitReached`, `pendingSyntheticTurnToken` |
| `restore`, `hold`, `resolved`, `waiting` | `GroupStopHold`; `none`: no record |
| `saved` | `iterationCount` in the trace file |
| `raised`, `disputed`, `dismissed`, `gap` | the reviews, disputes and resolutions on disk, and whether a review cannot be read and is not ignored |
| `exceeded` | the council budget is spent |
| `status`, `stopped` | the group's record, the user's stop |
| `link`, `turn` | the adapter's transport and `orchestratorTurnState` |
| `cli`, `queued` | what the CLI works on, and what waits in the bridge |
| `sends`, `overtaken`, `going` | seen by the properties only |

`TurnEnds` is `handleResultMessage` with `orchestrator:turn-done`, `noteOrchestratorIdle` and
`noteTerminalResultFrame`; one result may answer several prompts that the CLI took together.
`Review`, `Dismiss`, `Dispute`, `IgnoreGap`, `BudgetCrossed`, `BudgetContinued` are the calls of the
controller, each with the restore it asks for (`EnsureRestored`) and the effects on the timer that the
state machine hands back (`TimerAfter`). `Fire` has the outcomes of `fire`: the gate is closed, the
trace cannot be written, the send fails after the write, or the turn is sent. `HumanMessage` is a user
frame with its observers, `ServerPrompt` a prompt that no observer hears. `ServerRestart` is a crash, also
between the write and the send, or a deploy, followed by `reconcileAutoProceedTraces`.

Left out: the clock (an armed timer may fire at any moment), the turn token (a cancel takes the
timer with it), the options, the AFK summary, the permission gate that reads the mark, findings that
are re-grounded, a trace that cannot be read at boot. A restore is one step with its caller, since
the load behind its `await` is synchronous. What the banner shows is taken from the files; that the
browser shows it is rendering. `ServerRestart` is
the boot that reads every tracked pair's trace; an unarchive before it is folded into it. A pair that
is unarchived after the boot and found by the lazy reconcile of `getAllGroupsForBootstrap` is not
modelled: nothing reads its trace again, so its count starts at zero and `EpisodeWithinCap` says
nothing of it.

## Runs

Every state space is finite and explored in full. Bounds that are no constants of the code are
named `Max...` in the modules.

| Run | Distinct states | Instance | Checks |
|---|---|---|---|
| `council_safety` | 1 257 726 | one pair, budget 1; browser, stop, manual, archive, delete, auto-heal; no restart | types, four invariants, three action properties |
| `council_deploys` | 86 596 | one pair; stop, archive, graceful restart; fair | no claim is kept, owed relaunches are attempted, requests complete |
| `council_restarts` | 127 814 | one pair; stop, idle kill, archive, crash and restart of the server; fair | implements `PairLifecycle` |
| `auto_resume` | 193 362 | two halves, 2 limits, pause after 2 re-hits, 2 schedules, 1 crash, 2 requests; fair | types, four safety properties, implements `OneShot` |
| `browser` | 228 800 | buffer 1, history 2, 3 events of which 1 message, 2 faults; fair | types, two invariants, two liveness properties |
| `kickoff` | 574 342 | queue of 2, 2 prompts, 1 poll, 1 cron, 2 spawns, 1 leave; fair | types, three invariants, an action property, one liveness property |
| `observer_wake` | 128 382 | 2 checkpoints, any 1 fault, 2 replies; fair | types, two safety and two liveness properties |
| `auto_proceed` | 996 592 | 2 STOPs, cap 2, 2 prompts in the CLI or in the queue; fair | types, three invariants, an action property, one liveness property |
| `f_*` | | the smallest environment that shows the disagreement | one statement of a comment or a document each, which the code does not keep |

Why the bounds are enough:
- *Council*: `MAX_AUTO_RELAUNCHES` is 3 in the code. With 1, exhaustion, an attempt given back and a
  reset count are all reachable; the count influences nothing else, and the theorems hold for every
  budget. Every other variable ranges over all that the code can reach. No run has every kind of request
at once, for the time it takes; the properties of `council_safety` are proved for every set of them.
- *Auto-resume*: two limits per session reach a re-hit within and outside the window, a
  replacement, and a pause; two schedules of one session a continuation of the first that is still
  running when the second fires. The safety theorems hold for all values.
- *Browser*: with a buffer of one and three events the buffer overflows and the replay finds a gap;
  two faults give a reconnect that breaks again and a restart after a break. The invariants are
  proved for all values.
- *Kickoff*: two prompts of which one waits and one overtakes or folds into the probe's turn; a
  queue of two is filled by two prompts or a prompt and a poll and overflows with the third; two spawns let
  a late exit meet its successor. Safety is proved for all values and all kinds; `legacy` CLIs and
  those that announce everything are run, as CLIs that report starts and ends only behave like the latter.
- *Observer wake*: two checkpoints make the queue's slot contested and a reply ambiguous.
  `REJECTIONS_BEFORE_DEGRADE` and the escalation after time-outs are 2 instead of 3, the
  attempts of a heal 2, its hourly budget 2 instead of 4, so that each can run out. One fault, because
  with two the promise of liveness does not hold (below). The safety properties hold for all values.
- *Auto-proceed*: two STOPs, so that one may go and another stay; a cap of 2 is reached, missed by
  one, and reset in between; two prompts let a synthetic turn be overtaken and answered together. Stops,
  restarts, faults and reviews are not bounded. The safety theorems hold for all values.

`CHECK_DEADLOCK FALSE` is set because a pair that was rolled back and deleted, a session without a
schedule, and a behaviour whose bounds are used up have nothing left to do.

The properties of `council_safety`: `WindowMatchesStatus` (a reconnecting pair has a window);
`SingleFlight`; `TransientMarkIsOwned` and `FlightKeepsItsMark` (a relaunch's mark lasts exactly as
long as it does, unless a user resumes a stopped pair); `StoppedIsLeftAlone` and `StopWinsOverGrace`
(a stop disarms everything, also in the grace pause); `RevivalIsEarned` (an archived group stays
archived, and a reconnecting one becomes active only by the handshake of the half that was lost). That
an armed window keeps its half is part of `ImplementsPairLifecycle`.

The other runs' properties, in words:
- `auto_resume`: `DiskAgrees` and `BannerAgrees` (while the server is up, file and banner say what the
  scheduler knows), `CancelledIsQuiet` (no continuation for a schedule that was cancelled, replaced or
  aborted in flight), `RehitBound` (the n-th re-hit in a row pauses),
  `ImplementsOneShot`, which includes that a schedule that fired or was voided is never armed
  again, also from the file.
- `browser`: `CursorIsSound` (what the cursor hides was shown or is coming as history), `TransientOnce`,
  `ChatComplete` (every recorded entry is shown in the end), `MessageArrives`. The first and
  `ChatComplete` hold until a restart forgets numbers that the tab has seen; `f_seqregress` shows
  what happens then.
- `kickoff`: `NoRealTurnInterrupted`, `ProbeIsInterrupted` (unless something shared the process),
  `PromptsInOrder`, `PromptsAccountedFor`, `PromptStartsOrTold` (each prompt reaches a turn, or its
  loss is told, or it was with a process that ended).
- `observer_wake`: `HealHasItsOwner` (an episode of auto-heal belongs to a poll or a recovery that
  waits for it, and nothing waits for an episode that is not there), `ReplyIsForItsWake` (what is
  recorded for a checkpoint answers its wake, while the process works on one wake only),
  `NewestIsWoken` (in a pair that is up for good the newest checkpoint is woken for or answered in the
  end), `SilentIsReplaced` (a checkpoint does not wait for ever for a process that let a wake pass in
  silence).
- `auto_proceed`: `EpisodeWithinCap` (a human who is away gets at most the cap's number of turns, also over
  crashes between write and send), `HoldIsRespected` (no turn is sent while the banner shows a STOP, on
  any path), `MarkFitsTurn` (the sticky mark is set only with a synthetic prompt in the CLI, and with one
  that was sent to an idle CLI until it ends), `IdleIsArmed` (when the last reason to wait goes, in
  whichever order they came, the timer is armed), `LoopReachesItsCap` (a loop that nobody
  disturbs goes on to its cap, or to a hold or a fault).

Some statements are proved and not run, as another property of the run already fails with them:
`ExhaustedIsUnclaimed` (`CouncilGroup_proofs`), `FireOnce` and `PauseNeedsUser` (`AutoResume_proofs`).
`ArchivedSpawnIsUndone` (`CouncilGroup_proofs`) is proved only; TLC found it to hold on the instance
of `council_safety`.

### Fairness

Nothing is assumed of the user, the network or a CLI's crashes. What is assumed:
- `CouncilGroup`: what the server does by itself: a timer that is set fires (window, keepalive, boot
  resume, grace, cooldown), an awaited kill resolves (`launcher.kill` escalates to SIGKILL after a
  timeout), a relaunch resolves (its spawn and its wait for the old process are bounded). No
  handshake has to happen, and a relaunch may fail every time. `OwedRelaunchIsAttempted` concerns a
  server that at some time is no longer redeployed; the obligation itself may have been created
  before any number of restarts.
- `AutoResume`: the server is started again, awaited kills end, a due timer fires, a continuation
  that is ready runs. Relaunches, CLIs and users owe nothing.
- `BrowserChannel`: the server is started again, the sidebar polls its sessions (an interval of the
  page), a socket's handshake goes on or the socket is found dead (the heartbeat watchdog), frames on a
  live socket are handled in order. Publishing, saving and the reconnect timer owe nothing.
- `CliKickoff`: a session with an accepted prompt is relaunched (by the keepalive or a browser;
  `CouncilGroup` shows that an owed relaunch is attempted), an exit is noticed, a running CLI reads and
  runs its queue, the server reads stdout, the grace timer fires.
- `AutoProceed`: an armed timer fires, and the CLI ends a turn or exits. The latter is the CLI's part:
  the server enforces it for a prompt (a silent CLI is killed) but not for a synthetic turn (below), and a
  turn that waits for a permission ends when someone answers. Nobody else owes anything.
- `ObserverWake`: the scan is an interval, polls, deadlines, watchdogs, the grace window and the
  waits of a heal are timers; a turn ends with a result or by one of the two watchdogs, and an attached
  CLI reports its id.

### Where the code and its texts differ

| Run | Text | What happens |
|---|---|---|
| `f_cooldown` | "auto-relaunch crashed CLI processes even without a browser connected" (`session-orchestrator.ts:784`) | a crash in the cooldown after a relaunch finds the claim held, and nothing is scheduled |
| `f_stickymark` | "`active`: ... → `degraded` on one-half death" (`council-mode-architecture.mdx:99`) | the idle kill's mark stays on a revived half and hides its next crash |
| `f_seqregress` | "Assigns a monotonic sequence number" (`ws-bridge-publish.ts:16`) | a restart takes `nextEventSeq` from an older save, and the tab drops what follows as already seen |
| `f_alreadywoken` | "so the redelivery is not deduped as `already_woken`" (`council-checkpoint-pipeline.ts:1387`) | a deadline that ends while the pair reconnects leaves the sentinel, and the redelivery is dropped as already woken |

Further disagreements and surprises that the modelling met, without a run of their own. In the pair:
- A relaunch in flight may spawn between an archive's kills and its flag, although "an archived
  session ... must never be resumed" (`session-orchestrator.ts:2185`).
- The rollback in `createGroup` kills a half without a mark; it is heard as a crash and the
  keepalive relaunches a half that no group knows (`session-group-coordinator.ts:221`).
- The failed relaunch of one half marks both, and the other one's boot resume is skipped
  (`session-orchestrator.ts:1001`).
- The surviving half's init frame counts as the respawn of the other (`council-lifecycle.ts:299`).
- A user message during the kills of a stop clears the stop's marks
  (`session-orchestrator.ts:2049`); a successful spawn resets the relaunch budget, which therefore
  does not bound a CLI that starts and dies (`session-recovery.ts:1307`).

Between server, CLI and browser:
- A status poll that waits in the queue suppresses the init probe but does not make the CLI
  start (`ws-bridge.ts:2089`).
- The exit handler of a replaced process closes the adapter its successor uses
  (`cli-launcher.ts:2172`, against the INVARIANT comment at `ws-bridge.ts:1823`).
- A socket that is accepted is broadcast to before it subscribed, so that a replay may race live
  events; the `subscribed` flag is never consulted (`ws-bridge.ts:1764`). The tab's cursor absorbs it,
  except that system events recorded in the history may be shown twice (`ws.ts:1379`, `1667`).
- `error` frames are filtered from a replay as history although they are not recorded
  (`ws-bridge-replay.ts:43`).

In auto-resume: a restart drops the count of re-hits of a session whose schedule just fired
(`auto-resume-scheduler.ts:281`); two reports of one limit after one fire count twice and pause early;
a stop does not take back what was already sent.

In auto-proceed:
- The silence watchdog is armed for user messages only (`claude-adapter.ts:897`, not in
  `sendOrchestratorSyntheticFrame`): of a synthetic turn in a CLI that went silent nobody hears again.
- The mark is cleared by the next result, whichever turn it ends. With prompts in the CLI a synthetic turn
  may lose its mark before it runs, and two may overlap; the text says "for THIS turn"
  (`idle-timer-manager.ts:714-718`). `MarkFitsTurn` is therefore about turns sent to an idle CLI.
- An idle edge or a fire while the pair is not active, a failed write or send, or a crash in the middle of
  a turn drops the edge, and nothing arms until the next prompt (`going` is false then).
- `apiLimitReached` is not in the trace: a restart clears it, although "future arm/fire attempts refuse until
  the user sends a new message" (`idle-timer-manager.ts:408-411`).
- After a stop, a result before the kill, a dismissed STOP or a continued budget may arm the timer again, which
  then burns an iteration on a CLI that is gone.

In the wake pipeline:
- A recovery that waits for the end of a turn in which the observer dies waits for ever and takes
  the place of every later one (`council-wake-recovery.ts:65`).
- A degradation is dropped while the pair is reconnecting (`council-observer-scheduler.ts:688`), so
  that with two faults, silence in the window of a lost orchestrator, the pair stays degraded
  with no recovery.
- At a deadline, a review that was refused counts as answered when its checkpoint was the last one
  reviewed; an older poll or drain may wake after a newer wake; after a forced release or silence a
  late reply is filed under the wake sent since; the second round of a recovery kills an observer that came
  back by other means and is in the middle of its review.

## Proofs

Each theorem holds for every value of the constants that the module's `ASSUME` allows; the runs
evaluate those assumptions. The modules are proved apart, as they share no state; `CliProbe_proofs` goes on
from `CliKickoff_proofs`.

### `CouncilGroup_proofs`

For every budget `MaxAutoRelaunches \in Nat \ {0}` and every set of `Requests`:

1. `TypeCorrect`: `TypeOK` is inductive. The lemmas `ServerTypeStep` and `OutsideTypeStep` have one
   step per action.
2. The life of the group. `GroupEffect` names the ten things a step can do to `status` and `window`,
   and `GroupSteps` proves that there are no others. From it follow `WindowCorrect`
   (`WindowMatchesStatus` is inductive by itself given the types), the action property
   `RevivalCorrect`, and `PairSafety`, the safety part of the refinement of
   `PairLifecycle`, step by step (`PairStep`).
3. The relaunch bookkeeping. `SingleFlight`, `TransientMarkIsOwned`, `StoppedIsLeftAlone` and
   `ExhaustedIsUnclaimed` are not provable apart: that a mark is released needs that only one
   relaunch owns it, and that a stopped half has no timer needs that its mark is durable and so
   not released by a flight. Their conjunction `RelaunchInv` is inductive (`RelaunchInvariant`), from which
   `OneFlight`, `TransientMarksEnd`, `StopsLast` and `BudgetHolds` are read off.
4. What no step may do. `MarkSteps` proves of every step, with no invariant but the types, that a
   running relaunch keeps its mark (`FlightsKeepMarks`) and that a stop wins (`StopsWin`).
5. Archived rows. `ArchivedSpawnEnds`: an archived row without a process gets one only from a
   relaunch that is in flight, and that relaunch does not end, nor drop the debt, while the process
   lives, whatever is unarchived, stopped, resumed or deleted meanwhile; only the end of the server
   interrupts it. It needs the invariant `RowInv`: the flag is only ever on a row that exists and
   the observer has none before it is spawned, without which the two spawns of `createGroup`
   could not be ruled out, and only a flight owes a kill, so that no flight starts in debt. That the kill
   comes is fairness, and TLC's (`ClaimIsReleased`, for a claimed relaunch).

### `AutoResume_proofs`

For any set of sessions and limits and any number of schedules, re-hits, crashes and requests:
1. `FileInv`: while the server is up the file is what memory holds, and while it is down memory is
   empty; a count that reached the limit is a pause, and a paused session has nothing armed. From it
   come `DiskCorrect`, `BannerCorrect` and `PausesNeedUser`.
2. `RunInv`: armed schedules are distinct and neither spent nor void; the runs of the executor are
   distinct, each for a spent schedule that did not continue yet, and the run of a voided schedule is
   marked aborted. A single schedule's fate (`FiresOnce`, `CancelledStaysQuiet`) is not inductive
   without what the file and every run hold, because a restart arms from the file and a cancel
   reaches a run through `inFlight`.
3. `CountInv`: consecutive burnt fires are at most the persisted count, unless a restart dropped
   it; `RehitsArePaused` follows with `FileInv`.
4. `OneShotSafety`: initial states and steps are those of `OneShot` or stutter. That a ticket ends is
   liveness and stays with TLC.

### `BrowserChannel_proofs`

For every size of buffer and history, every number of events, messages and faults:
1. `TypeCorrect`, with the limits of buffer and history in memory and on disk.
2. `NumbersInv`: what the server keeps, what it saved and what is under way has numbers between 1 and
   the next one; a message under way from the tab has none yet and is under way once; only entries of
   the conversation are in a history. It holds over a restart because the three parts of the file
   were written together.
3. `StreamedOnce`: a streamed piece that was shown is not beyond the cursor (`ShownBehind`), and what
   passes the cursor is beyond it.
4. `NothingLost`: every recorded entry was shown, or is in a history frame under way, or in an event
   frame before which the cursor stays behind (`NothingHidden`). It needs `CursorBehind`, that the tab is
   not ahead of the server until a restart forgot numbers: else a published event would be
   dropped on arrival, which is what `f_seqregress` shows.

### `CliKickoff_proofs`

For every limit of the queue and any number of prompts, polls, crons, spawns and leaves:
`TypeCorrect`, and with the invariant `QueueInv` (what was written is in order, and before what waits,
which is in order; each accepted prompt is in one of the places, and none that was announced as lost is in another)
`OrderKept` and `NothingLostSilently`.

### `AutoProceed_proofs`

For every set of STOPs, every cap and every queue:
1. `TypeCorrect`, in four parts (manager, hold, pair, CLI), with `RoomForAuto`: a fire finds room in the CLI,
   because a result that made the turn `awaiting` took a prompt away.
2. `CapHolds` by `CapInv`: memory and file agree, up to a reset whose write failed (then the file has
   more), and at least as many iterations are counted as were sent. Without the file the invariant would not
   survive a restart.
3. `BannerIsRespected` by `HoldInv`: an armed timer means a restore that is done and an empty hold, and
   once a restore is done every STOP of the banner is in the hold. That a fire sees no STOP is a fact about
   all that happened since the timer was armed.
4. `MarkIsSound` by `MarkInv`: while the mark is set, the turn is in flight and a synthetic prompt is in the
   CLI; a synthetic prompt that was sent to an idle CLI is the first one.
5. `IdleEdgeIsKept` by `IdleInv`: an idle edge that found the restore open is kept in `waiting`, and one that
   found a STOP is made up for by the release of the last. `IdleIsArmed` alone is not inductive, for it does not say
   what becomes of an edge while something holds it.

### `CliProbe_proofs`

For every limit of the queue, all three kinds of CLI and any number of prompts, polls, crons, spawns and
leaves, on top of the types of `CliKickoff_proofs`. `NoRealTurnInterrupted` and `ProbeIsInterrupted` are
about the contents of both pipes, of which the adapter sees only the reports that have arrived. The
invariant `ProbeInv` says where the probe, its interrupt and its reports can be at the same time:
1. `ProcessInv`: the pipes and the turn belong to a running process, and an exit that is not noticed yet
   leaves the adapter linked.
2. `AloneInv`: a probe that has noted no prompt shares the process with none, and an interrupt that is on its way
   finds the probe's turn with no prompt before it (`Clear`). That is the safety of the interrupt.
3. `OnceInv`: the probe is in one place only, and no report about it is out of date; without it a late
   `started` could be taken for the current turn.
4. `LegacyInv` and `ReportInv`: what the adapter may conclude from an init frame depends on the kind of
   CLI. One that reports nothing has, with a lone probe, only the probe's turn to report it from; any other
   has reported something before its first init frame (`Announced`, `Leads`), so that the grace timer is
   not set for it.
5. `ExcuseInv`: while nothing else was given to the process, whoever must interrupt the probe's turn still
   will: the interrupt is written, or the report or the timer that triggers it is to come.

`InterruptAbortsTheProbeOnly` and `ProbeIsNotAnswered` follow; the latter rests on the assumption of time in
`EndTurn` (above). The lemmas about sequences (`JoinIndices`, `TailIndices`, `FirstFacts`, `ClearFacts`) say what
reading from one end of a pipe and writing to the other do to such statements.

### `ObserverWake_proofs`

For every budget and threshold, any number of checkpoints and faults and any set of replies. The handlers are
functions of one record and call each other, so there is a lemma for each of them, of one of two forms:
- `Minor(p, q)`: the handler makes `q` of a well-formed `p`, which is well-formed, has the same heal and
  recovery, and has no new review (`Dispatch`, `Drain`, `Strike`, the group and the processes).
- `Sound(p, q)`: it may start or end an episode of heal as well, and leaves each with its owner (`HealResult`,
  `HealRound`, `StartRecovery`, `QueueUnanswered`, `DeadlineExpired`, `SilentWake`, `PollTimeout`).

A composed handler is proved from the lemmas of those it calls, as the code is composed; an action is the
application of one (`MaySend`). The invariant `WakeInv` is that the pair is `Good`:
1. `WellFormed`: the types; an observer without a transport has no turn; and while a turn is on, the reply
   that is awaited is that to the *last* wake written to the process. The code keeps one slot for
   the reply and no memory of the wakes before it, so this is what `ReplyIsForItsWake` needs. No reply is
   awaited for a checkpoint that is answered, because none such is woken for.
2. `Owned`: `HealHasItsOwner`, and to keep it together with the types, that an episode in its backoff has an
   attempt left (the next round counts one more) and that nothing is left of one that is over.

Only the end of a turn can add a review (`ReviewStep`). From these follow `TypeCorrect`, `EpisodeHasItsOwner`,
`ReplyAnswersItsWake`, and two that no run repeats: `AnswersAreKept` (no refusal and no late reply is written over
an answer) and, for any number of wakes under way, `ReviewsAreOfTheLastWake`: a reply is filed under the
last wake, also when it answers an earlier one. That is why the property is limited to one wake.

### Only model-checked

All liveness properties (`ClaimIsReleased`, `OwedRelaunchIsAttempted`, `RequestCompletes`, `ChatComplete`,
`MessageArrives`, `PromptStartsOrTold`, `NewestIsWoken`, `SilentIsReplaced`, `LoopReachesItsCap`) and the
fairness of both refinements: the prover has no rules for them. Every invariant and every action property of
the passing runs is proved.

## Not modelled

- **Session phases** (`session-state-machine.ts`), **convergence, budget, second review**: sequential tables
  and pure decisions over files, which unit tests reach.
- **Model fallback, drift detection, the watchdog for deaf processes**: their kills are `Crash`; what they
  detect is text of a protocol.
- **Boot guards**: they delay or skip a boot resume; in the models the sessions are recent and the guard is open.
- **Cron, image pulls and containers, relay client**: independent of the sessions' core.
- **Command lines, worktrees, reaping, routes, rendering, the Codex protocol**: I/O, parsing and layout.

## Plan

1. **`SessionRelaunch`**: one session with process generations and the user's stops: a stop during a
   flight, a late exit, a deleted session's process. Refines the relaunch part of `CouncilGroup`;
   `CliKickoff` has the generations, without the stops.
2. The session phases, and the composition of `ObserverWake` and `AutoProceed` with `CouncilGroup`
   instead of the environment they assume.
