---------------------------- MODULE ObserverWake ----------------------------
(***************************************************************************)
(* From a checkpoint file to the observer's review of it: the watcher, the *)
(* wake dispatcher with its one-slot queue and its sentinel, the catch-up  *)
(* polls, the deadline of a review, the auto-heal of the observer and the  *)
(* recovery after a wake that was not answered.  One pair with a Claude    *)
(* observer on stdio.  A handler may drain the queue, degrade the group or *)
(* start a heal on its way, so handlers are functions of the pair.         *)
(***************************************************************************)
EXTENDS Naturals, Sequences

CONSTANTS
    RejectionsBeforeDegrade,    \* OBSERVER_REPLY_REJECTIONS_BEFORE_DEGRADE
    TimeoutEscalation,          \* OBSERVER_CATCHUP_TIMEOUT_ESCALATION_THRESHOLD
    MaxAttempts,                \* OBSERVER_AUTOHEAL_MAX_ATTEMPTS
    MaxPerHour,                 \* OBSERVER_AUTOHEAL_MAX_PER_HOUR; a behaviour is one hour
    MaxSeq,                     \* bound: checkpoints, numbered 1 .. MaxSeq
    MaxFaults,                  \* bound: exits, restarts and stops, failed sends and
                                \* spawns, turns that a watchdog ends
    Replies                     \* what a wake turn may end with

ASSUME WakeAssumption ==
    /\ {RejectionsBeforeDegrade, TimeoutEscalation, MaxAttempts, MaxPerHour, MaxSeq}
           \subseteq Nat \ {0}
    /\ MaxFaults \in Nat
    /\ Replies \subseteq {"findings", "refusal", "junk", "empty"}

VARIABLES
    pair,       \* the server's memory of the pair, its files and its observer
    emitted,    \* the newest checkpoint file
    stopped,    \* the user stopped the pair and does not come back
    faults      \* how much has gone wrong so far

vars == <<pair, emitted, stopped, faults>>

Checkpoints == 1 .. MaxSeq
None == 0
NoHeal == [at |-> "none", owner |-> None, attempts |-> 0, relaunchedOk |-> FALSE]

Pairs == [
    \* the coordinator: the group and the half its reconnect window waits for
    status : {"active", "reconnecting", "degraded"},
    lost : {"none", "observer", "primary"},
    \* the observer: its adapter, whether it owes its session id, and the wakes it
    \* still works on; observerTurnState, and a frame seen since the wake
    obs : {"absent", "detached", "attached"},
    hello : BOOLEAN,
    cli : Seq(Checkpoints),
    turn : BOOLEAN,
    heard : BOOLEAN,
    \* CouncilWatcherEntry: lastCheckpoint, pendingCheckpoint, pendingReviewDeadline
    last : 0 .. MaxSeq,
    pending : 0 .. MaxSeq,
    deadline : 0 .. MaxSeq,
    \* the reply capture, and lastReviewedCheckpointId
    expect : 0 .. MaxSeq,
    rejections : 0 .. RejectionsBeforeDegrade,
    reviewed : 0 .. MaxSeq,
    \* the scheduler: catchupWakesInFlight and catchupWakeTimeouts
    polls : SUBSET Checkpoints,
    timeouts : [Checkpoints -> 0 .. TimeoutEscalation - 1],
    \* the recovery and the heal episode; owner None is the recovery
    recovery : {"none", "awaiting", "healing"},
    heal : [at : {"none", "relaunching", "waiting", "backoff"}, owner : 0 .. MaxSeq,
            attempts : 0 .. MaxAttempts, relaunchedOk : BOOLEAN],
    slots : 0 .. MaxPerHour,
    \* files: the wake sentinel, the reviews, and which of those postdate their wake
    sentinel : 0 .. MaxSeq,
    review : [Checkpoints -> {"none", "answer", "refusal"}],
    fresh : SUBSET Checkpoints,
    \* files that were there before the watcher give no event
    before : 0 .. MaxSeq,
    \* seen by the properties: the process let a wake pass in silence
    silent : BOOLEAN]

\* A server that has just read the pair from its rows: memory is empty, files stay.
Restored(files) == [
    status |-> "active", lost |-> "none",
    obs |-> "absent", hello |-> FALSE, cli |-> <<>>, turn |-> FALSE, heard |-> FALSE,
    last |-> None, pending |-> None, deadline |-> None,
    expect |-> None, rejections |-> 0, reviewed |-> None,
    polls |-> {}, timeouts |-> [c \in Checkpoints |-> 0],
    recovery |-> "none", heal |-> NoHeal, slots |-> MaxPerHour,
    sentinel |-> files.sentinel, review |-> files.review, fresh |-> files.fresh,
    before |-> files.before, silent |-> FALSE]

NoFiles == [sentinel |-> None, review |-> [c \in Checkpoints |-> "none"], fresh |-> {},
            before |-> 0]

TypeOK ==
    /\ pair \in Pairs
    /\ (pair.lost # "none") = (pair.status = "reconnecting")
    /\ pair.obs # "attached" => ~pair.turn /\ pair.cli = <<>> /\ ~pair.hello /\ ~pair.silent
    /\ emitted \in 0 .. MaxSeq
    /\ pair.last <= emitted
    /\ stopped \in BOOLEAN
    /\ faults \in 0 .. MaxFaults

Init ==
    /\ pair = Restored(NoFiles)
    /\ emitted = 0 /\ stopped = FALSE /\ faults = 0

Fault == faults < MaxFaults /\ faults' = faults + 1

-----------------------------------------------------------------------------
(***************************************************************************)
(* The group and the observer's process.                                   *)
(***************************************************************************)

\* group:degraded empties the slot and deletes the sentinel.
Degraded(p) ==
    [p EXCEPT !.status = "degraded", !.lost = "none", !.pending = None, !.sentinel = None]

\* half_died is for an active pair only.
HalfDied(p) == IF p.status = "active" THEN Degraded(p) ELSE p

\* Faulty variant: the adapter keeps the turn of the process that is gone.
ClosedInATurn(p) ==
    [p EXCEPT !.obs = IF @ = "absent" THEN @ ELSE "detached", !.hello = FALSE,
              !.cli = <<>>, !.silent = FALSE]

\* handleTransportClose: the turn is forgotten, and nobody is told that it ended.
Closed(p) ==
    [p EXCEPT !.obs = IF @ = "absent" THEN @ ELSE "detached", !.hello = FALSE,
              !.cli = <<>>, !.turn = FALSE, !.heard = FALSE, !.silent = FALSE]

\* attachTransport: a fresh turn state, and an init frame to come.
Attached(p) == [Closed(p) EXCEPT !.obs = "attached", !.hello = TRUE]

-----------------------------------------------------------------------------
(***************************************************************************)
(* dispatchObserverWake and the slot.                                      *)
(***************************************************************************)

Enqueue(p, c) == [p EXCEPT !.pending = c]

\* findFreshOwnReview: a refusal (OBSERVER-BLOCKED) is no answer.
Answered(p, c) == p.review[c] = "answer"

AlreadyAsked(p, c) == p.sentinel = c \/ p.deadline = c \/ Answered(p, c)

\* requestCatchupWake
RequestCatchup(p, c) == IF stopped THEN p ELSE [p EXCEPT !.polls = @ \union {c}]

\* The frame is written; sentinel, deadline and reply slot follow in the same call.
Send(p, c) ==
    [p EXCEPT !.cli = Append(@, c), !.turn = TRUE, !.heard = FALSE,
              !.sentinel = c, !.deadline = c, !.expect = c,
              !.fresh = @ \ {c}]

\* The gates in their order; a send may throw.
Dispatch(p, c, throws) ==
    CASE AlreadyAsked(p, c)       -> p
      [] ~AlreadyAsked(p, c) /\ (p.status # "active" \/ p.turn) -> Enqueue(p, c)
      [] OTHER ->
           CASE p.obs = "absent"   -> RequestCatchup(p, c)
             [] p.obs = "detached" -> p
             [] OTHER              -> IF throws THEN HalfDied(p) ELSE Send(p, c)

\* drainPendingObserverWake
Drain(p, throws) ==
    IF p.pending = None THEN p ELSE Dispatch([p EXCEPT !.pending = None], p.pending, throws)

\* A handler that may send does so in a world where the send may throw.
MaySend(Handler(_)) ==
    \/ /\ pair' = Handler(FALSE)
       /\ UNCHANGED faults
    \/ /\ pair' = Handler(TRUE) /\ Handler(TRUE) # Handler(FALSE)
       /\ Fault

-----------------------------------------------------------------------------
(***************************************************************************)
(* ObserverAutoheal.heal.  An episode belongs to the catch-up poll of a    *)
(* checkpoint or, with owner None, to the recovery.                        *)
(***************************************************************************)

\* Only the recovery may heal a degraded pair; a relaunch holds the mark of its kill.
Forced(h) == h.owner = None
Blocked(p, forced) ==
    stopped \/ (p.status = "degraded" /\ ~forced) \/ p.heal.at = "relaunching"

\* escalateToDegraded
Escalated(p) == HalfDied(p)

\* A poll that is over: in its finally, whatever came of it.
Released(p, c) == [p EXCEPT !.polls = @ \ {c}]
Forgiven(p, c) == [p EXCEPT !.timeouts[c] = 0]

\* rate_limited and in_flight keep the strike; at the threshold the pair degrades.
\* The count is that of the poll's timeout, one more than what is remembered.
Strike(p, c) ==
    IF p.timeouts[c] + 1 >= TimeoutEscalation
    THEN Escalated(Released(Forgiven(p, c), c))
    ELSE Released([p EXCEPT !.timeouts[c] = @ + 1], c)

\* Faulty variant: a recovery whose heal was blocked is not removed.
HealResultKeepsRecovery(p, result, throws) ==
    LET c == p.heal.owner
        q == [p EXCEPT !.heal = NoHeal]
    IN  IF Forced(p.heal)
        THEN LET r == [q EXCEPT !.recovery = "none"]
             IN  IF result = "healed" /\ q.status = "active" THEN Drain(r, throws) ELSE q
        ELSE CASE result = "healed"       -> Dispatch(Released(Forgiven(q, c), c), c, throws)
               [] result = "exhausted"    -> Escalated(Released(Forgiven(q, c), c))
               [] result = "blocked"      -> Released(Forgiven(q, c), c)
               [] result = "rate_limited" -> Strike(q, c)

\* What the owner of an episode does with its result.
HealResult(p, result, throws) ==
    LET c == p.heal.owner
        q == [p EXCEPT !.heal = NoHeal]
    IN  IF Forced(p.heal)
        THEN LET r == [q EXCEPT !.recovery = "none"]
             IN  IF result = "healed" /\ q.status = "active" THEN Drain(r, throws) ELSE r
        ELSE CASE result = "healed"       -> Dispatch(Released(Forgiven(q, c), c), c, throws)
               [] result = "exhausted"    -> Escalated(Released(Forgiven(q, c), c))
               [] result = "blocked"      -> Released(Forgiven(q, c), c)
               [] result = "rate_limited" -> Strike(q, c)

\* Faulty variant: an observer that looks ready is not relaunched.
LooksReady(h) == TRUE

\* A deaf observer looks ready: for the recovery only a relaunch counts.
MayShortCircuit(h) == ~Forced(h) \/ h.relaunchedOk

\* One round of the loop up to its relaunch, which kills the old process first.
HealRound(p, throws) ==
    LET h == p.heal
    IN  CASE Blocked(p, Forced(h)) -> HealResult(p, "blocked", throws)
          [] ~Blocked(p, Forced(h)) /\ MayShortCircuit(h) /\ p.obs = "attached" ->
                 HealResult(p, "healed", throws)
          [] OTHER ->
                 IF p.slots = 0
                 THEN HealResult(p, IF h.attempts = 0 THEN "rate_limited" ELSE "exhausted",
                                 throws)
                 ELSE [Closed(p) EXCEPT !.slots = @ - 1,
                                        !.heal.at = "relaunching",
                                        !.heal.attempts = @ + 1]

\* The next round waits for its backoff; after the last one the budget is spent.
HealRoundFailed(p, throws) ==
    IF p.heal.attempts = MaxAttempts
    THEN HealResult(p, "exhausted", throws)
    ELSE [p EXCEPT !.heal.at = "backoff"]

StartHeal(p, owner, throws) ==
    HealRound([p EXCEPT !.heal = [NoHeal EXCEPT !.at = "backoff", !.owner = owner]], throws)

-----------------------------------------------------------------------------
(***************************************************************************)
(* ObserverWakeRecovery.                                                   *)
(***************************************************************************)

\* start: an episode that is in flight already ends it at once.
StartRecovery(p, throws) ==
    IF p.heal # NoHeal
    THEN [p EXCEPT !.recovery = "none"]
    ELSE StartHeal([p EXCEPT !.recovery = "healing"], None, throws)

\* onWakeUnanswered
OnWakeUnanswered(p, throws) ==
    CASE p.status # "degraded" \/ p.recovery # "none" -> p
      [] OTHER -> IF p.turn THEN [p EXCEPT !.recovery = "awaiting"]
                            ELSE StartRecovery(p, throws)

\* queueUnansweredWake: the newest checkpoint, whichever was not answered.
QueueUnanswered(p, throws) ==
    OnWakeUnanswered(IF p.last = None THEN p ELSE Enqueue(p, p.last), throws)

\* onObserverTurnDone
OnTurnDone(p, throws) ==
    CASE p.recovery # "awaiting"                             -> p
      [] p.recovery = "awaiting" /\ p.status # "degraded" -> [p EXCEPT !.recovery = "none"]
      [] OTHER                                               -> StartRecovery(p, throws)

-----------------------------------------------------------------------------
(***************************************************************************)
(* The reply of a turn and its review.                                     *)
(***************************************************************************)

\* finalizeObserverReply: a review file, or a rejection that proves life unless it
\* is empty or one too many.
Finalize(p, reply) ==
    LET c == p.expect
        q == [p EXCEPT !.expect = None]
        n == p.rejections + 1
        alive == reply = "junk" /\ n < RejectionsBeforeDegrade /\ p.deadline = c
    IN  CASE c = None -> p
          [] c # None /\ reply \in {"junk", "empty"} ->
                 [q EXCEPT !.rejections = IF n > RejectionsBeforeDegrade THEN @ ELSE n,
                           !.deadline = IF alive THEN None ELSE @]
          [] OTHER ->
                 [q EXCEPT !.review[c] = IF reply = "findings" THEN "answer" ELSE "refusal",
                           !.fresh = @ \union {c},
                           !.rejections = 0]

\* Faulty variant: the queue is emptied before the reply is taken.
DrainsFirst(p, reply, throws) ==
    OnTurnDone(Finalize(Drain([p EXCEPT !.turn = FALSE], throws), reply), throws)

\* observer:turn-done: the reply, then the queue, then the recovery that waited.
TurnDone(p, reply, throws) ==
    OnTurnDone(Drain(Finalize([p EXCEPT !.turn = FALSE], reply), throws), throws)

\* handleCouncilReview: a file older than the armed wake is a stale replay.
HandleReview(p, c) ==
    IF p.deadline = c /\ c \notin p.fresh
    THEN p
    ELSE [p EXCEPT !.deadline = IF @ = c THEN None ELSE @, !.reviewed = c]

\* handleReviewDeadlineExpired, with its look at the disk.
DeadlineExpired(p, throws) ==
    LET c == p.deadline
        q == [p EXCEPT !.deadline = None]
    IN  CASE p.reviewed = c -> q
          [] p.reviewed # c /\ c \in p.fresh -> HandleReview(q, c)
          [] OTHER -> QueueUnanswered(HalfDied(q), throws)

\* degradeObserverWakeFailure of a silent wake.
SilentWake(p, throws) ==
    LET owed == IF p.deadline # None THEN p.deadline ELSE p.last
        q == HalfDied([p EXCEPT !.turn = FALSE, !.deadline = None, !.silent = TRUE])
    IN  IF owed = None THEN q ELSE QueueUnanswered(q, throws)

-----------------------------------------------------------------------------
(***************************************************************************)
(* Checkpoints arrive.                                                     *)
(***************************************************************************)

\* A checkpoint file is written.
Emit ==
    /\ emitted < MaxSeq
    /\ emitted' = emitted + 1
    /\ UNCHANGED <<pair, stopped, faults>>

\* handleCouncilCheckpoint
Checkpoint(p, c, throws) ==
    IF c <= p.last THEN p ELSE Dispatch([p EXCEPT !.last = c], c, throws)

\* The event of a file comes late, behind that of a later one, or never.
CheckpointArrives ==
    \E c \in pair.before + 1 .. emitted :
        /\ c > pair.last
        /\ MaySend(LAMBDA throws : Checkpoint(pair, c, throws))
        /\ UNCHANGED <<emitted, stopped>>

\* Faulty variant: a checkpoint the watcher has seen is taken for woken.
MissedByTheWatcher(p) ==
    /\ p.status # "degraded" /\ emitted # 0 /\ ~stopped
    /\ p.last < emitted
    /\ ~Answered(p, emitted)
    /\ emitted \notin p.polls

\* scanForMissedObserverWakes, at start, every five minutes and after a re-arm.
Missed(p) ==
    /\ p.status # "degraded" /\ emitted # 0 /\ ~stopped
    /\ p.sentinel < emitted
    /\ ~Answered(p, emitted)
    /\ emitted \notin p.polls

Scan ==
    /\ Missed(pair)
    /\ pair' = [pair EXCEPT !.last = emitted, !.polls = @ \union {emitted}]
    /\ UNCHANGED <<emitted, stopped, faults>>

\* scheduleCatchupWakeWhenObserverReady: the observer is there ...
PollReady ==
    \E c \in pair.polls :
        /\ c # pair.heal.owner /\ pair.obs = "attached"
        /\ MaySend(LAMBDA throws :
               Forgiven(Dispatch(Released(pair, c), c, throws), c))
        /\ UNCHANGED <<emitted, stopped>>

\* ... or did not come in thirty seconds.
PollTimeout(p, c, throws) ==
    CASE Blocked(p, FALSE) -> Released(Forgiven(p, c), c)
      [] ~Blocked(p, FALSE) /\ p.heal # NoHeal -> Strike(p, c)
      [] OTHER -> StartHeal(p, c, throws)

PollExpires ==
    \E c \in pair.polls :
        /\ c # pair.heal.owner /\ pair.obs # "attached"
        /\ MaySend(LAMBDA throws : PollTimeout(pair, c, throws))
        /\ UNCHANGED <<emitted, stopped>>

-----------------------------------------------------------------------------
(***************************************************************************)
(* The observer works.                                                     *)
(***************************************************************************)

\* A result frame; a turn the adapter has given up ends without a word.
EndTurn(reply) ==
    /\ pair.cli # <<>>
    /\ LET p == [pair EXCEPT !.cli = Tail(@)]
       IN  MaySend(LAMBDA throws : IF p.turn THEN TurnDone(p, reply, throws) ELSE p)
    /\ UNCHANGED <<emitted, stopped>>

\* A heal is over before a wake that was sent meanwhile runs into a watchdog.
WatchdogsMayFire == pair.turn => pair.heal = NoHeal

\* OBSERVER_WAKE_SILENCE_MS, which is shorter than a review's deadline.
Silence ==
    /\ pair.turn /\ ~pair.heard /\ WatchdogsMayFire
    /\ Fault
    /\ pair' = SilentWake(pair, FALSE)
    /\ UNCHANGED <<emitted, stopped>>

\* The completion watchdog, which is longer than a review's deadline.
ForceRelease ==
    /\ pair.turn /\ pair.deadline = None /\ WatchdogsMayFire
    /\ Fault
    /\ pair' = TurnDone(pair, "empty", FALSE)
    /\ UNCHANGED <<emitted, stopped>>

\* The event of a review file comes late, more than once, or never.
ReviewLands ==
    \E c \in Checkpoints :
        /\ pair.review[c] # "none"
        /\ pair' = HandleReview(pair, c)
        /\ UNCHANGED <<emitted, stopped, faults>>

\* A turn that is still on has been heard of by then.
DeadlineFires ==
    /\ pair.deadline # None /\ WatchdogsMayFire
    /\ pair' = DeadlineExpired([pair EXCEPT !.heard = @ \/ pair.turn], FALSE)
    /\ UNCHANGED <<emitted, stopped, faults>>

-----------------------------------------------------------------------------
(***************************************************************************)
(* Processes come and go.                                                  *)
(***************************************************************************)

\* session:exited of a half, while the other may be the one that is waited for.
HalfExited(p, role) ==
    CASE p.status = "active" -> [p EXCEPT !.status = "reconnecting", !.lost = role]
      [] p.status = "reconnecting" /\ p.lost # role -> Degraded(p)
      [] OTHER -> p

ObserverExits ==
    /\ pair.obs = "attached"
    /\ Fault
    /\ pair' = HalfExited(Closed(pair), "observer")
    /\ UNCHANGED <<emitted, stopped>>

\* The keepalive, a browser or the boot resume brings the observer back.
ObserverRespawns ==
    /\ pair.obs # "attached" /\ ~stopped /\ pair.heal.at # "relaunching"
    /\ pair' = Attached(pair)
    /\ UNCHANGED <<emitted, stopped, faults>>

\* session:cli-id-received
Hello(p, throws) ==
    LET q == [p EXCEPT !.hello = FALSE, !.heard = TRUE]
    IN  IF p.lost = "observer" \/ p.status = "degraded"
        THEN Drain([q EXCEPT !.status = "active", !.lost = "none"], throws)
        ELSE q

ObserverSaysHello ==
    /\ pair.hello
    /\ MaySend(LAMBDA throws : Hello(pair, throws))
    /\ UNCHANGED <<emitted, stopped>>

PrimaryExits ==
    /\ Fault
    /\ pair' = HalfExited(pair, "primary")
    /\ UNCHANGED <<emitted, stopped>>

\* An init frame of the orchestrator, with which every turn of it begins: it ends a
\* degradation as well, but only the observer's empties the queue.
PrimarySaysHello ==
    /\ pair.lost = "primary" \/ pair.status = "degraded"
    /\ ~stopped
    /\ pair' = [pair EXCEPT !.status = "active", !.lost = "none"]
    /\ UNCHANGED <<emitted, stopped, faults>>

GraceExpires ==
    /\ pair.status = "reconnecting"
    /\ pair' = Degraded(pair)
    /\ UNCHANGED <<emitted, stopped, faults>>

\* killSession of both halves; the marks make the exits intentional.
UserStops ==
    /\ ~stopped
    /\ Fault
    /\ stopped' = TRUE
    /\ pair' = Closed(pair)
    /\ UNCHANGED emitted

\* The server dies with its children and starts again.
Restart ==
    /\ Fault
    /\ pair' = Restored([pair EXCEPT !.before = emitted])
    /\ UNCHANGED <<emitted, stopped>>

-----------------------------------------------------------------------------
(***************************************************************************)
(* The steps of a heal.                                                    *)
(***************************************************************************)

\* relaunchOnce has spawned ...
HealSpawned ==
    /\ pair.heal.at = "relaunching"
    /\ pair' = [Attached(pair) EXCEPT !.heal.at = "waiting", !.heal.relaunchedOk = TRUE]
    /\ UNCHANGED <<emitted, stopped, faults>>

\* ... or failed.
HealSpawnFails ==
    /\ pair.heal.at = "relaunching"
    /\ Fault
    /\ pair' = HealRoundFailed(pair, FALSE)
    /\ UNCHANGED <<emitted, stopped>>

\* waitForReady: blocked, ready, or out of time.
HealWaitOver ==
    /\ pair.heal.at = "waiting"
    /\ MaySend(LAMBDA throws :
           IF Blocked(pair, Forced(pair.heal)) \/ pair.obs # "attached"
           THEN HealRoundFailed(pair, throws)
           ELSE HealResult(pair, "healed", throws))
    /\ UNCHANGED <<emitted, stopped>>

HealBackoffOver ==
    /\ pair.heal.at = "backoff"
    /\ MaySend(LAMBDA throws : HealRound(pair, throws))
    /\ UNCHANGED <<emitted, stopped>>

-----------------------------------------------------------------------------
TurnEnds == (\E reply \in Replies : EndTurn(reply)) \/ Silence \/ ForceRelease
HealGoesOn == HealSpawned \/ HealSpawnFails \/ HealWaitOver \/ HealBackoffOver

Next ==
    \/ Emit \/ CheckpointArrives \/ Scan \/ PollReady \/ PollExpires
    \/ TurnEnds \/ ReviewLands \/ DeadlineFires
    \/ ObserverExits \/ ObserverRespawns \/ ObserverSaysHello
    \/ PrimaryExits \/ PrimarySaysHello \/ GraceExpires \/ UserStops \/ Restart
    \/ HealGoesOn

Spec == Init /\ [][Next]_vars

\* Intervals, timers and awaited calls; a turn ends or a watchdog ends it.
FairSpec ==
    /\ Spec
    /\ WF_vars(Scan) /\ WF_vars(PollReady) /\ WF_vars(PollExpires)
    /\ WF_vars(TurnEnds) /\ WF_vars(DeadlineFires) /\ WF_vars(GraceExpires)
    /\ WF_vars(HealGoesOn) /\ WF_vars(ObserverSaysHello)

-----------------------------------------------------------------------------
\* The reply that is recorded as the review of a checkpoint is the reply to its wake,
\* as long as the process works on one wake only: the queue is emptied after the
\* reply was taken.
ReplyIsForItsWake ==
    [][\A c \in Checkpoints :
         c \in pair'.fresh \ pair.fresh /\ Len(pair.cli) = 1 => Head(pair.cli) = c]_vars

\* In a pair that is up for good the newest checkpoint is woken for, or has its review,
\* whatever was lost before: its event, a wake, a process or the whole server.
NewestIsWoken ==
    <>[](pair.status = "active" /\ pair.obs = "attached" /\ ~stopped)
        => []<>(emitted = 0 \/ pair.sentinel = emitted \/ Answered(pair, emitted))

\* A checkpoint does not wait for a process that let a wake pass in silence and still
\* looks ready: the process is replaced, unless the pair is used again first, the user
\* stopped it or the relaunches are spent.  A recovery that waits for the end of a turn
\* from before is left out; it may wait for ever.
SilentIsReplaced ==
    /\ pair.silent /\ pair.status = "degraded"
    /\ pair.pending # None /\ pair.recovery # "awaiting"
    ~> \/ ~pair.silent \/ pair.status # "degraded"
       \/ stopped \/ pair.slots = 0

\* Nothing waits for an episode that is not there, and no episode is without somebody
\* who takes its result.
HealHasItsOwner ==
    /\ (pair.recovery = "healing") = (pair.heal # NoHeal /\ Forced(pair.heal))
    /\ pair.heal # NoHeal /\ ~Forced(pair.heal) => pair.heal.owner \in pair.polls

\* What the code says of the recovery: the checkpoint it queues is not taken for one
\* that was woken already.  Emptied into an observer that is there, the queue leaves a
\* wake under way or finds the answer.
RedeliveryIsNotDeduped ==
    [][pair.pending # None /\ pair'.pending = None
            /\ pair'.status = "active" /\ pair'.obs = "attached"
         => pair'.deadline = pair.pending \/ Answered(pair', pair.pending)]_vars
=============================================================================
