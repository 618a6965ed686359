----------------------------- MODULE CliKickoff -----------------------------
(***************************************************************************)
(* From the bridge's queue to the Claude CLI's stdin: prompts wait for a   *)
(* process, are flushed when one is attached, and share its stdin with the *)
(* init probe and the interrupt that aborts it.  One session on the stdio  *)
(* transport.  The CLI is external: a FIFO of commands, one turn at a time.*)
(***************************************************************************)
EXTENDS Naturals, Sequences

CONSTANTS
    PendingMessagesLimit,   \* PENDING_MESSAGES_LIMIT
    Clis,                   \* the kinds of CLI a run allows
    MaxPrompts,             \* bound: prompts accepted in a behaviour
    MaxPolls,               \* bound: status polls of the browser
    MaxCrons,               \* bound: prompts the CLI schedules itself
    MaxSpawns,              \* bound: processes after an exit; the last one stays
    MaxLeaves               \* bound: times the last tab leaves

ASSUME KickoffAssumption ==
    /\ PendingMessagesLimit \in Nat \ {0} /\ MaxSpawns \in Nat \ {0}
    /\ MaxPrompts \in Nat /\ MaxPolls \in Nat /\ MaxCrons \in Nat
    /\ MaxLeaves \in Nat
    /\ Clis \subseteq {"legacy", "lifecycle", "announcing"}

VARIABLES
    pending,    \* session.pendingMessages
    linked,     \* the adapter holds a transport
    probe,      \* initProbe of the adapter
    lifecycle,  \* lifecycleSeenThisProcess
    present,    \* a browser is connected
    drainTimer, \* the browser-close drain timer is armed
    proc,       \* the newest process: "none", "running", "ended"
    overrun,    \* a replaced process has not exited yet
    cli         \* what the processes report of their commands

\* Inside the newest process and its pipes.
VARIABLES stdin, inbox, turn, inited, stdout

\* Bounds, and what the properties see.
VARIABLES
    accepted,   \* prompts accepted so far, numbered 1 .. accepted
    polls, crons, spawns, leaves,
    written,    \* the messages written to a transport, in order
    told,       \* prompts whose loss was announced to the browser
    over,       \* prompts that a turn began, or that ended with their process
    hurt,       \* commands other than the probe that an interrupt aborted
    excused     \* this process may answer the probe

bridgeVars == <<pending, linked, probe, lifecycle>>
tabVars == <<present, drainTimer, leaves>>
procVars == <<proc, overrun, cli, spawns>>
cliVars == <<stdin, inbox, turn, inited, stdout>>
askedVars == <<accepted, polls, crons>>
history == <<written, told, over, hurt, excused>>
vars == <<bridgeVars, tabVars, procVars, cliVars, askedVars, history>>

Prompt(n) == [kind |-> "prompt", n |-> n]
Plain(k) == [kind |-> k, n |-> 0]
Probe == Plain("probe")
Cron(n) == [kind |-> "cron", n |-> n]
Frame(state, c) == [state |-> state, of |-> c]

\* The numbers of the prompts in a sequence of messages.
Prompts(q) == {q[i].n : i \in {j \in DOMAIN q : q[j].kind = "prompt"}}

ProbeStates == [live : BOOLEAN, foreign : BOOLEAN, cancelSent : BOOLEAN, timer : BOOLEAN]
NoProbe == [live |-> FALSE, foreign |-> FALSE, cancelSent |-> FALSE, timer |-> FALSE]
FreshProbe == [NoProbe EXCEPT !.live = TRUE]

Commands == {Probe} \union {Prompt(n) : n \in 1 .. MaxPrompts} \union {Cron(n) : n \in 1 .. MaxCrons}
Messages == {Plain("poll")} \union {Prompt(n) : n \in 1 .. MaxPrompts}

\* What is written to stdin, and what is read from stdout.
Wire == Messages \union {Probe, Plain("interrupt"), Plain("cancel")}
Reports == {Frame("init", Probe)} \union
           {Frame(s, c) : s \in {"queued", "started", "ended"}, c \in Commands}

TypeOK ==
    /\ pending \in Seq(Messages) /\ Len(pending) <= PendingMessagesLimit
    /\ linked \in BOOLEAN /\ lifecycle \in BOOLEAN
    /\ probe \in ProbeStates
    /\ ~linked => probe = NoProbe
    /\ linked => pending = <<>>
    /\ present \in BOOLEAN /\ drainTimer \in BOOLEAN /\ present => ~drainTimer
    /\ proc \in {"none", "running", "ended"} /\ overrun \in BOOLEAN /\ cli \in Clis
    /\ stdin \in Seq(Wire) /\ stdout \in Seq(Reports)
    /\ inbox \in Seq(Commands) /\ turn \subseteq Commands /\ inited \in BOOLEAN
    /\ accepted \in 0 .. MaxPrompts /\ polls \in 0 .. MaxPolls /\ crons \in 0 .. MaxCrons
    /\ spawns \in 0 .. MaxSpawns /\ leaves \in 0 .. MaxLeaves
    /\ written \in Seq(Messages) /\ hurt \subseteq Commands
    /\ told \subseteq 1 .. MaxPrompts /\ over \subseteq 1 .. MaxPrompts
    /\ excused \in BOOLEAN

Init ==
    /\ pending = <<>> /\ linked = FALSE /\ probe = NoProbe /\ lifecycle = FALSE
    /\ present = TRUE /\ drainTimer = FALSE /\ leaves = 0
    /\ proc = "none" /\ overrun = FALSE /\ cli \in Clis /\ spawns = 0
    /\ stdin = <<>> /\ inbox = <<>> /\ turn = {} /\ inited = FALSE /\ stdout = <<>>
    /\ accepted = 0 /\ polls = 0 /\ crons = 0
    /\ written = <<>> /\ told = {} /\ over = {} /\ hurt = {} /\ excused = FALSE

-----------------------------------------------------------------------------
(***************************************************************************)
(* The adapter's side of stdin.                                            *)
(***************************************************************************)

\* sendRaw: what is written to a process that has ended is gone.
Write(cancel, q) ==
    /\ stdin' = IF proc = "running" THEN stdin \o cancel \o q ELSE stdin
    /\ written' = written \o q
    /\ over' = IF proc = "running" THEN over ELSE over \union Prompts(q)

\* cancelQueuedProbe: only to a CLI that has shown it knows the request.
Cancels(p) == p.live /\ lifecycle /\ ~p.cancelSent
CancelFrame(p) == IF Cancels(p) THEN <<Plain("cancel")>> ELSE <<>>

\* Faulty variant: a real prompt is not noted.
Ignored(p) == p

\* noteRealPromptSent and a foreign command: the probe is not interrupted any more.
Noted(p) ==
    IF p.live THEN [p EXCEPT !.foreign = TRUE, !.cancelSent = @ \/ Cancels(p)] ELSE p

-----------------------------------------------------------------------------
(***************************************************************************)
(* The bridge: routeBrowserMessage and the queue.                          *)
(***************************************************************************)

\* Faulty variant: the limit is not looked at.
EnqueuedUnbounded(m) == Append(pending, m)

\* enqueuePendingMessage drops the oldest message of a full queue ...
Enqueued(m) ==
    Append(IF Len(pending) >= PendingMessagesLimit THEN Tail(pending) ELSE pending, m)

\* Faulty variant: nobody is told.
DroppedSilently == {}

\* ... and says so.
Dropped == IF Len(pending) >= PendingMessagesLimit THEN Prompts(<<Head(pending)>>) ELSE {}

\* The queue first, then the message, so that nothing is overtaken.
Route(m) ==
    IF linked
    THEN /\ LET q == Append(pending, m)
                first == Prompts(q) # {} /\ ~probe.foreign
            IN  /\ Write(IF first THEN CancelFrame(probe) ELSE <<>>, q)
                /\ probe' = IF first THEN Noted(probe) ELSE probe
                /\ excused' = (excused \/ Prompts(q) # {})
         /\ pending' = <<>>
         /\ UNCHANGED told
    ELSE /\ pending' = Enqueued(m)
         /\ told' = told \union Dropped
         /\ UNCHANGED <<stdin, written, over, probe, excused>>

RouteUnchanged ==
    UNCHANGED <<linked, lifecycle, tabVars, procVars, inbox, turn, inited, stdout,
                crons, hurt>>

\* A prompt of a browser, or one the server injects.
UserMessage ==
    /\ accepted < MaxPrompts
    /\ accepted' = accepted + 1
    /\ Route(Prompt(accepted'))
    /\ UNCHANGED polls
    /\ RouteUnchanged

\* mcp_get_status, which a browser sends on its own.
StatusPoll ==
    /\ present /\ polls < MaxPolls
    /\ polls' = polls + 1
    /\ Route(Plain("poll"))
    /\ UNCHANGED accepted
    /\ RouteUnchanged

\* dispatchCliFailedDrain: the queue is cleared and the browser told.
Drain ==
    /\ told' = told \union Prompts(pending)
    /\ pending' = <<>>

BrowserLeaves ==
    /\ present /\ leaves < MaxLeaves
    /\ present' = FALSE /\ leaves' = leaves + 1
    /\ drainTimer' = (Prompts(pending) # {})
    /\ UNCHANGED <<bridgeVars, procVars, cliVars, askedVars, history>>

BrowserComes ==
    /\ ~present
    /\ present' = TRUE /\ UNCHANGED leaves
    /\ drainTimer' = FALSE
    /\ UNCHANGED <<bridgeVars, procVars, cliVars, askedVars, history>>

\* Polls alone are not drained: the dispatch is suppressed.
DrainTimerFires ==
    /\ drainTimer /\ drainTimer' = FALSE
    /\ IF Prompts(pending) = {} THEN UNCHANGED <<told, pending>> ELSE Drain
    /\ UNCHANGED <<linked, probe, lifecycle, present, leaves, procVars, cliVars, askedVars,
                   written, over, hurt, excused>>

\* A structural failure of relaunch(): session:relaunch-exhausted.
RelaunchImpossible ==
    /\ proc = "none" /\ pending # <<>>
    /\ Drain
    /\ UNCHANGED <<linked, probe, lifecycle, tabVars, procVars, cliVars, askedVars,
                   written, over, hurt, excused>>

-----------------------------------------------------------------------------
(***************************************************************************)
(* Processes.                                                              *)
(***************************************************************************)

\* Faulty variant: the flush waits for system.init.
FlushAfterInit == <<>>

\* openCliTransport hands over what waits.
Flushed == pending

\* Faulty variant: the queue is copied and not taken out.
Copied == pending
Taken == <<>>

\* The prompts that an end of the newest process takes with it.
InProcess == Prompts(stdin) \union Prompts(inbox)

\* openCliTransport with the new process: the probe if nothing waits, then
\* the queue.
Attach ==
    /\ proc' = "running" /\ linked' = TRUE /\ lifecycle' = FALSE
    /\ probe' = IF pending = <<>> THEN FreshProbe ELSE NoProbe
    /\ stdin' = IF pending = <<>> THEN <<Probe>> ELSE Flushed
    /\ pending' = IF Flushed = <<>> THEN pending ELSE Taken
    /\ written' = written \o Flushed
    /\ over' = over \union InProcess
    /\ inbox' = <<>> /\ turn' = {} /\ inited' = FALSE /\ stdout' = <<>>
    /\ excused' = FALSE
    /\ UNCHANGED <<cli, tabVars, askedVars, told, hurt>>

Count == spawns < MaxSpawns /\ spawns' = spawns + 1

\* Every relaunch of a session without a process.
Spawn ==
    /\ proc = "none" /\ Count
    /\ Attach
    /\ UNCHANGED overrun

\* relaunch() of a live process that outlasts the two seconds after SIGTERM.
ReplaceTooEarly ==
    /\ proc = "running" /\ linked /\ ~overrun /\ Count
    /\ Attach
    /\ overrun' = TRUE

\* The same when the handle is gone: SIGTERM by pid, and nothing is awaited.
ReplaceUnlinked ==
    /\ proc = "running" /\ ~linked
    /\ Attach
    /\ overrun' = TRUE
    /\ UNCHANGED spawns

Exit ==
    /\ proc = "running" /\ spawns < MaxSpawns
    /\ proc' = IF linked THEN "ended" ELSE "none"
    /\ stdin' = <<>> /\ inbox' = <<>> /\ turn' = {} /\ inited' = FALSE /\ stdout' = <<>>
    /\ over' = over \union InProcess
    /\ UNCHANGED <<bridgeVars, overrun, cli, spawns, tabVars, askedVars,
                   written, told, hurt, excused>>

\* The exit handler: handleTransportClose.
ExitNoticed ==
    /\ proc = "ended"
    /\ proc' = "none" /\ linked' = FALSE /\ probe' = NoProbe
    /\ UNCHANGED <<pending, lifecycle, overrun, cli, spawns, tabVars, cliVars, askedVars, history>>

\* The exit handler of a replaced process closes the adapter it shares with
\* its successor.
LateExit ==
    /\ overrun
    /\ overrun' = FALSE
    /\ linked' = FALSE /\ probe' = NoProbe
    /\ proc' = IF proc = "ended" THEN "none" ELSE proc
    /\ excused' = TRUE
    /\ UNCHANGED <<pending, lifecycle, cli, spawns, tabVars, cliVars, askedVars,
                   written, told, over, hurt>>

-----------------------------------------------------------------------------
(***************************************************************************)
(* The CLI (external).                                                     *)
(***************************************************************************)

\* Reports of commands that carry a uuid: the probe, and the CLI's own.
Report(state, c) ==
    IF cli # "legacy" /\ c.kind # "prompt" THEN <<Frame(state, c)>> ELSE <<>>

\* One message of stdin; a waiting command may be reported as queued.
ReadStdin ==
    /\ proc = "running" /\ stdin # <<>>
    /\ stdin' = Tail(stdin)
    /\ LET m == Head(stdin)
       IN  \/ /\ m.kind \in {"probe", "prompt"}
              /\ inbox' = Append(inbox, m)
              /\ \/ UNCHANGED stdout
                 \/ stdout' = stdout \o Report("queued", m)
              /\ UNCHANGED <<turn, hurt>>
           \/ /\ m.kind = "interrupt"
              /\ hurt' = hurt \union (turn \ {Probe})
              /\ stdout' = IF Probe \in turn THEN stdout \o Report("ended", Probe) ELSE stdout
              /\ turn' = {}
              /\ UNCHANGED inbox
           \/ /\ m.kind = "cancel"
              /\ \/ /\ \A i \in DOMAIN inbox : inbox[i] # Probe
                    /\ UNCHANGED <<inbox, stdout>>
                 \/ \E i \in DOMAIN inbox :
                        /\ inbox[i] = Probe
                        /\ inbox' = SubSeq(inbox, 1, i - 1) \o SubSeq(inbox, i + 1, Len(inbox))
                        /\ stdout' = stdout \o Report("ended", Probe)
              /\ UNCHANGED <<turn, hurt>>
           \/ m.kind = "poll" /\ UNCHANGED <<inbox, turn, stdout, hurt>>
    /\ UNCHANGED <<bridgeVars, tabVars, procVars, inited, askedVars,
                   written, told, over, excused>>

\* A scheduled prompt of the CLI's own; it may come before anything is read.
CronDue ==
    /\ proc = "running" /\ cli # "legacy" /\ crons < MaxCrons
    /\ crons' = crons + 1
    /\ inbox' = Append(inbox, Cron(crons'))
    /\ \/ UNCHANGED stdout
       \/ stdout' = stdout \o Report("queued", Cron(crons'))
    /\ excused' = TRUE
    /\ UNCHANGED <<bridgeVars, tabVars, procVars, stdin, turn, inited, accepted, polls,
                   written, told, over, hurt>>

\* The first turn brings system.init, after the report of its command.
StartTurn ==
    /\ proc = "running" /\ turn = {} /\ inbox # <<>>
    /\ turn' = {Head(inbox)} /\ inbox' = Tail(inbox)
    /\ stdout' = stdout \o Report("started", Head(inbox)) \o
                 (IF inited THEN <<>> ELSE <<Frame("init", Probe)>>)
    /\ inited' = TRUE
    /\ over' = over \union Prompts(<<Head(inbox)>>)
    /\ UNCHANGED <<bridgeVars, tabVars, procVars, stdin, askedVars,
                   written, told, hurt, excused>>

\* A prompt that waits is folded into the turn that runs.
FoldPrompt ==
    /\ proc = "running" /\ turn # {} /\ inbox # <<>> /\ Head(inbox).kind = "prompt"
    /\ turn' = turn \union {Head(inbox)} /\ inbox' = Tail(inbox)
    /\ over' = over \union {Head(inbox).n}
    /\ UNCHANGED <<bridgeVars, tabVars, procVars, stdin, inited, stdout, askedVars,
                   written, told, hurt, excused>>

\* The API round-trip of a probe outlasts frames in the pipes and the grace.
EndTurn ==
    /\ proc = "running" /\ turn # {}
    /\ Probe \in turn => /\ stdout = <<>> /\ ~probe.timer
                         /\ \A i \in DOMAIN stdin : stdin[i].kind # "interrupt"
    /\ turn' = {}
    /\ stdout' = IF Probe \in turn THEN stdout \o Report("ended", Probe) ELSE stdout
    /\ UNCHANGED <<bridgeVars, tabVars, procVars, stdin, inbox, inited, askedVars, history>>

-----------------------------------------------------------------------------
(***************************************************************************)
(* The adapter's reading of stdout, and its timers.                        *)
(***************************************************************************)

\* Faulty variant: the start of the probe's turn is not acted upon.
NeverInterrupts(p) == FALSE

Interrupts(p) == p.live /\ ~p.foreign

Interrupt(p) == IF Interrupts(p) THEN <<Plain("interrupt")>> ELSE <<>>

\* Frames reach a process that has a transport.
Send(q) == stdin' = IF proc = "running" THEN stdin \o q ELSE stdin

\* handleCommandLifecycle for the probe.
OnProbeFrame(state) ==
    /\ lifecycle' = TRUE
    /\ CASE state = "started" -> Send(Interrupt(probe)) /\ probe' = NoProbe
         [] state = "queued" ->
              /\ LET cancel == probe.live /\ probe.foreign /\ ~probe.cancelSent
                 IN  /\ Send(IF cancel THEN <<Plain("cancel")>> ELSE <<>>)
                     /\ probe' = [probe EXCEPT !.timer = FALSE, !.cancelSent = @ \/ cancel]
         [] OTHER -> UNCHANGED stdin /\ probe' = NoProbe

\* handleCommandLifecycle for a command of someone else.
OnForeignFrame(state) ==
    /\ lifecycle' = TRUE
    /\ LET p == [probe EXCEPT !.timer = FALSE]
           news == p.live /\ state \in {"queued", "started"} /\ ~p.foreign
       IN  /\ Send(IF news /\ ~p.cancelSent THEN <<Plain("cancel")>> ELSE <<>>)
           /\ probe' = IF news THEN [p EXCEPT !.foreign = TRUE, !.cancelSent = TRUE] ELSE p

\* onInitForProbe: a CLI that reports nothing gets a short grace.
OnInit ==
    /\ lifecycle' = (lifecycle \/ cli = "announcing")
    /\ probe' = [probe EXCEPT !.timer = @ \/ (probe.live /\ ~lifecycle')]
    /\ UNCHANGED stdin

ReadStdout ==
    /\ proc = "running" /\ stdout # <<>>
    /\ stdout' = Tail(stdout)
    /\ LET f == Head(stdout)
       IN  IF f.state = "init" THEN OnInit
           ELSE IF f.of = Probe THEN OnProbeFrame(f.state)
           ELSE OnForeignFrame(f.state)
    /\ UNCHANGED <<pending, linked, tabVars, procVars, inbox, turn, inited, askedVars, history>>

GraceEnds ==
    /\ probe.timer
    /\ Send(IF lifecycle THEN <<>> ELSE Interrupt(probe))
    /\ probe' = IF lifecycle THEN [probe EXCEPT !.timer = FALSE] ELSE NoProbe
    /\ UNCHANGED <<pending, linked, lifecycle, tabVars, procVars, inbox, turn, inited, stdout,
                   askedVars, history>>

\* INIT_PROBE_EXPIRY_MS: a probe the CLI does not report on is forgotten.
ProbeExpires ==
    /\ probe.live
    /\ probe' = NoProbe
    /\ excused' = TRUE
    /\ UNCHANGED <<pending, linked, lifecycle, tabVars, procVars, cliVars, askedVars,
                   written, told, over, hurt>>

Cli == ReadStdin \/ StartTurn \/ FoldPrompt \/ EndTurn

Relaunch == Spawn \/ ReplaceUnlinked

Next ==
    \/ UserMessage \/ StatusPoll \/ BrowserLeaves \/ BrowserComes
    \/ DrainTimerFires \/ RelaunchImpossible
    \/ Relaunch \/ ReplaceTooEarly \/ Exit \/ ExitNoticed \/ LateExit
    \/ Cli \/ CronDue
    \/ ReadStdout \/ GraceEnds \/ ProbeExpires

Spec == Init /\ [][Next]_vars

\* A session without a reachable process is relaunched, an exit is noticed,
\* the CLI works through its input and its turns end, the server reads
\* stdout and its timers fire.  Nobody owes a prompt, a poll or an exit.
FairSpec ==
    /\ Spec
    /\ WF_vars(Relaunch) /\ WF_vars(ExitNoticed) /\ WF_vars(Cli)
    /\ WF_vars(ReadStdout) /\ WF_vars(GraceEnds)

-----------------------------------------------------------------------------
(***************************************************************************)
(* Properties.                                                             *)
(***************************************************************************)

\* The interrupt meant for the probe never aborts a turn that runs a prompt
\* or a command the CLI scheduled itself, alone or folded into the probe's.
NoRealTurnInterrupted == hurt = {}

\* Prompts are written in the order they were accepted, each at most once,
\* however often the session was relaunched in between.
PromptsInOrder ==
    \A i, j \in DOMAIN written :
        i < j /\ written[i].kind = "prompt" /\ written[j].kind = "prompt" =>
            written[i].n < written[j].n

\* A prompt is in the queue, or was written, or the browser was told that it
\* was discarded - and the browser is told of no prompt that is delivered.
PromptsAccountedFor ==
    \A n \in 1 .. accepted :
        LET queued == n \in Prompts(pending)
            sent == n \in Prompts(written)
        IN  (queued \/ sent \/ n \in told) /\ ~(n \in told /\ (queued \/ sent))

\* A probe that nothing shares the process with is not left to be answered:
\* its turn ends by the interrupt.
ProbeIsInterrupted == [][EndTurn /\ turn = {Probe} => excused]_vars

\* Every accepted prompt starts in a turn, or the browser is told that it was
\* discarded, or its process ended under it.
PromptStartsOrTold ==
    \A n \in 1 .. MaxPrompts : n <= accepted ~> n \in over \union told
=============================================================================
