------------------------- MODULE CliKickoff_proofs -------------------------
(***************************************************************************)
(* Proofs about CliKickoff, for every limit of the queue, every kind of    *)
(* CLI and every bound: type correctness, and that the queue neither       *)
(* reorders, repeats nor silently loses a prompt.                          *)
(***************************************************************************)
EXTENDS CliKickoff, TLAPS

(* What the messages are. *)
LEMMA MessageKinds ==
    /\ Plain("poll") \in Messages
    /\ \A n \in 1 .. MaxPrompts : Prompt(n) \in Messages /\ Prompt(n) \in Commands
    /\ Probe \in Commands
    /\ \A n \in 1 .. MaxCrons : Cron(n) \in Commands
    /\ Messages \subseteq Wire /\ Probe \in Wire
    /\ Plain("interrupt") \in Wire /\ Plain("cancel") \in Wire
  BY DEF Messages, Commands, Wire

LEMMA WireKinds ==
    ASSUME NEW m \in Wire \union Commands, m.kind = "prompt"
    PROVE  m \in Messages /\ m \in Commands /\ m.n \in 1 .. MaxPrompts /\ m = Prompt(m.n)
  BY DEF Wire, Messages, Commands, Probe, Plain, Prompt, Cron

LEMMA ProbeKind ==
    ASSUME NEW m \in Wire, m.kind = "probe"
    PROVE  m \in Commands
  BY DEF Wire, Messages, Commands, Probe, Plain, Prompt

(* The prompts of a sequence are prompts. *)
LEMMA PromptsType ==
    ASSUME NEW S, S \subseteq Wire \union Commands, NEW q \in Seq(S)
    PROVE  Prompts(q) \subseteq 1 .. MaxPrompts
  <1> SUFFICES ASSUME NEW i \in DOMAIN q, q[i].kind = "prompt"
               PROVE  q[i].n \in 1 .. MaxPrompts
    BY DEF Prompts
  <1>1. q[i] \in Wire \union Commands
    OBVIOUS
  <1> QED BY <1>1, WireKinds

(* The prompts of an empty, an extended, a joined and a shortened queue. *)
LEMMA PromptsEmpty == Prompts(<<>>) = {}
  BY DEF Prompts

LEMMA PromptsAppend ==
    ASSUME NEW S, NEW q \in Seq(S), NEW m \in S
    PROVE  Prompts(Append(q, m)) = Prompts(q) \union (IF m.kind = "prompt" THEN {m.n} ELSE {})
  <1> DEFINE a == Append(q, m)
  <1>1. /\ a \in Seq(S) /\ DOMAIN a = DOMAIN q \union {Len(q) + 1}
        /\ a[Len(q) + 1] = m /\ \A i \in DOMAIN q : a[i] = q[i]
        /\ DOMAIN q = 1 .. Len(q) /\ Len(q) \in Nat
    OBVIOUS
  <1> HIDE DEF a
  <1>2. Prompts(a) = Prompts(q) \union (IF m.kind = "prompt" THEN {m.n} ELSE {})
    BY <1>1 DEF Prompts
  <1> QED BY <1>2 DEF a

LEMMA PromptsConcat ==
    ASSUME NEW S, NEW p \in Seq(S), NEW q \in Seq(S)
    PROVE  Prompts(p \o q) = Prompts(p) \union Prompts(q)
  <1> DEFINE c == p \o q
  <1>1. /\ DOMAIN c = 1 .. Len(p) + Len(q)
        /\ DOMAIN p = 1 .. Len(p) /\ DOMAIN q = 1 .. Len(q)
        /\ Len(p) \in Nat /\ Len(q) \in Nat
        /\ \A i \in DOMAIN p : c[i] = p[i]
        /\ \A i \in DOMAIN q : c[Len(p) + i] = q[i]
    OBVIOUS
  <1>2. \A i \in DOMAIN c : i \in DOMAIN p \/ (i - Len(p) \in DOMAIN q /\ c[i] = q[i - Len(p)])
    BY <1>1
  <1> HIDE DEF c
  <1>3. ASSUME NEW n \in Prompts(c) PROVE n \in Prompts(p) \union Prompts(q)
    BY <1>1, <1>2, <1>3 DEF Prompts
  <1>4. ASSUME NEW n \in Prompts(p) PROVE n \in Prompts(c)
    BY <1>1, <1>4 DEF Prompts
  <1>5. ASSUME NEW n \in Prompts(q) PROVE n \in Prompts(c)
    <2>1. PICK i \in DOMAIN q : q[i].kind = "prompt" /\ q[i].n = n
      BY <1>5 DEF Prompts
    <2>2. Len(p) + i \in DOMAIN c /\ c[Len(p) + i] = q[i]
      BY <1>1, <2>1
    <2> QED BY <2>1, <2>2 DEF Prompts
  <1>6. Prompts(c) = Prompts(p) \union Prompts(q)
    BY <1>3, <1>4, <1>5
  <1> QED BY <1>6 DEF c

LEMMA PromptsTail ==
    ASSUME NEW S, NEW q \in Seq(S), q # <<>>
    PROVE  /\ Prompts(Tail(q)) \subseteq Prompts(q)
           /\ Prompts(<<Head(q)>>) \subseteq Prompts(q)
           /\ Prompts(q) = Prompts(<<Head(q)>>) \union Prompts(Tail(q))
  <1> DEFINE t == Tail(q)
             h == <<Head(q)>>
  <1>1. /\ DOMAIN t = 1 .. Len(q) - 1 /\ DOMAIN q = 1 .. Len(q) /\ Len(q) \in Nat \ {0}
        /\ \A i \in DOMAIN t : t[i] = q[i + 1]
        /\ DOMAIN h = {1} /\ h[1] = q[1]
    OBVIOUS
  <1> HIDE DEF t, h
  <1>2. ASSUME NEW n \in Prompts(q) PROVE n \in Prompts(h) \union Prompts(t)
    <2>1. PICK i \in DOMAIN q : q[i].kind = "prompt" /\ q[i].n = n
      BY <1>2 DEF Prompts
    <2>2. CASE i = 1
      BY <1>1, <2>1, <2>2 DEF Prompts
    <2>3. CASE i # 1
      <3>1. i - 1 \in DOMAIN t /\ t[i - 1] = q[i]
        BY <1>1, <2>1, <2>3
      <3> QED BY <2>1, <3>1 DEF Prompts
    <2> QED BY <2>2, <2>3
  <1>3. ASSUME NEW n \in Prompts(t) PROVE n \in Prompts(q)
    <2>1. PICK i \in DOMAIN t : t[i].kind = "prompt" /\ t[i].n = n
      BY <1>3 DEF Prompts
    <2>2. i + 1 \in DOMAIN q /\ q[i + 1] = t[i]
      BY <1>1, <2>1
    <2> QED BY <2>1, <2>2 DEF Prompts
  <1>4. ASSUME NEW n \in Prompts(h) PROVE n \in Prompts(q)
    BY <1>1, <1>4 DEF Prompts
  <1>5. /\ Prompts(t) \subseteq Prompts(q) /\ Prompts(h) \subseteq Prompts(q)
        /\ Prompts(q) = Prompts(h) \union Prompts(t)
    BY <1>2, <1>3, <1>4
  <1> QED BY <1>5 DEF t, h

-----------------------------------------------------------------------------
(***************************************************************************)
(* Type correctness.                                                       *)
(***************************************************************************)

LEMMA ProbeTypes ==
    /\ NoProbe \in ProbeStates /\ FreshProbe \in ProbeStates
    /\ \A p \in ProbeStates : Noted(p) \in ProbeStates
    /\ \A p \in ProbeStates : ~p.live => Noted(p) = p
    /\ ~NoProbe.live
  BY DEF ProbeStates, NoProbe, FreshProbe, Noted, Cancels

LEMMA ProbeIsQuiet == [NoProbe EXCEPT !.timer = FALSE] = NoProbe
  <1>1. \A p \in ProbeStates : ~p.timer => [p EXCEPT !.timer = FALSE] = p
    BY DEF ProbeStates
  <1>2. ~NoProbe.timer
    BY DEF NoProbe
  <1> QED BY <1>1, <1>2, ProbeTypes

LEMMA FrameTypes ==
    /\ \A p : CancelFrame(p) \in Seq(Wire) /\ Interrupt(p) \in Seq(Wire)
    /\ <<>> \in Seq(Wire) /\ <<Plain("cancel")>> \in Seq(Wire) /\ <<Probe>> \in Seq(Wire)
    /\ \A c \in Commands, state \in {"queued", "started", "ended"} :
           Report(state, c) \in Seq(Reports)
    /\ <<Frame("init", Probe)>> \in Seq(Reports) /\ <<>> \in Seq(Reports)
  <1>1. <<>> \in Seq(Wire) /\ <<>> \in Seq(Reports)
    OBVIOUS
  <1>2. \A m \in Wire : <<m>> \in Seq(Wire)
    OBVIOUS
  <1>3. \A f \in Reports : <<f>> \in Seq(Reports)
    OBVIOUS
  <1>4. /\ Frame("init", Probe) \in Reports
        /\ \A c \in Commands, state \in {"queued", "started", "ended"} : Frame(state, c) \in Reports
    BY DEF Reports
  <1>5. \A p : CancelFrame(p) \in Seq(Wire) /\ Interrupt(p) \in Seq(Wire)
    BY <1>1, <1>2, MessageKinds DEF CancelFrame, Interrupt
  <1>6. \A c \in Commands, state \in {"queued", "started", "ended"} :
           Report(state, c) \in Seq(Reports)
    BY <1>1, <1>3, <1>4 DEF Report
  <1> QED BY <1>1, <1>2, <1>3, <1>4, <1>5, <1>6, MessageKinds

LEMMA EmptyTypes ==
    /\ <<>> \in Seq(Messages) /\ <<>> \in Seq(Wire) /\ <<>> \in Seq(Commands)
    /\ <<>> \in Seq(Reports) /\ Len(<<>>) = 0 /\ 0 <= PendingMessagesLimit
  BY KickoffAssumption

LEMMA QueueOnWire == Seq(Messages) \subseteq Seq(Wire)
  BY MessageKinds

(* A queue that takes one more message. *)
LEMMA EnqueuedType ==
    ASSUME TypeOK, NEW m \in Messages
    PROVE  /\ Enqueued(m) \in Seq(Messages) /\ Len(Enqueued(m)) <= PendingMessagesLimit
           /\ Dropped \subseteq Prompts(pending)
  <1>1. PendingMessagesLimit \in Nat \ {0} /\ pending \in Seq(Messages)
        /\ Len(pending) <= PendingMessagesLimit
    BY KickoffAssumption DEF TypeOK
  <1>2. CASE Len(pending) >= PendingMessagesLimit
    <2>1. pending # <<>> /\ Tail(pending) \in Seq(Messages)
          /\ Len(Tail(pending)) = Len(pending) - 1
      BY <1>1, <1>2
    <2> QED BY <1>1, <1>2, <2>1, PromptsTail DEF Enqueued, Dropped
  <1>3. CASE ~(Len(pending) >= PendingMessagesLimit)
    BY <1>1, <1>3 DEF Enqueued, Dropped
  <1> QED BY <1>2, <1>3

LEMMA RouteType ==
    ASSUME TypeOK, NEW m \in Messages, Route(m)
    PROVE  /\ pending' \in Seq(Messages) /\ Len(pending') <= PendingMessagesLimit
           /\ linked => pending' = <<>>
           /\ ~linked => probe' = probe
           /\ stdin' \in Seq(Wire) /\ written' \in Seq(Messages)
           /\ over' \subseteq 1 .. MaxPrompts /\ told' \subseteq 1 .. MaxPrompts
           /\ probe' \in ProbeStates /\ excused' \in BOOLEAN
  <1>1. CASE linked
    <2> DEFINE q == Append(pending, m)
               cancel == IF Prompts(q) # {} /\ ~probe.foreign THEN CancelFrame(probe) ELSE <<>>
    <2>1. q \in Seq(Messages) /\ q \in Seq(Wire) /\ cancel \in Seq(Wire)
      <3>1. pending \in Seq(Messages)
        BY DEF TypeOK
      <3>2. q \in Seq(Messages)
        BY <3>1
      <3> QED BY <3>2, FrameTypes, QueueOnWire
    <2>2. Prompts(q) \subseteq 1 .. MaxPrompts
      BY <2>1, PromptsType, MessageKinds
    <2>3. /\ stdin' = IF proc = "running" THEN stdin \o cancel \o q ELSE stdin
          /\ written' = written \o q
          /\ over' = IF proc = "running" THEN over ELSE over \union Prompts(q)
          /\ pending' = <<>> /\ told' = told
          /\ probe' \in {probe, Noted(probe)} /\ excused' \in BOOLEAN
      BY <1>1 DEF Route, Write
    <2>4. stdin \in Seq(Wire) /\ written \in Seq(Messages) /\ probe \in ProbeStates
          /\ over \subseteq 1 .. MaxPrompts /\ told \subseteq 1 .. MaxPrompts
      BY DEF TypeOK
    <2> HIDE DEF q, cancel
    <2>5. stdin \o cancel \o q \in Seq(Wire) /\ written \o q \in Seq(Messages)
      BY <2>1, <2>4
    <2>6. stdin' \in Seq(Wire) /\ written' \in Seq(Messages)
      BY <2>3, <2>4, <2>5
    <2>7. over' \subseteq 1 .. MaxPrompts
      BY <2>2, <2>3, <2>4
    <2>8. probe' \in ProbeStates
      BY <2>3, <2>4, ProbeTypes
    <2>9. pending' \in Seq(Messages) /\ Len(pending') <= PendingMessagesLimit
      BY <2>3, KickoffAssumption
    <2> QED BY <1>1, <2>3, <2>4, <2>6, <2>7, <2>8, <2>9
  <1>2. CASE ~linked
    <2>1. /\ pending \in Seq(Messages) /\ stdin \in Seq(Wire) /\ written \in Seq(Messages)
          /\ probe \in ProbeStates /\ excused \in BOOLEAN
          /\ over \subseteq 1 .. MaxPrompts /\ told \subseteq 1 .. MaxPrompts
      BY DEF TypeOK
    <2>2. Prompts(pending) \subseteq 1 .. MaxPrompts
      BY <2>1, PromptsType, MessageKinds
    <2>3. /\ pending' = Enqueued(m) /\ told' = told \union Dropped
          /\ UNCHANGED <<stdin, written, over, probe, excused>>
      BY <1>2 DEF Route
    <2> QED BY <1>2, <2>1, <2>2, <2>3, EnqueuedType
  <1> QED BY <1>1, <1>2

LEMMA AskedTypeStep ==
    ASSUME TypeOK, UserMessage \/ StatusPoll
    PROVE  TypeOK'
  <1> USE KickoffAssumption DEF RouteUnchanged, tabVars, procVars
  <1>1. CASE UserMessage
    <2>1. accepted' \in 1 .. MaxPrompts /\ UNCHANGED polls /\ Route(Prompt(accepted'))
      BY <1>1 DEF UserMessage, TypeOK
    <2>2. Prompt(accepted') \in Messages
      BY <2>1, MessageKinds
    <2> HIDE DEF Route
    <2> QED BY <1>1, <2>1, <2>2, RouteType DEF UserMessage, TypeOK
  <1>2. CASE StatusPoll
    <2>1. polls' \in 0 .. MaxPolls /\ UNCHANGED accepted /\ Route(Plain("poll"))
      BY <1>2 DEF StatusPoll, TypeOK
    <2> QED BY <1>2, <2>1, MessageKinds, RouteType DEF StatusPoll, TypeOK
  <1> QED BY <1>1, <1>2

LEMMA QueueTypeStep ==
    ASSUME TypeOK,
           BrowserLeaves \/ BrowserComes \/ DrainTimerFires \/ RelaunchImpossible
    PROVE  TypeOK'
  <1> USE KickoffAssumption DEF bridgeVars, tabVars, procVars, cliVars, askedVars, history
  <1>1. Prompts(pending) \subseteq 1 .. MaxPrompts
    BY PromptsType, MessageKinds DEF TypeOK
  <1>2. Drain => /\ pending' \in Seq(Messages) /\ Len(pending') <= PendingMessagesLimit
                 /\ pending' = <<>> /\ told' \subseteq 1 .. MaxPrompts
    BY <1>1, EmptyTypes DEF Drain, TypeOK
  <1>3. CASE BrowserLeaves
    BY <1>3 DEF BrowserLeaves, TypeOK
  <1>4. CASE BrowserComes
    BY <1>4 DEF BrowserComes, TypeOK
  <1>5. CASE DrainTimerFires
    BY <1>2, <1>5 DEF DrainTimerFires, TypeOK
  <1>6. CASE RelaunchImpossible
    BY <1>2, <1>6 DEF RelaunchImpossible, TypeOK
  <1> QED BY <1>3, <1>4, <1>5, <1>6

LEMMA ProcessTypeStep ==
    ASSUME TypeOK,
           Spawn \/ ReplaceTooEarly \/ ReplaceUnlinked \/ Exit \/ ExitNoticed \/ LateExit
    PROVE  TypeOK'
  <1> USE KickoffAssumption DEF bridgeVars, tabVars, procVars, cliVars, askedVars, history
  <1>1. InProcess \subseteq 1 .. MaxPrompts
    <2>1. stdin \in Seq(Wire) /\ inbox \in Seq(Commands)
      BY DEF TypeOK
    <2>2. Prompts(stdin) \subseteq 1 .. MaxPrompts /\ Prompts(inbox) \subseteq 1 .. MaxPrompts
      BY <2>1, PromptsType
    <2> QED BY <2>2 DEF InProcess
  <1>2. Count => spawns' \in 0 .. MaxSpawns
    BY DEF Count, TypeOK
  <1>3. ASSUME Attach, overrun' \in BOOLEAN, spawns' \in 0 .. MaxSpawns
        PROVE  TypeOK'
    <2>1. pending \in Seq(Messages) /\ pending \in Seq(Wire) /\ <<Probe>> \in Seq(Wire)
      BY QueueOnWire, FrameTypes DEF TypeOK
    <2>2. stdin' \in Seq(Wire) /\ written' \in Seq(Messages) /\ pending' = <<>>
      BY <1>3, <2>1 DEF Attach, Flushed, Taken, TypeOK
    <2>3. over' \subseteq 1 .. MaxPrompts /\ probe' \in ProbeStates
      BY <1>1, <1>3, ProbeTypes DEF Attach, TypeOK
    <2>4. /\ proc' = "running" /\ linked' = TRUE /\ lifecycle' = FALSE /\ turn' = {}
          /\ inbox' = <<>> /\ inited' = FALSE /\ stdout' = <<>> /\ excused' = FALSE
          /\ UNCHANGED <<cli, tabVars, askedVars, told, hurt>>
      BY <1>3 DEF Attach
    <2> QED BY <1>3, <2>2, <2>3, <2>4, EmptyTypes DEF TypeOK
  <1>4. CASE Spawn
    BY <1>2, <1>3, <1>4 DEF Spawn, TypeOK
  <1>5. CASE ReplaceTooEarly
    BY <1>2, <1>3, <1>5 DEF ReplaceTooEarly, TypeOK
  <1>6. CASE ReplaceUnlinked
    BY <1>3, <1>6 DEF ReplaceUnlinked, TypeOK
  <1>7. CASE Exit
    BY <1>1, <1>7, EmptyTypes DEF Exit, TypeOK
  <1>8. CASE ExitNoticed
    BY <1>8, ProbeTypes DEF ExitNoticed, TypeOK
  <1>9. CASE LateExit
    BY <1>9, ProbeTypes DEF LateExit, TypeOK
  <1> QED BY <1>4, <1>5, <1>6, <1>7, <1>8, <1>9

LEMMA CliTypeStep ==
    ASSUME TypeOK, Cli \/ CronDue
    PROVE  TypeOK'
  <1> USE DEF bridgeVars, tabVars, procVars, askedVars, history
  <1>1. /\ stdin \in Seq(Wire) /\ inbox \in Seq(Commands) /\ stdout \in Seq(Reports)
        /\ turn \subseteq Commands /\ over \subseteq 1 .. MaxPrompts
    BY DEF TypeOK
  <1>2. \A c \in Commands, state \in {"queued", "started", "ended"} :
           stdout \o Report(state, c) \in Seq(Reports)
    BY <1>1, FrameTypes
  <1>3. inbox # <<>> => Head(inbox) \in Commands /\ Tail(inbox) \in Seq(Commands)
    BY <1>1
  <1>4. inbox # <<>> => Prompts(<<Head(inbox)>>) \subseteq 1 .. MaxPrompts
    <2>1. Prompts(inbox) \subseteq 1 .. MaxPrompts
      BY <1>1, PromptsType
    <2> QED BY <1>1, <2>1, PromptsTail
  <1>5. CASE ReadStdin
    <2> DEFINE m == Head(stdin)
    <2>1. m \in Wire /\ stdin' \in Seq(Wire)
      BY <1>1, <1>5 DEF ReadStdin
    <2>2. CASE m.kind \in {"probe", "prompt"} /\ inbox' = Append(inbox, m)
               /\ (UNCHANGED stdout \/ stdout' = stdout \o Report("queued", m))
               /\ UNCHANGED <<turn, hurt>>
      <3>1. m \in Commands
        BY <2>1, <2>2, ProbeKind, WireKinds
      <3>2. stdout \o Report("queued", m) \in Seq(Reports)
        BY <1>2, <3>1
      <3>3. inbox' \in Seq(Commands)
        BY <1>1, <2>2, <3>1
      <3>4. stdout' \in Seq(Reports)
        BY <1>1, <2>2, <3>2
      <3> QED BY <1>5, <2>1, <2>2, <3>3, <3>4 DEF ReadStdin, TypeOK
    <2>3. CASE m.kind = "interrupt" /\ hurt' = hurt \union (turn \ {Probe})
               /\ stdout' = (IF Probe \in turn THEN stdout \o Report("ended", Probe) ELSE stdout)
               /\ turn' = {} /\ UNCHANGED inbox
      <3>1. stdout' \in Seq(Reports)
        BY <1>1, <1>2, <2>3, MessageKinds
      <3> QED BY <1>5, <2>1, <2>3, <3>1 DEF ReadStdin, TypeOK
    <2>4. CASE /\ \/ UNCHANGED <<inbox, stdout>>
                  \/ \E i \in DOMAIN inbox :
                        /\ inbox' = SubSeq(inbox, 1, i - 1) \o SubSeq(inbox, i + 1, Len(inbox))
                        /\ stdout' = stdout \o Report("ended", Probe)
               /\ UNCHANGED <<turn, hurt>>
      <3>1. \A i \in DOMAIN inbox :
               SubSeq(inbox, 1, i - 1) \o SubSeq(inbox, i + 1, Len(inbox)) \in Seq(Commands)
        BY <1>1
      <3>2. inbox' \in Seq(Commands) /\ stdout' \in Seq(Reports)
        BY <1>1, <1>2, <2>4, <3>1, MessageKinds
      <3> QED BY <1>5, <2>1, <2>4, <3>2 DEF ReadStdin, TypeOK
    <2>5. CASE UNCHANGED <<inbox, turn, stdout, hurt>>
      BY <1>5, <2>1, <2>5 DEF ReadStdin, TypeOK
    <2> QED BY <1>5, <2>2, <2>3, <2>4, <2>5 DEF ReadStdin
  <1>6. CASE StartTurn
    <2>1. stdout \o Report("started", Head(inbox)) \o
             (IF inited THEN <<>> ELSE <<Frame("init", Probe)>>) \in Seq(Reports)
      BY <1>2, <1>3, <1>6, FrameTypes DEF StartTurn
    <2>2. /\ stdout' \in Seq(Reports) /\ inbox' \in Seq(Commands) /\ turn' \subseteq Commands
          /\ over' \subseteq 1 .. MaxPrompts
      BY <1>1, <1>3, <1>4, <1>6, <2>1 DEF StartTurn
    <2> QED BY <1>6, <2>2 DEF StartTurn, TypeOK
  <1>7. CASE FoldPrompt
    <2>1. Head(inbox).n \in 1 .. MaxPrompts
      BY <1>3, <1>7, WireKinds DEF FoldPrompt
    <2>2. inbox' \in Seq(Commands) /\ turn' \subseteq Commands /\ over' \subseteq 1 .. MaxPrompts
      BY <1>1, <1>3, <1>7, <2>1 DEF FoldPrompt
    <2> QED BY <1>7, <2>2 DEF FoldPrompt, TypeOK
  <1>8. CASE EndTurn
    <2>1. stdout' \in Seq(Reports)
      BY <1>1, <1>2, <1>8, MessageKinds DEF EndTurn
    <2> QED BY <1>8, <2>1 DEF EndTurn, TypeOK
  <1>9. CASE CronDue
    <2>1. crons' \in 1 .. MaxCrons
      BY <1>9, KickoffAssumption DEF CronDue, TypeOK
    <2>2. Cron(crons') \in Commands
      BY <2>1, MessageKinds
    <2>3. stdout \o Report("queued", Cron(crons')) \in Seq(Reports)
      BY <1>2, <2>2
    <2>4. /\ inbox' = Append(inbox, Cron(crons'))
          /\ UNCHANGED stdout \/ stdout' = stdout \o Report("queued", Cron(crons'))
      BY <1>9 DEF CronDue
    <2>5. inbox' \in Seq(Commands)
      BY <1>1, <2>2, <2>4
    <2>6. stdout' \in Seq(Reports)
      BY <1>1, <2>3, <2>4
    <2> QED BY <1>9, <2>1, <2>5, <2>6 DEF CronDue, TypeOK
  <1> QED BY <1>5, <1>6, <1>7, <1>8, <1>9 DEF Cli

LEMMA AdapterTypeStep ==
    ASSUME TypeOK, ReadStdout \/ GraceEnds \/ ProbeExpires
    PROVE  TypeOK'
  <1> USE DEF tabVars, procVars, cliVars, askedVars, history
  <1>1. /\ stdin \in Seq(Wire) /\ stdout \in Seq(Reports) /\ probe \in ProbeStates
        /\ lifecycle \in BOOLEAN /\ (~linked => probe = NoProbe) /\ linked \in BOOLEAN
    BY DEF TypeOK
  <1>2. \A q \in Seq(Wire) : Send(q) => stdin' \in Seq(Wire)
    BY <1>1 DEF Send
  <1>3. ASSUME NEW state, OnProbeFrame(state)
        PROVE  /\ stdin' \in Seq(Wire) /\ lifecycle' \in BOOLEAN /\ probe' \in ProbeStates
               /\ ~linked => probe' = NoProbe
    BY <1>1, <1>2, <1>3, ProbeTypes, FrameTypes DEF OnProbeFrame, ProbeStates, NoProbe
  <1>4. ASSUME NEW state, OnForeignFrame(state)
        PROVE  /\ stdin' \in Seq(Wire) /\ lifecycle' \in BOOLEAN /\ probe' \in ProbeStates
               /\ ~linked => probe' = NoProbe
    <2> DEFINE p == [probe EXCEPT !.timer = FALSE]
               news == p.live /\ state \in {"queued", "started"} /\ ~p.foreign
    <2>1. p \in ProbeStates /\ [p EXCEPT !.foreign = TRUE, !.cancelSent = TRUE] \in ProbeStates
      BY <1>1 DEF ProbeStates
    <2>2. ~linked => p = NoProbe /\ ~p.live
      BY <1>1, ProbeIsQuiet, ProbeTypes
    <2>3. /\ lifecycle' = TRUE
          /\ Send(IF news /\ ~p.cancelSent THEN <<Plain("cancel")>> ELSE <<>>)
          /\ probe' = IF news THEN [p EXCEPT !.foreign = TRUE, !.cancelSent = TRUE] ELSE p
      BY <1>4 DEF OnForeignFrame
    <2>4. stdin' \in Seq(Wire)
      BY <1>2, <2>3, FrameTypes
    <2> QED BY <2>1, <2>2, <2>3, <2>4
  <1>5. ASSUME OnInit
        PROVE  /\ stdin' \in Seq(Wire) /\ lifecycle' \in BOOLEAN /\ probe' \in ProbeStates
               /\ ~linked => probe' = NoProbe
    <2>1. lifecycle' \in BOOLEAN /\ UNCHANGED stdin
      BY <1>5 DEF OnInit
    <2>2. probe' = [probe EXCEPT !.timer = probe.timer \/ (probe.live /\ ~lifecycle')]
      BY <1>5 DEF OnInit
    <2>3. probe' = probe \/ (probe.live /\ probe' = [probe EXCEPT !.timer = TRUE])
      BY <1>1, <2>1, <2>2 DEF ProbeStates
    <2>4. [probe EXCEPT !.timer = TRUE] \in ProbeStates
      BY <1>1 DEF ProbeStates
    <2> QED BY <1>1, <2>1, <2>3, <2>4, ProbeTypes
  <1>6. CASE ReadStdout
    <2>1. stdout' \in Seq(Reports)
      BY <1>1, <1>6 DEF ReadStdout
    <2>2. /\ stdin' \in Seq(Wire) /\ lifecycle' \in BOOLEAN /\ probe' \in ProbeStates
          /\ ~linked => probe' = NoProbe
      BY <1>3, <1>4, <1>5, <1>6 DEF ReadStdout
    <2> QED BY <1>6, <2>1, <2>2 DEF ReadStdout, TypeOK
  <1>7. CASE GraceEnds
    <2>1. stdin' \in Seq(Wire)
      BY <1>2, <1>7, FrameTypes DEF GraceEnds
    <2>2. probe' \in ProbeStates /\ (~linked => probe' = NoProbe)
      <3>1. [probe EXCEPT !.timer = FALSE] \in ProbeStates
        BY <1>1 DEF ProbeStates
      <3>2. probe = NoProbe => [probe EXCEPT !.timer = FALSE] = NoProbe
        BY ProbeIsQuiet
      <3>3. probe' = [probe EXCEPT !.timer = FALSE] \/ probe' = NoProbe
        BY <1>7 DEF GraceEnds
      <3> QED BY <1>1, <3>1, <3>2, <3>3, ProbeTypes
    <2> QED BY <1>7, <2>1, <2>2 DEF GraceEnds, TypeOK
  <1>8. CASE ProbeExpires
    BY <1>8, ProbeTypes DEF ProbeExpires, TypeOK
  <1> QED BY <1>6, <1>7, <1>8

LEMMA TypeStep == TypeOK /\ [Next]_vars => TypeOK'
  <1> SUFFICES ASSUME TypeOK, [Next]_vars PROVE TypeOK'
    OBVIOUS
  <1>1. CASE UNCHANGED vars
    BY <1>1 DEF vars, bridgeVars, tabVars, procVars, cliVars, askedVars, history, TypeOK
  <1>2. CASE Next
    BY <1>2, AskedTypeStep, QueueTypeStep, ProcessTypeStep, CliTypeStep, AdapterTypeStep
       DEF Next, Relaunch
  <1> QED BY <1>1, <1>2

(* Every variable keeps its type: the queue stays within its limit and is  *)
(* empty while an adapter is linked, and no probe outlives its transport.  *)
THEOREM TypeCorrect == Spec => []TypeOK
  <1>1. Init => TypeOK
    <2> SUFFICES ASSUME Init PROVE TypeOK
      OBVIOUS
    <2>1. /\ accepted \in 0 .. MaxPrompts /\ polls \in 0 .. MaxPolls /\ crons \in 0 .. MaxCrons
          /\ spawns \in 0 .. MaxSpawns /\ leaves \in 0 .. MaxLeaves
      BY KickoffAssumption DEF Init
    <2> QED BY <2>1, EmptyTypes, ProbeTypes, KickoffAssumption DEF Init, TypeOK
  <1> QED BY <1>1, TypeStep, PTL DEF Spec

-----------------------------------------------------------------------------
(***************************************************************************)
(* What happens to a prompt: it waits, it is written or its loss is told.  *)
(***************************************************************************)

InOrder(q) ==
    \A i, j \in DOMAIN q :
        i < j /\ q[i].kind = "prompt" /\ q[j].kind = "prompt" => q[i].n < q[j].n

(* The inductive invariant: what is written and what waits are in order,   *)
(* the one before the other, and everything accepted is somewhere, once.   *)
QueueInv ==
    /\ InOrder(written) /\ InOrder(pending)
    /\ \A m \in Prompts(written), n \in Prompts(pending) : m < n
    /\ told \intersect (Prompts(written) \union Prompts(pending)) = {}
    /\ told \union Prompts(written) \union Prompts(pending) = 1 .. accepted

LEMMA QueueInvSuffices == QueueInv => PromptsInOrder /\ PromptsAccountedFor
  BY DEF QueueInv, InOrder, PromptsInOrder, PromptsAccountedFor, Prompts

(* A queue stays in order when a later message joins, another queue        *)
(* follows, or its head is taken away.                                     *)
LEMMA OrderAppend ==
    ASSUME NEW S, NEW q \in Seq(S), NEW m \in S, InOrder(q),
           m.kind = "prompt" => \A n \in Prompts(q) : n < m.n
    PROVE  InOrder(Append(q, m))
  <1> DEFINE a == Append(q, m)
  <1>1. /\ DOMAIN a = 1 .. Len(q) + 1 /\ DOMAIN q = 1 .. Len(q) /\ Len(q) \in Nat
        /\ a[Len(q) + 1] = m /\ \A i \in DOMAIN q : a[i] = q[i]
    OBVIOUS
  <1> HIDE DEF a
  <1>2. \A i \in DOMAIN q : q[i].kind = "prompt" => q[i].n \in Prompts(q)
    BY DEF Prompts
  <1>3. ASSUME NEW i \in DOMAIN a, NEW j \in DOMAIN a, i < j,
               a[i].kind = "prompt", a[j].kind = "prompt"
        PROVE  a[i].n < a[j].n
    <2>1. i \in DOMAIN q /\ a[i] = q[i]
      BY <1>1, <1>3
    <2>2. CASE j \in DOMAIN q
      BY <1>1, <1>3, <2>1, <2>2 DEF InOrder
    <2>3. CASE j \notin DOMAIN q
      <3>1. a[j] = m
        BY <1>1, <2>3
      <3> QED BY <1>2, <1>3, <2>1, <3>1
    <2> QED BY <2>2, <2>3
  <1>4. InOrder(a)
    BY <1>3 DEF InOrder
  <1> QED BY <1>4 DEF a

LEMMA OrderConcat ==
    ASSUME NEW S, NEW p \in Seq(S), NEW q \in Seq(S), InOrder(p), InOrder(q),
           \A m \in Prompts(p), n \in Prompts(q) : m < n
    PROVE  InOrder(p \o q)
  <1> DEFINE c == p \o q
  <1>1. /\ DOMAIN c = 1 .. Len(p) + Len(q)
        /\ DOMAIN p = 1 .. Len(p) /\ DOMAIN q = 1 .. Len(q)
        /\ Len(p) \in Nat /\ Len(q) \in Nat
        /\ \A i \in DOMAIN p : c[i] = p[i]
        /\ \A i \in DOMAIN q : c[Len(p) + i] = q[i]
    OBVIOUS
  <1>2. \A i \in DOMAIN c \ DOMAIN p : i - Len(p) \in DOMAIN q /\ c[i] = q[i - Len(p)]
    BY <1>1
  <1> HIDE DEF c
  <1>3. /\ \A i \in DOMAIN p : p[i].kind = "prompt" => p[i].n \in Prompts(p)
        /\ \A i \in DOMAIN q : q[i].kind = "prompt" => q[i].n \in Prompts(q)
    BY DEF Prompts
  <1>4. ASSUME NEW i \in DOMAIN c, NEW j \in DOMAIN c, i < j,
               c[i].kind = "prompt", c[j].kind = "prompt"
        PROVE  c[i].n < c[j].n
    <2>1. CASE i \in DOMAIN p /\ j \in DOMAIN p
      BY <1>1, <1>4, <2>1 DEF InOrder
    <2>2. CASE i \in DOMAIN p /\ j \notin DOMAIN p
      <3>1. c[i].n \in Prompts(p) /\ c[j].n \in Prompts(q)
        BY <1>1, <1>2, <1>3, <1>4, <2>2
      <3> QED BY <3>1
    <2>3. CASE i \notin DOMAIN p
      <3>1. j \notin DOMAIN p
        BY <1>1, <1>4, <2>3
      <3>2. i - Len(p) \in DOMAIN q /\ j - Len(p) \in DOMAIN q /\ i - Len(p) < j - Len(p)
        BY <1>1, <1>2, <1>4, <2>3, <3>1
      <3> QED BY <1>2, <1>4, <2>3, <3>1, <3>2 DEF InOrder
    <2> QED BY <2>1, <2>2, <2>3
  <1>5. InOrder(c)
    BY <1>4 DEF InOrder
  <1> QED BY <1>5 DEF c

LEMMA OrderTail ==
    ASSUME NEW S, NEW q \in Seq(S), q # <<>>, InOrder(q), Prompts(q) \subseteq Nat
    PROVE  /\ InOrder(Tail(q))
           /\ Prompts(<<Head(q)>>) \intersect Prompts(Tail(q)) = {}
  <1> DEFINE t == Tail(q)
             h == <<Head(q)>>
  <1>1. /\ DOMAIN t = 1 .. Len(q) - 1 /\ DOMAIN q = 1 .. Len(q) /\ Len(q) \in Nat \ {0}
        /\ \A i \in DOMAIN t : t[i] = q[i + 1]
        /\ DOMAIN h = {1} /\ h[1] = q[1]
    OBVIOUS
  <1>2. \A i, j \in DOMAIN t : i < j => i + 1 \in DOMAIN q /\ j + 1 \in DOMAIN q /\ i + 1 < j + 1
    BY <1>1
  <1>3. \A i \in DOMAIN t : i + 1 \in DOMAIN q /\ 1 \in DOMAIN q /\ 1 < i + 1
    BY <1>1
  <1> HIDE DEF t, h
  <1>4. InOrder(t)
    BY <1>1, <1>2 DEF InOrder
  <1>5. \A m \in Prompts(h), n \in Prompts(t) : m < n
    BY <1>1, <1>3 DEF InOrder, Prompts
  <1>6. Prompts(h) \subseteq Nat
    BY PromptsTail DEF h
  <1>7. Prompts(h) \intersect Prompts(t) = {}
    BY <1>5, <1>6
  <1> QED BY <1>4, <1>7 DEF t, h

(* The steps that move prompts. *)
LEMMA AcceptStep ==
    ASSUME TypeOK, QueueInv, NEW m \in Messages, Route(m),
           \/ m = Prompt(accepted + 1) /\ accepted' = accepted + 1
           \/ m = Plain("poll") /\ accepted' = accepted
    PROVE  QueueInv'
  <1>1. /\ pending \in Seq(Messages) /\ written \in Seq(Messages) /\ accepted \in Nat
        /\ Len(pending) <= PendingMessagesLimit /\ PendingMessagesLimit \in Nat \ {0}
    BY KickoffAssumption DEF TypeOK
  <1> DEFINE new == IF m.kind = "prompt" THEN {m.n} ELSE {}
  <1>2. /\ 1 .. accepted' = 1 .. accepted \union new
        /\ \A n \in 1 .. accepted : n \notin new
        /\ m.kind = "prompt" => m.n = accepted + 1
    BY <1>1 DEF Prompt, Plain
  <1>3. Prompts(pending) \subseteq 1 .. accepted /\ Prompts(written) \subseteq 1 .. accepted
    BY DEF QueueInv
  <1>4. m.kind = "prompt" =>
           /\ \A n \in Prompts(pending) : n < m.n
           /\ \A n \in Prompts(written) : n < m.n
    BY <1>1, <1>2, <1>3
  <1>5. CASE linked
    <2> DEFINE q == Append(pending, m)
    <2>1. /\ q \in Seq(Messages) /\ InOrder(q)
          /\ Prompts(q) = Prompts(pending) \union new
      BY <1>1, <1>4, OrderAppend, PromptsAppend DEF QueueInv
    <2>2. written' = written \o q /\ pending' = <<>> /\ told' = told
      BY <1>5 DEF Route, Write
    <2> HIDE DEF q
    <2>3. \A a \in Prompts(written), b \in Prompts(q) : a < b
      BY <1>4, <2>1 DEF QueueInv
    <2>4. InOrder(written') /\ Prompts(written') = Prompts(written) \union Prompts(q)
      BY <1>1, <2>1, <2>2, <2>3, OrderConcat, PromptsConcat DEF QueueInv
    <2>5. InOrder(pending') /\ Prompts(pending') = {}
      BY <2>2, PromptsEmpty DEF InOrder
    <2> QED BY <1>2, <1>3, <2>1, <2>2, <2>4, <2>5 DEF QueueInv
  <1>6. CASE ~linked
    <2>1. pending' = Enqueued(m) /\ told' = told \union Dropped /\ written' = written
      BY <1>6 DEF Route
    <2>2. CASE Len(pending) >= PendingMessagesLimit
      <3> DEFINE t == Tail(pending)
                 h == Prompts(<<Head(pending)>>)
      <3>1. pending # <<>> /\ t \in Seq(Messages)
        BY <1>1, <2>2
      <3>2. /\ InOrder(t) /\ Prompts(t) \subseteq Prompts(pending)
            /\ Prompts(pending) = h \union Prompts(t) /\ h \intersect Prompts(t) = {}
        <4>1. Prompts(pending) \subseteq Nat
          BY <1>1, <1>3
        <4> QED BY <1>1, <3>1, <4>1, OrderTail, PromptsTail DEF QueueInv
      <3>3. pending' = Append(t, m) /\ told' = told \union h
        BY <2>1, <2>2 DEF Enqueued, Dropped
      <3> HIDE DEF t, h
      <3>4. InOrder(pending') /\ Prompts(pending') = Prompts(t) \union new
        BY <1>4, <3>1, <3>2, <3>3, OrderAppend, PromptsAppend
      <3>5. h \intersect Prompts(written) = {}
        <4>1. \A a \in Prompts(written), b \in h : a < b /\ a \in Nat
          BY <1>1, <1>3, <3>2 DEF QueueInv
        <4> QED BY <4>1
      <3>6. \A a \in Prompts(written), b \in Prompts(pending') : a < b
        BY <1>4, <3>2, <3>4 DEF QueueInv
      <3> QED BY <1>2, <1>3, <2>1, <3>2, <3>3, <3>4, <3>5, <3>6 DEF QueueInv
    <2>3. CASE ~(Len(pending) >= PendingMessagesLimit)
      <3>1. pending' = Append(pending, m) /\ told' = told
        BY <2>1, <2>3 DEF Enqueued, Dropped
      <3>2. InOrder(pending') /\ Prompts(pending') = Prompts(pending) \union new
        BY <1>1, <1>4, <3>1, OrderAppend, PromptsAppend DEF QueueInv
      <3>3. \A a \in Prompts(written), b \in Prompts(pending') : a < b
        BY <1>4, <3>2 DEF QueueInv
      <3> QED BY <1>2, <1>3, <2>1, <3>1, <3>2, <3>3 DEF QueueInv
    <2> QED BY <2>2, <2>3
  <1> QED BY <1>5, <1>6

LEMMA DrainStep ==
    ASSUME QueueInv, Drain, UNCHANGED <<written, accepted>>
    PROVE  QueueInv'
  <1>1. pending' = <<>> /\ told' = told \union Prompts(pending)
    BY DEF Drain
  <1>2. InOrder(pending') /\ Prompts(pending') = {}
    BY <1>1, PromptsEmpty DEF InOrder
  <1>3. Prompts(pending) \intersect Prompts(written) = {}
    <2>1. \A a \in Prompts(written), b \in Prompts(pending) : a < b
      BY DEF QueueInv
    <2>2. Prompts(written) \subseteq Nat
      BY DEF QueueInv
    <2> QED BY <2>1, <2>2
  <1> QED BY <1>1, <1>2, <1>3 DEF QueueInv

LEMMA AttachStep ==
    ASSUME TypeOK, QueueInv, Attach
    PROVE  QueueInv'
  <1>1. pending \in Seq(Messages) /\ written \in Seq(Messages)
    BY DEF TypeOK
  <1>2. written' = written \o pending /\ pending' = <<>> /\ UNCHANGED <<told, accepted>>
    BY DEF Attach, Flushed, Taken, askedVars
  <1>3. InOrder(written') /\ Prompts(written') = Prompts(written) \union Prompts(pending)
    BY <1>1, <1>2, OrderConcat, PromptsConcat DEF QueueInv
  <1>4. InOrder(pending') /\ Prompts(pending') = {}
    BY <1>2, PromptsEmpty DEF InOrder
  <1> QED BY <1>2, <1>3, <1>4 DEF QueueInv

(* Every other step leaves the queue, and what became of it, alone. *)
LEMMA QueueStep == TypeOK /\ QueueInv /\ [Next]_vars => QueueInv'
  <1> SUFFICES ASSUME TypeOK, QueueInv, [Next]_vars PROVE QueueInv'
    OBVIOUS
  <1> USE DEF bridgeVars, tabVars, procVars, cliVars, askedVars, history
  <1>1. ASSUME UNCHANGED <<pending, written, told, accepted>>
        PROVE  QueueInv'
    BY <1>1 DEF QueueInv, InOrder, Prompts
  <1>2. CASE UserMessage
    <2>1. accepted + 1 \in 1 .. MaxPrompts
      BY <1>2, KickoffAssumption DEF UserMessage, TypeOK
    <2>2. Prompt(accepted + 1) \in Messages
      BY <2>1, MessageKinds
    <2>3. accepted' = accepted + 1 /\ Route(Prompt(accepted + 1))
      BY <1>2 DEF UserMessage
    <2> QED BY <2>2, <2>3, AcceptStep
  <1>3. CASE StatusPoll
    <2>1. Route(Plain("poll")) /\ accepted' = accepted
      BY <1>3 DEF StatusPoll
    <2> QED BY <2>1, MessageKinds, AcceptStep
  <1>4. CASE DrainTimerFires \/ RelaunchImpossible
    BY <1>1, <1>4, DrainStep DEF DrainTimerFires, RelaunchImpossible
  <1>5. CASE Spawn \/ ReplaceTooEarly \/ ReplaceUnlinked
    BY <1>5, AttachStep DEF Spawn, ReplaceTooEarly, ReplaceUnlinked
  <1>6. CASE BrowserLeaves \/ BrowserComes
    BY <1>1, <1>6 DEF BrowserLeaves, BrowserComes
  <1>7. CASE Exit \/ ExitNoticed \/ LateExit
    BY <1>1, <1>7 DEF Exit, ExitNoticed, LateExit
  <1>8. CASE Cli \/ CronDue
    BY <1>1, <1>8 DEF Cli, ReadStdin, StartTurn, FoldPrompt, EndTurn, CronDue
  <1>9. CASE ReadStdout \/ GraceEnds \/ ProbeExpires
    BY <1>1, <1>9 DEF ReadStdout, GraceEnds, ProbeExpires
  <1>10. CASE UNCHANGED vars
    BY <1>1, <1>10 DEF vars
  <1> QED BY <1>2, <1>3, <1>4, <1>5, <1>6, <1>7, <1>8, <1>9, <1>10 DEF Next, Relaunch

LEMMA QueueInvariant == Spec => []QueueInv
  <1>1. Init => QueueInv
    BY PromptsEmpty DEF Init, QueueInv, InOrder
  <1> QED BY <1>1, QueueStep, TypeCorrect, PTL DEF Spec

(* Prompts are written in the order they were accepted, each at most once, *)
(* however many processes came and went and however full the queue was.    *)
THEOREM OrderKept == Spec => []PromptsInOrder
  BY QueueInvariant, QueueInvSuffices, PTL

(* No prompt is lost between the browser and stdin without being told, and *)
(* none that waits or was written is reported as discarded.                *)
THEOREM NothingLostSilently == Spec => []PromptsAccountedFor
  BY QueueInvariant, QueueInvSuffices, PTL
=============================================================================
