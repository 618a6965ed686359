--------------------------- MODULE CliProbe_proofs ---------------------------
(***************************************************************************)
(* Proofs about the init probe of CliKickoff, for every kind of CLI and    *)
(* every bound: its interrupt aborts the probe's turn and no other, and a  *)
(* probe that is alone with its process is not left to be answered.        *)
(***************************************************************************)
EXTENDS CliKickoff_proofs, SequenceTheorems

InterruptCommand == Plain("interrupt")
Started == Frame("started", Probe)
Ended == Frame("ended", Probe)
InitFrame == Frame("init", Probe)

NoPrompt(S) == \A m \in S : m.kind # "prompt"
NoCron(S) == \A m \in S : m.kind # "cron"

\* A value is in a sequence at most once; the probe is nowhere but in front.
Once(q, e) == \A i, j \in DOMAIN q : q[i] = e /\ q[j] = e => i = j
First(q) == \A i \in DOMAIN q : q[i] = Probe => i = 1

\* Neither a prompt nor another interrupt comes before an interrupt.
Clear(q) ==
    \A i, j \in DOMAIN q :
        i < j /\ q[j] = InterruptCommand => q[i].kind # "prompt" /\ q[i] # InterruptCommand

\* The probe comes before every prompt; a report comes before the init frame.
Leads(q) == \E i \in DOMAIN q : q[i] = Probe /\ \A j \in 1 .. i : q[j].kind # "prompt"
Announced(q) ==
    \A i \in DOMAIN q : q[i].state = "init" => \E j \in 1 .. i : q[j].state # "init"

-----------------------------------------------------------------------------
(***************************************************************************)
(* What joining two sequences, and taking the head away, does to these.    *)
(***************************************************************************)

LEMMA JoinIndices ==
    ASSUME NEW S, NEW q \in Seq(S), NEW r \in Seq(S)
    PROVE  /\ Len(q) \in Nat /\ DOMAIN q = 1 .. Len(q)
           /\ Len(r) \in Nat /\ DOMAIN r = 1 .. Len(r)
           /\ DOMAIN (q \o r) = 1 .. Len(q) + Len(r)
           /\ \A i \in DOMAIN q : (q \o r)[i] = q[i]
           /\ \A i \in DOMAIN r : Len(q) + i \in DOMAIN (q \o r) /\ (q \o r)[Len(q) + i] = r[i]
           /\ \A i \in DOMAIN (q \o r) :
                 \/ i \in DOMAIN q
                 \/ i - Len(q) \in DOMAIN r /\ (q \o r)[i] = r[i - Len(q)]
  OBVIOUS

LEMMA TailIndices ==
    ASSUME NEW S, NEW q \in Seq(S), q # <<>>
    PROVE  /\ Len(q) \in Nat \ {0} /\ DOMAIN q = 1 .. Len(q)
           /\ Tail(q) \in Seq(S) /\ Head(q) = q[1] /\ Head(q) \in S
           /\ DOMAIN Tail(q) = 1 .. Len(q) - 1
           /\ \A i \in DOMAIN Tail(q) : i + 1 \in DOMAIN q /\ Tail(q)[i] = q[i + 1]
           /\ \A i \in DOMAIN q : i = 1 \/ (i - 1 \in DOMAIN Tail(q) /\ Tail(q)[i - 1] = q[i])
  OBVIOUS

LEMMA RangeSmall ==
    /\ Range(<<>>) = {}
    /\ \A e : Range(<<e>>) = {e}
  BY DEF Range

LEMMA RangeTail ==
    ASSUME NEW S, NEW q \in Seq(S), q # <<>>
    PROVE  Range(q) = {Head(q)} \union Range(Tail(q))
  <1> DEFINE t == Tail(q)
  <1>1. /\ DOMAIN q = 1 .. Len(q) /\ Head(q) = q[1] /\ 1 \in DOMAIN q
        /\ \A i \in DOMAIN t : i + 1 \in DOMAIN q /\ t[i] = q[i + 1]
        /\ \A i \in DOMAIN q : i = 1 \/ (i - 1 \in DOMAIN t /\ t[i - 1] = q[i])
    BY TailIndices
  <1> HIDE DEF t
  <1>2. Range(q) = {Head(q)} \union Range(t)
    BY <1>1 DEF Range
  <1> QED BY <1>2 DEF t

LEMMA OnceJoin ==
    ASSUME NEW S, NEW q \in Seq(S), NEW r \in Seq(S), NEW e, Once(q, e), Once(r, e),
           e \notin Range(q) \/ e \notin Range(r)
    PROVE  Once(q \o r, e)
  <1> DEFINE c == q \o r
  <1>1. /\ \A i \in DOMAIN q : c[i] = q[i]
        /\ \A i \in DOMAIN c : i \in DOMAIN q \/ (i - Len(q) \in DOMAIN r /\ c[i] = r[i - Len(q)])
        /\ DOMAIN c \subseteq Int /\ Len(q) \in Nat
    BY JoinIndices
  <1> HIDE DEF c
  <1>2. Once(c, e)
    <2> SUFFICES ASSUME NEW i \in DOMAIN c, NEW j \in DOMAIN c, c[i] = e, c[j] = e
                 PROVE  i = j
      BY DEF Once
    <2>1. CASE i \in DOMAIN q /\ j \in DOMAIN q
      BY <1>1, <2>1 DEF Once
    <2>2. CASE i \notin DOMAIN q /\ j \notin DOMAIN q
      <3>1. i - Len(q) = j - Len(q)
        BY <1>1, <2>2 DEF Once
      <3> QED BY <1>1, <3>1
    <2>3. CASE i \in DOMAIN q /\ j \notin DOMAIN q
      BY <1>1, <2>3 DEF Range
    <2>4. CASE i \notin DOMAIN q /\ j \in DOMAIN q
      BY <1>1, <2>4 DEF Range
    <2> QED BY <2>1, <2>2, <2>3, <2>4
  <1> QED BY <1>2 DEF c

LEMMA OnceSmall ==
    /\ \A q, e : e \notin Range(q) => Once(q, e)
    /\ \A e, f : Once(<<e>>, f)
  BY DEF Once, Range

LEMMA OnceTail ==
    ASSUME NEW S, NEW q \in Seq(S), q # <<>>, NEW e, Once(q, e)
    PROVE  /\ Once(Tail(q), e)
           /\ Head(q) = e => e \notin Range(Tail(q))
  <1> DEFINE t == Tail(q)
  <1>1. /\ Head(q) = q[1] /\ 1 \in DOMAIN q /\ DOMAIN t = 1 .. Len(q) - 1 /\ Len(q) \in Nat
        /\ \A i \in DOMAIN t : i + 1 \in DOMAIN q /\ t[i] = q[i + 1]
    BY TailIndices
  <1> HIDE DEF t
  <1>2. Once(t, e)
    <2> SUFFICES ASSUME NEW i \in DOMAIN t, NEW j \in DOMAIN t, t[i] = e, t[j] = e
                 PROVE  i = j
      BY DEF Once
    <2>1. i + 1 = j + 1
      BY <1>1 DEF Once
    <2> QED BY <1>1, <2>1
  <1>3. Head(q) = e => e \notin Range(t)
    <2> SUFFICES ASSUME Head(q) = e, NEW i \in DOMAIN t, t[i] = e PROVE FALSE
      BY DEF Range
    <2>1. 1 = i + 1
      BY <1>1 DEF Once
    <2> QED BY <1>1, <2>1
  <1> QED BY <1>2, <1>3 DEF t

(* What is cut out of a sequence is gone, and nothing came in.             *)
LEMMA CutOut ==
    ASSUME NEW S, NEW q \in Seq(S), NEW i \in DOMAIN q, Once(q, q[i])
    PROVE  LET r == SubSeq(q, 1, i - 1) \o SubSeq(q, i + 1, Len(q))
           IN  r \in Seq(S) /\ q[i] \notin Range(r) /\ Range(r) \subseteq Range(q)
  <1> DEFINE a == SubSeq(q, 1, i - 1)
             b == SubSeq(q, i + 1, Len(q))
  <1>1. /\ a \in Seq(S) /\ b \in Seq(S)
        /\ \A j \in DOMAIN a : j \in DOMAIN q /\ j # i /\ a[j] = q[j]
        /\ \A j \in DOMAIN b : j + i \in DOMAIN q /\ j + i # i /\ b[j] = q[j + i]
    OBVIOUS
  <1> HIDE DEF a, b
  <1>2. Range(a \o b) = Range(a) \union Range(b) /\ a \o b \in Seq(S)
    BY <1>1, RangeConcatenation
  <1>3. \A e \in Range(a) \union Range(b) : e \in Range(q) /\ e # q[i]
    BY <1>1 DEF Range, Once
  <1> QED BY <1>2, <1>3 DEF a, b

LEMMA FirstFacts ==
    ASSUME NEW S, NEW q \in Seq(S), First(q)
    PROVE  /\ \A r \in Seq(S) : Probe \notin Range(r) => First(q \o r)
           /\ q # <<>> => First(Tail(q)) /\ Probe \notin Range(Tail(q))
  <1>1. ASSUME NEW r \in Seq(S), Probe \notin Range(r) PROVE First(q \o r)
    BY <1>1, JoinIndices DEF First, Range
  <1>2. ASSUME q # <<>> PROVE First(Tail(q)) /\ Probe \notin Range(Tail(q))
    <2>1. \A i \in DOMAIN Tail(q) : i + 1 \in DOMAIN q /\ Tail(q)[i] = q[i + 1] /\ i + 1 # 1
      BY <1>2, TailIndices
    <2> QED BY <2>1 DEF First, Range
  <1> QED BY <1>1, <1>2

LEMMA FirstAbsent == \A q : Probe \notin Range(q) => First(q)
  BY DEF First, Range

LEMMA ClearFacts ==
    ASSUME NEW S, NEW q \in Seq(S), Clear(q)
    PROVE  /\ \A r \in Seq(S) : InterruptCommand \notin Range(r) => Clear(q \o r)
           /\ NoPrompt(Range(q)) /\ InterruptCommand \notin Range(q) /\ InterruptCommand \in S
                 => Clear(q \o <<InterruptCommand>>)
           /\ q # <<>> => Clear(Tail(q))
           /\ q # <<>> /\ (Head(q).kind = "prompt" \/ Head(q) = InterruptCommand)
                 => InterruptCommand \notin Range(Tail(q))
  <1>1. ASSUME NEW r \in Seq(S), InterruptCommand \notin Range(r) PROVE Clear(q \o r)
    <2> DEFINE c == q \o r
    <2>1. /\ \A i \in DOMAIN q : c[i] = q[i]
          /\ \A i \in DOMAIN c : i \in DOMAIN q \/ c[i] \in Range(r)
          /\ DOMAIN q = 1 .. Len(q) /\ Len(q) \in Nat /\ DOMAIN c = 1 .. Len(q) + Len(r)
          /\ Len(r) \in Nat
      BY JoinIndices DEF Range
    <2>2. \A i, j \in DOMAIN c : i < j /\ j \in DOMAIN q => i \in DOMAIN q
      BY <2>1
    <2> HIDE DEF c
    <2>3. Clear(c)
      BY <1>1, <2>1, <2>2 DEF Clear
    <2> QED BY <2>3 DEF c
  <1>2. ASSUME NoPrompt(Range(q)), InterruptCommand \notin Range(q), InterruptCommand \in S
        PROVE  Clear(q \o <<InterruptCommand>>)
    <2> DEFINE r == <<InterruptCommand>>
               c == q \o r
    <2>1. r \in Seq(S) /\ DOMAIN r = {1} /\ Len(r) = 1
      BY <1>2
    <2> HIDE DEF r
    <2>2. /\ \A i \in DOMAIN q : c[i] = q[i]
          /\ DOMAIN q = 1 .. Len(q) /\ Len(q) \in Nat /\ DOMAIN c = 1 .. Len(q) + 1
      BY <2>1, JoinIndices
    <2>3. \A i, j \in DOMAIN c : i < j => i \in DOMAIN q /\ c[i] \in Range(q)
      BY <2>2 DEF Range
    <2> HIDE DEF c
    <2>4. Clear(c)
      BY <1>2, <2>3 DEF Clear, NoPrompt
    <2> QED BY <2>4 DEF c, r
  <1>3. ASSUME q # <<>> PROVE Clear(Tail(q))
    <2> DEFINE t == Tail(q)
    <2>1. /\ DOMAIN t \subseteq Int
          /\ \A i \in DOMAIN t : i + 1 \in DOMAIN q /\ t[i] = q[i + 1]
      BY <1>3, TailIndices
    <2>2. \A i, j \in DOMAIN t : i < j => i + 1 < j + 1
      BY <2>1
    <2> HIDE DEF t
    <2>3. Clear(t)
      BY <2>1, <2>2 DEF Clear
    <2> QED BY <2>3 DEF t
  <1>4. ASSUME q # <<>>, Head(q).kind = "prompt" \/ Head(q) = InterruptCommand,
               InterruptCommand \in Range(Tail(q))
        PROVE  FALSE
    <2>1. PICK i \in DOMAIN Tail(q) : Tail(q)[i] = InterruptCommand
      BY <1>4 DEF Range
    <2>2. 1 \in DOMAIN q /\ i + 1 \in DOMAIN q /\ 1 < i + 1 /\ q[i + 1] = InterruptCommand
          /\ Head(q) = q[1]
      BY <1>4, <2>1, TailIndices
    <2> QED BY <1>4, <2>2 DEF Clear
  <1> QED BY <1>1, <1>2, <1>3, <1>4

LEMMA ClearAbsent == \A q : InterruptCommand \notin Range(q) => Clear(q)
  BY DEF Clear, Range

LEMMA LeadsFacts ==
    ASSUME NEW S, NEW q \in Seq(S)
    PROVE  /\ Leads(q) => \A r \in Seq(S) : Leads(q \o r)
           /\ NoPrompt(Range(q)) /\ Probe \in S => Leads(q \o <<Probe>>)
           /\ Leads(q) => q # <<>> /\ Head(q).kind # "prompt" /\ Probe \in Range(q)
  <1>1. ASSUME Leads(q), NEW r \in Seq(S) PROVE Leads(q \o r)
    <2>1. PICK i \in DOMAIN q : q[i] = Probe /\ \A j \in 1 .. i : q[j].kind # "prompt"
      BY <1>1 DEF Leads
    <2>2. /\ i \in DOMAIN (q \o r) /\ (q \o r)[i] = q[i]
          /\ \A j \in 1 .. i : (q \o r)[j] = q[j]
      BY JoinIndices
    <2> QED BY <2>1, <2>2 DEF Leads
  <1>2. ASSUME NoPrompt(Range(q)), Probe \in S PROVE Leads(q \o <<Probe>>)
    <2> DEFINE c == q \o <<Probe>>
               n == Len(q) + 1
    <2>1. /\ n \in DOMAIN c /\ c[n] = Probe
          /\ \A j \in 1 .. n : j = n \/ c[j] \in Range(q)
      BY <1>2 DEF Range
    <2>2. Probe.kind # "prompt"
      BY DEF Probe, Plain
    <2> HIDE DEF c, n
    <2>3. Leads(c)
      BY <1>2, <2>1, <2>2 DEF Leads, NoPrompt
    <2> QED BY <2>3 DEF c
  <1>3. ASSUME Leads(q) PROVE q # <<>> /\ Head(q).kind # "prompt" /\ Probe \in Range(q)
    <2>1. PICK i \in DOMAIN q : q[i] = Probe /\ \A j \in 1 .. i : q[j].kind # "prompt"
      BY <1>3 DEF Leads
    <2>2. 1 \in 1 .. i /\ Head(q) = q[1] /\ q # <<>>
      OBVIOUS
    <2> QED BY <2>1, <2>2 DEF Range
  <1> QED BY <1>1, <1>2, <1>3

LEMMA AnnouncedFacts ==
    ASSUME NEW S, NEW q \in Seq(S), Announced(q)
    PROVE  /\ \A r \in Seq(S) :
                 \/ \E f \in Range(q) : f.state # "init"
                 \/ \A f \in Range(r) : f.state # "init"
                 => Announced(q \o r)
           /\ q # <<>> => Head(q).state # "init"
  <1>1. ASSUME NEW r \in Seq(S),
               \/ \E f \in Range(q) : f.state # "init"
               \/ \A f \in Range(r) : f.state # "init"
        PROVE  Announced(q \o r)
    <2> DEFINE c == q \o r
    <2>1. /\ \A i \in DOMAIN q : c[i] = q[i] /\ 1 .. i \subseteq DOMAIN q
          /\ \A i \in DOMAIN c : i \in DOMAIN q \/ c[i] \in Range(r)
          /\ \A i \in DOMAIN c : i \in DOMAIN q \/ DOMAIN q \subseteq 1 .. i
      BY JoinIndices DEF Range
    <2> HIDE DEF c
    <2>2. ASSUME NEW i \in DOMAIN c, c[i].state = "init"
          PROVE  \E j \in 1 .. i : c[j].state # "init"
      <3>1. CASE i \in DOMAIN q
        BY <2>1, <2>2, <3>1 DEF Announced
      <3>2. CASE i \notin DOMAIN q
        <4>1. PICK j \in DOMAIN q : q[j].state # "init"
          BY <1>1, <2>1, <2>2, <3>2 DEF Range
        <4> QED BY <2>1, <3>2, <4>1
      <3> QED BY <3>1, <3>2
    <2>3. Announced(c)
      BY <2>2 DEF Announced
    <2> QED BY <2>3 DEF c
  <1>2. ASSUME q # <<>> PROVE Head(q).state # "init"
    BY <1>2 DEF Announced
  <1> QED BY <1>1, <1>2

LEMMA AnnouncedSmall == Announced(<<>>)
  BY DEF Announced

-----------------------------------------------------------------------------
(***************************************************************************)
(* The inductive invariant: where the probe, its interrupt and the reports *)
(* about it can be at the same time.                                       *)
(***************************************************************************)

Waiting == Range(stdin) \union Range(inbox)
Interrupting == InterruptCommand \in Range(stdin)
Alone == probe.live /\ ~probe.foreign

(* The pipes and the turn belong to a running process, and an exit that is *)
(* not noticed yet leaves the adapter linked.                              *)
ProcessInv ==
    /\ proc # "running" => stdin = <<>> /\ inbox = <<>> /\ stdout = <<>> /\ turn = {}
    /\ linked => proc # "none"
    /\ proc = "ended" => linked
    /\ ~probe.live => probe = NoProbe

(* A probe that has not noted a prompt shares the process with none, and   *)
(* an interrupt on its way finds the probe's turn with no prompt ahead.    *)
AloneInv ==
    /\ Alone => NoPrompt(Waiting \union turn)
    /\ Probe \in turn => \A c \in turn : c = Probe \/ c.kind = "prompt"
    /\ Clear(stdin)
    /\ Interrupting => turn = {Probe} /\ NoPrompt(Range(inbox)) /\ ~probe.live

(* The probe is in one place, and a report about it is not out of date.    *)
OnceInv ==
    /\ First(stdin) /\ Once(inbox, Probe) /\ Once(stdout, Started)
    /\ Probe \in Range(stdin) => Probe \notin Range(inbox) /\ NoPrompt(Range(inbox) \union turn)
    /\ Probe \in Waiting => Probe \notin turn /\ Ended \notin Range(stdout)
    /\ Started \in Range(stdout) => Probe \in turn /\ ~Interrupting
    /\ Ended \in Range(stdout) => Probe \notin turn

(* What an adapter can conclude from the kind of CLI: the init frame of a  *)
(* legacy CLI with a lone probe belongs to the probe's turn, and any other *)
(* CLI has reported something before its init frame.                       *)
LegacyInv ==
    cli = "legacy" =>
        /\ ~lifecycle
        /\ \A f \in Range(stdout) : f.state = "init"
        /\ NoCron(Range(inbox) \union turn)
        /\ proc = "running" /\ Alone /\ (InitFrame \in Range(stdout) \/ probe.timer)
              => Probe \in turn

ReportInv ==
    cli # "legacy" =>
        /\ ~probe.timer
        /\ proc = "running" /\ probe.live /\ ~lifecycle =>
              /\ Announced(stdout)
              /\ \/ \E f \in Range(stdout) : f.state # "init"
                 \/ Probe \in Range(stdin) \/ Leads(inbox)

(* A process that owes its answer to the probe has been given nothing else *)
(* to do, and whoever must interrupt the probe's turn is going to.         *)
ExcuseInv ==
    ~excused =>
        /\ \A f \in Range(stdout) : f.of = Probe
        /\ NoCron(Range(inbox) \union turn)
        /\ Probe \in Waiting => Alone /\ (cli = "legacy" => ~inited)
        /\ Probe \in turn =>
              \/ Interrupting
              \/ /\ Alone
                 /\ IF cli = "legacy" THEN InitFrame \in Range(stdout) \/ probe.timer
                    ELSE Started \in Range(stdout)

ProbeInv == ProcessInv /\ AloneInv /\ OnceInv /\ LegacyInv /\ ReportInv /\ ExcuseInv

(* The commands and the frames are what their kinds and states say.        *)
LEMMA Kinds ==
    /\ Probe.kind = "probe" /\ InterruptCommand.kind = "interrupt"
    /\ \A m \in Wire : m.kind = "interrupt" => m = InterruptCommand
    /\ \A m \in Wire \union Commands : m.kind = "probe" => m = Probe
    /\ \A m \in Commands : m = Probe \/ m.kind = "prompt" \/ m.kind = "cron"
    /\ \A m \in Messages : m.kind \in {"prompt", "poll"}
    /\ Plain("cancel").kind = "cancel" /\ Plain("poll").kind = "poll"
    /\ \A n : Prompt(n).kind = "prompt" /\ Cron(n).kind = "cron"
  BY DEF Probe, InterruptCommand, Plain, Prompt, Cron, Wire, Messages, Commands

LEMMA Frames ==
    /\ \A s, c : Frame(s, c).state = s /\ Frame(s, c).of = c
    /\ \A f \in Reports : f.state = "init" <=> f = InitFrame
    /\ \A f \in Reports : f.state = "started" /\ f.of = Probe <=> f = Started
    /\ \A f \in Reports : f.state = "ended" /\ f.of = Probe <=> f = Ended
    /\ \A f \in Reports : f.of \in Commands /\ f.state \in {"init", "queued", "started", "ended"}
  BY MessageKinds DEF Reports, Frame, Started, Ended, InitFrame

LEMMA Types ==
    ASSUME TypeOK
    PROVE  /\ stdin \in Seq(Wire) /\ inbox \in Seq(Commands) /\ stdout \in Seq(Reports)
           /\ Range(stdin) \subseteq Wire /\ Range(inbox) \subseteq Commands
           /\ Range(stdout) \subseteq Reports
           /\ turn \subseteq Commands /\ pending \in Seq(Messages)
           /\ probe \in ProbeStates
  BY RangeOfSeq DEF TypeOK

(* The number of prompts in a sequence and the absence of any agree.       *)
LEMMA NoPrompts == \A q : Prompts(q) = {} <=> NoPrompt(Range(q))
  BY DEF Prompts, NoPrompt, Range

-----------------------------------------------------------------------------
(***************************************************************************)
(* The steps.                                                              *)
(***************************************************************************)

LEMMA InitProbe == Init => ProbeInv
  <1> SUFFICES ASSUME Init PROVE ProbeInv
    OBVIOUS
  <1>1. Range(stdin) = {} /\ Range(inbox) = {} /\ Range(stdout) = {} /\ turn = {}
        /\ stdout = <<>>
    BY RangeSmall DEF Init
  <1>2. ~probe.live /\ ~probe.timer /\ probe = NoProbe
    BY DEF Init, NoProbe
  <1>3. Announced(stdout) /\ Clear(stdin) /\ First(stdin) /\ Once(inbox, Probe)
        /\ Once(stdout, Started)
    BY <1>1, AnnouncedSmall, ClearAbsent, FirstAbsent, OnceSmall
  <1>4. ProcessInv /\ AloneInv
    BY <1>1, <1>2, <1>3
       DEF Init, ProcessInv, AloneInv, Alone, Interrupting, Waiting, NoPrompt
  <1>5. OnceInv
    BY <1>1, <1>3 DEF OnceInv, Waiting, NoPrompt
  <1>6. LegacyInv /\ ReportInv /\ ExcuseInv
    BY <1>1, <1>2
       DEF Init, LegacyInv, ReportInv, ExcuseInv, Alone, Waiting, NoCron
  <1> QED BY <1>4, <1>5, <1>6 DEF ProbeInv

(* A new process starts with the probe or with what waited, never both.    *)
LEMMA ProbeAttach ==
    ASSUME TypeOK, Attach
    PROVE  ProbeInv'
  <1>1. /\ proc' = "running" /\ linked' /\ ~lifecycle' /\ ~excused' /\ ~inited'
        /\ inbox' = <<>> /\ turn' = {} /\ stdout' = <<>>
        /\ \/ probe' = FreshProbe /\ stdin' = <<Probe>>
           \/ probe' = NoProbe /\ stdin' = pending
    BY DEF Attach, Flushed
  <1>2. /\ Range(pending) \subseteq Messages
        /\ Probe \notin Range(pending) /\ InterruptCommand \notin Range(pending)
    BY Types, RangeOfSeq, Kinds
  <1>3. /\ Range(inbox') = {} /\ Range(stdout') = {} /\ Announced(stdout')
        /\ Once(inbox', Probe) /\ Once(stdout', Started)
        /\ InterruptCommand \notin Range(stdin')
        /\ \/ probe' = FreshProbe /\ Range(stdin') = {Probe}
           \/ probe' = NoProbe /\ Probe \notin Range(stdin')
    BY <1>1, <1>2, RangeSmall, AnnouncedSmall, OnceSmall, Kinds
  <1>4. Clear(stdin') /\ First(stdin')
    <2>1. First(<<Probe>>)
      BY DEF First
    <2> QED BY <1>1, <1>2, <1>3, <2>1, ClearAbsent, FirstAbsent
  <1>5. /\ FreshProbe.live /\ ~FreshProbe.foreign /\ ~FreshProbe.timer
        /\ ~NoProbe.live /\ ~NoProbe.timer
    BY DEF FreshProbe, NoProbe
  <1>6. ProcessInv'
    BY <1>1, <1>5 DEF ProcessInv
  <1>7. AloneInv'
    BY <1>1, <1>3, <1>4, <1>5, Kinds DEF AloneInv, Alone, Waiting, Interrupting, NoPrompt
  <1>8. OnceInv'
    BY <1>1, <1>3, <1>4, <1>5, Kinds DEF OnceInv, Waiting, Interrupting, NoPrompt
  <1>9. LegacyInv'
    BY <1>1, <1>3, <1>5 DEF LegacyInv, NoCron
  <1>10. ReportInv'
    BY <1>1, <1>3, <1>5 DEF ReportInv
  <1>11. ExcuseInv'
    BY <1>1, <1>3, <1>5 DEF ExcuseInv, Alone, Waiting, NoCron
  <1> QED BY <1>6, <1>7, <1>8, <1>9, <1>10, <1>11 DEF ProbeInv

(* A message of a browser: a prompt that reaches the process is noted, and *)
(* a poll disturbs nothing.                                                *)
LEMMA ProbeRoute ==
    ASSUME TypeOK, ProbeInv, NEW m \in Messages, Route(m), RouteUnchanged
    PROVE  ProbeInv'
  <1>1. /\ UNCHANGED <<linked, lifecycle, proc, cli, inbox, turn, inited, stdout>>
    BY DEF RouteUnchanged, procVars
  <1>2. CASE UNCHANGED <<stdin, probe, excused>>
    BY <1>1, <1>2
       DEF ProbeInv, ProcessInv, AloneInv, OnceInv, LegacyInv, ReportInv, ExcuseInv,
           Alone, Waiting, Interrupting
  <1>3. CASE linked /\ proc # "running"
    <2>1. stdin' = stdin /\ probe' \in {probe, Noted(probe)} /\ (excused => excused')
      BY <1>3 DEF Route, Write
    <2>2. /\ stdin = <<>> /\ inbox = <<>> /\ stdout = <<>> /\ turn = {}
          /\ Range(stdin) = {} /\ Range(inbox) = {} /\ Range(stdout) = {}
      BY <1>3, RangeSmall DEF ProbeInv, ProcessInv
    <2>3. /\ ~probe.live => probe' = probe
          /\ probe.live => probe'.live /\ probe'.timer = probe.timer
      BY <2>1, Types DEF Noted, ProbeStates
    <2>4. ProcessInv' /\ AloneInv' /\ OnceInv'
      BY <1>1, <1>3, <2>1, <2>2, <2>3
         DEF ProbeInv, ProcessInv, AloneInv, OnceInv, Alone, Waiting, Interrupting, NoPrompt
    <2>5. LegacyInv' /\ ReportInv' /\ ExcuseInv'
      <3>1. probe'.timer = probe.timer
        BY <2>3
      <3> QED BY <1>1, <1>3, <2>1, <2>2, <3>1
             DEF ProbeInv, LegacyInv, ReportInv, ExcuseInv, Alone, Waiting, NoCron
    <2> QED BY <2>4, <2>5 DEF ProbeInv
  <1>4. CASE linked /\ proc = "running"
    <2> DEFINE q == Append(pending, m)
               first == Prompts(q) # {} /\ ~probe.foreign
               cancel == IF first THEN CancelFrame(probe) ELSE <<>>
               new == cancel \o q
    <2>1. /\ q \in Seq(Messages) /\ q \in Seq(Wire) /\ cancel \in Seq(Wire)
      <3>1. q \in Seq(Messages)
        BY Types
      <3> QED BY <3>1, FrameTypes, QueueOnWire
    <2>2. /\ new \in Seq(Wire) /\ stdin' = stdin \o new
          /\ probe' = IF first THEN Noted(probe) ELSE probe
          /\ excused' = (excused \/ Prompts(q) # {})
      <3>1. /\ stdin' = stdin \o cancel \o q
            /\ probe' = IF first THEN Noted(probe) ELSE probe
            /\ excused' = (excused \/ Prompts(q) # {})
        BY <1>4 DEF Route, Write
      <3>2. stdin \in Seq(Wire)
        BY Types
      <3> HIDE DEF q, cancel, first
      <3>3. stdin \o cancel \o q = stdin \o (cancel \o q) /\ cancel \o q \in Seq(Wire)
        BY <2>1, <3>2
      <3> QED BY <3>1, <3>3
    <2>3. Probe \notin Range(new) /\ InterruptCommand \notin Range(new)
      <3>1. Range(q) \subseteq Messages
        BY <2>1, RangeOfSeq
      <3>2. Range(cancel) \subseteq {Plain("cancel")}
        BY RangeSmall DEF CancelFrame
      <3> HIDE DEF q, cancel
      <3>3. Range(new) = Range(cancel) \union Range(q)
        BY <2>1, RangeConcatenation
      <3> QED BY <3>1, <3>2, <3>3, Kinds
    <2>4. Prompts(q) = {} => NoPrompt(Range(new))
      <3>1. Range(cancel) \subseteq {Plain("cancel")}
        BY RangeSmall DEF CancelFrame
      <3> HIDE DEF q, cancel
      <3>2. Range(new) = Range(cancel) \union Range(q)
        BY <2>1, RangeConcatenation
      <3> QED BY <3>1, <3>2, NoPrompts, Kinds DEF NoPrompt
    <2>5. /\ ~probe.live => probe' = probe
          /\ probe.live => probe'.live /\ probe'.timer = probe.timer
          /\ Prompts(q) # {} /\ probe.live => probe'.foreign
          /\ Prompts(q) = {} => probe' = probe
      <3> HIDE DEF q
      <3> QED BY <2>2, Types DEF Noted, ProbeStates
    <2> HIDE DEF new, q
    <2>6. Range(stdin') = Range(stdin) \union Range(new)
      BY <2>2, Types, RangeConcatenation
    <2>7. Clear(stdin') /\ First(stdin')
      BY <2>2, <2>3, Types, ClearFacts, FirstFacts DEF ProbeInv, AloneInv, OnceInv
    <2>8. /\ Interrupting' = Interrupting
          /\ Probe \in Range(stdin') <=> Probe \in Range(stdin)
          /\ Alone' => Alone /\ NoPrompt(Range(new))
      BY <2>3, <2>4, <2>5, <2>6 DEF Interrupting, Alone
    <2>9. ProcessInv'
      BY <1>1, <1>4, <2>5 DEF ProbeInv, ProcessInv
    <2>10. AloneInv'
      BY <1>1, <2>5, <2>6, <2>7, <2>8 DEF ProbeInv, AloneInv, Waiting, NoPrompt
    <2>11. OnceInv'
      BY <1>1, <2>7, <2>8 DEF ProbeInv, OnceInv, Waiting
    <2>12. LegacyInv' /\ ReportInv'
      BY <1>1, <2>5, <2>8 DEF ProbeInv, LegacyInv, ReportInv, Alone
    <2>13. ExcuseInv'
      <3>1. ~excused' => ~excused /\ probe' = probe
        BY <2>2, <2>5
      <3> QED BY <1>1, <2>8, <3>1 DEF ProbeInv, ExcuseInv, Waiting, Alone
    <2> QED BY <2>9, <2>10, <2>11, <2>12, <2>13 DEF ProbeInv
  <1>5. CASE ~linked
    BY <1>2, <1>5 DEF Route
  <1> QED BY <1>3, <1>4, <1>5

(* A process ends, or a transport closes.                                  *)
LEMMA ProbeExit ==
    ASSUME TypeOK, ProbeInv, Exit \/ ExitNoticed \/ LateExit
    PROVE  ProbeInv'
  <1> USE DEF bridgeVars, tabVars, procVars, cliVars, askedVars, history
  <1>1. ~NoProbe.live /\ ~NoProbe.timer
    BY DEF NoProbe
  <1>2. ASSUME stdin' = <<>>, inbox' = <<>>, stdout' = <<>>, turn' = {}
        PROVE  /\ Range(stdin') = {} /\ Range(inbox') = {} /\ Range(stdout') = {}
               /\ Clear(stdin') /\ First(stdin') /\ Once(inbox', Probe) /\ Once(stdout', Started)
               /\ OnceInv' /\ AloneInv'
    BY <1>2, RangeSmall, ClearAbsent, FirstAbsent, OnceSmall
       DEF OnceInv, AloneInv, Waiting, Interrupting, NoPrompt
  <1>3. CASE Exit
    <2>1. /\ stdin' = <<>> /\ inbox' = <<>> /\ stdout' = <<>> /\ turn' = {}
          /\ proc' = IF linked THEN "ended" ELSE "none"
          /\ UNCHANGED <<linked, probe, lifecycle, cli, excused>>
      BY <1>3 DEF Exit
    <2>2. ProcessInv'
      BY <2>1 DEF ProbeInv, ProcessInv
    <2>3. LegacyInv' /\ ReportInv' /\ ExcuseInv'
      BY <1>2, <2>1
         DEF ProbeInv, LegacyInv, ReportInv, ExcuseInv, Waiting, NoCron
    <2> QED BY <1>2, <2>1, <2>2, <2>3 DEF ProbeInv
  <1>4. CASE ExitNoticed
    <2>1. /\ stdin = <<>> /\ inbox = <<>> /\ stdout = <<>> /\ turn = {}
          /\ UNCHANGED <<stdin, inbox, stdout, turn, lifecycle, cli, excused>>
          /\ proc' = "none" /\ ~linked' /\ probe' = NoProbe
      BY <1>4 DEF ExitNoticed, ProbeInv, ProcessInv
    <2>2. ProcessInv'
      BY <2>1 DEF ProcessInv
    <2>3. LegacyInv' /\ ReportInv' /\ ExcuseInv'
      BY <1>1, <1>2, <2>1
         DEF ProbeInv, LegacyInv, ReportInv, ExcuseInv, Waiting, NoCron
    <2> QED BY <1>2, <2>1, <2>2, <2>3 DEF ProbeInv
  <1>5. CASE LateExit
    <2>1. /\ UNCHANGED <<stdin, inbox, stdout, turn, lifecycle, cli>>
          /\ proc' = (IF proc = "ended" THEN "none" ELSE proc) /\ ~linked' /\ probe' = NoProbe
          /\ excused'
      BY <1>5 DEF LateExit
    <2>2. ProcessInv'
      BY <2>1 DEF ProbeInv, ProcessInv
    <2>3. AloneInv' /\ OnceInv'
      BY <1>1, <2>1
         DEF ProbeInv, AloneInv, OnceInv, Alone, Waiting, Interrupting
    <2>4. LegacyInv' /\ ReportInv' /\ ExcuseInv'
      BY <1>1, <2>1 DEF ProbeInv, LegacyInv, ReportInv, ExcuseInv, Alone
    <2> QED BY <2>2, <2>3, <2>4 DEF ProbeInv
  <1> QED BY <1>3, <1>4, <1>5

(* What a report adds to stdout.                                           *)
LEMMA ReportAdds ==
    ASSUME NEW s \in Seq(Reports), NEW c \in Commands,
           NEW state \in {"queued", "started", "ended"}
    PROVE  LET t == s \o Report(state, c)
           IN  /\ t \in Seq(Reports) /\ Range(s) \subseteq Range(t)
               /\ Range(t) \subseteq Range(s) \union {Frame(state, c)}
               /\ cli = "legacy" \/ c.kind = "prompt" => t = s
               /\ cli # "legacy" /\ c.kind # "prompt" => Frame(state, c) \in Range(t)
               /\ Announced(s) => Announced(t)
               /\ Once(s, Started) /\ (Frame(state, c) # Started \/ Started \notin Range(s))
                     => Once(t, Started)
  <1> DEFINE r == Report(state, c)
  <1>1. r \in Seq(Reports)
    BY FrameTypes
  <1>2. /\ Range(r) \subseteq {Frame(state, c)}
        /\ cli = "legacy" \/ c.kind = "prompt" => r = <<>>
        /\ cli # "legacy" /\ c.kind # "prompt" => r = <<Frame(state, c)>> /\ Range(r) = {Frame(state, c)}
        /\ Once(r, Started)
    BY RangeSmall, OnceSmall DEF Report
  <1>3. Range(s \o r) = Range(s) \union Range(r) /\ s \o r \in Seq(Reports)
    BY <1>1, RangeConcatenation
  <1>4. r = <<>> => s \o r = s
    OBVIOUS
  <1>5. \A f \in Range(r) : f.state # "init"
    BY <1>2, Frames
  <1>6. Announced(s) => Announced(s \o r)
    BY <1>1, <1>5, AnnouncedFacts
  <1>7. Once(s, Started) /\ (Frame(state, c) # Started \/ Started \notin Range(s))
           => Once(s \o r, Started)
    BY <1>1, <1>2, OnceJoin
  <1> HIDE DEF r
  <1>8. /\ s \o r \in Seq(Reports) /\ Range(s) \subseteq Range(s \o r)
        /\ Range(s \o r) \subseteq Range(s) \union {Frame(state, c)}
        /\ cli = "legacy" \/ c.kind = "prompt" => s \o r = s
        /\ cli # "legacy" /\ c.kind # "prompt" => Frame(state, c) \in Range(s \o r)
    BY <1>2, <1>3, <1>4
  <1> QED BY <1>6, <1>7, <1>8 DEF r

(* The CLI reads the probe, a prompt, the interrupt, the cancel or a poll. *)
LEMMA ProbeRead ==
    ASSUME TypeOK, ProbeInv, ReadStdin
    PROVE  ProbeInv'
  <1> USE DEF bridgeVars, tabVars, procVars, askedVars
  <1> DEFINE m == Head(stdin)
  <1>1. /\ proc = "running" /\ stdin # <<>> /\ stdin' = Tail(stdin)
        /\ UNCHANGED <<linked, probe, lifecycle, proc, cli, inited, excused>>
    BY DEF ReadStdin
  <1>2. /\ m \in Wire /\ Range(stdin) = {m} \union Range(stdin')
        /\ Clear(stdin') /\ First(stdin') /\ Probe \notin Range(stdin')
        /\ m.kind = "prompt" \/ m = InterruptCommand => ~Interrupting'
    <2>1. Clear(stdin) /\ First(stdin)
      BY DEF ProbeInv, AloneInv, OnceInv
    <2> QED BY <1>1, <2>1, Types, TailIndices, RangeTail, ClearFacts, FirstFacts DEF Interrupting
  <1>3. ProcessInv'
    BY <1>1 DEF ProbeInv, ProcessInv
  <1>4. Alone' = Alone /\ (Interrupting' => Interrupting)
    BY <1>1, <1>2 DEF Alone, Interrupting
  <1>5. CASE /\ m.kind = "probe" /\ inbox' = Append(inbox, m)
             /\ stdout' = stdout \/ stdout' = stdout \o Report("queued", m)
             /\ UNCHANGED <<turn, hurt>>
    <2> DEFINE queued == Frame("queued", Probe)
    <2>1. m = Probe
      BY <1>2, <1>5, Kinds
    <2>2. inbox' = inbox \o <<Probe>> /\ <<Probe>> \in Seq(Commands) /\ inbox \in Seq(Commands)
      BY <1>5, <2>1, Types, MessageKinds, AppendIsConcat
    <2>3. /\ Probe \notin Range(inbox) /\ NoPrompt(Range(inbox) \union turn) /\ Probe \notin turn
          /\ Started \notin Range(stdout) /\ Ended \notin Range(stdout)
      BY <1>2, <2>1 DEF ProbeInv, OnceInv, Waiting
    <2>4. /\ Range(inbox') = Range(inbox) \union {Probe}
          /\ Once(inbox', Probe) /\ Leads(inbox')
      <3>1. Range(inbox') = Range(inbox) \union {Probe}
        <4>1. Range(inbox \o <<Probe>>) = Range(inbox) \union Range(<<Probe>>)
          BY <2>2, RangeConcatenation
        <4> QED BY <2>2, <4>1, RangeSmall
      <3>2. Once(inbox', Probe)
        BY <2>2, <2>3, OnceJoin, OnceSmall
      <3>3. Leads(inbox')
        BY <2>2, <2>3, LeadsFacts, MessageKinds DEF NoPrompt
      <3> QED BY <3>1, <3>2, <3>3
    <2>5. /\ Range(stdout) \subseteq Range(stdout')
          /\ Range(stdout') \subseteq Range(stdout) \union {queued}
          /\ cli = "legacy" => stdout' = stdout
          /\ Announced(stdout) => Announced(stdout')
          /\ Once(stdout', Started)
          /\ queued # Started /\ queued # Ended /\ queued.of = Probe
      <3>1. Once(stdout, Started) /\ stdout \in Seq(Reports)
        BY Types DEF ProbeInv, OnceInv
      <3>2. queued # Started /\ queued # Ended /\ queued.of = Probe
        BY DEF Started, Ended, Frame
      <3> QED BY <1>5, <2>1, <3>1, <3>2, ReportAdds, MessageKinds
    <2> HIDE DEF m, queued
    <2>6. Waiting' = Waiting
      BY <1>2, <2>1, <2>4 DEF Waiting
    <2>7. AloneInv'
      <3>1. ~Interrupting'
        BY <1>4, <2>3 DEF ProbeInv, AloneInv
      <3> QED BY <1>1, <1>2, <1>4, <1>5, <2>6, <3>1 DEF ProbeInv, AloneInv
    <2>8. OnceInv'
      BY <1>1, <1>2, <1>5, <2>3, <2>4, <2>5, <2>6 DEF OnceInv
    <2>9. LegacyInv'
      BY <1>1, <1>4, <1>5, <2>4, <2>5, Kinds DEF ProbeInv, LegacyInv, NoCron
    <2>10. ReportInv'
      BY <1>1, <2>4, <2>5 DEF ProbeInv, ReportInv
    <2>11. ExcuseInv'
      BY <1>1, <1>4, <1>5, <2>3, <2>4, <2>5, <2>6, Kinds DEF ProbeInv, ExcuseInv, NoCron
    <2> QED BY <1>3, <2>7, <2>8, <2>9, <2>10, <2>11 DEF ProbeInv
  <1>6. CASE /\ m.kind = "prompt" /\ inbox' = Append(inbox, m)
             /\ stdout' = stdout \/ stdout' = stdout \o Report("queued", m)
             /\ UNCHANGED <<turn, hurt>>
    <2>1. m \in Commands /\ m # Probe
      BY <1>2, <1>6, WireKinds, Kinds
    <2>2. inbox' = inbox \o <<m>> /\ <<m>> \in Seq(Commands) /\ inbox \in Seq(Commands)
      BY <1>6, <2>1, Types, AppendIsConcat
    <2>3. stdout' = stdout
      BY <1>6, <2>1, Types, ReportAdds
    <2>4. /\ Range(inbox') = Range(inbox) \union {m}
          /\ Once(inbox', Probe)
          /\ Leads(inbox) => Leads(inbox')
      <3>1. Range(inbox') = Range(inbox) \union {m}
        <4>1. Range(inbox \o <<m>>) = Range(inbox) \union Range(<<m>>)
          BY <2>2, RangeConcatenation
        <4> QED BY <2>2, <4>1, RangeSmall
      <3>2. Once(inbox', Probe)
        <4>1. Once(inbox, Probe) /\ Probe \notin Range(<<m>>)
          BY <2>1, RangeSmall DEF ProbeInv, OnceInv
        <4> QED BY <2>2, <4>1, OnceJoin, OnceSmall
      <3>3. Leads(inbox) => Leads(inbox')
        BY <2>2, LeadsFacts
      <3> QED BY <3>1, <3>2, <3>3
    <2>5. ~Interrupting' /\ Waiting' = Waiting /\ Probe \notin Range(stdin)
      <3>1. Probe \notin Range(stdin)
        BY <1>2, <2>1
      <3> QED BY <1>2, <1>6, <2>4, <3>1 DEF Waiting
    <2> HIDE DEF m
    <2>6. AloneInv'
      BY <1>1, <1>2, <1>4, <1>6, <2>5 DEF ProbeInv, AloneInv
    <2>7. OnceInv'
      BY <1>1, <1>2, <1>6, <2>3, <2>4, <2>5 DEF ProbeInv, OnceInv
    <2>8. LegacyInv'
      BY <1>1, <1>4, <1>6, <2>3, <2>4 DEF ProbeInv, LegacyInv, NoCron
    <2>9. ReportInv'
      BY <1>1, <2>3, <2>4, <2>5 DEF ProbeInv, ReportInv
    <2>10. ExcuseInv'
      <3>1. Probe \in turn => ~Interrupting \/ ~Alone
        BY DEF ProbeInv, AloneInv, Alone
      <3>2. m \in Waiting
        BY <1>2 DEF Waiting
      <3>3. Alone => FALSE
        BY <1>6, <3>2 DEF ProbeInv, AloneInv, NoPrompt
      <3>4. Interrupting => FALSE
        BY <1>2, <1>6, <2>5, Kinds DEF Interrupting
      <3> QED BY <1>1, <1>4, <1>6, <2>3, <2>4, <2>5, <3>3, <3>4
             DEF ProbeInv, ExcuseInv, NoCron
    <2> QED BY <1>3, <2>6, <2>7, <2>8, <2>9, <2>10 DEF ProbeInv
  <1>7. CASE /\ m.kind = "interrupt" /\ turn' = {} /\ UNCHANGED inbox
             /\ stdout' = IF Probe \in turn THEN stdout \o Report("ended", Probe) ELSE stdout
    <2>1. m = InterruptCommand /\ Interrupting /\ ~Interrupting'
      BY <1>2, <1>7, Kinds DEF Interrupting
    <2>2. turn = {Probe} /\ NoPrompt(Range(inbox)) /\ ~probe.live /\ ~Alone
          /\ Probe \notin Waiting /\ Started \notin Range(stdout)
      BY <2>1 DEF ProbeInv, AloneInv, OnceInv, Alone
    <2>3. /\ Range(stdout') \subseteq Range(stdout) \union {Ended}
          /\ cli = "legacy" => stdout' = stdout
          /\ Once(stdout', Started) /\ Ended # Started /\ Ended.of = Probe
      <3>1. Once(stdout, Started) /\ stdout \in Seq(Reports)
        BY Types DEF ProbeInv, OnceInv
      <3>2. Ended # Started /\ Ended.of = Probe
        BY DEF Started, Ended, Frame
      <3> QED BY <1>7, <2>2, <3>1, <3>2, ReportAdds, MessageKinds DEF Ended
    <2> HIDE DEF m
    <2>4. Waiting' \subseteq Waiting
      BY <1>2, <1>7 DEF Waiting
    <2>5. AloneInv'
      BY <1>2, <1>4, <1>7, <2>1, <2>2 DEF AloneInv
    <2>6. OnceInv'
      BY <1>2, <1>7, <2>1, <2>2, <2>3, <2>4 DEF ProbeInv, OnceInv
    <2>7. LegacyInv'
      BY <1>1, <1>4, <1>7, <2>2, <2>3 DEF ProbeInv, LegacyInv, NoCron
    <2>8. ReportInv'
      BY <1>1, <2>2 DEF ProbeInv, ReportInv
    <2>9. ExcuseInv'
      BY <1>1, <1>7, <2>2, <2>3, <2>4 DEF ProbeInv, ExcuseInv, NoCron
    <2> QED BY <1>3, <2>5, <2>6, <2>7, <2>8, <2>9 DEF ProbeInv
  <1>8. CASE /\ m.kind \in {"cancel", "poll"} /\ UNCHANGED <<inbox, stdout, turn>>
    <2>1. m # Probe /\ m # InterruptCommand /\ m.kind # "prompt"
      BY <1>8, Kinds
    <2>2. Interrupting' = Interrupting /\ Probe \notin Range(stdin) /\ Waiting' \subseteq Waiting
      BY <1>2, <1>8, <2>1 DEF Interrupting, Waiting
    <2>3. Waiting = Waiting' \union {m}
      BY <1>2, <1>8 DEF Waiting
    <2> HIDE DEF m
    <2>4. AloneInv'
      BY <1>1, <1>2, <1>4, <1>8, <2>2 DEF ProbeInv, AloneInv, NoPrompt
    <2>5. OnceInv'
      BY <1>2, <1>8, <2>2 DEF ProbeInv, OnceInv
    <2>6. LegacyInv' /\ ReportInv'
      BY <1>1, <1>4, <1>8, <2>2 DEF ProbeInv, LegacyInv, ReportInv
    <2>7. ExcuseInv'
      BY <1>1, <1>4, <1>8, <2>2 DEF ProbeInv, ExcuseInv
    <2> QED BY <1>3, <2>4, <2>5, <2>6, <2>7 DEF ProbeInv
  <1>9. ASSUME m.kind = "cancel", NEW i \in DOMAIN inbox, inbox[i] = Probe,
               inbox' = SubSeq(inbox, 1, i - 1) \o SubSeq(inbox, i + 1, Len(inbox)),
               stdout' = stdout \o Report("ended", Probe), UNCHANGED turn
        PROVE  ProbeInv'
    <2>1. m # Probe /\ m # InterruptCommand /\ m.kind # "prompt"
      BY <1>9, Kinds
    <2>2. Probe \in Range(inbox) /\ Probe \in Waiting /\ Once(inbox, Probe)
      BY <1>9 DEF Range, Waiting, ProbeInv, OnceInv
    <2>3. Probe \notin Range(inbox') /\ Range(inbox') \subseteq Range(inbox)
      BY <1>9, <2>2, CutOut, Types
    <2>4. Probe \notin turn /\ Started \notin Range(stdout) /\ ~Interrupting /\ ~Interrupting'
          /\ Probe \notin Range(stdin)
      BY <1>4, <2>2 DEF ProbeInv, AloneInv, OnceInv
    <2>5. Waiting' \subseteq Waiting /\ Probe \notin Waiting'
      BY <1>2, <2>3 DEF Waiting
    <2>6. /\ Range(stdout') \subseteq Range(stdout) \union {Ended}
          /\ cli = "legacy" => stdout' = stdout
          /\ cli # "legacy" => Ended \in Range(stdout')
          /\ Once(stdout', Started) /\ Ended # Started /\ Ended.of = Probe
          /\ Ended.state # "init"
          /\ Announced(stdout) => Announced(stdout')
      <3>1. Once(stdout, Started) /\ stdout \in Seq(Reports)
        BY Types DEF ProbeInv, OnceInv
      <3>2. Ended # Started /\ Ended.of = Probe /\ Ended.state # "init"
        BY DEF Started, Ended, Frame
      <3> QED BY <1>9, <2>4, <3>1, <3>2, ReportAdds, MessageKinds, Kinds DEF Ended
    <2>7. AloneInv'
      BY <1>2, <1>4, <1>9, <2>4, <2>5 DEF ProbeInv, AloneInv, NoPrompt
    <2>8. OnceInv'
      BY <1>2, <1>9, <2>3, <2>4, <2>5, <2>6, OnceSmall DEF ProbeInv, OnceInv
    <2>9. LegacyInv'
      BY <1>1, <1>4, <1>9, <2>3, <2>6 DEF ProbeInv, LegacyInv, NoCron
    <2>10. ReportInv'
      BY <1>1, <2>6 DEF ProbeInv, ReportInv
    <2>11. ExcuseInv'
      BY <1>1, <1>9, <2>3, <2>4, <2>5, <2>6 DEF ProbeInv, ExcuseInv, NoCron
    <2> QED BY <1>3, <2>7, <2>8, <2>9, <2>10, <2>11 DEF ProbeInv
  <1> HIDE DEF m
  <1> QED
    <2>1. m.kind = "poll" /\ UNCHANGED <<inbox, turn, stdout, hurt>> => ProbeInv'
      BY <1>8
    <2>2. m.kind = "cancel" /\ UNCHANGED <<inbox, stdout>> /\ UNCHANGED <<turn, hurt>> => ProbeInv'
      BY <1>8
    <2> QED BY <1>5, <1>6, <1>7, <1>9, <2>1, <2>2 DEF ReadStdin, m

(* The CLI schedules a command of its own, starts a turn, folds a prompt   *)
(* into it or ends it.                                                     *)
LEMMA ProbeCron ==
    ASSUME TypeOK, ProbeInv, CronDue
    PROVE  ProbeInv'
  <1> USE DEF bridgeVars, tabVars, procVars
  <1> DEFINE c == Cron(crons')
             queued == Frame("queued", c)
  <1>1. /\ proc = "running" /\ cli # "legacy" /\ excused' /\ inbox' = Append(inbox, c)
        /\ stdout' = stdout \/ stdout' = stdout \o Report("queued", c)
        /\ UNCHANGED <<linked, probe, lifecycle, proc, cli, stdin, turn, inited>>
    BY DEF CronDue
  <1>2. c \in Commands
    <2>1. crons' \in 1 .. MaxCrons
      BY KickoffAssumption DEF CronDue, TypeOK
    <2> QED BY <2>1, MessageKinds
  <1>3. c.kind = "cron" /\ c # Probe /\ queued # Started /\ queued # Ended
    BY Kinds DEF Frame, Started, Ended
  <1>4. inbox \in Seq(Commands) /\ Once(inbox, Probe) /\ stdout \in Seq(Reports) /\ Once(stdout, Started)
    BY Types DEF ProbeInv, OnceInv
  <1>5. /\ Range(stdout) \subseteq Range(stdout')
        /\ Range(stdout') \subseteq Range(stdout) \union {queued}
        /\ Announced(stdout) => Announced(stdout')
        /\ Once(stdout', Started)
    BY <1>1, <1>2, <1>3, <1>4, ReportAdds
  <1> HIDE DEF c
  <1>6. <<c>> \in Seq(Commands) /\ inbox' = inbox \o <<c>>
    BY <1>1, <1>2, <1>4, AppendIsConcat
  <1>7. /\ Range(inbox') = Range(inbox) \union {c}
        /\ Once(inbox', Probe)
        /\ Leads(inbox) => Leads(inbox')
    <2>1. Range(inbox \o <<c>>) = Range(inbox) \union Range(<<c>>)
      BY <1>4, <1>6, RangeConcatenation
    <2>2. Once(inbox', Probe)
      <3>1. Range(<<c>>) = {c} /\ Once(<<c>>, Probe)
        BY RangeSmall, OnceSmall
      <3>2. Probe \notin Range(<<c>>)
        BY <1>3, <3>1
      <3> QED BY <1>4, <1>6, <3>1, <3>2, OnceJoin
    <2>3. Leads(inbox) => Leads(inbox')
      BY <1>4, <1>6, LeadsFacts
    <2> QED BY <1>6, <2>1, <2>2, <2>3, RangeSmall
  <1>8. Waiting' = Waiting \union {c} /\ Alone' = Alone /\ Interrupting' = Interrupting
    BY <1>1, <1>7 DEF Waiting, Alone, Interrupting
  <1> HIDE DEF queued
  <1>9. ProcessInv'
    BY <1>1 DEF ProbeInv, ProcessInv
  <1>10. AloneInv'
    BY <1>1, <1>3, <1>7, <1>8 DEF ProbeInv, AloneInv, NoPrompt
  <1>11. OnceInv'
    BY <1>1, <1>3, <1>5, <1>7, <1>8 DEF ProbeInv, OnceInv, NoPrompt
  <1>12. LegacyInv' /\ ExcuseInv'
    BY <1>1 DEF LegacyInv, ExcuseInv
  <1>13. ReportInv'
    BY <1>1, <1>5, <1>7 DEF ProbeInv, ReportInv
  <1> QED BY <1>9, <1>10, <1>11, <1>12, <1>13 DEF ProbeInv

LEMMA ProbeStart ==
    ASSUME TypeOK, ProbeInv, StartTurn
    PROVE  ProbeInv'
  <1> USE DEF bridgeVars, tabVars, procVars
  <1> DEFINE c == Head(inbox)
             s == stdout \o Report("started", c)
             i == IF inited THEN <<>> ELSE <<InitFrame>>
  <1>1. /\ proc = "running" /\ turn = {} /\ inbox # <<>> /\ turn' = {c}
        /\ inbox' = Tail(inbox) /\ stdout' = s \o i /\ inited'
        /\ UNCHANGED <<linked, probe, lifecycle, proc, cli, stdin, excused>>
    BY DEF StartTurn, InitFrame
  <1>2. /\ c \in Commands /\ Range(inbox) = {c} \union Range(inbox')
        /\ Once(inbox', Probe)
        /\ c = Probe => Probe \notin Range(inbox')
    <2>1. Once(inbox, Probe)
      BY DEF ProbeInv, OnceInv
    <2> QED BY <1>1, <2>1, Types, TailIndices, RangeTail, OnceTail
  <1>3. Waiting = Waiting' \union {c} /\ Alone' = Alone /\ Interrupting' = Interrupting
    BY <1>1, <1>2 DEF Waiting, Alone, Interrupting
  <1>4. ~Interrupting /\ Started \notin Range(stdout)
    BY <1>1 DEF ProbeInv, AloneInv, OnceInv
  <1> HIDE DEF c
  <1>5. /\ s \in Seq(Reports) /\ Range(stdout) \subseteq Range(s)
        /\ Range(s) \subseteq Range(stdout) \union {Frame("started", c)}
        /\ cli = "legacy" \/ c.kind = "prompt" => s = stdout
        /\ cli # "legacy" /\ c.kind # "prompt" => Frame("started", c) \in Range(s)
        /\ Announced(stdout) => Announced(s)
        /\ Once(s, Started)
    <2>1. Once(stdout, Started) /\ stdout \in Seq(Reports)
      BY Types DEF ProbeInv, OnceInv
    <2> QED BY <1>2, <1>4, <2>1, ReportAdds
  <1>6. /\ i \in Seq(Reports) /\ Range(i) \subseteq {InitFrame} /\ Started # InitFrame
        /\ ~inited => Range(i) = {InitFrame}
    BY RangeSmall, FrameTypes DEF InitFrame, Started, Frame
  <1> HIDE DEF i, s
  <1>7. /\ Range(stdout') = Range(s) \union Range(i)
        /\ Once(stdout', Started)
        /\ Announced(s) /\ (\E f \in Range(s) : f.state # "init") => Announced(stdout')
    <2>1. Once(i, Started) /\ Started \notin Range(i)
      BY <1>6, OnceSmall
    <2> QED BY <1>1, <1>5, <1>6, <2>1, RangeConcatenation, OnceJoin, AnnouncedFacts
  <1>8. /\ Frame("started", c) = Started <=> c = Probe
        /\ Frame("started", c) # Ended /\ Frame("started", c).state # "init"
        /\ Frame("started", c).of = c
        /\ InitFrame.of = Probe /\ InitFrame.state = "init" /\ InitFrame # Ended
    BY DEF Started, Ended, InitFrame, Frame
  <1>9. Range(stdout') \subseteq Range(stdout) \union {InitFrame, Frame("started", c)}
    BY <1>5, <1>6, <1>7
  <1>10. Alone => c.kind # "prompt"
    BY <1>3 DEF ProbeInv, AloneInv, NoPrompt
  <1>11. c = Probe => Probe \notin Range(stdin) /\ Probe \notin Waiting'
                      /\ Ended \notin Range(stdout) /\ Started \notin Range(stdout)
    <2>1. c = Probe => Probe \in Range(inbox) /\ Probe \in Waiting
      BY <1>2, <1>3
    <2> QED BY <1>1, <1>2, <1>4, <2>1 DEF ProbeInv, OnceInv, Waiting
  <1>12. ProcessInv'
    BY <1>1 DEF ProbeInv, ProcessInv
  <1>13. AloneInv'
    BY <1>1, <1>2, <1>3, <1>4 DEF ProbeInv, AloneInv, NoPrompt
  <1>14. OnceInv'
    <2>1. Probe \in Range(stdin') => Probe \notin Range(inbox') /\ NoPrompt(Range(inbox') \union turn')
      BY <1>1, <1>2 DEF ProbeInv, OnceInv, NoPrompt
    <2>2. Probe \in Waiting' => Probe \notin turn' /\ Ended \notin Range(stdout')
      BY <1>1, <1>3, <1>8, <1>9, <1>11 DEF ProbeInv, OnceInv
    <2>3. Started \in Range(stdout') => Probe \in turn' /\ ~Interrupting'
      BY <1>1, <1>3, <1>4, <1>6, <1>8, <1>9
    <2>4. Ended \in Range(stdout') => Probe \notin turn'
      BY <1>1, <1>8, <1>9, <1>11
    <2> QED BY <1>1, <1>2, <1>7, <2>1, <2>2, <2>3, <2>4 DEF ProbeInv, OnceInv
  <1>15. ASSUME cli = "legacy" PROVE LegacyInv'
    <2>1. c.kind # "cron" /\ c \in Range(inbox)
      BY <1>2, <1>15 DEF ProbeInv, LegacyInv, NoCron
    <2>2. Alone => c = Probe
      BY <1>2, <1>10, <2>1, Kinds
    <2>3. \A f \in Range(stdout') : f.state = "init"
      BY <1>5, <1>6, <1>7, <1>8, <1>15 DEF ProbeInv, LegacyInv
    <2> QED BY <1>1, <1>2, <1>3, <2>1, <2>2, <2>3 DEF ProbeInv, LegacyInv, NoCron
  <1>16. ASSUME cli # "legacy" PROVE ReportInv'
    <2>1. ASSUME probe.live, ~lifecycle
          PROVE  Announced(s) /\ \E f \in Range(s) : f.state # "init"
      <3>1. /\ Announced(stdout)
            /\ \/ \E f \in Range(stdout) : f.state # "init"
               \/ Probe \in Range(stdin) \/ Leads(inbox)
        BY <1>1, <1>16, <2>1 DEF ProbeInv, ReportInv
      <3>2. Probe \in Range(stdin) \/ Leads(inbox) => c.kind # "prompt"
        BY <1>2, Types, LeadsFacts DEF ProbeInv, OnceInv, NoPrompt, c
      <3> QED BY <1>5, <1>8, <1>16, <3>1, <3>2
    <2>2. ASSUME probe.live, ~lifecycle
          PROVE  Announced(stdout') /\ \E f \in Range(stdout') : f.state # "init"
      BY <1>7, <2>1, <2>2
    <2> QED BY <1>1, <1>16, <2>2 DEF ProbeInv, ReportInv
  <1>17. ASSUME ~excused PROVE ExcuseInv'
    <2>1. /\ NoCron(Range(inbox') \union turn') /\ c.kind # "cron"
          /\ \A f \in Range(stdout') : f.of = Probe
      <3>1. c.kind # "cron"
        BY <1>2, <1>17 DEF ProbeInv, ExcuseInv, NoCron
      <3>2. c.kind = "prompt" \/ c = Probe
        BY <1>2, <3>1, Kinds
      <3>3. \A f \in Range(s) : f.of = Probe
        BY <1>5, <1>8, <1>17, <3>2 DEF ProbeInv, ExcuseInv
      <3>4. \A f \in Range(stdout') : f.of = Probe
        BY <1>6, <1>7, <1>8, <3>3
      <3> QED BY <1>1, <1>2, <1>17, <3>1, <3>4 DEF ProbeInv, ExcuseInv, NoCron
    <2>2. Probe \in Waiting' => FALSE
      <3>1. Probe \in Waiting' => Alone /\ c # Probe
        BY <1>3, <1>11, <1>17 DEF ProbeInv, ExcuseInv
      <3> QED BY <1>2, <1>10, <2>1, <3>1, Kinds
    <2>3. Probe \in turn' =>
             /\ Alone
             /\ IF cli = "legacy" THEN InitFrame \in Range(stdout') ELSE Started \in Range(stdout')
      <3>1. ASSUME c = Probe
            PROVE  Alone /\ (cli = "legacy" => ~inited)
        BY <1>3, <1>17, <3>1 DEF ProbeInv, ExcuseInv
      <3> QED BY <1>1, <1>5, <1>6, <1>7, <1>8, <3>1, Kinds
    <2> QED BY <1>1, <1>3, <2>1, <2>2, <2>3 DEF ExcuseInv
  <1> QED
    <2>1. LegacyInv' /\ ReportInv'
      BY <1>1, <1>15, <1>16 DEF LegacyInv, ReportInv
    <2>2. ExcuseInv'
      BY <1>1, <1>17 DEF ExcuseInv
    <2> QED BY <1>12, <1>13, <1>14, <2>1, <2>2 DEF ProbeInv

LEMMA ProbeFold ==
    ASSUME TypeOK, ProbeInv, FoldPrompt
    PROVE  ProbeInv'
  <1> USE DEF bridgeVars, tabVars, procVars
  <1> DEFINE c == Head(inbox)
  <1>1. /\ proc = "running" /\ turn # {} /\ inbox # <<>> /\ c.kind = "prompt"
        /\ turn' = turn \union {c} /\ inbox' = Tail(inbox)
        /\ UNCHANGED <<linked, probe, lifecycle, proc, cli, stdin, inited, stdout, excused>>
    BY DEF FoldPrompt
  <1>2. /\ c \in Range(inbox) /\ Range(inbox) = {c} \union Range(inbox') /\ Once(inbox', Probe)
        /\ ~Leads(inbox)
    <2>1. Once(inbox, Probe)
      BY DEF ProbeInv, OnceInv
    <2> QED BY <1>1, <2>1, Types, RangeTail, OnceTail, LeadsFacts
  <1>3. Waiting = Waiting' \union {c} /\ Alone' = Alone /\ Interrupting' = Interrupting
    BY <1>1, <1>2 DEF Waiting, Alone, Interrupting
  <1>4. c # Probe /\ c.kind # "cron" /\ ~Alone /\ ~Interrupting /\ Probe \notin Range(stdin)
    BY <1>1, <1>2, <1>3, Kinds DEF ProbeInv, AloneInv, OnceInv, NoPrompt
  <1> HIDE DEF c
  <1>5. ProcessInv'
    BY <1>1 DEF ProbeInv, ProcessInv
  <1>6. AloneInv'
    BY <1>1, <1>2, <1>3, <1>4 DEF ProbeInv, AloneInv
  <1>7. OnceInv'
    BY <1>1, <1>2, <1>3, <1>4 DEF ProbeInv, OnceInv
  <1>8. LegacyInv'
    BY <1>1, <1>2, <1>3, <1>4 DEF ProbeInv, LegacyInv, NoCron
  <1>9. ReportInv'
    BY <1>1, <1>2, <1>4 DEF ProbeInv, ReportInv
  <1>10. ExcuseInv'
    BY <1>1, <1>2, <1>3, <1>4 DEF ProbeInv, ExcuseInv, NoCron
  <1> QED BY <1>5, <1>6, <1>7, <1>8, <1>9, <1>10 DEF ProbeInv

LEMMA ProbeEnd ==
    ASSUME TypeOK, ProbeInv, EndTurn
    PROVE  ProbeInv'
  <1> USE DEF bridgeVars, tabVars, procVars, history
  <1>1. /\ proc = "running" /\ turn' = {}
        /\ Probe \in turn => stdout = <<>> /\ ~probe.timer
        /\ stdout' = IF Probe \in turn THEN stdout \o Report("ended", Probe) ELSE stdout
        /\ UNCHANGED <<linked, probe, lifecycle, proc, cli, stdin, inbox, inited, excused>>
    BY DEF EndTurn
  <1>2. ~Interrupting
    <2>1. Interrupting => Probe \in turn
      BY DEF ProbeInv, AloneInv
    <2>2. Probe \in turn => \A i \in DOMAIN stdin : stdin[i].kind # "interrupt"
      BY DEF EndTurn
    <2> QED BY <2>1, <2>2, Kinds DEF Interrupting, Range
  <1>3. Waiting' = Waiting /\ Alone' = Alone /\ Interrupting' = Interrupting
    BY <1>1 DEF Waiting, Alone, Interrupting
  <1>4. /\ Range(stdout') \subseteq Range(stdout) \union {Ended}
        /\ cli = "legacy" => stdout' = stdout
        /\ Range(stdout) \subseteq Range(stdout')
        /\ Probe \notin turn => stdout' = stdout
        /\ Once(stdout', Started) /\ Ended # Started /\ Ended.of = Probe
        /\ Announced(stdout) => Announced(stdout')
    <2>1. Once(stdout, Started) /\ stdout \in Seq(Reports)
      BY Types DEF ProbeInv, OnceInv
    <2>2. Ended # Started /\ Ended.of = Probe
      BY DEF Started, Ended, Frame
    <2> QED BY <1>1, <2>1, <2>2, ReportAdds, MessageKinds DEF Ended
  <1>5. Probe \in turn => Range(stdout) = {}
    BY <1>1, RangeSmall
  <1>6. ProcessInv'
    BY <1>1 DEF ProbeInv, ProcessInv
  <1>7. AloneInv'
    BY <1>1, <1>2, <1>3 DEF ProbeInv, AloneInv, NoPrompt
  <1>8. OnceInv'
    BY <1>1, <1>2, <1>3, <1>4, <1>5 DEF ProbeInv, OnceInv, NoPrompt
  <1>9. LegacyInv'
    BY <1>1, <1>3, <1>4, <1>5 DEF ProbeInv, LegacyInv, NoCron
  <1>10. ReportInv'
    BY <1>1, <1>4 DEF ProbeInv, ReportInv
  <1>11. ExcuseInv'
    BY <1>1, <1>3, <1>4 DEF ProbeInv, ExcuseInv, NoCron
  <1> QED BY <1>6, <1>7, <1>8, <1>9, <1>10, <1>11 DEF ProbeInv

-----------------------------------------------------------------------------
(***************************************************************************)
(* The adapter reads a frame, or one of its timers fires.                  *)
(***************************************************************************)

(* Frames that are sent: only the interrupt matters, and it is sent once.  *)
LEMMA SendQuietly ==
    ASSUME TypeOK, ProbeInv,
           Send(<<>>) \/ Send(<<Plain("cancel")>>) \/ UNCHANGED stdin
    PROVE  /\ Clear(stdin') /\ First(stdin') /\ Interrupting' = Interrupting
           /\ Probe \in Range(stdin') <=> Probe \in Range(stdin)
           /\ \A c \in Range(stdin') : c \in Range(stdin) \/ c.kind # "prompt"
           /\ Range(stdin) \subseteq Range(stdin')
           /\ proc # "running" => stdin' = stdin
  <1> DEFINE q == <<Plain("cancel")>>
  <1>1. stdin' = stdin \/ (stdin' = stdin \o q /\ proc = "running")
    BY Types DEF Send
  <1>2. Clear(stdin) /\ First(stdin) /\ stdin \in Seq(Wire)
    BY Types DEF ProbeInv, AloneInv, OnceInv
  <1>3. q \in Seq(Wire) /\ Range(q) = {Plain("cancel")}
    BY RangeSmall, MessageKinds
  <1>4. Probe \notin Range(q) /\ InterruptCommand \notin Range(q)
        /\ \A c \in Range(q) : c.kind # "prompt"
    BY <1>3, Kinds
  <1> HIDE DEF q
  <1>5. CASE stdin' = stdin
    BY <1>2, <1>5 DEF Interrupting
  <1>6. CASE stdin' = stdin \o q /\ proc = "running"
    <2>1. Range(stdin') = Range(stdin) \union Range(q)
      BY <1>2, <1>3, <1>6, RangeConcatenation
    <2>2. Clear(stdin') /\ First(stdin')
      BY <1>2, <1>3, <1>4, <1>6, ClearFacts, FirstFacts
    <2> QED BY <1>4, <1>6, <2>1, <2>2 DEF Interrupting
  <1> QED BY <1>1, <1>5, <1>6

LEMMA SendInterrupt ==
    ASSUME TypeOK, ProbeInv, proc = "running", Alone, Send(Interrupt(probe))
    PROVE  /\ Clear(stdin') /\ First(stdin') /\ Interrupting'
           /\ Probe \in Range(stdin') <=> Probe \in Range(stdin)
           /\ \A c \in Range(stdin') : c \in Range(stdin) \/ c.kind # "prompt"
  <1> DEFINE q == <<InterruptCommand>>
  <1>1. stdin' = stdin \o q
    BY DEF Send, Interrupt, Interrupts, Alone, InterruptCommand
  <1>2. Clear(stdin) /\ First(stdin) /\ stdin \in Seq(Wire)
    BY Types DEF ProbeInv, AloneInv, OnceInv
  <1>3. q \in Seq(Wire) /\ Range(q) = {InterruptCommand} /\ InterruptCommand \in Wire
    BY RangeSmall, MessageKinds DEF InterruptCommand
  <1>4. Probe \notin Range(q) /\ \A c \in Range(q) : c.kind # "prompt"
    BY <1>3, Kinds
  <1>5. NoPrompt(Range(stdin)) /\ InterruptCommand \notin Range(stdin)
    BY DEF ProbeInv, AloneInv, Alone, Interrupting, Waiting, NoPrompt
  <1> HIDE DEF q
  <1>6. Range(stdin') = Range(stdin) \union Range(q)
    BY <1>1, <1>2, <1>3, RangeConcatenation
  <1>7. Clear(stdin') /\ First(stdin')
    <2>1. Clear(stdin \o <<InterruptCommand>>)
      BY <1>2, <1>3, <1>5, ClearFacts
    <2> QED BY <1>1, <1>2, <1>3, <1>4, <2>1, FirstFacts DEF q
  <1> QED BY <1>3, <1>4, <1>6, <1>7 DEF Interrupting

LEMMA HeadOfStdout ==
    ASSUME TypeOK, ProbeInv, stdout # <<>>, stdout' = Tail(stdout)
    PROVE  /\ Head(stdout) \in Reports
           /\ Range(stdout) = {Head(stdout)} \union Range(stdout')
           /\ Once(stdout', Started)
           /\ Head(stdout) = Started => Started \notin Range(stdout')
           /\ Announced(stdout) => Head(stdout).state # "init"
  <1>1. Once(stdout, Started)
    BY DEF ProbeInv, OnceInv
  <1> QED BY <1>1, Types, TailIndices, RangeTail, OnceTail, AnnouncedFacts

(* A frame is read that sends no interrupt: what is known stays known.     *)
LEMMA ProbeInitFrame ==
    ASSUME TypeOK, ProbeInv, ReadStdout, Head(stdout).state = "init"
    PROVE  ProbeInv'
  <1> USE DEF tabVars, procVars, askedVars, history
  <1> DEFINE f == Head(stdout)
  <1>1. /\ proc = "running" /\ stdout # <<>> /\ stdout' = Tail(stdout)
        /\ UNCHANGED <<linked, proc, cli, stdin, inbox, turn, inited, excused>>
        /\ lifecycle' = (lifecycle \/ cli = "announcing")
        /\ probe' = [probe EXCEPT !.timer = probe.timer \/ (probe.live /\ ~lifecycle')]
    BY DEF ReadStdout, OnInit
  <1>2. /\ f \in Reports /\ Range(stdout) = {f} \union Range(stdout') /\ Once(stdout', Started)
        /\ Announced(stdout) => f.state # "init"
    BY <1>1, HeadOfStdout
  <1>3. f = InitFrame /\ f # Started /\ f # Ended
    <2>1. InitFrame # Started /\ InitFrame # Ended
      BY DEF InitFrame, Started, Ended, Frame
    <2> QED BY <1>2, <2>1, Frames
  <1> HIDE DEF f
  <1>4. /\ probe'.live = probe.live /\ probe'.foreign = probe.foreign
        /\ probe'.timer = (probe.timer \/ (probe.live /\ ~lifecycle'))
        /\ ~probe.live => probe' = probe
    BY <1>1, Types, ProbeTypes DEF ProbeStates
  <1>5. Alone' = Alone /\ Waiting' = Waiting /\ Interrupting' = Interrupting
    BY <1>1, <1>4 DEF Alone, Waiting, Interrupting
  <1>6. ProcessInv'
    BY <1>1, <1>4 DEF ProbeInv, ProcessInv
  <1>7. AloneInv'
    BY <1>1, <1>4, <1>5 DEF ProbeInv, AloneInv
  <1>8. OnceInv'
    BY <1>1, <1>2, <1>3, <1>5 DEF ProbeInv, OnceInv
  <1>9. LegacyInv'
    BY <1>1, <1>2, <1>3, <1>4, <1>5 DEF ProbeInv, LegacyInv
  <1>10. ReportInv'
    BY <1>1, <1>2, <1>3, <1>4, Frames DEF ProbeInv, ReportInv, InitFrame
  <1>11. ExcuseInv'
    BY <1>1, <1>2, <1>3, <1>4, <1>5 DEF ProbeInv, ExcuseInv, Alone, LegacyInv
  <1> QED BY <1>6, <1>7, <1>8, <1>9, <1>10, <1>11 DEF ProbeInv

LEMMA ProbeOwnFrame ==
    ASSUME TypeOK, ProbeInv, ReadStdout,
           Head(stdout).state # "init", Head(stdout).of = Probe
    PROVE  ProbeInv'
  <1> USE DEF tabVars, procVars, askedVars, history
  <1> DEFINE f == Head(stdout)
  <1>1. /\ proc = "running" /\ stdout # <<>> /\ stdout' = Tail(stdout)
        /\ UNCHANGED <<linked, proc, cli, inbox, turn, inited, excused>>
        /\ OnProbeFrame(f.state) /\ lifecycle'
    BY DEF ReadStdout, OnProbeFrame
  <1>2. /\ f \in Reports /\ Range(stdout) = {f} \union Range(stdout') /\ Once(stdout', Started)
        /\ f = Started => Started \notin Range(stdout')
    BY <1>1, HeadOfStdout
  <1>3. /\ f.state \in {"queued", "started", "ended"}
        /\ f.state = "started" <=> f = Started
        /\ f.state = "ended" <=> f = Ended
    BY <1>2, Frames
  <1>4. cli # "legacy"
    BY <1>2 DEF ProbeInv, LegacyInv
  <1>5. /\ ~NoProbe.live /\ ~NoProbe.timer /\ ~probe.timer
    BY <1>4 DEF NoProbe, ProbeInv, ReportInv
  <1>6. LegacyInv'
    BY <1>1, <1>4 DEF LegacyInv
  <1> HIDE DEF f
  <1>7. CASE f.state = "started" /\ Alone
    <2>1. Send(Interrupt(probe)) /\ probe' = NoProbe
      BY <1>1, <1>7 DEF OnProbeFrame
    <2>2. /\ Clear(stdin') /\ First(stdin') /\ Interrupting'
          /\ Probe \in Range(stdin') <=> Probe \in Range(stdin)
      BY <1>1, <1>7, <2>1, SendInterrupt
    <2>3. turn = {Probe} /\ NoPrompt(Range(inbox)) /\ Probe \notin Waiting
      <3>1. Probe \in turn
        BY <1>2, <1>3, <1>7 DEF ProbeInv, OnceInv
      <3>2. turn = {Probe}
        BY <1>7, <3>1 DEF ProbeInv, AloneInv, NoPrompt
      <3> QED BY <1>7, <3>1, <3>2 DEF ProbeInv, AloneInv, OnceInv, NoPrompt, Waiting
    <2>4. ~Alone' /\ Probe \notin Waiting' /\ Started \notin Range(stdout')
          /\ Ended \notin Range(stdout')
      BY <1>1, <1>2, <1>3, <1>5, <1>7, <2>1, <2>2, <2>3 DEF Alone, Waiting, ProbeInv, OnceInv
    <2>5. ProcessInv'
      BY <1>1, <2>1 DEF ProbeInv, ProcessInv
    <2>6. AloneInv'
      BY <1>1, <1>5, <2>1, <2>2, <2>3, <2>4 DEF AloneInv
    <2>7. OnceInv'
      BY <1>1, <1>2, <2>2, <2>3, <2>4, OnceSmall DEF OnceInv, Waiting, ProbeInv
    <2>8. ReportInv'
      BY <1>5, <2>1 DEF ReportInv
    <2>9. ExcuseInv'
      BY <1>1, <1>2, <2>2, <2>4 DEF ProbeInv, ExcuseInv
    <2> QED BY <1>6, <2>5, <2>6, <2>7, <2>8, <2>9 DEF ProbeInv
  <1>8. CASE ~(f.state = "started" /\ Alone)
    <2>1. /\ Send(<<>>) \/ Send(<<Plain("cancel")>>) \/ UNCHANGED stdin
          /\ \/ f.state # "queued" /\ probe' = NoProbe
             \/ /\ f.state = "queued" /\ probe'.live = probe.live /\ ~probe'.timer
                /\ probe'.foreign = probe.foreign /\ (~probe.live => probe' = probe)
      <3>1. CASE f.state = "started"
        BY <1>1, <1>8, <3>1 DEF OnProbeFrame, Interrupt, Interrupts, Alone
      <3>2. CASE f.state = "queued"
        <4> DEFINE cancel == probe.live /\ probe.foreign /\ ~probe.cancelSent
        <4>1. /\ Send(IF cancel THEN <<Plain("cancel")>> ELSE <<>>)
              /\ probe' = [probe EXCEPT !.timer = FALSE, !.cancelSent = probe.cancelSent \/ cancel]
          BY <1>1, <3>2 DEF OnProbeFrame
        <4> QED BY <3>2, <4>1, <1>5, Types DEF ProbeStates
      <3>3. CASE f.state = "ended"
        BY <1>1, <3>3 DEF OnProbeFrame
      <3> QED BY <1>3, <3>1, <3>2, <3>3
    <2>2. /\ Clear(stdin') /\ First(stdin') /\ Interrupting' = Interrupting
          /\ Probe \in Range(stdin') <=> Probe \in Range(stdin)
          /\ \A c \in Range(stdin') : c \in Range(stdin) \/ c.kind # "prompt"
      BY <2>1, SendQuietly
    <2>3. /\ Alone' => Alone
          /\ Probe \in Waiting' => Probe \in Waiting
          /\ NoPrompt(Waiting \union turn) => NoPrompt(Waiting' \union turn')
          /\ probe'.live => probe.live
      BY <1>1, <1>5, <2>1, <2>2 DEF Alone, Waiting, NoPrompt
    <2>4. ProcessInv'
      BY <1>1, <2>1 DEF ProbeInv, ProcessInv
    <2>5. AloneInv'
      BY <1>1, <2>2, <2>3 DEF ProbeInv, AloneInv
    <2>6. OnceInv'
      BY <1>1, <1>2, <2>2, <2>3 DEF ProbeInv, OnceInv
    <2>7. ReportInv'
      BY <1>1, <1>5, <2>1 DEF ReportInv
    <2>8. ExcuseInv'
      <3>1. ASSUME Probe \in Waiting, ~excused PROVE Alone'
        <4>1. f # Started /\ f # Ended /\ Alone
          BY <1>2, <3>1 DEF ProbeInv, OnceInv, ExcuseInv
        <4> QED BY <1>3, <2>1, <4>1 DEF Alone
      <3>2. ASSUME Probe \in turn, ~excused, ~Interrupting
            PROVE  Alone' /\ Started \in Range(stdout')
        <4>1. Alone /\ Started \in Range(stdout)
          BY <1>4, <3>2 DEF ProbeInv, ExcuseInv
        <4>2. f # Started /\ f # Ended
          BY <1>2, <1>3, <1>8, <3>2, <4>1 DEF ProbeInv, OnceInv
        <4> QED BY <1>2, <1>3, <2>1, <4>1, <4>2 DEF Alone
      <3> QED BY <1>1, <1>2, <1>4, <2>2, <2>3, <3>1, <3>2 DEF ProbeInv, ExcuseInv
    <2> QED BY <1>6, <2>4, <2>5, <2>6, <2>7, <2>8 DEF ProbeInv
  <1> QED BY <1>7, <1>8

LEMMA ProbeForeignFrame ==
    ASSUME TypeOK, ProbeInv, ReadStdout,
           Head(stdout).state # "init", Head(stdout).of # Probe
    PROVE  ProbeInv'
  <1> USE DEF tabVars, procVars, askedVars, history
  <1> DEFINE f == Head(stdout)
             p == [probe EXCEPT !.timer = FALSE]
             news == p.live /\ f.state \in {"queued", "started"} /\ ~p.foreign
  <1>1. /\ proc = "running" /\ stdout # <<>> /\ stdout' = Tail(stdout)
        /\ UNCHANGED <<linked, proc, cli, inbox, turn, inited, excused>>
        /\ lifecycle'
        /\ Send(IF news /\ ~p.cancelSent THEN <<Plain("cancel")>> ELSE <<>>)
        /\ probe' = IF news THEN [p EXCEPT !.foreign = TRUE, !.cancelSent = TRUE] ELSE p
    BY DEF ReadStdout, OnForeignFrame
  <1>2. /\ f \in Reports /\ Range(stdout) = {f} \union Range(stdout') /\ Once(stdout', Started)
    BY <1>1, HeadOfStdout
  <1>3. excused' /\ cli # "legacy"
    <2>1. f.of # Probe /\ f.state # "init"
      OBVIOUS
    <2> HIDE DEF f
    <2> QED BY <1>1, <1>2, <2>1 DEF ProbeInv, ExcuseInv, LegacyInv
  <1>4. ~probe.timer /\ (~probe.live => probe = NoProbe)
    BY <1>3 DEF ProbeInv, ReportInv, ProcessInv
  <1>5. /\ ~probe'.timer /\ probe'.live = probe.live
        /\ ~probe.live => probe' = probe
        /\ ~probe'.foreign => ~probe.foreign
    BY <1>1, <1>4, Types DEF ProbeStates
  <1>6. /\ Clear(stdin') /\ First(stdin') /\ Interrupting' = Interrupting
        /\ Probe \in Range(stdin') <=> Probe \in Range(stdin)
        /\ \A c \in Range(stdin') : c \in Range(stdin) \/ c.kind # "prompt"
    <2>1. Send(<<>>) \/ Send(<<Plain("cancel")>>)
      BY <1>1
    <2> QED BY <2>1, SendQuietly
  <1> HIDE DEF f, p
  <1>7. /\ Alone' => Alone
        /\ Probe \in Waiting' => Probe \in Waiting
        /\ NoPrompt(Waiting \union turn) => NoPrompt(Waiting' \union turn')
    BY <1>1, <1>5, <1>6 DEF Alone, Waiting, NoPrompt
  <1>8. ProcessInv'
    BY <1>1, <1>5 DEF ProbeInv, ProcessInv
  <1>9. AloneInv'
    BY <1>1, <1>5, <1>6, <1>7 DEF ProbeInv, AloneInv
  <1>10. OnceInv'
    BY <1>1, <1>2, <1>6, <1>7 DEF ProbeInv, OnceInv
  <1>11. LegacyInv' /\ ReportInv' /\ ExcuseInv'
    BY <1>1, <1>3, <1>5 DEF LegacyInv, ReportInv, ExcuseInv
  <1> QED BY <1>8, <1>9, <1>10, <1>11 DEF ProbeInv

(* The grace after the init frame ends: only a legacy CLI gets one.        *)
LEMMA ProbeGrace ==
    ASSUME TypeOK, ProbeInv, GraceEnds
    PROVE  ProbeInv'
  <1> USE DEF tabVars, procVars, askedVars, history
  <1>1. /\ probe.timer
        /\ UNCHANGED <<linked, lifecycle, proc, cli, inbox, turn, inited, stdout, excused>>
    BY DEF GraceEnds
  <1>2. cli = "legacy" /\ ~lifecycle /\ probe.live
    BY <1>1 DEF ProbeInv, ReportInv, LegacyInv, ProcessInv, NoProbe
  <1>3. Send(Interrupt(probe)) /\ probe' = NoProbe
    BY <1>2 DEF GraceEnds
  <1>4. ~NoProbe.live /\ ~NoProbe.timer /\ ~Alone'
    BY <1>3 DEF NoProbe, Alone
  <1>5. ProcessInv'
    <2>1. proc # "running" => stdin' = stdin
      BY <1>3 DEF Send
    <2> QED BY <1>1, <1>3, <2>1 DEF ProbeInv, ProcessInv
  <1>6. LegacyInv' /\ ReportInv'
    BY <1>1, <1>2, <1>4 DEF ProbeInv, LegacyInv, ReportInv
  <1>7. CASE proc = "running" /\ Alone
    <2>1. /\ Clear(stdin') /\ First(stdin') /\ Interrupting'
          /\ Probe \in Range(stdin') <=> Probe \in Range(stdin)
      BY <1>3, <1>7, SendInterrupt
    <2>2. Probe \in turn
      BY <1>1, <1>2, <1>7 DEF ProbeInv, LegacyInv
    <2>3. turn = {Probe} /\ NoPrompt(Range(inbox)) /\ Probe \notin Waiting
      <3>1. turn = {Probe}
        BY <1>7, <2>2 DEF ProbeInv, AloneInv, NoPrompt
      <3> QED BY <1>7, <2>2, <3>1 DEF ProbeInv, AloneInv, OnceInv, NoPrompt, Waiting
    <2>4. Probe \notin Waiting' /\ Started \notin Range(stdout')
      <3>1. Started \notin Range(stdout)
        BY <1>2, Frames DEF ProbeInv, LegacyInv, Started
      <3> QED BY <1>1, <2>1, <2>3, <3>1 DEF Waiting
    <2>5. AloneInv'
      BY <1>1, <1>3, <1>4, <2>1, <2>3 DEF AloneInv
    <2>6. OnceInv'
      BY <1>1, <2>1, <2>2, <2>3, <2>4 DEF ProbeInv, OnceInv, Waiting
    <2>7. ExcuseInv'
      BY <1>1, <2>1, <2>4 DEF ProbeInv, ExcuseInv
    <2> QED BY <1>5, <1>6, <2>5, <2>6, <2>7 DEF ProbeInv
  <1>8. CASE ~(proc = "running" /\ Alone)
    <2>1. Send(<<>>) \/ UNCHANGED stdin
      BY <1>3, <1>8 DEF Send, Interrupt, Interrupts, Alone
    <2>2. /\ Clear(stdin') /\ First(stdin') /\ Interrupting' = Interrupting
          /\ Probe \in Range(stdin') <=> Probe \in Range(stdin)
      BY <2>1, SendQuietly
    <2>3. Probe \in Waiting' => Probe \in Waiting
      BY <1>1, <2>2 DEF Waiting
    <2>4. AloneInv' /\ OnceInv'
      BY <1>1, <1>3, <1>4, <2>2, <2>3 DEF ProbeInv, AloneInv, OnceInv
    <2>5. (Probe \notin Waiting /\ Probe \notin turn) \/ Interrupting \/ excused
      <3>1. CASE proc # "running"
        BY <3>1, RangeSmall DEF ProbeInv, ProcessInv, Waiting
      <3>2. CASE ~Alone
        BY <3>2 DEF ProbeInv, ExcuseInv
      <3> QED BY <1>8, <3>1, <3>2
    <2>6. Interrupting => Probe \notin Waiting
      BY DEF ProbeInv, AloneInv, OnceInv
    <2>7. ExcuseInv'
      BY <1>1, <2>2, <2>3, <2>5, <2>6 DEF ProbeInv, ExcuseInv
    <2> QED BY <1>5, <1>6, <2>4, <2>7 DEF ProbeInv
  <1> QED BY <1>7, <1>8

LEMMA ProbeForgotten ==
    ASSUME TypeOK, ProbeInv, ProbeExpires
    PROVE  ProbeInv'
  <1> USE DEF tabVars, procVars, cliVars, askedVars
  <1>1. /\ probe' = NoProbe /\ excused'
        /\ UNCHANGED <<linked, lifecycle, proc, cli, stdin, inbox, turn, inited, stdout>>
    BY DEF ProbeExpires
  <1>2. ~NoProbe.live /\ ~NoProbe.timer
    BY DEF NoProbe
  <1>3. ProcessInv' /\ AloneInv' /\ OnceInv'
    BY <1>1, <1>2
       DEF ProbeInv, ProcessInv, AloneInv, OnceInv, Alone, Waiting, Interrupting
  <1>4. LegacyInv' /\ ReportInv' /\ ExcuseInv'
    BY <1>1, <1>2 DEF ProbeInv, LegacyInv, ReportInv, ExcuseInv, Alone
  <1> QED BY <1>3, <1>4 DEF ProbeInv

LEMMA ProbeStep == TypeOK /\ ProbeInv /\ [Next]_vars => ProbeInv'
  <1> SUFFICES ASSUME TypeOK, ProbeInv, [Next]_vars PROVE ProbeInv'
    OBVIOUS
  <1>1. CASE UserMessage
    <2>1. accepted' \in 1 .. MaxPrompts /\ Route(Prompt(accepted')) /\ RouteUnchanged
      BY <1>1, KickoffAssumption DEF UserMessage, TypeOK
    <2> QED BY <2>1, MessageKinds, ProbeRoute
  <1>2. CASE StatusPoll
    BY <1>2, MessageKinds, ProbeRoute DEF StatusPoll
  <1>3. ASSUME UNCHANGED <<linked, probe, lifecycle, proc, cli, cliVars, excused>>
        PROVE  ProbeInv'
    BY <1>3
       DEF cliVars, ProbeInv, ProcessInv, AloneInv, OnceInv, LegacyInv, ReportInv, ExcuseInv,
           Alone, Waiting, Interrupting
  <1>4. CASE BrowserLeaves \/ BrowserComes \/ DrainTimerFires \/ RelaunchImpossible
    BY <1>3, <1>4
       DEF BrowserLeaves, BrowserComes, DrainTimerFires, RelaunchImpossible,
           bridgeVars, procVars, history
  <1>5. CASE Relaunch \/ ReplaceTooEarly
    BY <1>5, ProbeAttach DEF Relaunch, Spawn, ReplaceUnlinked, ReplaceTooEarly
  <1>6. CASE Exit \/ ExitNoticed \/ LateExit
    BY <1>6, ProbeExit
  <1>7. CASE Cli \/ CronDue
    BY <1>7, ProbeRead, ProbeStart, ProbeFold, ProbeEnd, ProbeCron DEF Cli
  <1>8. CASE ReadStdout
    BY <1>8, ProbeInitFrame, ProbeOwnFrame, ProbeForeignFrame
  <1>9. CASE GraceEnds \/ ProbeExpires
    BY <1>9, ProbeGrace, ProbeForgotten
  <1>10. CASE UNCHANGED vars
    BY <1>3, <1>10 DEF vars, bridgeVars, procVars, history
  <1> QED BY <1>1, <1>2, <1>4, <1>5, <1>6, <1>7, <1>8, <1>9, <1>10 DEF Next

(* Where the probe, its interrupt and the reports about it are.            *)
THEOREM ProbeInvariant == Spec => []ProbeInv
  BY InitProbe, ProbeStep, TypeCorrect, PTL DEF Spec

-----------------------------------------------------------------------------
(***************************************************************************)
(* The properties.                                                         *)
(***************************************************************************)

(* Only the reading of an interrupt aborts a turn, and it finds the probe. *)
LEMMA InterruptStep ==
    TypeOK /\ ProbeInv /\ NoRealTurnInterrupted /\ [Next]_vars => NoRealTurnInterrupted'
  <1> SUFFICES ASSUME TypeOK, ProbeInv, hurt = {}, [Next]_vars PROVE hurt' = {}
    BY DEF NoRealTurnInterrupted
  <1> USE DEF bridgeVars, tabVars, procVars, cliVars, askedVars, history
  <1>1. CASE ReadStdin
    <2>1. CASE Head(stdin).kind = "interrupt" /\ hurt' = hurt \union (turn \ {Probe})
      <3>1. Head(stdin) \in Range(stdin) /\ Head(stdin) \in Wire
        BY <1>1, Types, RangeTail, TailIndices DEF ReadStdin
      <3>2. Interrupting
        BY <2>1, <3>1, Kinds DEF Interrupting
      <3> QED BY <2>1, <3>2 DEF ProbeInv, AloneInv
    <2> QED BY <1>1, <2>1 DEF ReadStdin
  <1>2. CASE UserMessage \/ StatusPoll
    BY <1>2 DEF UserMessage, StatusPoll, RouteUnchanged
  <1>3. CASE BrowserLeaves \/ BrowserComes \/ DrainTimerFires \/ RelaunchImpossible
    BY <1>3 DEF BrowserLeaves, BrowserComes, DrainTimerFires, RelaunchImpossible
  <1>4. CASE Relaunch \/ ReplaceTooEarly
    BY <1>4 DEF Relaunch, Spawn, ReplaceUnlinked, ReplaceTooEarly, Attach
  <1>5. CASE Exit \/ ExitNoticed \/ LateExit
    BY <1>5 DEF Exit, ExitNoticed, LateExit
  <1>6. CASE StartTurn \/ FoldPrompt \/ EndTurn \/ CronDue
    BY <1>6 DEF StartTurn, FoldPrompt, EndTurn, CronDue
  <1>7. CASE ReadStdout \/ GraceEnds \/ ProbeExpires
    BY <1>7 DEF ReadStdout, GraceEnds, ProbeExpires
  <1>8. CASE UNCHANGED vars
    BY <1>8 DEF vars
  <1> QED BY <1>1, <1>2, <1>3, <1>4, <1>5, <1>6, <1>7, <1>8 DEF Next, Cli

(* The interrupt meant for the probe never aborts a turn that runs a       *)
(* prompt or a scheduled command, whatever the CLI reports of its work and *)
(* however prompts, exits and relaunches interleave with it.               *)
THEOREM InterruptAbortsTheProbeOnly == Spec => []NoRealTurnInterrupted
  <1>1. Init => NoRealTurnInterrupted
    BY DEF Init, NoRealTurnInterrupted
  <1> QED BY <1>1, InterruptStep, TypeCorrect, ProbeInvariant, PTL DEF Spec

(* A probe that nothing shares the process with is interrupted: its turn   *)
(* does not end by itself, for the interrupt is on its way or will be.     *)
THEOREM ProbeIsNotAnswered == Spec => ProbeIsInterrupted
  <1>1. ASSUME TypeOK, ProbeInv, EndTurn, turn = {Probe}
        PROVE  excused
    <2>1. /\ Probe \in turn /\ Range(stdout) = {} /\ ~probe.timer
          /\ \A i \in DOMAIN stdin : stdin[i].kind # "interrupt"
      BY <1>1, RangeSmall DEF EndTurn
    <2>2. ~Interrupting
      BY <2>1, Kinds DEF Interrupting, Range
    <2> QED BY <1>1, <2>1, <2>2 DEF ProbeInv, ExcuseInv
  <1>2. TypeOK /\ ProbeInv => [EndTurn /\ turn = {Probe} => excused]_vars
    BY <1>1
  <1> QED BY <1>2, TypeCorrect, ProbeInvariant, PTL DEF ProbeIsInterrupted
=============================================================================
