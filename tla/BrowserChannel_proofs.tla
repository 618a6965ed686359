------------------------ MODULE BrowserChannel_proofs ------------------------
(***************************************************************************)
(* Proofs about BrowserChannel, for every size of the buffer and of the    *)
(* history and every set of faults: type correctness, that no piece of a   *)
(* stream is handled twice, and that the cursor hides no entry.            *)
(***************************************************************************)
EXTENDS BrowserChannel, TLAPS

-----------------------------------------------------------------------------
(***************************************************************************)
(* Type correctness.                                                       *)
(***************************************************************************)

Entries == [kind : Kinds, seq : Nat]

LEMMA SeqGrows ==
    ASSUME NEW S, NEW T, S \subseteq T
    PROVE  Seq(S) \subseteq Seq(T)
  OBVIOUS

LEMMA MemoryType ==
    ASSUME NEW S
    PROVE  Memory \in Dialogs <=>
              /\ nextSeq \in Nat \ {0} /\ processed \subseteq Events
              /\ buffer \in Seq(Events) /\ Len(buffer) <= BufferLimit
              /\ recorded \in Seq(Events) /\ Len(recorded) <= HistoryLimit
  BY DEF Memory, Dialogs

LEMMA Same ==
    ASSUME UNCHANGED events
    PROVE  Events' = Events /\ Frames' = Frames /\ UpFrames' = UpFrames /\ Dialogs' = Dialogs
  BY DEF Events, Frames, UpFrames, Dialogs

(* A new event is the last one, and what was an event stays one. *)
LEMMA Grow ==
    ASSUME events \in Seq(Entries), NEW e \in Entries, events' = Append(events, e)
    PROVE  /\ events' \in Seq(Entries) /\ Len(events') = Len(events) + 1
           /\ Len(events') \in Events' /\ Len(events') \notin Events
           /\ events'[Len(events')] = e /\ \A i \in Events : events'[i] = events[i]
           /\ Events \subseteq Events' /\ Seq(Events) \subseteq Seq(Events')
           /\ Seq(Frames) \subseteq Seq(Frames') /\ Seq(UpFrames) \subseteq Seq(UpFrames')
           /\ Dialogs \subseteq Dialogs'
  <1>1. /\ events' \in Seq(Entries) /\ Len(events') = Len(events) + 1 /\ Len(events) \in Nat
        /\ events'[Len(events')] = e /\ \A i \in 1 .. Len(events) : events'[i] = events[i]
    OBVIOUS
  <1>2. /\ Events \subseteq Events' /\ Len(events') \in Events' /\ Len(events') \notin Events
        /\ \A i \in Events : events'[i] = events[i]
    BY <1>1 DEF Events
  <1>3. Frames \subseteq Frames' /\ UpFrames \subseteq UpFrames'
    BY <1>2 DEF Frames, UpFrames
  <1>4. Seq(Events) \subseteq Seq(Events')
    BY <1>2, SeqGrows
  <1>5. Dialogs \subseteq Dialogs'
    BY <1>2, <1>4 DEF Dialogs
  <1>6. Seq(Frames) \subseteq Seq(Frames') /\ Seq(UpFrames) \subseteq Seq(UpFrames')
    BY <1>3, SeqGrows
  <1> QED BY <1>1, <1>2, <1>4, <1>5, <1>6

(* The last n elements of a sequence. *)
LEMMA NewestIs ==
    ASSUME NEW S, NEW s \in Seq(S), NEW n \in Nat \ {0}
    PROVE  /\ Newest(s, n) \in Seq(S) /\ Len(Newest(s, n)) <= n
           /\ \A k \in DOMAIN Newest(s, n) : \E l \in DOMAIN s : Newest(s, n)[k] = s[l]
  <1>1. CASE Len(s) > n
    <2> DEFINE b == SubSeq(s, Len(s) - n + 1, Len(s))
    <2>1. /\ b \in Seq(S) /\ Len(b) = n /\ DOMAIN b = 1 .. n /\ Len(s) \in Nat
          /\ DOMAIN s = 1 .. Len(s)
          /\ \A k \in 1 .. n : b[k] = s[Len(s) - n + k]
      BY <1>1
    <2>2. \A k \in 1 .. n : Len(s) - n + k \in DOMAIN s
      BY <1>1, <2>1
    <2>3. Newest(s, n) = b
      BY <1>1 DEF Newest
    <2>4. \A k \in DOMAIN b : \E l \in DOMAIN s : b[k] = s[l]
      BY <2>1, <2>2
    <2> HIDE DEF b
    <2> QED BY <2>1, <2>3, <2>4
  <1>2. CASE ~(Len(s) > n)
    BY <1>2 DEF Newest
  <1> QED BY <1>1, <1>2

LEMMA PublishType ==
    ASSUME NEW i \in Events', Broadcast(i), Record(i),
           nextSeq \in Nat \ {0}, down \in Seq(Frames'),
           buffer \in Seq(Events'), Len(buffer) <= BufferLimit,
           recorded \in Seq(Events'), Len(recorded) <= HistoryLimit
    PROVE  /\ nextSeq' \in Nat \ {0} /\ down' \in Seq(Frames')
           /\ buffer' \in Seq(Events') /\ Len(buffer') <= BufferLimit
           /\ recorded' \in Seq(Events') /\ Len(recorded') <= HistoryLimit
  <1>1. Append(buffer, i) \in Seq(Events') /\ Append(recorded, i) \in Seq(Events')
    OBVIOUS
  <1>2. buffer' \in Seq(Events') /\ Len(buffer') <= BufferLimit
    BY <1>1, NewestIs, ChannelAssumption DEF Broadcast
  <1>3. recorded' \in Seq(Events') /\ Len(recorded') <= HistoryLimit
    BY <1>1, NewestIs, ChannelAssumption DEF Record
  <1>4. [type |-> "events", ids |-> {i}] \in Frames'
    BY DEF Frames
  <1>5. down' \in Seq(Frames')
    BY <1>4 DEF Broadcast
  <1> QED BY <1>2, <1>3, <1>5 DEF Broadcast

LEMMA EmptyTypes ==
    ASSUME NEW S
    PROVE  <<>> \in Seq(S) /\ Len(<<>>) = 0
  OBVIOUS

LEMMA ServerTypeStep ==
    ASSUME TypeOK, ServerStep
    PROVE  TypeOK'
  <1> USE ChannelAssumption DEF server, wire, tab, ghosts
  <1>1. /\ nextSeq \in Nat \ {0} /\ processed \subseteq Events
        /\ buffer \in Seq(Events) /\ Len(buffer) <= BufferLimit
        /\ recorded \in Seq(Events) /\ Len(recorded) <= HistoryLimit
    BY MemoryType DEF TypeOK
  <1>2. CASE \E kind \in Published : Emit(kind)
    <2>1. PICK kind \in Published : Emit(kind)
      BY <1>2
    <2> DEFINE e == [kind |-> kind, seq |-> nextSeq]
    <2>2. e \in Entries /\ events \in Seq(Entries) /\ events' = Append(events, e)
      BY <1>1, <2>1 DEF Emit, Entries, Kinds, TypeOK
    <2> HIDE DEF e
    <2> DEFINE i == Len(events')
    <2>3. i \in Events' /\ Broadcast(i) /\ Record(i)
      BY <2>1, <2>2, Grow DEF Emit
    <2>4. /\ buffer \in Seq(Events') /\ recorded \in Seq(Events') /\ down \in Seq(Frames')
          /\ upward \in Seq(UpFrames') /\ processed \subseteq Events' /\ saved \in Dialogs'
          /\ queue \in Seq(Events') /\ shown \subseteq Events' /\ twice \subseteq Events'
          /\ lost \subseteq Events' /\ events' \in Seq(Entries) /\ Len(events') <= MaxEvents
      <3>1. /\ Events \subseteq Events' /\ Seq(Events) \subseteq Seq(Events')
            /\ Seq(Frames) \subseteq Seq(Frames') /\ Seq(UpFrames) \subseteq Seq(UpFrames')
            /\ Dialogs \subseteq Dialogs' /\ events' \in Seq(Entries)
            /\ Len(events') = Len(events) + 1
        BY <2>2, Grow
      <3>2. Len(events') <= MaxEvents
        BY <2>1, <2>2, <3>1 DEF Emit
      <3> QED BY <1>1, <3>1, <3>2 DEF TypeOK
    <2> HIDE DEF i
    <2>5. /\ nextSeq' \in Nat \ {0} /\ down' \in Seq(Frames')
          /\ buffer' \in Seq(Events') /\ Len(buffer') <= BufferLimit
          /\ recorded' \in Seq(Events') /\ Len(recorded') <= HistoryLimit
      BY <1>1, <2>3, <2>4, PublishType
    <2>6. Memory' \in Dialogs'
      BY <2>1, <2>4, <2>5 DEF Emit, Memory, Dialogs
    <2>7. link # "ok" => down' = <<>> /\ upward' = <<>>
      BY <2>1, <2>3 DEF Emit, Broadcast, TypeOK
    <2> QED BY <2>1, <2>4, <2>5, <2>6, <2>7 DEF Emit, TypeOK, Entries
  <1>3. CASE Save
    BY <1>3, Same DEF Save, TypeOK, Memory
  <1>4. CASE ServerDies
    <2>1. Memory' = Memory /\ saved' = saved
      BY <1>4 DEF ServerDies, Memory
    <2>2. Sinking \subseteq Events
      BY DEF Sinking, TypeOK, UpFrames
    <2>3. lost' \subseteq Events
      BY <1>1, <1>4, <2>2 DEF ServerDies, TypeOK
    <2>4. torn' \in BOOLEAN /\ faults' \in 0 .. MaxFaults
      BY <1>4 DEF ServerDies, Fault, TypeOK
    <2> QED BY <1>4, <2>1, <2>3, <2>4, Same, EmptyTypes DEF ServerDies, TypeOK
  <1>5. CASE Boot
    <2>1. Memory' = saved
      BY <1>5 DEF Boot, Memory, TypeOK, Dialogs
    <2> QED BY <1>5, <2>1, Same DEF Boot, TypeOK
  <1>6. HistoryFrames \in Seq(Frames) /\ \A S \in SUBSET Events : EventFrames(S) \in Seq(Frames)
    <2>1. Elements(recorded) \subseteq Events
      BY <1>1 DEF Elements
    <2>2. /\ [type |-> "history", ids |-> Elements(recorded)] \in Frames
          /\ \A S \in SUBSET Events : [type |-> "events", ids |-> S] \in Frames
      BY <2>1 DEF Frames
    <2>3. \A f \in Frames : <<f>> \in Seq(Frames)
      OBVIOUS
    <2> QED BY <2>2, <2>3, EmptyTypes DEF HistoryFrames, EventFrames
  <1>7. CASE Accept
    <2>1. Memory' = Memory
      BY <1>7 DEF Accept, Memory
    <2> QED BY <1>6, <1>7, <2>1, Same DEF Accept, FramesOnOpen, TypeOK
  <1>8. CASE Subscribe
    <2> DEFINE last == Head(upward).seq
    <2>1. Memory' = Memory
      BY <1>8 DEF Subscribe, Memory
    <2>2. Replay(last) \in Seq(Frames)
      <3> DEFINE missed == {i \in Elements(buffer) : events[i].seq > last}
                 transient == {i \in missed : events[i].kind = "transient"}
      <3>1. missed \in SUBSET Events /\ transient \in SUBSET Events
        BY <1>1 DEF Elements
      <3> HIDE DEF missed, transient
      <3>2. /\ EventFrames(missed) \in Seq(Frames) /\ EventFrames(transient) \in Seq(Frames)
            /\ HistoryFrames \in Seq(Frames) /\ <<>> \in Seq(Frames)
        BY <1>6, <3>1
      <3>3. \A p, q \in Seq(Frames) : p \o q \in Seq(Frames)
        OBVIOUS
      <3> QED BY <3>2, <3>3 DEF Replay, missed, transient
    <2>3. down' \in Seq(Frames) /\ upward' \in Seq(UpFrames)
      BY <1>8, <2>2 DEF Subscribe, TypeOK
    <2> QED BY <1>8, <2>1, <2>3, Same DEF Subscribe, TypeOK
  <1>9. CASE TakeMessage
    <2> DEFINE i == Head(upward).id
    <2>1. i \in Events /\ upward' \in Seq(UpFrames)
      <3>1. upward \in Seq(UpFrames) /\ upward # <<>> /\ Head(upward).type = "message"
            /\ upward' = Tail(upward)
        BY <1>9 DEF TakeMessage, TypeOK
      <3>2. Head(upward) \in UpFrames /\ Tail(upward) \in Seq(UpFrames)
        BY <3>1
      <3> QED BY <3>1, <3>2 DEF UpFrames
    <2>2. CASE i \in processed
      <3>1. Memory' = Memory /\ UNCHANGED events
        BY <1>9, <2>2 DEF TakeMessage, Memory
      <3> QED BY <1>9, <2>1, <2>2, <3>1, Same DEF TakeMessage, TypeOK
    <2>3. CASE i \notin processed
      <3>1. /\ events' = [events EXCEPT ![i].seq = nextSeq] /\ processed' = processed \union {i}
            /\ Broadcast(i) /\ Record(i)
        BY <1>9, <2>3 DEF TakeMessage
      <3>2. events' \in Seq(Entries) /\ Len(events') = Len(events)
        <4>1. events \in Seq(Entries) /\ i \in DOMAIN events
          BY <2>1 DEF TypeOK, Entries, Events
        <4>2. [events[i] EXCEPT !.seq = nextSeq] \in Entries
          <5>1. events[i] \in Entries /\ nextSeq \in Nat
            BY <1>1, <4>1
          <5> QED BY <5>1 DEF Entries
        <4>3. events' = [events EXCEPT ![i] = [events[i] EXCEPT !.seq = nextSeq]]
          BY <3>1, <4>1
        <4> QED BY <4>1, <4>2, <4>3
      <3>3. Events' = Events /\ Frames' = Frames /\ UpFrames' = UpFrames /\ Dialogs' = Dialogs
        BY <3>2 DEF Events, Frames, UpFrames, Dialogs
      <3>4. down \in Seq(Frames)
        BY DEF TypeOK
      <3>5. /\ nextSeq' \in Nat \ {0} /\ down' \in Seq(Frames')
            /\ buffer' \in Seq(Events') /\ Len(buffer') <= BufferLimit
            /\ recorded' \in Seq(Events') /\ Len(recorded') <= HistoryLimit
        BY <1>1, <2>1, <3>1, <3>3, <3>4, PublishType
      <3>6. Memory' \in Dialogs'
        BY <1>1, <2>1, <3>1, <3>3, <3>5 DEF Memory, Dialogs
      <3> QED BY <1>9, <2>1, <3>2, <3>3, <3>5, <3>6 DEF TakeMessage, TypeOK, Entries
    <2> QED BY <2>2, <2>3
  <1> QED BY <1>2, <1>3, <1>4, <1>5, <1>7, <1>8, <1>9 DEF ServerStep

LEMMA TabTypeStep ==
    ASSUME TypeOK, TabStep \/ Break \/ Refuse
    PROVE  TypeOK'
  <1> USE ChannelAssumption DEF server, wire, tab, ghosts
  <1>1. UNCHANGED server => Memory' = Memory
    BY DEF Memory
  <1>2. Sinking \subseteq Events
    BY DEF Sinking, TypeOK, UpFrames
  <1>3. Elements(queue) \subseteq Events
    BY DEF Elements, TypeOK
  <1>0. \A kind : Fault(kind) => faults' \in 0 .. MaxFaults
    BY DEF Fault, TypeOK
  <1>4. CASE OnOpen
    <2>1. QueuedFrames \in Seq(UpFrames)
      <3>1. queue \in Seq(Events) /\ Len(queue) \in Nat /\ DOMAIN queue = 1 .. Len(queue)
        BY DEF TypeOK
      <3>2. \A k \in 1 .. Len(queue) : [type |-> "message", id |-> queue[k]] \in UpFrames
        BY <3>1 DEF UpFrames
      <3>3. QueuedFrames \in [1 .. Len(queue) -> UpFrames]
        BY <3>1, <3>2 DEF QueuedFrames
      <3> QED BY <3>1, <3>3
    <2>2. [type |-> "subscribe", seq |-> lastSeq] \in UpFrames
      BY DEF UpFrames, TypeOK
    <2>3. <<[type |-> "subscribe", seq |-> lastSeq]>> \o QueuedFrames \in Seq(UpFrames)
      BY <2>1, <2>2
    <2> QED BY <1>1, <1>4, <2>3, Same, EmptyTypes DEF OnOpen, TypeOK
  <1>5. CASE Receive
    <2> DEFINE f == Head(down)
    <2>1. down' \in Seq(Frames) /\ f \in Frames
      BY <1>5 DEF Receive, TypeOK
    <2>2. f.ids \subseteq Events /\ Fresh(f) \subseteq Events
      BY <2>1 DEF Frames, Fresh
    <2>3. \A i \in Events : events[i].seq \in Nat
      <3>1. events \in Seq(Entries)
        BY DEF TypeOK, Entries
      <3>2. \A i \in Events : events[i] \in Entries
        BY <3>1 DEF Events
      <3> QED BY <3>2 DEF Entries
    <2>4. shown' \subseteq Events /\ lastSeq' \in Nat /\ twice' \subseteq Events
      BY <1>5, <2>2, <2>3 DEF Receive, TypeOK
    <2> QED BY <1>1, <1>5, <2>1, <2>4, Same DEF Receive, TypeOK
  <1>6. CASE Send
    <2> DEFINE e == [kind |-> "message", seq |-> 0]
               i == Len(events')
    <2>1. e \in Entries /\ events \in Seq(Entries) /\ events' = Append(events, e)
      BY <1>6 DEF Send, Entries, Kinds, TypeOK
    <2> HIDE DEF e
    <2>2. /\ Events \subseteq Events' /\ Seq(Events) \subseteq Seq(Events')
          /\ Seq(Frames) \subseteq Seq(Frames') /\ Seq(UpFrames) \subseteq Seq(UpFrames')
          /\ Dialogs \subseteq Dialogs' /\ events' \in Seq(Entries)
          /\ Len(events') = Len(events) + 1 /\ i \in Events'
      BY <2>1, Grow
    <2>3. Len(events') <= MaxEvents
      BY <1>6, <2>1, <2>2 DEF Send
    <2> HIDE DEF i
    <2>4. /\ Memory' \in Dialogs' /\ saved' \in Dialogs' /\ down' \in Seq(Frames')
          /\ upward \in Seq(UpFrames') /\ queue \in Seq(Events')
          /\ shown \subseteq Events' /\ twice' \subseteq Events' /\ lost \subseteq Events'
      BY <1>1, <1>6, <2>2 DEF Send, TypeOK
    <2>5. [type |-> "message", id |-> i] \in UpFrames'
      BY <2>2 DEF UpFrames
    <2>6. /\ shown' = shown \union {i}
          /\ queue' = IF conn = "open" THEN queue ELSE Append(queue, i)
          /\ upward' = IF conn = "open" /\ link = "ok"
                       THEN Append(upward, [type |-> "message", id |-> i]) ELSE upward
          /\ lost' = IF conn = "open" /\ link = "dead" THEN lost \union {i} ELSE lost
      BY <1>6 DEF Send, i
    <2>7. /\ shown' \subseteq Events' /\ queue' \in Seq(Events') /\ upward' \in Seq(UpFrames')
          /\ lost' \subseteq Events'
      BY <2>2, <2>4, <2>5, <2>6
    <2> QED BY <1>6, <2>2, <2>3, <2>4, <2>6, <2>7 DEF Send, TypeOK, Entries
  <1>7. CASE Break
    <2>1. lost' \subseteq Events
      BY <1>2, <1>7 DEF Break, TypeOK
    <2> QED BY <1>1, <1>0, <1>7, <2>1, Same, EmptyTypes DEF Break, TypeOK
  <1>8. CASE Refuse
    BY <1>1, <1>8, Same DEF Refuse, TypeOK
  <1>9. CASE OnClose
    BY <1>1, <1>9, Same DEF OnClose, Noticed, TypeOK
  <1>10. CASE TimerFires
    BY <1>1, <1>10, Same, EmptyTypes DEF TimerFires, Connect, TypeOK
  <1>11. CASE Poll
    BY <1>1, <1>11, Same, EmptyTypes DEF Poll, Connect, TypeOK
  <1>12. CASE Hide
    BY <1>1, <1>0, <1>12, Same DEF Hide, TypeOK
  <1>13. CASE Show
    BY <1>1, <1>13, Same, EmptyTypes DEF Show, Connect, TypeOK
  <1>14. CASE Reload
    <2>1. lost' \subseteq Events
      BY <1>2, <1>3, <1>14 DEF Reload, TypeOK
    <2> QED BY <1>1, <1>0, <1>14, <2>1, Same, EmptyTypes DEF Reload, TypeOK
  <1>15. CASE Disconnect
    <2>1. lost' \subseteq Events
      BY <1>2, <1>3, <1>15 DEF Disconnect, TypeOK
    <2> QED BY <1>1, <1>0, <1>15, <2>1, Same, EmptyTypes DEF Disconnect, TypeOK
  <1> QED BY <1>4, <1>5, <1>6, <1>7, <1>8, <1>9, <1>10, <1>11, <1>12, <1>13, <1>14, <1>15
          DEF TabStep

LEMMA TypeStep == TypeOK /\ [Next]_vars => TypeOK'
  <1> SUFFICES ASSUME TypeOK, [Next]_vars PROVE TypeOK'
    OBVIOUS
  <1>1. CASE UNCHANGED vars
    <2>1. Memory' = Memory /\ UNCHANGED events
      BY <1>1 DEF vars, server, ghosts, Memory
    <2> QED BY <1>1, <2>1, Same DEF vars, server, wire, tab, ghosts, TypeOK
  <1>2. CASE Next
    BY <1>2, ServerTypeStep, TabTypeStep DEF Next
  <1> QED BY <1>1, <1>2

(* Every variable keeps its type: the buffer and the history stay within   *)
(* their limits, in memory and in the file, over every restart.            *)
THEOREM TypeCorrect == Spec => []TypeOK
  <1>1. Init => TypeOK
    <2> SUFFICES ASSUME Init PROVE TypeOK
      OBVIOUS
    <2>1. Memory \in Dialogs /\ saved = Memory
      BY EmptyTypes, ChannelAssumption DEF Init, Memory, Dialogs
    <2>2. /\ events = <<>> /\ down = <<>> /\ upward = <<>> /\ queue = <<>>
          /\ up = TRUE /\ conn = "connecting" /\ link = "pending" /\ lastSeq = 0
          /\ shown = {} /\ timer = FALSE /\ hidden = FALSE /\ torn = FALSE
          /\ twice = {} /\ lost = {} /\ faults = 0
      BY DEF Init
    <2>3. 0 <= MaxEvents /\ 0 \in 0 .. MaxFaults
      BY ChannelAssumption
    <2> QED BY <2>1, <2>2, <2>3, EmptyTypes DEF TypeOK
  <1> QED BY <1>1, TypeStep, PTL DEF Spec

-----------------------------------------------------------------------------
(***************************************************************************)
(* What the two theorems below rest on.                                    *)
(***************************************************************************)

(* Messages on their way from the tab have no number yet, and each is on   *)
(* its way once.                                                           *)
Sent(i) == events[i].kind = "message" /\ events[i].seq = 0
Queued ==
    /\ \A k \in DOMAIN queue : Sent(queue[k])
    /\ \A k, l \in DOMAIN queue : k # l => queue[k] # queue[l]
Climbing ==
    /\ \A k \in DOMAIN upward : upward[k].type = "message" => Sent(upward[k].id)
    /\ \A k, l \in DOMAIN upward :
          k # l /\ upward[k].type = "message" /\ upward[l].type = "message" =>
              upward[k].id # upward[l].id

(* What the server keeps, and what it has written down, has numbers below  *)
(* the next one; only entries of the conversation are recorded.            *)
Numbered(d) ==
    /\ \A i \in Elements(d.buffer) : events[i].seq \in 1 .. d.nextSeq - 1
    /\ \A i \in Elements(d.recorded) :
          events[i].seq \in 1 .. d.nextSeq - 1 /\ events[i].kind # "transient"

(* So have the frames on their way to the tab.                             *)
FrameNumbered(f) ==
    \A i \in f.ids :
        /\ events[i].seq \in 1 .. nextSeq - 1
        /\ f.type = "history" => events[i].kind # "transient"
DownNumbered == \A f \in Elements(down) : FrameNumbered(f)

NumbersInv ==
    /\ Queued /\ Climbing
    /\ Numbered(Memory) /\ Numbered(saved)
    /\ DownNumbered

(* The tab is not ahead of the server, unless the server forgot numbers.   *)
CursorBehind == ~torn => lastSeq < (IF up THEN nextSeq ELSE saved.nextSeq)

(* What was shown of a stream is not beyond the cursor.                    *)
ShownBehind == \A i \in shown : events[i].kind = "transient" => events[i].seq <= lastSeq

(* An entry is in a history frame under way, or in an event frame that     *)
(* finds the cursor before it.                                             *)
InHistory(i) == \E k \in DOMAIN down : down[k].type = "history" /\ i \in down[k].ids
Coming(i) ==
    /\ lastSeq < events[i].seq
    /\ \E k \in DOMAIN down :
          /\ down[k].type = "events" /\ i \in down[k].ids
          /\ \A l \in DOMAIN down : l < k /\ down[l].type = "events" =>
                \A x \in down[l].ids : events[x].seq < events[i].seq

NothingHidden ==
    link = "ok" /\ ~torn =>
        \A i \in Elements(recorded) : i \in shown \/ InHistory(i) \/ Coming(i)

-----------------------------------------------------------------------------
(***************************************************************************)
(* Numbers.                                                                *)
(***************************************************************************)

(* What a sequence holds. *)
LEMMA ElementsOf ==
    ASSUME NEW S, NEW s \in Seq(S), NEW t \in Seq(S), NEW e \in S
    PROVE  /\ Elements(<<>>) = {}
           /\ Elements(Append(s, e)) = Elements(s) \union {e}
           /\ Elements(s \o t) = Elements(s) \union Elements(t)
           /\ s # <<>> => Head(s) \in Elements(s) /\ Elements(Tail(s)) \subseteq Elements(s)
  <1>1. Elements(<<>>) = {}
    BY DEF Elements
  <1>2. Elements(Append(s, e)) = Elements(s) \union {e}
    <2>1. /\ DOMAIN Append(s, e) = 1 .. Len(s) + 1 /\ DOMAIN s = 1 .. Len(s) /\ Len(s) \in Nat
          /\ Append(s, e)[Len(s) + 1] = e /\ \A k \in 1 .. Len(s) : Append(s, e)[k] = s[k]
      OBVIOUS
    <2>2. \A k \in 1 .. Len(s) + 1 : k \in 1 .. Len(s) \/ k = Len(s) + 1
      BY <2>1
    <2> QED BY <2>1, <2>2 DEF Elements
  <1>3. Elements(s \o t) = Elements(s) \union Elements(t)
    <2>1. /\ DOMAIN (s \o t) = 1 .. Len(s) + Len(t) /\ Len(s) \in Nat /\ Len(t) \in Nat
          /\ DOMAIN s = 1 .. Len(s) /\ DOMAIN t = 1 .. Len(t)
          /\ \A k \in 1 .. Len(s) : (s \o t)[k] = s[k]
          /\ \A k \in 1 .. Len(t) : (s \o t)[Len(s) + k] = t[k]
      OBVIOUS
    <2>2. \A k \in 1 .. Len(s) + Len(t) :
             k \in 1 .. Len(s) \/ (k - Len(s) \in 1 .. Len(t) /\ k = Len(s) + (k - Len(s)))
      BY <2>1
    <2>3. Elements(s \o t) \subseteq Elements(s) \union Elements(t)
      BY <2>1, <2>2 DEF Elements
    <2>4. /\ \A k \in 1 .. Len(s) : k \in 1 .. Len(s) + Len(t)
          /\ \A k \in 1 .. Len(t) : Len(s) + k \in 1 .. Len(s) + Len(t)
      BY <2>1
    <2>5. Elements(s) \subseteq Elements(s \o t) /\ Elements(t) \subseteq Elements(s \o t)
      BY <2>1, <2>4 DEF Elements
    <2> QED BY <2>3, <2>5
  <1>4. s # <<>> => Head(s) \in Elements(s) /\ Elements(Tail(s)) \subseteq Elements(s)
    <2> HAVE s # <<>>
    <2>1. /\ Head(s) = s[1] /\ 1 \in DOMAIN s
          /\ \A k \in DOMAIN Tail(s) : k + 1 \in DOMAIN s /\ Tail(s)[k] = s[k + 1]
      OBVIOUS
    <2> QED BY <2>1 DEF Elements
  <1> QED BY <1>1, <1>2, <1>3, <1>4

LEMMA NewestHolds ==
    ASSUME NEW S, NEW s \in Seq(S), NEW e \in S, NEW n \in Nat \ {0}
    PROVE  Elements(Newest(Append(s, e), n)) \subseteq Elements(s) \union {e}
  <1> DEFINE a == Append(s, e)
  <1>1. a \in Seq(S) /\ Elements(a) = Elements(s) \union {e}
    BY ElementsOf
  <1> HIDE DEF a
  <1>2. \A k \in DOMAIN Newest(a, n) : \E l \in DOMAIN a : Newest(a, n)[k] = a[l]
    BY <1>1, NewestIs
  <1>3. Elements(Newest(a, n)) \subseteq Elements(a)
    BY <1>2 DEF Elements
  <1> QED BY <1>1, <1>3 DEF a

LEMMA TypeFacts ==
    ASSUME TypeOK
    PROVE  /\ nextSeq \in Nat \ {0} /\ saved.nextSeq \in Nat \ {0}
           /\ buffer \in Seq(Events) /\ recorded \in Seq(Events)
           /\ saved.buffer \in Seq(Events) /\ saved.recorded \in Seq(Events)
           /\ down \in Seq(Frames) /\ upward \in Seq(UpFrames) /\ queue \in Seq(Events)
           /\ events \in Seq(Entries) /\ Events = 1 .. Len(events) /\ Len(events) \in Nat
           /\ \A i \in Events : events[i].seq \in Nat
           /\ \A f \in Elements(down) : f.ids \subseteq Events
           /\ \A k \in DOMAIN upward : upward[k].type = "message" => upward[k].id \in Events
           /\ lastSeq \in Nat /\ shown \subseteq Events
           /\ \A k \in DOMAIN queue : queue[k] \in Events
           /\ Elements(buffer) \subseteq Events /\ Elements(recorded) \subseteq Events
           /\ Elements(saved.buffer) \subseteq Events /\ Elements(saved.recorded) \subseteq Events
  <1>1. /\ nextSeq \in Nat \ {0} /\ buffer \in Seq(Events) /\ recorded \in Seq(Events)
    BY MemoryType DEF TypeOK
  <1>2. /\ saved.nextSeq \in Nat \ {0}
        /\ saved.buffer \in Seq(Events) /\ saved.recorded \in Seq(Events)
    BY DEF TypeOK, Dialogs
  <1>3. /\ down \in Seq(Frames) /\ upward \in Seq(UpFrames) /\ queue \in Seq(Events)
        /\ events \in Seq(Entries) /\ lastSeq \in Nat /\ shown \subseteq Events
    BY DEF TypeOK, Entries
  <1>4. Events = 1 .. Len(events) /\ Len(events) \in Nat
    BY <1>3 DEF Events
  <1>5. \A i \in Events : events[i].seq \in Nat
    <2>1. \A i \in Events : events[i] \in Entries
      BY <1>3, <1>4
    <2> QED BY <2>1 DEF Entries
  <1>6. \A f \in Elements(down) : f.ids \subseteq Events
    <2>1. \A f \in Elements(down) : f \in Frames
      BY <1>3 DEF Elements
    <2> QED BY <2>1 DEF Frames
  <1>7. \A k \in DOMAIN upward : upward[k].type = "message" => upward[k].id \in Events
    <2>1. \A k \in DOMAIN upward : upward[k] \in UpFrames
      BY <1>3
    <2> QED BY <2>1 DEF UpFrames
  <1>8. /\ \A k \in DOMAIN queue : queue[k] \in Events
        /\ Elements(buffer) \subseteq Events /\ Elements(recorded) \subseteq Events
        /\ Elements(saved.buffer) \subseteq Events /\ Elements(saved.recorded) \subseteq Events
    BY <1>1, <1>2, <1>3 DEF Elements
  <1> QED BY <1>1, <1>2, <1>3, <1>4, <1>5, <1>6, <1>7, <1>8

(* Events that have a number keep it.                                      *)
Kept == \A i \in Events : events[i].seq # 0 => events'[i] = events[i]

LEMMA StaysNumbered ==
    ASSUME TypeOK, Kept, nextSeq' \in Nat, nextSeq' >= nextSeq
    PROVE  /\ Numbered(saved) /\ UNCHANGED saved => Numbered(saved)'
           /\ DownNumbered => \A f \in Elements(down) : f.ids \subseteq Events
                  /\ \A i \in f.ids : /\ events'[i].seq \in 1 .. nextSeq' - 1
                                      /\ f.type = "history" => events'[i].kind # "transient"
  <1>1. ASSUME Numbered(saved), UNCHANGED saved PROVE Numbered(saved)'
    <2>0. \A i : events[i].seq \in 1 .. saved.nextSeq - 1 => events[i].seq # 0
      BY TypeFacts
    <2>1. /\ \A i \in Elements(saved.buffer) : i \in Events /\ events[i].seq # 0
          /\ \A i \in Elements(saved.recorded) : i \in Events /\ events[i].seq # 0
      BY <1>1, <2>0, TypeFacts DEF Numbered
    <2>2. /\ \A i \in Elements(saved.buffer) : events'[i] = events[i]
          /\ \A i \in Elements(saved.recorded) : events'[i] = events[i]
      BY <2>1 DEF Kept
    <2> QED BY <1>1, <2>2 DEF Numbered, Elements
  <1>2. ASSUME DownNumbered, NEW f \in Elements(down), NEW i \in f.ids
        PROVE  /\ i \in Events /\ events'[i].seq \in 1 .. nextSeq' - 1
               /\ f.type = "history" => events'[i].kind # "transient"
    <2>1. i \in Events /\ events[i].seq \in 1 .. nextSeq - 1 /\ nextSeq \in Nat
      BY <1>2, TypeFacts DEF DownNumbered, FrameNumbered
    <2>2. events'[i] = events[i]
      BY <2>1 DEF Kept
    <2>3. f.type = "history" => events[i].kind # "transient"
      BY <1>2 DEF DownNumbered, FrameNumbered
    <2> QED BY <2>1, <2>2, <2>3
  <1> QED BY <1>1, <1>2

(* What is published has the number that was next. *)
LEMMA PublishNumbers ==
    ASSUME TypeOK, Numbered(Memory), DownNumbered, Kept,
           NEW i, Broadcast(i), Record(i), events'[i].seq = nextSeq
    PROVE  Numbered(Memory)' /\ DownNumbered'
  <1>1. nextSeq' = nextSeq + 1 /\ nextSeq \in Nat \ {0}
    BY TypeFacts DEF Broadcast
  <1>2. \A j \in Elements(buffer) : events'[j].seq \in 1 .. nextSeq' - 1
    <2> TAKE j \in Elements(buffer)
    <2>1. j \in Events /\ events[j].seq \in 1 .. nextSeq - 1
      BY TypeFacts DEF Numbered, Memory
    <2>2. events'[j] = events[j]
      BY <1>1, <2>1 DEF Kept
    <2> QED BY <1>1, <2>1, <2>2
  <1>3. \A j \in Elements(recorded) :
           events'[j].seq \in 1 .. nextSeq' - 1 /\ events'[j].kind # "transient"
    <2> TAKE j \in Elements(recorded)
    <2>1. j \in Events /\ events[j].seq \in 1 .. nextSeq - 1 /\ events[j].kind # "transient"
      BY TypeFacts DEF Numbered, Memory
    <2>2. events'[j] = events[j]
      BY <1>1, <2>1 DEF Kept
    <2> QED BY <1>1, <2>1, <2>2
  <1>4. events'[i].seq \in 1 .. nextSeq' - 1
    BY <1>1
  <1>5. Elements(buffer') \subseteq Elements(buffer) \union {i}
    <2>1. buffer \in Seq(Events \union {i})
      BY TypeFacts, SeqGrows
    <2> QED BY <2>1, NewestHolds, ChannelAssumption DEF Broadcast
  <1>6. \/ recorded' = recorded
        \/ HistoryBacked(i) /\ Elements(recorded') \subseteq Elements(recorded) \union {i}
    <2>1. recorded \in Seq(Events \union {i})
      BY TypeFacts, SeqGrows
    <2> QED BY <2>1, NewestHolds, ChannelAssumption DEF Record
  <1>7. \A j \in Elements(recorded') :
           events'[j].seq \in 1 .. nextSeq' - 1 /\ events'[j].kind # "transient"
    <2>1. HistoryBacked(i) => events'[i].kind # "transient"
      BY DEF HistoryBacked
    <2> QED BY <1>3, <1>4, <1>6, <2>1
  <1>8. Numbered(Memory)'
    BY <1>2, <1>4, <1>5, <1>7 DEF Numbered, Memory, Elements
  <1>9. DownNumbered'
    <2> DEFINE f == [type |-> "events", ids |-> {i}]
    <2>1. f.ids = {i} /\ f.type = "events"
      OBVIOUS
    <2>2. down' = down \/ down' = Append(down, f)
      BY DEF Broadcast
    <2> HIDE DEF f
    <2>3. Elements(down') \subseteq Elements(down) \union {f}
      <3>1. down \in Seq(Frames \union {f}) /\ f \in Frames \union {f}
        BY TypeFacts, SeqGrows
      <3>2. Elements(Append(down, f)) = Elements(down) \union {f}
        BY <3>1, ElementsOf
      <3> QED BY <2>2, <3>2
    <2>4. \A g \in Elements(down') : \A j \in g.ids :
             /\ events'[j].seq \in 1 .. nextSeq' - 1
             /\ g.type = "history" => events'[j].kind # "transient"
      BY <1>1, <1>4, <2>1, <2>3, StaysNumbered
    <2> QED BY <2>4 DEF DownNumbered, FrameNumbered, Elements
  <1> QED BY <1>8, <1>9

(* Frames made of what the server keeps. *)
LEMMA FramesNumbered ==
    ASSUME Numbered(Memory)
    PROVE  /\ \A f \in Elements(HistoryFrames) : FrameNumbered(f)
           /\ \A S \in SUBSET Elements(buffer) :
                 \A f \in Elements(EventFrames(S)) : FrameNumbered(f)
  <1>1. Elements(<<>>) = {} /\ \A f : Elements(<<f>>) = {f}
    BY DEF Elements
  <1>2. \A f \in Elements(HistoryFrames) : FrameNumbered(f)
    BY <1>1 DEF HistoryFrames, FrameNumbered, Numbered, Memory
  <1>3. \A S \in SUBSET Elements(buffer) :
           \A f \in Elements(EventFrames(S)) : FrameNumbered(f)
    BY <1>1 DEF EventFrames, FrameNumbered, Numbered, Memory
  <1> QED BY <1>2, <1>3

LEMMA ReplayNumbered ==
    ASSUME TypeOK, Numbered(Memory), NEW last
    PROVE  Replay(last) \in Seq(Frames) /\ \A f \in Elements(Replay(last)) : FrameNumbered(f)
  <1> DEFINE missed == {i \in Elements(buffer) : events[i].seq > last}
             transient == {i \in missed : events[i].kind = "transient"}
             N(t) == t \in Seq(Frames) /\ \A f \in Elements(t) : FrameNumbered(f)
  <1>1. missed \in SUBSET Elements(buffer) /\ transient \in SUBSET Elements(buffer)
    OBVIOUS
  <1> HIDE DEF missed, transient
  <1>2. N(HistoryFrames) /\ N(EventFrames(missed)) /\ N(EventFrames(transient)) /\ N(<<>>)
    <2>1. HistoryFrames \in Seq(Frames)
      <3>1. [type |-> "history", ids |-> Elements(recorded)] \in Frames
        BY TypeFacts DEF Frames
      <3> QED BY <3>1 DEF HistoryFrames
    <2>2. EventFrames(missed) \in Seq(Frames) /\ EventFrames(transient) \in Seq(Frames)
      <3>1. /\ [type |-> "events", ids |-> missed] \in Frames
            /\ [type |-> "events", ids |-> transient] \in Frames
        BY <1>1, TypeFacts DEF Frames
      <3> QED BY <3>1 DEF EventFrames
    <2>3. Elements(<<>>) = {}
      BY DEF Elements
    <2> QED BY <1>1, <2>1, <2>2, <2>3, FramesNumbered
  <1>3. \A t, u : N(t) /\ N(u) => N(t \o u)
    <2> SUFFICES ASSUME NEW t \in Seq(Frames), NEW u \in Seq(Frames),
                        \A f \in Elements(t) : FrameNumbered(f),
                        \A f \in Elements(u) : FrameNumbered(f)
                 PROVE  t \o u \in Seq(Frames) /\ \A f \in Elements(t \o u) : FrameNumbered(f)
      OBVIOUS
    <2>1. [type |-> "events", ids |-> {}] \in Frames
      BY DEF Frames
    <2>2. Elements(t \o u) = Elements(t) \union Elements(u)
      BY <2>1, ElementsOf
    <2>3. t \o u \in Seq(Frames)
      OBVIOUS
    <2> QED BY <2>2, <2>3
  <1> HIDE DEF N
  <1>4. N(Replay(last))
    BY <1>2, <1>3 DEF Replay, missed, transient
  <1> QED BY <1>4 DEF N

(* A step that publishes, saves and sends nothing. *)
LEMMA QuietNumbers ==
    ASSUME NumbersInv, UNCHANGED <<events, nextSeq, buffer, recorded, processed, saved>>,
           queue' = queue \/ queue' = <<>>, upward' = upward \/ upward' = <<>>,
           Elements(down)' \subseteq Elements(down)
    PROVE  NumbersInv'
  <1>1. \A i : Sent(i)' <=> Sent(i)
    BY DEF Sent
  <1>2. Queued'
    BY <1>1 DEF NumbersInv, Queued
  <1>3. Climbing'
    BY <1>1 DEF NumbersInv, Climbing
  <1>4. Numbered(Memory)' /\ Numbered(saved)'
    BY DEF NumbersInv, Numbered, Memory, Elements
  <1>5. \A f : FrameNumbered(f)' <=> FrameNumbered(f)
    BY DEF FrameNumbered
  <1>6. DownNumbered'
    BY <1>5 DEF NumbersInv, DownNumbered
  <1> QED BY <1>2, <1>3, <1>4, <1>6 DEF NumbersInv

LEMMA NumbersStep == TypeOK /\ NumbersInv /\ [Next]_vars => NumbersInv'
  <1> SUFFICES ASSUME TypeOK, NumbersInv, [Next]_vars PROVE NumbersInv'
    OBVIOUS
  <1> USE DEF server, wire, tab, ghosts
  <1>1. /\ Queued /\ Climbing /\ Numbered(Memory) /\ Numbered(saved) /\ DownNumbered
    BY DEF NumbersInv
  <1>2. Elements(<<>>) = {}
    BY DEF Elements
  <1>3. UNCHANGED down \/ down' = <<>> => Elements(down)' \subseteq Elements(down)
    BY <1>2 DEF Elements
  <1>4. UNCHANGED events => \A i : Sent(i)' <=> Sent(i)
    BY DEF Sent
  <1>5. ASSUME NEW kind \in Published, Emit(kind) PROVE NumbersInv'
    <2> DEFINE e == [kind |-> kind, seq |-> nextSeq]
    <2>1. e \in Entries /\ e.seq = nextSeq /\ events \in Seq(Entries) /\ events' = Append(events, e)
      BY <1>5, TypeFacts DEF Emit, Entries, Kinds
    <2> HIDE DEF e
    <2> DEFINE i == Len(events')
    <2>2. events'[i].seq = nextSeq /\ \A j \in Events : events'[j] = events[j]
      BY <2>1, Grow
    <2>3. Broadcast(i) /\ Record(i) /\ UNCHANGED <<saved, queue, upward>>
      BY <1>5 DEF Emit
    <2> HIDE DEF i
    <2>4. Kept /\ nextSeq' \in Nat /\ nextSeq' >= nextSeq
      BY <2>2, <2>3, TypeFacts DEF Kept, Broadcast
    <2>5. Numbered(Memory)' /\ DownNumbered' /\ Numbered(saved)'
      BY <1>1, <2>2, <2>3, <2>4, PublishNumbers, StaysNumbered
    <2>6. \A j \in Events : Sent(j)' <=> Sent(j)
      BY <2>2 DEF Sent
    <2>7. Queued' /\ Climbing'
      BY <1>1, <2>3, <2>6, TypeFacts DEF Queued, Climbing
    <2> QED BY <2>5, <2>7 DEF NumbersInv
  <1>6. CASE Save
    <2>1. saved' = Memory /\ UNCHANGED <<events, nextSeq, buffer, recorded, processed, wire, tab>>
      BY <1>6 DEF Save
    <2>2. Numbered(Memory)' /\ Numbered(saved)'
      BY <1>1, <2>1 DEF Numbered, Memory, Elements
    <2>3. Queued' /\ Climbing'
      BY <1>1, <1>4, <2>1 DEF Queued, Climbing
    <2>4. DownNumbered'
      BY <1>1, <2>1 DEF DownNumbered, FrameNumbered, Elements
    <2> QED BY <2>2, <2>3, <2>4 DEF NumbersInv
  <1>7. CASE Boot
    <2>1. UNCHANGED <<events, saved, wire, tab>> /\ ~up
      BY <1>7 DEF Boot
    <2>2. Memory' = saved /\ Numbered(saved)'
      <3>1. Memory' = saved
        BY <1>7 DEF Boot, Memory, TypeOK, Dialogs
      <3> QED BY <1>1, <2>1, <3>1 DEF Numbered, Elements
    <2>3. Numbered(Memory)'
      BY <2>1, <2>2 DEF Numbered
    <2>4. Queued' /\ Climbing'
      BY <1>1, <1>4, <2>1 DEF Queued, Climbing
    <2>5. DownNumbered'
      BY <1>2, <2>1 DEF TypeOK, DownNumbered, Elements
    <2> QED BY <2>2, <2>3, <2>4, <2>5 DEF NumbersInv
  <1>8. CASE Accept
    <2>1. UNCHANGED <<events, server, upward, queue>> /\ down' = HistoryFrames
      BY <1>8 DEF Accept, FramesOnOpen
    <2>2. Numbered(Memory)' /\ Numbered(saved)'
      BY <1>1, <2>1 DEF Numbered, Memory, Elements
    <2>3. Queued' /\ Climbing'
      BY <1>1, <1>4, <2>1 DEF Queued, Climbing
    <2>4. \A f \in Elements(down') : FrameNumbered(f)
      BY <1>1, <2>1, FramesNumbered
    <2>5. DownNumbered'
      BY <2>1, <2>4 DEF DownNumbered, FrameNumbered, Elements
    <2> QED BY <2>2, <2>3, <2>5 DEF NumbersInv
  <1>9. CASE Subscribe
    <2>1. /\ UNCHANGED <<events, server, queue>> /\ upward # <<>>
          /\ upward' = Tail(upward) /\ down' = down \o Replay(Head(upward).seq)
      BY <1>9 DEF Subscribe
    <2>2. Numbered(Memory)' /\ Numbered(saved)'
      BY <1>1, <2>1 DEF Numbered, Memory, Elements
    <2>3. Queued'
      BY <1>1, <1>4, <2>1 DEF Queued
    <2>4. Climbing'
      <3>1. \A k \in DOMAIN Tail(upward) : k + 1 \in DOMAIN upward /\ Tail(upward)[k] = upward[k + 1]
        BY <2>1, TypeFacts
      <3>2. \A k, l \in DOMAIN Tail(upward) : k # l => k + 1 # l + 1
        OBVIOUS
      <3> QED BY <1>1, <1>4, <2>1, <3>1, <3>2 DEF Climbing
    <2>5. DownNumbered'
      <3> DEFINE r == Replay(Head(upward).seq)
      <3>1. r \in Seq(Frames) /\ \A f \in Elements(r) : FrameNumbered(f)
        BY <1>1, ReplayNumbered
      <3> HIDE DEF r
      <3>2. Elements(down \o r) = Elements(down) \union Elements(r)
        <4>1. down \in Seq(Frames) /\ [type |-> "events", ids |-> {}] \in Frames
          BY TypeFacts DEF Frames
        <4> QED BY <3>1, <4>1, ElementsOf
      <3>3. \A f \in Elements(down') : FrameNumbered(f)
        BY <1>1, <2>1, <3>1, <3>2 DEF r, DownNumbered
      <3> QED BY <2>1, <3>3 DEF DownNumbered, FrameNumbered, Elements
    <2> QED BY <2>2, <2>3, <2>4, <2>5 DEF NumbersInv
  <1>10. CASE TakeMessage
    <2> DEFINE i == Head(upward).id
    <2>1. /\ upward # <<>> /\ Head(upward).type = "message" /\ upward' = Tail(upward)
          /\ UNCHANGED <<queue, saved>>
      BY <1>10 DEF TakeMessage
    <2>2. /\ \A k \in DOMAIN Tail(upward) : k + 1 \in DOMAIN upward /\ Tail(upward)[k] = upward[k + 1]
          /\ \A k \in DOMAIN Tail(upward) : k \in Nat
          /\ Head(upward) = upward[1] /\ 1 \in DOMAIN upward
      BY <2>1, TypeFacts
    <2>3. i \in Events /\ Sent(i)
      BY <1>1, <2>1, <2>2, TypeFacts DEF Climbing
    <2>4. \A k \in DOMAIN Tail(upward) :
             Tail(upward)[k].type = "message" => Tail(upward)[k].id # i
      <3>1. \A k \in DOMAIN Tail(upward) : k + 1 # 1
        BY <2>2
      <3> QED BY <1>1, <2>1, <2>2, <3>1 DEF Climbing
    <2>5. \A k, l \in DOMAIN Tail(upward) : k # l => k + 1 # l + 1
      BY <2>2
    <2>6. queue = <<>>
      BY <2>1 DEF TypeOK
    <2>7. CASE i \in processed
      <3>1. UNCHANGED <<nextSeq, buffer, recorded, processed, down, events>>
        BY <1>10, <2>7 DEF TakeMessage
      <3>2. Numbered(Memory)' /\ Numbered(saved)' /\ DownNumbered' /\ Queued'
        BY <1>1, <2>1, <2>6, <3>1
           DEF Numbered, Memory, DownNumbered, FrameNumbered, Elements, Queued
      <3>3. Climbing'
        BY <1>1, <1>4, <2>1, <2>2, <2>5, <3>1 DEF Climbing
      <3> QED BY <3>2, <3>3 DEF NumbersInv
    <2>8. CASE i \notin processed
      <3>1. events' = [events EXCEPT ![i].seq = nextSeq] /\ Broadcast(i) /\ Record(i)
        BY <1>10, <2>8 DEF TakeMessage
      <3>2. events'[i].seq = nextSeq /\ \A j \in Events : j # i => events'[j] = events[j]
        <4>1. i \in DOMAIN events /\ \A j \in Events : j \in DOMAIN events
          BY <2>3, TypeFacts
        <4>2. events[i] \in Entries
          BY <4>1, TypeFacts
        <4> DEFINE e == [events[i] EXCEPT !.seq = nextSeq]
        <4>3. e.seq = nextSeq
          BY <4>2 DEF Entries
        <4>4. events' = [events EXCEPT ![i] = e]
          BY <3>1, <4>1
        <4> HIDE DEF e, i
        <4> QED BY <4>1, <4>3, <4>4
      <3>3. Kept /\ nextSeq' \in Nat /\ nextSeq' >= nextSeq
        <4>1. nextSeq' = nextSeq + 1
          BY <3>1 DEF Broadcast
        <4> QED BY <2>3, <3>2, <4>1, TypeFacts DEF Kept, Sent
      <3>4. Numbered(Memory)' /\ DownNumbered' /\ Numbered(saved)'
        BY <1>1, <2>1, <3>1, <3>2, <3>3, PublishNumbers, StaysNumbered
      <3>5. \A j \in Events : j # i => (Sent(j)' <=> Sent(j))
        BY <3>2 DEF Sent
      <3>6. Climbing'
        <4>1. \A k \in DOMAIN Tail(upward) : Tail(upward)[k].type = "message" =>
                 Tail(upward)[k].id \in Events
          BY <2>2, TypeFacts
        <4>2. \A k \in DOMAIN Tail(upward) : Tail(upward)[k].type = "message" =>
                 Sent(Tail(upward)[k].id)
          BY <1>1, <2>2 DEF Climbing
        <4> QED BY <1>1, <2>1, <2>2, <2>4, <2>5, <3>5, <4>1, <4>2 DEF Climbing
      <3>7. Queued'
        BY <2>1, <2>6 DEF Queued
      <3> QED BY <3>4, <3>6, <3>7 DEF NumbersInv
    <2> QED BY <2>7, <2>8
  <1>11. CASE OnOpen
    <2>1. /\ UNCHANGED <<events, server, down>> /\ queue' = <<>>
          /\ upward' = <<[type |-> "subscribe", seq |-> lastSeq]>> \o QueuedFrames
      BY <1>11 DEF OnOpen
    <2>2. Numbered(Memory)' /\ Numbered(saved)' /\ DownNumbered' /\ Queued'
      BY <1>1, <2>1 DEF Numbered, Memory, DownNumbered, FrameNumbered, Elements, Queued
    <2>3. /\ \A k \in DOMAIN upward' : upward'[k].type = "message" =>
                k - 1 \in DOMAIN queue /\ upward'[k].id = queue[k - 1] /\ k \in Nat
      <3> DEFINE q == QueuedFrames
                 h == [type |-> "subscribe", seq |-> lastSeq]
                 T == UpFrames \union {h}
      <3>1. /\ DOMAIN queue = 1 .. Len(queue) /\ Len(queue) \in Nat
            /\ \A k \in 1 .. Len(queue) : queue[k] \in Events
        BY TypeFacts
      <3>2. q \in Seq(UpFrames) /\ Len(q) = Len(queue)
            /\ \A k \in 1 .. Len(q) : q[k].id = queue[k]
        <4>1. \A k \in 1 .. Len(queue) : [type |-> "message", id |-> queue[k]] \in UpFrames
          BY <3>1 DEF UpFrames
        <4>2. q \in [1 .. Len(queue) -> UpFrames]
          BY <3>1, <4>1 DEF QueuedFrames
        <4> QED BY <3>1, <4>2 DEF QueuedFrames
      <3>3. h.type = "subscribe"
        OBVIOUS
      <3> HIDE DEF q, h
      <3>4. /\ DOMAIN (<<h>> \o q) = 1 .. Len(q) + 1 /\ (<<h>> \o q)[1] = h
            /\ \A k \in 2 .. Len(q) + 1 : (<<h>> \o q)[k] = q[k - 1]
        <4>1. q \in Seq(T) /\ <<h>> \in Seq(T) /\ Len(<<h>>) = 1 /\ <<h>>[1] = h /\ Len(q) \in Nat
          BY <3>2, SeqGrows
        <4> HIDE DEF T
        <4> QED BY <4>1
      <3>5. upward' = <<h>> \o q
        BY <2>1 DEF h, q
      <3>6. \A k \in 1 .. Len(q) + 1 : upward'[k].type = "message" => k \in 2 .. Len(q) + 1
        BY <3>1, <3>2, <3>3, <3>4, <3>5
      <3>7. \A k \in 2 .. Len(q) + 1 : k - 1 \in 1 .. Len(q) /\ k \in Nat
        BY <3>1, <3>2
      <3> QED BY <3>1, <3>2, <3>4, <3>5, <3>6, <3>7
    <2>4. \A k, l \in Nat : k # l => k - 1 # l - 1
      OBVIOUS
    <2>5. Climbing'
      BY <1>1, <1>4, <2>1, <2>3, <2>4 DEF Climbing, Queued
    <2> QED BY <2>2, <2>5 DEF NumbersInv
  <1>12. CASE Receive
    <2>1. Elements(down)' \subseteq Elements(down)
      <3>1. down \in Seq(Frames) /\ down # <<>> /\ down' = Tail(down)
        BY <1>12, TypeFacts DEF Receive
      <3>2. \A k \in DOMAIN Tail(down) : k + 1 \in DOMAIN down /\ Tail(down)[k] = down[k + 1]
        BY <3>1
      <3> QED BY <3>1, <3>2 DEF Elements
    <2> QED BY <1>12, <2>1, QuietNumbers DEF Receive
  <1>13. CASE Send
    <2>0. PICK i : i = Len(events')
      OBVIOUS
    <2> DEFINE e == [kind |-> "message", seq |-> 0]
               m == [type |-> "message", id |-> i]
    <2>1. e \in Entries /\ events \in Seq(Entries) /\ events' = Append(events, e)
          /\ e.kind = "message" /\ e.seq = 0
      BY <1>13, TypeFacts DEF Send, Entries, Kinds
    <2> HIDE DEF e
    <2>2. i \notin Events /\ Sent(i)' /\ \A j \in Events : events'[j] = events[j]
      BY <2>0, <2>1, Grow DEF Sent
    <2>3. /\ UNCHANGED <<server, down>>
          /\ queue' = IF conn = "open" THEN queue ELSE Append(queue, i)
          /\ upward' = IF conn = "open" /\ link = "ok" THEN Append(upward, m) ELSE upward
      BY <1>13, <2>0 DEF Send
    <2>4. m.type = "message" /\ m.id = i
      OBVIOUS
    <2> HIDE DEF m
    <2>5. Kept /\ nextSeq' \in Nat /\ nextSeq' >= nextSeq /\ nextSeq' = nextSeq
      BY <2>2, <2>3, TypeFacts DEF Kept
    <2>6. Numbered(saved)' /\ DownNumbered'
      BY <1>1, <2>3, <2>5, StaysNumbered DEF DownNumbered, FrameNumbered, Elements
    <2>7. Numbered(Memory)'
      <3>1. /\ \A j \in Elements(buffer) : events'[j] = events[j]
            /\ \A j \in Elements(recorded) : events'[j] = events[j]
        BY <2>2, TypeFacts
      <3> QED BY <1>1, <2>3, <3>1 DEF Numbered, Memory, Elements
    <2>8. \A j \in Events : Sent(j)' <=> Sent(j)
      BY <2>2 DEF Sent
    <2>9. Queued'
      <3>1. CASE conn = "open"
        BY <1>1, <2>3, <2>8, <3>1, TypeFacts DEF Queued
      <3>2. CASE conn # "open"
        <4>1. /\ queue' = Append(queue, i) /\ DOMAIN queue = 1 .. Len(queue) /\ Len(queue) \in Nat
              /\ DOMAIN queue' = 1 .. Len(queue) + 1 /\ queue'[Len(queue) + 1] = i
              /\ \A k \in 1 .. Len(queue) : queue'[k] = queue[k]
          BY <2>3, <3>2, TypeFacts
        <4>2. \A k \in 1 .. Len(queue) + 1 : k \in 1 .. Len(queue) \/ k = Len(queue) + 1
          BY <4>1
        <4>3. \A k \in 1 .. Len(queue) : queue[k] \in Events /\ queue[k] # i /\ Sent(queue[k])
          BY <1>1, <2>2, <4>1, TypeFacts DEF Queued
        <4> QED BY <1>1, <2>2, <2>8, <4>1, <4>2, <4>3 DEF Queued
      <3> QED BY <3>1, <3>2
    <2>10. Climbing'
      <3>1. CASE upward' = upward
        BY <1>1, <2>8, <3>1, TypeFacts DEF Climbing
      <3>2. CASE upward' = Append(upward, m)
        <4>1. /\ DOMAIN upward = 1 .. Len(upward) /\ Len(upward) \in Nat
              /\ DOMAIN upward' = 1 .. Len(upward) + 1 /\ upward'[Len(upward) + 1] = m
              /\ \A k \in 1 .. Len(upward) : upward'[k] = upward[k]
          BY <3>2, TypeFacts
        <4>2. \A k \in 1 .. Len(upward) + 1 : k \in 1 .. Len(upward) \/ k = Len(upward) + 1
          BY <4>1
        <4>3. \A k \in 1 .. Len(upward) : upward[k].type = "message" =>
                 upward[k].id \in Events /\ upward[k].id # i /\ Sent(upward[k].id)
          BY <1>1, <2>2, <4>1, TypeFacts DEF Climbing
        <4> QED BY <1>1, <2>2, <2>4, <2>8, <4>1, <4>2, <4>3 DEF Climbing
      <3> QED BY <2>3, <3>1, <3>2
    <2> QED BY <2>6, <2>7, <2>9, <2>10 DEF NumbersInv
  <1>14. CASE ServerDies \/ Break \/ Refuse \/ OnClose
    BY <1>3, <1>14, QuietNumbers DEF ServerDies, Break, Refuse, OnClose
  <1>15. CASE TimerFires \/ Poll \/ Hide \/ Show
    BY <1>3, <1>15, QuietNumbers DEF TimerFires, Poll, Hide, Show, Connect
  <1>16. CASE Reload \/ Disconnect
    BY <1>3, <1>16, QuietNumbers DEF Reload, Disconnect
  <1>17. CASE UNCHANGED vars
    BY <1>3, <1>17, QuietNumbers DEF vars
  <1> QED BY <1>5, <1>6, <1>7, <1>8, <1>9, <1>10, <1>11, <1>12, <1>13, <1>14, <1>15, <1>16,
             <1>17 DEF Next, ServerStep, TabStep

LEMMA NumbersHold == Spec => [](TypeOK /\ NumbersInv)
  <1>1. Init => NumbersInv
    <2> SUFFICES ASSUME Init PROVE NumbersInv
      OBVIOUS
    <2>1. /\ buffer = <<>> /\ recorded = <<>> /\ queue = <<>> /\ upward = <<>> /\ down = <<>>
          /\ saved.buffer = <<>> /\ saved.recorded = <<>>
      BY DEF Init, Memory
    <2>2. Elements(<<>>) = {} /\ DOMAIN <<>> = {}
      BY DEF Elements
    <2> QED BY <2>1, <2>2 DEF NumbersInv, Queued, Climbing, Numbered, Memory, DownNumbered
  <1> QED BY <1>1, TypeCorrect, TypeStep, NumbersStep, PTL DEF Spec

-----------------------------------------------------------------------------
(***************************************************************************)
(* Once.                                                                   *)
(***************************************************************************)

(* The kind of an event is settled, and the number of a piece of a stream. *)
LEMMA Settled ==
    ASSUME TypeOK, NumbersInv, [Next]_vars, NEW i \in Events
    PROVE  /\ events'[i].kind = events[i].kind
           /\ events[i].kind = "transient" => events'[i] = events[i]
  <1> USE DEF server, wire, tab, ghosts
  <1>1. CASE TakeMessage
    <2> DEFINE h == Head(upward).id
               e == [events[h] EXCEPT !.seq = nextSeq]
    <2>1. upward # <<>> /\ Head(upward).type = "message"
      BY <1>1 DEF TakeMessage
    <2>2. Head(upward) = upward[1] /\ 1 \in DOMAIN upward
      BY <2>1, TypeFacts
    <2>3. events[h].kind = "message"
      BY <2>1, <2>2 DEF NumbersInv, Climbing, Sent
    <2>4. h \in DOMAIN events /\ events[h] \in Entries /\ i \in DOMAIN events
      <3>1. h \in Events
        BY <2>1, <2>2, TypeFacts
      <3> QED BY <3>1, TypeFacts
    <2>5. e.kind = events[h].kind
      BY <2>4 DEF Entries
    <2>6. UNCHANGED events \/ events' = [events EXCEPT ![h] = e]
      BY <1>1, <2>4 DEF TakeMessage
    <2> HIDE DEF h, e
    <2> QED BY <2>3, <2>4, <2>5, <2>6
  <1>2. ASSUME NEW e \in Entries, events' = Append(events, e) PROVE events'[i] = events[i]
    BY <1>2, TypeFacts, Grow
  <1>3. ASSUME NEW kind \in Published, Emit(kind) PROVE events'[i] = events[i]
    <2>1. [kind |-> kind, seq |-> nextSeq] \in Entries
      BY TypeFacts DEF Entries, Kinds
    <2> QED BY <1>2, <1>3, <2>1 DEF Emit
  <1>4. CASE Send
    <2>1. [kind |-> "message", seq |-> 0] \in Entries
      BY DEF Entries, Kinds
    <2> QED BY <1>2, <1>4, <2>1 DEF Send
  <1>5. CASE Save \/ ServerDies \/ Boot \/ Accept \/ Subscribe \/ OnOpen \/ Receive \/ UNCHANGED vars
    BY <1>5 DEF Save, ServerDies, Boot, Accept, Subscribe, OnOpen, Receive, vars
  <1>6. CASE Break \/ Refuse \/ OnClose \/ TimerFires \/ Poll \/ Hide \/ Show \/ Reload \/ Disconnect
    BY <1>6 DEF Break, Refuse, OnClose, TimerFires, Poll, Hide, Show, Reload, Disconnect
  <1> QED BY <1>1, <1>3, <1>4, <1>5, <1>6 DEF Next, ServerStep, TabStep

OnceInv == ShownBehind /\ TransientOnce

LEMMA OnceStep == TypeOK /\ NumbersInv /\ OnceInv /\ [Next]_vars => OnceInv'
  <1> SUFFICES ASSUME TypeOK, NumbersInv, OnceInv, [Next]_vars PROVE OnceInv'
    OBVIOUS
  <1> USE DEF server, wire, tab, ghosts
  <1>1. ASSUME NEW i \in Events, events'[i].kind = "transient"
        PROVE  events[i].kind = "transient" /\ events'[i].seq = events[i].seq
    <2>1. events[i].kind = "transient"
      BY <1>1, Settled
    <2> QED BY <2>1, Settled
  <1>2. /\ \A i \in shown : i \in Events /\ (events[i].kind = "transient" => events[i].seq <= lastSeq)
        /\ twice = {}
    BY TypeFacts DEF OnceInv, ShownBehind, TransientOnce
  <1>3. ASSUME shown' \subseteq shown, UNCHANGED <<lastSeq, twice>> PROVE OnceInv'
    BY <1>1, <1>2, <1>3 DEF OnceInv, ShownBehind, TransientOnce
  <1>4. CASE Receive
    <2> DEFINE f == Head(down)
               new == Fresh(f)
    <2>1. UNCHANGED events /\ down # <<>>
      BY <1>4 DEF Receive
    <2>2. f \in Elements(down) /\ f.ids \subseteq Events /\ FrameNumbered(f) /\ f \in Frames
      <3>1. down \in Seq(Frames)
        BY TypeFacts
      <3>2. f \in Frames
        BY <2>1, <3>1
      <3>3. f \in Elements(down)
        BY <2>1, <3>1, <3>2, ElementsOf
      <3> QED BY <3>2, <3>3, TypeFacts DEF NumbersInv, DownNumbered
    <2>3. CASE f.type = "history"
      <3>1. shown' = shown \union f.ids /\ UNCHANGED <<lastSeq, twice>>
        BY <1>4, <2>3 DEF Receive
      <3>2. \A i \in f.ids : events[i].kind # "transient"
        BY <2>2, <2>3 DEF FrameNumbered
      <3> QED BY <1>2, <2>1, <3>1, <3>2 DEF OnceInv, ShownBehind, TransientOnce
    <2>4. CASE f.type # "history"
      <3>1. /\ shown' = shown \union new
            /\ lastSeq' \in {lastSeq} \union {events[i].seq : i \in new}
            /\ \A i \in new : events[i].seq <= lastSeq'
            /\ twice' = twice \union {i \in new \intersect shown : events[i].kind = "transient"}
        BY <1>4, <2>4 DEF Receive
      <3>2. \A i \in new : i \in Events /\ events[i].seq > lastSeq /\ events[i].seq \in Nat
        BY <2>2, TypeFacts DEF Fresh
      <3> HIDE DEF f, new
      <3>3. lastSeq' >= lastSeq /\ lastSeq' \in Nat /\ lastSeq \in Nat
        BY <3>1, <3>2, TypeFacts
      <3>4. \A i \in new \intersect shown : events[i].kind # "transient"
        <4> TAKE i \in new \intersect shown
        <4>1. i \in shown /\ events[i].seq > lastSeq /\ events[i].seq \in Nat
          BY <3>2
        <4>2. ~(events[i].seq <= lastSeq)
          BY <3>3, <4>1
        <4> QED BY <1>2, <4>1, <4>2
      <3>5. \A i \in shown' : events[i].kind = "transient" => events[i].seq <= lastSeq'
        BY <1>2, <3>1, <3>3, TypeFacts
      <3> QED BY <1>2, <2>1, <3>1, <3>4, <3>5 DEF OnceInv, ShownBehind, TransientOnce
    <2> QED BY <2>3, <2>4
  <1>5. CASE Send
    <2> DEFINE e == [kind |-> "message", seq |-> 0]
    <2>1. e \in Entries /\ e.kind = "message" /\ events' = Append(events, e)
      BY <1>5, TypeFacts DEF Send, Entries, Kinds
    <2> HIDE DEF e
    <2>2. events'[Len(events')].kind = "message"
      BY <2>1, TypeFacts, Grow
    <2>3. shown' = shown \union {Len(events')} /\ UNCHANGED <<lastSeq, twice>>
      BY <1>5 DEF Send
    <2> QED BY <1>1, <1>2, <2>2, <2>3 DEF OnceInv, ShownBehind, TransientOnce
  <1>6. CASE (\E kind \in Published : Emit(kind)) \/ TakeMessage
    BY <1>3, <1>6 DEF Emit, TakeMessage
  <1>7. CASE Save \/ ServerDies \/ Boot \/ Accept \/ Subscribe \/ OnOpen \/ UNCHANGED vars
    BY <1>3, <1>7 DEF Save, ServerDies, Boot, Accept, Subscribe, OnOpen, vars
  <1>8. CASE Break \/ Refuse \/ OnClose \/ TimerFires \/ Poll \/ Hide \/ Show \/ Reload \/ Disconnect
    BY <1>3, <1>8 DEF Break, Refuse, OnClose, TimerFires, Poll, Hide, Show, Reload, Disconnect
  <1> QED BY <1>4, <1>5, <1>6, <1>7, <1>8 DEF Next, ServerStep, TabStep

(* A piece of a stream is handled once on a page, in whatever order the    *)
(* broadcast, the replays of several subscriptions and the history come.   *)
THEOREM StreamedOnce == Spec => []TransientOnce
  <1>1. Init => OnceInv
    BY DEF Init, OnceInv, ShownBehind, TransientOnce
  <1>2. OnceInv => TransientOnce
    BY DEF OnceInv
  <1> QED BY <1>1, <1>2, NumbersHold, OnceStep, PTL DEF Spec

-----------------------------------------------------------------------------
(***************************************************************************)
(* Nothing is hidden by the cursor.                                        *)
(***************************************************************************)

Reaches(i) == i \in shown \/ InHistory(i) \/ Coming(i)

(* What is under way stays so while frames are only added behind it. *)
LEMMA ReachesStays ==
    ASSUME TypeOK, NumbersInv, Kept, shown \subseteq shown', UNCHANGED lastSeq,
           Len(down') \in Nat, DOMAIN down' = 1 .. Len(down'), Len(down) <= Len(down'),
           \A k \in DOMAIN down : down'[k] = down[k],
           NEW i \in Elements(recorded), Reaches(i)
    PROVE  Reaches(i)'
  <1>1. DOMAIN down = 1 .. Len(down) /\ Len(down) \in Nat
    BY TypeFacts
  <1>2. \A k \in DOMAIN down : k \in DOMAIN down' /\ \A l \in DOMAIN down' : l < k => l \in DOMAIN down
    BY <1>1
  <1>3. CASE i \in shown
    BY <1>3 DEF Reaches
  <1>4. CASE InHistory(i)
    BY <1>2, <1>4 DEF Reaches, InHistory
  <1>5. CASE Coming(i)
    <2>1. PICK k \in DOMAIN down :
             /\ down[k].type = "events" /\ i \in down[k].ids
             /\ \A l \in DOMAIN down : l < k /\ down[l].type = "events" =>
                   \A x \in down[l].ids : events[x].seq < events[i].seq
      BY <1>5 DEF Coming
    <2>2. \A l \in DOMAIN down : \A x \in down[l].ids : events'[x] = events[x]
      <3> TAKE l \in DOMAIN down
      <3> TAKE x \in down[l].ids
      <3>1. down[l] \in Elements(down)
        BY DEF Elements
      <3>2. x \in Events /\ events[x].seq \in 1 .. nextSeq - 1
        BY <3>1, TypeFacts DEF NumbersInv, DownNumbered, FrameNumbered
      <3>3. nextSeq \in Nat
        BY TypeFacts
      <3>4. events[x].seq # 0
        BY <3>2, <3>3
      <3> QED BY <3>2, <3>4 DEF Kept
    <2>3. events'[i] = events[i]
      BY <2>1, <2>2
    <2>4. lastSeq < events[i].seq
      BY <1>5 DEF Coming
    <2>5. /\ k \in DOMAIN down' /\ down'[k].type = "events" /\ i \in down'[k].ids
          /\ \A l \in DOMAIN down' : l < k /\ down'[l].type = "events" =>
                \A x \in down'[l].ids : events'[x].seq < events'[i].seq
      BY <1>2, <2>1, <2>2, <2>3
    <2> QED BY <2>3, <2>4, <2>5 DEF Reaches, Coming
  <1> QED BY <1>3, <1>4, <1>5 DEF Reaches

(* What is published finds the cursor, and the frames before it, behind it. *)
LEMMA PublishedComes ==
    ASSUME TypeOK, NumbersInv, CursorBehind, ~torn, link = "ok", Kept, UNCHANGED lastSeq,
           NEW i, Broadcast(i), events'[i].seq = nextSeq
    PROVE  Reaches(i)'
  <1> DEFINE f == [type |-> "events", ids |-> {i}]
             n == Len(down) + 1
  <1>1. lastSeq < nextSeq
    BY DEF CursorBehind, TypeOK
  <1>2. f.ids = {i} /\ f.type = "events"
    OBVIOUS
  <1>3. down' = Append(down, f)
    BY DEF Broadcast
  <1> HIDE DEF f
  <1>4. /\ DOMAIN down' = 1 .. n /\ down'[n] = f /\ n \in DOMAIN down' /\ n \in Nat
        /\ \A k \in DOMAIN down' : k < n => k \in DOMAIN down /\ down'[k] = down[k]
    BY <1>3, TypeFacts
  <1> HIDE DEF n
  <1>5. \A k \in DOMAIN down : \A x \in down[k].ids : events'[x].seq < nextSeq
    <2> TAKE k \in DOMAIN down
    <2> TAKE x \in down[k].ids
    <2>1. down[k] \in Elements(down)
      BY DEF Elements
    <2>2. x \in Events /\ events[x].seq \in 1 .. nextSeq - 1
      BY <2>1, TypeFacts DEF NumbersInv, DownNumbered, FrameNumbered
    <2>3. nextSeq \in Nat
      BY TypeFacts
    <2>4. events[x].seq # 0 /\ events[x].seq < nextSeq
      BY <2>2, <2>3
    <2> QED BY <2>2, <2>4 DEF Kept
  <1>6. \A k \in DOMAIN down' : k < n /\ down'[k].type = "events" =>
           \A x \in down'[k].ids : events'[x].seq < events'[i].seq
    BY <1>4, <1>5
  <1> QED BY <1>1, <1>2, <1>4, <1>6 DEF Reaches, Coming

(* The frame that the tab takes shows what was in it. *)
LEMMA ReceivedReaches ==
    ASSUME TypeOK, Receive, NEW i \in Elements(recorded), Reaches(i)
    PROVE  Reaches(i)'
  <1> DEFINE f == Head(down)
             new == Fresh(f)
  <1>1. /\ down # <<>> /\ down' = Tail(down) /\ down \in Seq(Frames) /\ events' = events
    BY TypeFacts DEF Receive, ghosts
  <1>2. /\ f \in Frames /\ f = down[1] /\ 1 \in DOMAIN down
        /\ \A k \in DOMAIN down : k # 1 => k - 1 \in DOMAIN Tail(down) /\ down[k] = Tail(down)[k - 1]
        /\ \A k \in DOMAIN Tail(down) : k \in Nat /\ k + 1 \in DOMAIN down /\ k + 1 # 1
                                        /\ Tail(down)[k] = down[k + 1]
        /\ \A k \in DOMAIN down : k \in Nat /\ (k # 1 => 1 < k)
    BY <1>1
  <1>3. /\ f.type = "history" => shown' = shown \union f.ids /\ lastSeq' = lastSeq
        /\ f.type # "history" =>
              /\ shown' = shown \union new
              /\ lastSeq' \in {lastSeq} \union {events[x].seq : x \in new}
    BY DEF Receive
  <1>4. new \subseteq f.ids /\ \A x \in f.ids : events[x].seq > lastSeq => x \in new
    BY DEF Fresh
  <1>5. f.type \in {"history", "events"}
    BY <1>2 DEF Frames
  <1> HIDE DEF f, new
  <1>6. CASE i \in shown
    BY <1>3, <1>6 DEF Reaches
  <1>7. CASE InHistory(i)
    <2>1. PICK k \in DOMAIN down : down[k].type = "history" /\ i \in down[k].ids
      BY <1>7 DEF InHistory
    <2>2. CASE k = 1
      BY <1>2, <1>3, <2>1, <2>2 DEF Reaches
    <2>3. CASE k # 1
      <3>1. k - 1 \in DOMAIN down' /\ down'[k - 1] = down[k]
        BY <1>1, <1>2, <2>3
      <3> QED BY <2>1, <3>1 DEF Reaches, InHistory
    <2> QED BY <2>2, <2>3
  <1>8. CASE Coming(i)
    <2>1. PICK k \in DOMAIN down :
             /\ down[k].type = "events" /\ i \in down[k].ids
             /\ \A l \in DOMAIN down : l < k /\ down[l].type = "events" =>
                   \A x \in down[l].ids : events[x].seq < events[i].seq
      BY <1>8 DEF Coming
    <2>2. lastSeq < events[i].seq /\ i \in Events /\ events[i].seq \in Nat /\ lastSeq \in Nat
      BY <1>8, TypeFacts DEF Coming
    <2>3. CASE k = 1
      BY <1>2, <1>3, <1>4, <2>1, <2>2, <2>3 DEF Reaches
    <2>4. CASE k # 1
      <3>1. k - 1 \in DOMAIN down' /\ down'[k - 1] = down[k]
        BY <1>1, <1>2, <2>4
      <3>2. lastSeq' < events[i].seq
        <4>1. f.type = "events" => \A x \in f.ids : events[x].seq < events[i].seq
          BY <1>2, <2>1, <2>4
        <4> QED BY <1>3, <1>4, <1>5, <2>2, <4>1
      <3>3. ASSUME NEW l \in DOMAIN down', l < k - 1, down'[l].type = "events"
            PROVE  \A x \in down'[l].ids : events[x].seq < events[i].seq
        <4>1. l + 1 \in DOMAIN down /\ l + 1 < k /\ down'[l] = down[l + 1]
          BY <1>1, <1>2, <3>3
        <4> QED BY <2>1, <3>3, <4>1
      <3>4. /\ down'[k - 1].type = "events" /\ i \in down'[k - 1].ids
            /\ events'[i] = events[i]
        BY <1>1, <2>1, <3>1
      <3>5. Coming(i)'
        BY <1>1, <3>1, <3>2, <3>3, <3>4 DEF Coming
      <3> QED BY <3>5 DEF Reaches
    <2> QED BY <2>3, <2>4
  <1> QED BY <1>6, <1>7, <1>8 DEF Reaches

CursorInv == CursorBehind /\ NothingHidden

LEMMA CursorStep == TypeOK /\ NumbersInv /\ CursorInv /\ [Next]_vars => CursorInv'
  <1> SUFFICES ASSUME TypeOK, NumbersInv, CursorInv, [Next]_vars PROVE CursorInv'
    OBVIOUS
  <1> USE DEF server, wire, tab, ghosts
  <1>1. CursorBehind /\ (link = "ok" /\ ~torn => \A i \in Elements(recorded) : Reaches(i))
    BY DEF CursorInv, NothingHidden, Reaches
  <1>2. ASSUME link' = "ok" /\ ~torn' => \A i \in Elements(recorded') : Reaches(i)'
        PROVE  NothingHidden'
    BY <1>2 DEF NothingHidden, Reaches, Elements
  <1>3. ASSUME UNCHANGED <<up, nextSeq, saved, lastSeq, torn>> PROVE CursorBehind'
    BY <1>1, <1>3 DEF CursorBehind
  <1>4. /\ link = "ok" => up
        /\ lastSeq \in Nat /\ nextSeq \in Nat \ {0} /\ saved.nextSeq \in Nat \ {0}
    BY TypeFacts DEF TypeOK
  <1>5. /\ UNCHANGED events => Kept
        /\ Len(down) \in Nat /\ DOMAIN down = 1 .. Len(down)
    BY TypeFacts DEF Kept
  <1>6. ASSUME UNCHANGED <<events, down, link, torn, recorded, lastSeq>>, shown \subseteq shown'
        PROVE  NothingHidden'
    <2>1. \A i \in Elements(recorded) : Reaches(i) => Reaches(i)'
      BY <1>5, <1>6, ReachesStays
    <2> QED BY <1>1, <1>2, <1>6, <2>1
  <1>7. ASSUME NEW i, Kept, Broadcast(i), Record(i), events'[i].seq = nextSeq,
               UNCHANGED <<up, saved, link, torn, lastSeq, shown>>
        PROVE  CursorInv'
    <2>1. CursorBehind'
      BY <1>1, <1>4, <1>7 DEF CursorBehind, Broadcast
    <2>2. ASSUME link = "ok", ~torn, NEW j \in Elements(recorded') PROVE Reaches(j)'
      <3>1. j \in Elements(recorded) \/ j = i
        <4>1. recorded \in Seq(Events \union {i})
          BY TypeFacts, SeqGrows
        <4> QED BY <1>7, <2>2, <4>1, NewestHolds, ChannelAssumption DEF Record
      <3>2. CASE j = i
        BY <1>1, <1>7, <2>2, <3>2, PublishedComes
      <3>3. CASE j \in Elements(recorded)
        <4> DEFINE f == [type |-> "events", ids |-> {i}]
        <4>1. down' = Append(down, f)
          BY <1>7, <2>2 DEF Broadcast
        <4> HIDE DEF f
        <4>2. /\ Len(down') = Len(down) + 1 /\ DOMAIN down' = 1 .. Len(down')
              /\ \A k \in DOMAIN down : down'[k] = down[k]
          BY <4>1, TypeFacts
        <4> QED BY <1>1, <1>5, <1>7, <2>2, <3>3, <4>2, ReachesStays
      <3> QED BY <3>1, <3>2, <3>3
    <2> QED BY <1>2, <1>7, <2>1, <2>2 DEF CursorInv
  <1>8. ASSUME NEW kind \in Published, Emit(kind) PROVE CursorInv'
    <2> DEFINE e == [kind |-> kind, seq |-> nextSeq]
    <2>0. PICK i : i = Len(events')
      OBVIOUS
    <2>1. e \in Entries /\ e.seq = nextSeq /\ events' = Append(events, e)
      BY <1>8, TypeFacts DEF Emit, Entries, Kinds
    <2> HIDE DEF e
    <2>2. events'[i].seq = nextSeq /\ Kept
      BY <2>0, <2>1, TypeFacts, Grow DEF Kept
    <2>3. Broadcast(i) /\ Record(i) /\ UNCHANGED <<up, saved, link, torn, lastSeq, shown>>
      BY <1>8, <2>0 DEF Emit
    <2> QED BY <1>7, <2>2, <2>3
  <1>9. CASE TakeMessage
    <2>0. PICK i : i = Head(upward).id
      OBVIOUS
    <2>1. /\ upward # <<>> /\ Head(upward).type = "message"
          /\ UNCHANGED <<up, saved, link, torn, lastSeq, shown>>
      BY <1>9 DEF TakeMessage
    <2>2. CASE i \in processed
      <3>1. UNCHANGED <<nextSeq, recorded, down, events>>
        BY <1>9, <2>0, <2>2 DEF TakeMessage
      <3> QED BY <1>3, <1>6, <2>1, <3>1 DEF CursorInv
    <2>3. CASE i \notin processed
      <3> DEFINE e == [events[i] EXCEPT !.seq = nextSeq]
      <3>1. Broadcast(i) /\ Record(i) /\ events' = [events EXCEPT ![i].seq = nextSeq]
        BY <1>9, <2>0, <2>3 DEF TakeMessage
      <3>2. i \in DOMAIN events /\ events[i] \in Entries /\ Sent(i)
        <4>1. Head(upward) = upward[1] /\ 1 \in DOMAIN upward
          BY <2>1, TypeFacts
        <4>2. i \in Events /\ Sent(i)
          BY <2>0, <2>1, <4>1, TypeFacts DEF NumbersInv, Climbing
        <4> QED BY <4>2, TypeFacts
      <3>3. e.seq = nextSeq
        BY <3>2 DEF Entries
      <3>4. events' = [events EXCEPT ![i] = e] /\ \A j \in Events : j \in DOMAIN events
        BY <3>1, <3>2, TypeFacts
      <3> HIDE DEF e
      <3>5. events'[i].seq = nextSeq /\ Kept
        BY <3>2, <3>3, <3>4 DEF Kept, Sent
      <3> QED BY <1>7, <2>1, <3>1, <3>5
    <2> QED BY <2>2, <2>3
  <1>10. CASE Save
    <2>1. up /\ UNCHANGED <<up, nextSeq, lastSeq, torn>>
      BY <1>10 DEF Save
    <2>2. CursorBehind'
      BY <1>1, <2>1 DEF CursorBehind
    <2> QED BY <1>6, <1>10, <2>2 DEF Save, CursorInv
  <1>11. CASE ServerDies
    <2>1. /\ up' = FALSE /\ UNCHANGED <<saved, lastSeq>> /\ torn' = (torn \/ lastSeq >= saved.nextSeq)
          /\ link' # "ok"
      BY <1>11 DEF ServerDies
    <2>2. ~torn' => ~(lastSeq >= saved.nextSeq)
      BY <2>1
    <2>3. ~torn' => lastSeq < saved.nextSeq
      BY <1>4, <2>2
    <2>4. CursorBehind'
      BY <2>1, <2>3 DEF CursorBehind
    <2> QED BY <1>2, <2>1, <2>4 DEF CursorInv
  <1>12. CASE Boot
    <2>1. /\ up' = TRUE /\ ~up /\ nextSeq' = saved.nextSeq
          /\ UNCHANGED <<saved, lastSeq, torn, link>>
      BY <1>12 DEF Boot
    <2>2. link' # "ok"
      BY <1>4, <2>1
    <2>3. CursorBehind'
      BY <1>1, <2>1 DEF CursorBehind
    <2> QED BY <1>2, <2>2, <2>3 DEF CursorInv
  <1>13. CASE Accept
    <2>1. /\ UNCHANGED <<events, up, nextSeq, saved, lastSeq, torn, recorded>>
          /\ down' = HistoryFrames
      BY <1>13 DEF Accept, FramesOnOpen
    <2>2. ASSUME NEW i \in Elements(recorded) PROVE InHistory(i)'
      <3>1. recorded # <<>>
        BY DEF Elements
      <3> DEFINE f == [type |-> "history", ids |-> Elements(recorded)]
      <3>2. f.type = "history" /\ i \in f.ids /\ down' = <<f>>
        BY <2>1, <3>1 DEF HistoryFrames
      <3> HIDE DEF f
      <3>3. 1 \in DOMAIN down' /\ down'[1] = f
        BY <3>2
      <3> QED BY <3>2, <3>3 DEF InHistory
    <2> QED BY <1>2, <1>3, <2>1, <2>2 DEF CursorInv, Reaches
  <1>14. CASE Subscribe
    <2>1. /\ UNCHANGED <<events, up, nextSeq, saved, lastSeq, torn, recorded, link, shown>>
          /\ \E last : down' = down \o Replay(last)
      BY <1>14 DEF Subscribe
    <2>2. PICK last : down' = down \o Replay(last)
      BY <2>1
    <2> DEFINE r == Replay(last)
    <2>3. r \in Seq(Frames) /\ down \in Seq(Frames)
      BY TypeFacts, ReplayNumbered DEF NumbersInv
    <2> HIDE DEF r
    <2>4. /\ Len(down \o r) \in Nat /\ Len(down) <= Len(down \o r)
          /\ DOMAIN (down \o r) = 1 .. Len(down \o r)
          /\ \A k \in DOMAIN down : (down \o r)[k] = down[k]
      BY <2>3
    <2>5. \A i \in Elements(recorded) : Reaches(i) => Reaches(i)'
      BY <1>5, <2>1, <2>2, <2>4, ReachesStays DEF r
    <2> QED BY <1>1, <1>2, <1>3, <2>1, <2>5 DEF CursorInv
  <1>15. CASE Receive
    <2>1. UNCHANGED <<up, nextSeq, saved, torn, link, recorded>>
      BY <1>15 DEF Receive
    <2>2. \A i \in Elements(recorded) : Reaches(i) => Reaches(i)'
      BY <1>15, ReceivedReaches
    <2>3. CursorBehind'
      <3> DEFINE f == Head(down)
                 new == Fresh(f)
      <3>1. lastSeq' = lastSeq \/ lastSeq' \in {events[i].seq : i \in new}
        BY <1>15 DEF Receive
      <3>2. down # <<>> /\ down \in Seq(Frames)
        BY <1>15, TypeFacts DEF Receive
      <3>3. link = "ok" /\ up
        BY <3>2 DEF TypeOK
      <3>4. f \in Elements(down)
        <4>1. f \in Frames
          BY <3>2
        <4> QED BY <3>2, <4>1, ElementsOf
      <3>5. \A i \in new : events[i].seq \in 1 .. nextSeq - 1
        BY <3>4 DEF Fresh, NumbersInv, DownNumbered, FrameNumbered
      <3> HIDE DEF f, new
      <3>6. lastSeq' < nextSeq \/ lastSeq' = lastSeq
        BY <1>4, <3>1, <3>5
      <3> QED BY <1>1, <2>1, <3>3, <3>6 DEF CursorBehind
    <2> QED BY <1>1, <1>2, <2>1, <2>2, <2>3 DEF CursorInv
  <1>16. CASE OnOpen
    BY <1>3, <1>6, <1>16 DEF OnOpen, CursorInv
  <1>17. CASE Send
    <2>1. [kind |-> "message", seq |-> 0] \in Entries
      BY DEF Entries, Kinds
    <2>2. \A j \in Events : events'[j] = events[j]
      BY <1>17, <2>1, TypeFacts, Grow DEF Send
    <2>3. Kept
      BY <2>2 DEF Kept
    <2>4. UNCHANGED <<up, nextSeq, saved, lastSeq, torn, link, down, recorded>> /\ shown \subseteq shown'
      BY <1>17 DEF Send
    <2>5. \A i \in Elements(recorded) : Reaches(i) => Reaches(i)'
      BY <1>5, <2>3, <2>4, ReachesStays
    <2> QED BY <1>1, <1>2, <1>3, <2>4, <2>5 DEF CursorInv
  <1>18. CASE Break \/ Refuse \/ OnClose \/ Poll \/ Reload \/ Disconnect
    <2>1. UNCHANGED <<up, nextSeq, saved, lastSeq, torn>> /\ link' # "ok"
      BY <1>18 DEF Break, Refuse, OnClose, Poll, Connect, Reload, Disconnect
    <2> QED BY <1>2, <1>3, <2>1 DEF CursorInv
  <1>19. CASE TimerFires \/ Show
    <2>1. /\ UNCHANGED <<up, nextSeq, saved, lastSeq, torn, recorded, shown, events>>
          /\ link' # "ok" \/ UNCHANGED <<link, down>>
      BY <1>19 DEF TimerFires, Show, Connect
    <2> QED BY <1>2, <1>3, <1>6, <2>1 DEF CursorInv
  <1>20. CASE Hide \/ UNCHANGED vars
    BY <1>3, <1>6, <1>20 DEF Hide, vars, CursorInv
  <1> QED BY <1>8, <1>9, <1>10, <1>11, <1>12, <1>13, <1>14, <1>15, <1>16, <1>17, <1>18, <1>19,
             <1>20 DEF Next, ServerStep, TabStep

(* The cursor hides no entry of the conversation: on a live socket, what   *)
(* is recorded up to it was shown or is in a history frame under way.      *)
THEOREM NothingLost == Spec => []CursorIsSound
  <1>1. Init => CursorInv
    <2> SUFFICES ASSUME Init PROVE CursorInv
      OBVIOUS
    <2>1. Elements(<<>>) = {}
      BY DEF Elements
    <2> QED BY <2>1 DEF Init, CursorInv, CursorBehind, NothingHidden
  <1>2. TypeOK /\ CursorInv => CursorIsSound
    <2> SUFFICES ASSUME TypeOK, CursorInv, link = "ok", ~torn, NEW i \in Elements(recorded),
                        events[i].seq <= lastSeq, i \notin shown
                 PROVE  InHistory(i)
      BY DEF CursorIsSound, InHistory
    <2>1. ~(lastSeq < events[i].seq)
      BY TypeFacts
    <2> QED BY <2>1 DEF CursorInv, NothingHidden, Coming
  <1> QED BY <1>1, <1>2, NumbersHold, CursorStep, PTL DEF Spec
=============================================================================
