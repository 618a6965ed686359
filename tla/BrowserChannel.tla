--------------------------- MODULE BrowserChannel ---------------------------
(***************************************************************************)
(* The socket between one session of the server and one browser tab: the   *)
(* sequenced broadcasts with their replay buffer, the chat history and its *)
(* debounced file, the tab's cursor, its reconnects and its queue.         *)
(*                                                                         *)
(* An event is the number of its entry in `events`.  A socket that broke   *)
(* stays half-open for the tab until the tab detects it.                   *)
(***************************************************************************)
EXTENDS Integers, Sequences, FiniteSets

CONSTANTS
    BufferLimit,    \* EVENT_BUFFER_LIMIT
    HistoryLimit,   \* MESSAGE_HISTORY_LIMIT
    Published,      \* the kinds of event that the server publishes by itself
    MaxEvents,      \* bound: events and messages in a behaviour
    MaxMessages,    \* bound: messages the user sends
    MaxFaults,      \* bound: breaks, restarts, reloads and the like
    Faults          \* the faults a run allows

ASSUME ChannelAssumption ==
    /\ Published \subseteq {"chat", "transient", "snapshot"}
    /\ BufferLimit \in Nat \ {0} /\ HistoryLimit \in Nat \ {0}
    /\ MaxEvents \in Nat /\ MaxMessages \in Nat /\ MaxFaults \in Nat

VARIABLES
    up,         \* the server process runs
    nextSeq,    \* session.nextEventSeq
    buffer,     \* session.eventBuffer
    recorded,   \* session.messageHistory
    processed,  \* session.processedClientMessageIds
    saved       \* the session's file

VARIABLES
    conn,       \* the tab's socket: "none", "connecting" or "open"
    link,       \* what carries it: "none", "pending", "ok" or "dead"
    down,       \* frames on their way to the tab
    upward      \* frames on their way to the server

VARIABLES
    lastSeq,    \* the tab's cursor, kept in localStorage
    shown,      \* events the page has handled
    queue,      \* pendingOutgoingBySession
    timer,      \* a reconnect timer is armed
    hidden      \* the page is in the background

\* Seen by the properties only.
VARIABLES
    events,     \* every event: its kind, and its sequence number or 0
    twice,      \* transient events handled twice on one page
    lost,       \* messages that a fault took
    torn,       \* the server forgot numbers the tab has seen
    faults

server == <<up, nextSeq, buffer, recorded, processed, saved>>
wire == <<conn, link, down, upward>>
tab == <<lastSeq, shown, queue, timer, hidden>>
ghosts == <<events, twice, lost, torn, faults>>
vars == <<server, wire, tab, ghosts>>

Kinds == Published \union {"message"}
Events == 1 .. Len(events)
Frames == [type : {"history", "events"}, ids : SUBSET Events]
UpFrames == [type : {"subscribe"}, seq : Nat] \union [type : {"message"}, id : Events]
Elements(s) == {s[k] : k \in DOMAIN s}

\* What the server keeps of the dialog, in memory and in the file.
Dialogs ==
    {d \in [nextSeq : Nat \ {0}, buffer : Seq(Events), recorded : Seq(Events),
            processed : SUBSET Events] :
        Len(d.buffer) <= BufferLimit /\ Len(d.recorded) <= HistoryLimit}

Memory == [nextSeq |-> nextSeq, buffer |-> buffer, recorded |-> recorded,
           processed |-> processed]

TypeOK ==
    /\ events \in Seq([kind : Kinds, seq : Nat]) /\ Len(events) <= MaxEvents
    /\ up \in BOOLEAN
    /\ Memory \in Dialogs /\ saved \in Dialogs
    /\ conn \in {"none", "connecting", "open"}
    /\ link \in {"none", "pending", "ok", "dead"}
    /\ conn = "none" <=> link = "none"
    /\ link = "ok" => up
    /\ link # "ok" => down = <<>> /\ upward = <<>>
    /\ down \in Seq(Frames) /\ upward \in Seq(UpFrames)
    /\ IF conn = "open" THEN queue = <<>> ELSE upward = <<>>
    /\ lastSeq \in Nat
    /\ shown \subseteq Events /\ queue \in Seq(Events)
    /\ timer \in BOOLEAN /\ hidden \in BOOLEAN /\ torn \in BOOLEAN
    /\ twice \subseteq Events /\ lost \subseteq Events
    /\ faults \in 0 .. MaxFaults

Init ==
    /\ up = TRUE /\ nextSeq = 1 /\ buffer = <<>> /\ recorded = <<>> /\ processed = {}
    /\ saved = Memory
    /\ conn = "connecting" /\ link = "pending" /\ down = <<>> /\ upward = <<>>
    /\ lastSeq = 0 /\ shown = {} /\ queue = <<>> /\ timer = FALSE /\ hidden = FALSE
    /\ events = <<>> /\ twice = {} /\ lost = {} /\ torn = FALSE /\ faults = 0

Fault(kind) ==
    /\ kind \in Faults /\ faults < MaxFaults
    /\ faults' = faults + 1

-----------------------------------------------------------------------------
(***************************************************************************)
(* Publishing.                                                             *)
(***************************************************************************)

\* Faulty variant: the trim leaves one too many.
NewestAndOne(s, n) == IF Len(s) > n + 1 THEN SubSeq(s, Len(s) - n, Len(s)) ELSE s

\* The last n elements of s: what splice(0, length - n) leaves.
Newest(s, n) == IF Len(s) > n THEN SubSeq(s, Len(s) - n + 1, Len(s)) ELSE s

HistoryBacked(i) == events'[i].kind \in {"chat", "message"}

\* broadcastToBrowsers with sequenceEvent: a snapshot takes a number and is
\* not buffered; a socket that is open for the server is written to.
Broadcast(i) ==
    /\ nextSeq' = nextSeq + 1
    /\ buffer' = IF events'[i].kind = "snapshot" THEN buffer
                 ELSE Newest(Append(buffer, i), BufferLimit)
    /\ down' = IF link = "ok" THEN Append(down, [type |-> "events", ids |-> {i}]) ELSE down

\* appendHistory
Record(i) ==
    recorded' = IF HistoryBacked(i) THEN Newest(Append(recorded, i), HistoryLimit) ELSE recorded

\* A frame of the CLI, or a change of the session's state, is published.
Emit(kind) ==
    /\ up /\ Len(events) < MaxEvents
    /\ events' = Append(events, [kind |-> kind, seq |-> nextSeq])
    /\ Broadcast(Len(events'))
    /\ Record(Len(events'))
    /\ UNCHANGED <<up, processed, saved, conn, link, upward, tab, twice, lost, torn, faults>>

\* The debounced save, or the flush of a shutdown.
Save ==
    /\ up /\ saved # Memory
    /\ saved' = Memory
    /\ UNCHANGED <<up, nextSeq, buffer, recorded, processed, wire, tab, ghosts>>

\* The messages that go down with the socket.
Sinking == {upward[k].id : k \in {j \in DOMAIN upward : upward[j].type = "message"}}

\* A crash, or the exit at the end of a shutdown: frames that were published
\* after the flush, by the kills it awaits among others, are not in the file.
ServerDies ==
    /\ up /\ Fault("death")
    /\ up' = FALSE
    /\ link' = IF link = "none" THEN link ELSE "dead"
    /\ down' = <<>> /\ upward' = <<>>
    /\ lost' = lost \union Sinking \union (processed \ saved.processed)
    /\ torn' = (torn \/ lastSeq >= saved.nextSeq)
    /\ UNCHANGED <<nextSeq, buffer, recorded, processed, saved, conn, tab, events, twice>>

\* restoreFromDisk
Boot ==
    /\ ~up /\ up' = TRUE
    /\ nextSeq' = saved.nextSeq /\ buffer' = saved.buffer
    /\ recorded' = saved.recorded /\ processed' = saved.processed
    /\ UNCHANGED <<saved, wire, tab, ghosts>>

-----------------------------------------------------------------------------
(***************************************************************************)
(* The server's side of a socket.                                          *)
(***************************************************************************)

HistoryFrames ==
    IF recorded = <<>> THEN <<>> ELSE <<[type |-> "history", ids |-> Elements(recorded)]>>

\* Faulty variant: the history waits for the subscription.
FramesOnSubscribeOnly == <<>>

FramesOnOpen == HistoryFrames

\* handleBrowserOpen: from here on the socket is broadcast to.
Accept ==
    /\ up /\ link = "pending"
    /\ link' = "ok"
    /\ down' = FramesOnOpen
    /\ UNCHANGED <<server, conn, upward, tab, ghosts>>

EventFrames(S) == IF S = {} THEN <<>> ELSE <<[type |-> "events", ids |-> S]>>

\* handleSessionSubscribe
Replay(last) ==
    LET missed == {i \in Elements(buffer) : events[i].seq > last}
        transient == {i \in missed : events[i].kind = "transient"}
        anew == last = 0 /\ recorded # <<>>
        gap == last > 0 /\ last < events[buffer[1]].seq - 1
        first == IF last = 0 THEN HistoryFrames ELSE <<>>
    IN  IF buffer = <<>> \/ last >= nextSeq - 1 THEN first
        ELSE IF gap THEN HistoryFrames \o EventFrames(transient)
        ELSE first \o EventFrames(IF anew THEN transient ELSE missed)

Subscribe ==
    /\ link = "ok" /\ upward # <<>> /\ Head(upward).type = "subscribe"
    /\ down' = down \o Replay(Head(upward).seq)
    /\ upward' = Tail(upward)
    /\ UNCHANGED <<server, conn, link, tab, ghosts>>

\* routeBrowserMessage: a message is recorded and published unless its id is known.
TakeMessage ==
    /\ link = "ok" /\ upward # <<>> /\ Head(upward).type = "message"
    /\ upward' = Tail(upward)
    /\ LET i == Head(upward).id
       IN  IF i \in processed
           THEN UNCHANGED <<nextSeq, buffer, recorded, processed, down, events>>
           ELSE /\ processed' = processed \union {i}
                /\ events' = [events EXCEPT ![i].seq = nextSeq]
                /\ Broadcast(i)
                /\ Record(i)
    /\ UNCHANGED <<up, saved, conn, link, tab, twice, lost, torn, faults>>

-----------------------------------------------------------------------------
(***************************************************************************)
(* The tab.                                                                *)
(***************************************************************************)

\* connectSession on a session whose socket is not usable.
Connect ==
    /\ conn = "none"
    /\ conn' = "connecting" /\ link' = "pending" /\ down' = <<>> /\ upward' = <<>>

\* Faulty variant: the queue is forgotten by the code that opens the socket.
NothingQueued == <<>>

QueuedFrames == [k \in DOMAIN queue |-> [type |-> "message", id |-> queue[k]]]

\* onopen: the subscription goes first, then what was queued.
OnOpen ==
    /\ conn = "connecting" /\ link = "ok"
    /\ conn' = "open"
    /\ upward' = <<[type |-> "subscribe", seq |-> lastSeq]>> \o QueuedFrames
    /\ queue' = <<>> /\ timer' = FALSE
    /\ UNCHANGED <<server, link, down, lastSeq, shown, hidden, ghosts>>

\* Faulty variant: a replay is handled without looking at the cursor.
AnyOf(f) == f.ids

\* handleParsedMessage and event_replay: only numbers beyond the cursor.
Fresh(f) == {i \in f.ids : events[i].seq > lastSeq}

\* onmessage
Receive ==
    /\ conn = "open" /\ down # <<>>
    /\ down' = Tail(down)
    /\ LET f == Head(down)
           new == Fresh(f)
       IN  IF f.type = "history"
           THEN shown' = shown \union f.ids /\ UNCHANGED <<lastSeq, twice>>
           ELSE /\ shown' = shown \union new
                /\ lastSeq' \in {lastSeq} \union {events[i].seq : i \in new}
                /\ \A i \in new : events[i].seq <= lastSeq'
                /\ twice' = twice \union {i \in new \intersect shown : events[i].kind = "transient"}
    /\ UNCHANGED <<server, conn, link, upward, queue, timer, hidden, events, lost, torn, faults>>

\* sendToSession, and the tab shows the message at once.
Send ==
    /\ Len(events) < MaxEvents
    /\ Cardinality({i \in Events : events[i].kind = "message"}) < MaxMessages
    /\ events' = Append(events, [kind |-> "message", seq |-> 0])
    /\ LET i == Len(events')
       IN  /\ shown' = shown \union {i}
           /\ queue' = IF conn = "open" THEN queue ELSE Append(queue, i)
           /\ upward' = IF conn = "open" /\ link = "ok"
                        THEN Append(upward, [type |-> "message", id |-> i]) ELSE upward
           /\ lost' = IF conn = "open" /\ link = "dead" THEN lost \union {i} ELSE lost
    /\ UNCHANGED <<server, conn, link, down, lastSeq, timer, hidden, twice, torn, faults>>

\* The connection breaks; the tab's socket still looks usable.
Break ==
    /\ link \in {"pending", "ok"} /\ Fault("break")
    /\ link' = "dead" /\ down' = <<>> /\ upward' = <<>>
    /\ lost' = lost \union Sinking
    /\ UNCHANGED <<server, conn, tab, events, twice, torn>>

\* A server that is down refuses the connection.
Refuse ==
    /\ ~up /\ link = "pending"
    /\ link' = "dead"
    /\ UNCHANGED <<server, conn, down, upward, tab, ghosts>>

\* Faulty variant: only a socket that never opened is given up.
NoticedWhileConnecting == link = "dead" /\ conn = "connecting"

\* The heartbeat watchdog, or the network, tells the tab.
Noticed == link = "dead"

\* onclose: the reconnect is scheduled, unless the page is hidden.
OnClose ==
    /\ Noticed
    /\ conn' = "none" /\ link' = "none"
    /\ timer' = (timer \/ ~hidden)
    /\ UNCHANGED <<server, down, upward, lastSeq, shown, queue, hidden, ghosts>>

\* The reconnect timer.
TimerFires ==
    /\ timer /\ ~hidden
    /\ timer' = FALSE
    /\ IF conn = "none" THEN Connect ELSE UNCHANGED wire
    /\ UNCHANGED <<server, lastSeq, shown, queue, hidden, ghosts>>

\* The sidebar's poll of the sessions connects the ones without a socket.
Poll ==
    /\ up /\ ~hidden /\ Connect
    /\ UNCHANGED <<server, tab, ghosts>>

Hide ==
    /\ ~hidden /\ Fault("hide")
    /\ hidden' = TRUE /\ timer' = FALSE
    /\ UNCHANGED <<server, wire, lastSeq, shown, queue, events, twice, lost, torn>>

Show ==
    /\ hidden /\ hidden' = FALSE
    /\ IF conn = "none" THEN Connect ELSE UNCHANGED wire
    /\ UNCHANGED <<server, lastSeq, shown, queue, timer, ghosts>>

\* A reload keeps nothing but the cursor.
Reload ==
    /\ ~hidden /\ Fault("reload")
    /\ conn' = "connecting" /\ link' = "pending" /\ down' = <<>> /\ upward' = <<>>
    /\ shown' = {} /\ queue' = <<>> /\ timer' = FALSE
    /\ lost' = lost \union Sinking \union Elements(queue)
    /\ UNCHANGED <<server, lastSeq, hidden, events, twice, torn>>

\* disconnectSession of a session that goes on, as when another one is created.
Disconnect ==
    /\ Fault("disconnect")
    /\ conn' = "none" /\ link' = "none" /\ down' = <<>> /\ upward' = <<>>
    /\ queue' = <<>> /\ timer' = FALSE
    /\ lost' = lost \union Sinking \union Elements(queue)
    /\ UNCHANGED <<server, lastSeq, shown, hidden, events, twice, torn>>

ServerStep ==
    \/ \E kind \in Published : Emit(kind)
    \/ Save \/ ServerDies \/ Boot \/ Accept \/ Subscribe \/ TakeMessage

TabStep ==
    \/ OnOpen \/ Receive \/ Send \/ OnClose \/ TimerFires \/ Poll
    \/ Hide \/ Show \/ Reload \/ Disconnect

Next == ServerStep \/ TabStep \/ Break \/ Refuse

Spec == Init /\ [][Next]_vars

\* One of these is the next step of a socket that is not open and alive.
Handshake == Accept \/ Refuse \/ OnOpen \/ OnClose

\* The server is started again, sockets carry what was sent or are found
\* dead, and the sidebar polls; publishing, saving, the shorter reconnect
\* timer and the user owe nothing.
FairSpec ==
    /\ Spec
    /\ WF_vars(Boot) /\ WF_vars(Poll) /\ WF_vars(Handshake)
    /\ WF_vars(Subscribe \/ TakeMessage) /\ WF_vars(Receive)

-----------------------------------------------------------------------------
(***************************************************************************)
(* Properties.                                                             *)
(***************************************************************************)

\* The cursor never hides a part of the conversation: on a live socket every
\* recorded entry up to the cursor was shown to this page or is in a history
\* frame under way, whatever frames broke off, raced or were replayed.
CursorIsSound ==
    link = "ok" /\ conn = "open" /\ ~torn =>
        \A i \in Elements(recorded) :
            events[i].seq <= lastSeq =>
                \/ i \in shown
                \/ \E k \in DOMAIN down : down[k].type = "history" /\ i \in down[k].ids

\* An event that only a replay can repeat, as a piece of streamed text, is
\* handled once on a page although it may be broadcast and replayed.
TransientOnce == twice = {}

\* Every entry of the conversation is shown in the end to a page that stays
\* in the foreground, over breaks, reloads and restarts, until a restart
\* forgets numbers the page has seen.
ChatComplete ==
    \A i \in 1 .. MaxEvents :
        (i \in Elements(recorded)) ~> (i \in shown \/ i \notin Elements(recorded) \/ hidden \/ torn)

\* A message reaches the server, or a fault took it: it is not left behind in
\* a queue that nothing flushes.
MessageArrives ==
    \A i \in 1 .. MaxEvents :
        (i \in Events /\ events[i].kind = "message") ~> (i \in processed \union lost \/ hidden)

(***************************************************************************)
(* Claims of the code's comments that do not hold.                         *)
(***************************************************************************)

\* "Assigns a monotonic sequence number", and a reconnect after a restart
\* re-hydrates the dialog: the conversation goes on being shown.
DialogGoesOn ==
    \A i \in 1 .. MaxEvents :
        (i \in Elements(recorded)) ~> (i \in shown \/ i \notin Elements(recorded) \/ hidden)
=============================================================================
