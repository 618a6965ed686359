------------------------- MODULE AutoResume_proofs -------------------------
(***************************************************************************)
(* Proofs about AutoResume, for every set of sessions and limits and every *)
(* bound: type correctness, the invariants the run checks, that only the   *)
(* user ends a pause, and the safety half of the refinement of OneShot.    *)
(***************************************************************************)
EXTENDS AutoResume, TLAPS

(* The file, and what is left in memory while the server is down. *)
FileInv ==
    /\ DiskAgrees
    /\ ~up => /\ schedule = [s \in Sessions |-> None]
              /\ resumes = {}
    /\ \A s \in Sessions : disk.rehits[s] >= MaxConsecutiveRehits => s \in disk.paused
    /\ \A s \in Sessions : s \in disk.paused => disk.schedule[s] = None

(* Who may hold which schedule: the ones armed are nowhere else, the runs  *)
(* are distinct and have not continued, and a voided run is aborted.       *)
RunInv ==
    /\ \A s \in Sessions : disk.schedule[s] \notin spent \cup void
    /\ \A s, t \in Sessions :
          s # t /\ disk.schedule[s] # None => disk.schedule[s] # disk.schedule[t]
    /\ continued \subseteq spent
    /\ \A r \in resumes : r.at \in spent \ continued
    /\ \A r, q \in resumes : r.at = q.at => r = q
    /\ \A r \in resumes : r.at \in void => r.aborted
    /\ CancelledIsQuiet

(* The count the scheduler keeps is at least the count of the fires that   *)
(* ran back into the limit, unless a restart dropped it.                   *)
CountInv ==
    \A s \in usable : ~forgot[s] =>
        /\ burnt[s] <= disk.rehits[s]
        /\ burnt[s] >= MaxConsecutiveRehits =>
              s \in disk.paused /\ disk.schedule[s] = None

(* A step that concerns neither the scheduler nor the executor. *)
Silent ==
    /\ UNCHANGED <<up, schedule, resetOf, rehits, paused, disk, resumeVars, banner, history>>
    /\ recent' \in [Sessions -> BOOLEAN]
    /\ usable' \subseteq usable

(* What the executor's runs become when cancel() reaches the sessions of S. *)
RunsAbort(S) ==
    \/ resumes' = Abort(S)
    \/ \E s \in Sessions : resumes' = {IF r.of = s THEN Messaged(r) ELSE r : r \in Abort(S)}

CancelStep(S) == up /\ Cancel(S) /\ RunsAbort(S) /\ UNCHANGED <<usable, inFlight>>

(* Every step, by what it does to the scheduler. *)
LEMMA Steps ==
    ASSUME TypeOK, [Next]_vars
    PROVE  \/ \E s \in Sessions, l \in Limits : HitArms(s, l) \/ HitPauses(s, l)
           \/ \E S \in SUBSET Sessions : CancelStep(S)
           \/ \E s \in Sessions : Fire(s)
           \/ \E r \in resumes : SelfReady(r) \/ SelfFails(r) \/ PartnerReady(r)
           \/ ServerDown \/ Boot
           \/ Silent
  <1> USE DEF serverVars, timerVars, resumeVars, sessionVars, history
  <1>1. CASE UNCHANGED vars
    BY <1>1 DEF vars, Silent, TypeOK
  <1>2. ASSUME NEW s \in Sessions, UserMessage(s)
        PROVE  CancelStep({s})
    BY <1>2 DEF UserMessage, CancelStep, RunsAbort, Ask, Cancel
  <1>3. ASSUME NEW s \in Sessions, UserCancel(s)
        PROVE  CancelStep({s})
    BY <1>3 DEF UserCancel, CancelStep, RunsAbort, Ask, Cancel
  <1>4. ASSUME NEW s \in Sessions, Stop(s) \/ Archive(s)
        PROVE  CancelStep(Sessions)
    BY <1>4 DEF Stop, Archive, Begin, CancelStep, RunsAbort, Ask, Cancel
  <1>5. ASSUME NEW s \in Sessions, Delete(s)
        PROVE  CancelStep({s})
    BY <1>5 DEF Delete, Begin, CancelStep, RunsAbort, Ask, Cancel
  <1>6. ASSUME TurnOff
        PROVE  \E S \in SUBSET Sessions : CancelStep(S)
    <2> DEFINE S == paused \union {s \in Sessions : schedule[s] # None \/ inFlight[s] # None}
    <2>1. S \in SUBSET Sessions
      BY DEF TypeOK
    <2>2. CancelStep(S)
      BY <1>6 DEF TurnOff, CancelStep, RunsAbort, Ask, Cancel
    <2>3. QED
      BY <2>1, <2>2
  <1>7. ASSUME NEW s \in Sessions, Exit(s) \/ Revive(s) \/ ManualRelaunch(s)
        PROVE  Silent
    BY <1>7 DEF Exit, Revive, ManualRelaunch, Silent, Ask, TypeOK
  <1>8. ASSUME TurnOn
        PROVE  Silent
    BY <1>8 DEF TurnOn, Silent, TypeOK
  <1>9. ASSUME NEW s \in Sessions, WindowPasses(s)
        PROVE  Silent
    BY <1>9 DEF WindowPasses, Silent, TypeOK
  <1>10. ASSUME NEW q \in requests, NEW s \in q.scope, Kill(q, s)
         PROVE  Silent
    BY <1>10 DEF Kill, Silent, TypeOK
  <1>11. CASE Event
    BY <1>2, <1>3, <1>4, <1>5, <1>6, <1>7, <1>8, <1>11 DEF Event
  <1>12. CASE Next /\ ~Event
    BY <1>9, <1>10, <1>12 DEF Next, NextKill, TimerFires, Resuming
  <1>13. QED
    BY <1>1, <1>11, <1>12

-----------------------------------------------------------------------------
(* Type correctness, with what the file holds *)

(* The half of TypeOK about the server, its sessions and their users. *)
ServerTyped ==
    /\ up \in BOOLEAN /\ crashes \in 0 .. MaxCrashes /\ enabled \in BOOLEAN
    /\ asked \in 0 .. MaxRequests
    /\ alive \subseteq Sessions /\ usable \subseteq Sessions
    /\ stopped \subseteq Sessions
    /\ requests \subseteq [kind : {"stop", "archive", "delete"},
                           scope : SUBSET Sessions, todo : SUBSET Sessions]

(* The half about the scheduler, the executor and what the properties see. *)
SchedulerTyped ==
    /\ armed \in 0 .. MaxSchedules
    /\ schedule \in [Sessions -> 0 .. armed]
    /\ resetOf \in [Sessions -> Limits]
    /\ rehits \in [Sessions -> 0 .. MaxConsecutiveRehits]
    /\ recent \in [Sessions -> BOOLEAN]
    /\ paused \subseteq Sessions
    /\ disk \in [schedule : [Sessions -> 0 .. armed],
                 rehits : [Sessions -> 0 .. MaxConsecutiveRehits],
                 paused : SUBSET Sessions]
    /\ resumes \subseteq [of : Sessions, at : 1 .. armed, waits : {"self", "partner"},
                          dead : BOOLEAN, aborted : BOOLEAN, messaged : BOOLEAN]
    /\ inFlight \in [Sessions -> 0 .. armed]
    /\ banner \in [Sessions -> {"none", "armed", "paused"}]
    /\ spent \subseteq 1 .. armed /\ void \subseteq 1 .. armed
    /\ continued \subseteq 1 .. armed
    /\ burnt \in [Sessions -> Nat]
    /\ open \in [Sessions -> BOOLEAN] /\ forgot \in [Sessions -> BOOLEAN]

LEMMA Typed == TypeOK <=> ServerTyped /\ SchedulerTyped
  BY DEF TypeOK, ServerTyped, SchedulerTyped

LEMMA ServerTypeStep ==
    ASSUME TypeOK, [Next]_vars
    PROVE  ServerTyped'
  <1> USE BoundsAssumption DEF TypeOK, ServerTyped, serverVars, sessionVars, Ask
  <1>1. CASE UNCHANGED vars
    BY <1>1 DEF vars
  <1>2. ASSUME NEW s \in Sessions, UserMessage(s) \/ UserCancel(s)
        PROVE  ServerTyped'
    BY <1>2 DEF UserMessage, UserCancel, Cancel
  <1>3. ASSUME NEW s \in Sessions, NEW kind \in {"stop", "archive", "delete"},
               NEW scope \in SUBSET Sessions, Begin(kind, s, scope)
        PROVE  /\ up' \in BOOLEAN /\ crashes' \in 0 .. MaxCrashes /\ enabled' \in BOOLEAN
               /\ asked' \in 0 .. MaxRequests
               /\ alive' \subseteq Sessions /\ usable' \subseteq Sessions
               /\ requests' \subseteq [kind : {"stop", "archive", "delete"},
                                       scope : SUBSET Sessions, todo : SUBSET Sessions]
    BY <1>3 DEF Begin, Cancel
  <1>4. ASSUME NEW s \in Sessions, Stop(s) \/ Archive(s) \/ Delete(s)
        PROVE  ServerTyped'
    <2>1. {s} \in SUBSET Sessions
      OBVIOUS
    <2>2. CASE Stop(s)
      BY <1>3, <2>2 DEF Stop
    <2>3. CASE Archive(s)
      BY <1>3, <2>3 DEF Archive
    <2>4. CASE Delete(s)
      BY <1>3, <2>1, <2>4 DEF Delete
    <2>5. QED
      BY <1>4, <2>2, <2>3, <2>4
  <1>5. ASSUME NEW s \in Sessions, Exit(s) \/ Revive(s) \/ ManualRelaunch(s)
        PROVE  ServerTyped'
    BY <1>5 DEF Exit, Revive, ManualRelaunch
  <1>6. CASE TurnOff \/ TurnOn
    <2>1. CASE TurnOff
      <3>1. /\ up' = up /\ crashes' = crashes /\ enabled' = FALSE
            /\ UNCHANGED <<alive, usable, stopped, requests>>
        BY <2>1, Zenon DEF TurnOff, Cancel
      <3>2. asked' \in 0 .. MaxRequests
        BY <2>1 DEF TurnOff
      <3>3. QED
        BY <3>1, <3>2, Zenon
    <2>2. CASE TurnOn
      BY <2>2 DEF TurnOn
    <2>3. QED
      BY <1>6, <2>1, <2>2
  <1>7. ASSUME NEW s \in Sessions, NEW l \in Limits, HitArms(s, l) \/ HitPauses(s, l)
        PROVE  ServerTyped'
    BY <1>7 DEF HitArms, HitPauses
  <1>8. ASSUME NEW s \in Sessions, Fire(s) \/ WindowPasses(s)
        PROVE  ServerTyped'
    BY <1>8 DEF Fire, WindowPasses, RelaunchStarts
  <1>9. ASSUME NEW q \in requests, NEW s \in q.scope, Kill(q, s)
        PROVE  ServerTyped'
    <2>1. [q EXCEPT !.todo = @ \ {s}] \in [kind : {"stop", "archive", "delete"},
                                           scope : SUBSET Sessions, todo : SUBSET Sessions]
      OBVIOUS
    <2>2. QED
      BY <1>9, <2>1 DEF Kill
  <1>10. ASSUME NEW r \in resumes, SelfReady(r) \/ SelfFails(r) \/ PartnerReady(r)
         PROVE  ServerTyped'
    <2>1. r.of \in Sessions
      OBVIOUS
    <2>2. alive' \subseteq Sessions
      BY <1>10, <2>1 DEF SelfReady, SelfFails, PartnerReady, Partners
    <2>3. stopped' \subseteq Sessions
      BY <1>10 DEF SelfReady, SelfFails, PartnerReady, AwaitPartner, RelaunchStarts
    <2>4. QED
      BY <1>10, <2>2, <2>3 DEF SelfReady, SelfFails, PartnerReady, ResumeUnchanged
  <1>11. CASE ServerDown \/ Boot
    <2>1. CASE ServerDown
      <3>1. /\ up' = FALSE /\ enabled' = enabled /\ asked' = asked /\ usable' = usable
            /\ alive' = {} /\ stopped' = {} /\ requests' = {}
        BY <2>1, Zenon DEF ServerDown
      <3>2. crashes' \in 0 .. MaxCrashes
        BY <2>1 DEF ServerDown
      <3>3. QED
        BY <3>1, <3>2, Zenon
    <2>2. CASE Boot
      <3>1. up' = TRUE /\ UNCHANGED <<asked, crashes, enabled, alive, usable, stopped, requests>>
        BY <2>2 DEF Boot
      <3>2. QED
        BY <3>1
    <2>3. QED
      BY <1>11, <2>1, <2>2
  <1>12. CASE Event
    BY <1>2, <1>4, <1>5, <1>6, <1>7, <1>12 DEF Event
  <1>13. CASE Next /\ ~Event
    BY <1>8, <1>9, <1>10, <1>11, <1>13 DEF Next, NextKill, TimerFires, Resuming
  <1>14. QED
    BY <1>1, <1>12, <1>13

(* What the executor's runs are. *)
RunType == [of : Sessions, at : 1 .. armed, waits : {"self", "partner"},
            dead : BOOLEAN, aborted : BOOLEAN, messaged : BOOLEAN]

LEMMA HitStep ==
    ASSUME TypeOK, FileInv, NEW s \in Sessions, NEW l \in Limits,
           HitArms(s, l) \/ HitPauses(s, l)
    PROVE  SchedulerTyped' /\ FileInv'
  <1> USE BoundsAssumption DEF None
  <1>0. {schedule[s]} \ {None} \subseteq 1 .. armed /\ armed \in Nat
    BY DEF TypeOK
  <1>1. /\ up /\ up' = up /\ s \notin paused
        /\ disk = [schedule |-> schedule, rehits |-> rehits, paused |-> paused]
        /\ disk' = [schedule |-> schedule', rehits |-> rehits', paused |-> paused']
    BY DEF HitArms, HitPauses, Heard, Pause, Persist, FileInv, DiskAgrees, serverVars
  <1>2. rehits[s] \in 0 .. MaxConsecutiveRehits - 1
    BY <1>1 DEF FileInv, TypeOK
  <1>3. /\ armed' \in 0 .. MaxSchedules /\ armed <= armed'
        /\ schedule' \in [Sessions -> 0 .. armed']
        /\ void' \subseteq 1 .. armed'
        /\ UNCHANGED <<inFlight, resumes, spent, continued, recent>>
    <2>1. CASE HitArms(s, l)
      <3>1. armed' \in 0 .. MaxSchedules /\ armed' = armed + 1
        BY <2>1 DEF HitArms, TypeOK
      <3>2. schedule' \in [Sessions -> 0 .. armed']
        BY <2>1, <3>1 DEF HitArms, TypeOK
      <3>3. void' \subseteq 1 .. armed'
        <4>1. void' = void \cup ({schedule[s]} \ {None})
          BY <2>1, Zenon DEF HitArms
        <4>2. void \subseteq 1 .. armed /\ 1 .. armed \subseteq 1 .. armed'
          BY <1>0, <3>1 DEF TypeOK
        <4>3. QED
          BY <1>0, <4>1, <4>2
      <3>4. UNCHANGED <<inFlight, resumes, spent, continued, recent>>
        BY <2>1, Zenon DEF HitArms, resumeVars
      <3>5. armed <= armed'
        BY <1>0, <3>1
      <3>6. QED
        BY <3>1, <3>2, <3>3, <3>4, <3>5
    <2>2. CASE HitPauses(s, l)
      <3>1. armed' = armed /\ schedule' \in [Sessions -> 0 .. armed]
        BY <2>2 DEF HitPauses, Pause, TypeOK
      <3>2. void' \subseteq 1 .. armed
        BY <1>0, <2>2 DEF HitPauses, TypeOK
      <3>3. UNCHANGED <<inFlight, resumes, spent, continued, recent>>
        BY <2>2, Zenon DEF HitPauses, resumeVars
      <3>4. armed' \in 0 .. MaxSchedules /\ armed <= armed'
        BY <1>0, <3>1 DEF TypeOK
      <3>5. QED
        BY <3>1, <3>2, <3>3, <3>4
    <2>3. QED
      BY <2>1, <2>2
  <1>4. /\ rehits' \in [Sessions -> 0 .. MaxConsecutiveRehits]
        /\ paused' \subseteq Sessions
        /\ \A t \in Sessions : rehits'[t] >= MaxConsecutiveRehits => t \in paused'
        /\ \A t \in Sessions : t \in paused' => schedule'[t] = None
    <2>1. CASE HitArms(s, l)
      BY <1>1, <1>2, <2>1 DEF HitArms, TypeOK, FileInv
    <2>2. CASE HitPauses(s, l)
      BY <1>1, <1>2, <2>2 DEF HitPauses, Pause, TypeOK, FileInv
    <2>3. QED
      BY <2>1, <2>2
  <1>5. /\ resetOf' \in [Sessions -> Limits]
        /\ banner' \in [Sessions -> {"none", "armed", "paused"}]
    BY DEF HitArms, HitPauses, TypeOK
  <1>6. /\ burnt' \in [Sessions -> Nat]
        /\ open' \in [Sessions -> BOOLEAN] /\ forgot' \in [Sessions -> BOOLEAN]
    <2>1. CountHit(s)
      BY DEF HitArms, HitPauses
    <2>2. forgot' \in [Sessions -> BOOLEAN] /\ open' \in [Sessions -> BOOLEAN]
      BY <2>1 DEF CountHit, TypeOK
    <2>3. QED
      BY <2>1, <2>2 DEF CountHit, TypeOK
  <1>7. SchedulerTyped'
    BY <1>1, <1>3, <1>4, <1>5, <1>6 DEF TypeOK, SchedulerTyped
  <1>8. FileInv'
    BY <1>1, <1>4 DEF FileInv, DiskAgrees
  <1>9. QED
    BY <1>7, <1>8

(* A cancel changes runs, but neither which they are nor what they are of. *)
LEMMA AbortType ==
    ASSUME TypeOK, NEW S \in SUBSET Sessions, RunsAbort(S)
    PROVE  resumes' \subseteq RunType
  <1> USE DEF TypeOK, RunType
  <1>1. \A r \in RunType : Aborted(r) \in RunType /\ Messaged(r) \in RunType
    BY DEF Aborted, Messaged
  <1>2. Abort(S) \subseteq RunType
    BY <1>1 DEF Abort
  <1>3. QED
    BY <1>1, <1>2 DEF RunsAbort

LEMMA CancelTypeStep ==
    ASSUME TypeOK, FileInv, NEW S \in SUBSET Sessions, CancelStep(S)
    PROVE  SchedulerTyped' /\ FileInv'
  <1> USE BoundsAssumption DEF None
  <1>1. /\ up /\ up' = up
        /\ UNCHANGED <<resetOf, inFlight, armed, spent, continued>>
        /\ disk = [schedule |-> schedule, rehits |-> rehits, paused |-> paused]
        /\ disk' = [schedule |-> schedule', rehits |-> rehits', paused |-> paused']
    BY DEF CancelStep, Cancel, Persist, FileInv, DiskAgrees
  <1>2. /\ schedule' \in [Sessions -> 0 .. armed]
        /\ rehits' \in [Sessions -> 0 .. MaxConsecutiveRehits]
        /\ paused' \subseteq Sessions
        /\ \A t \in Sessions : rehits'[t] >= MaxConsecutiveRehits => t \in paused'
        /\ \A t \in Sessions : t \in paused' => schedule'[t] = None
    BY <1>1 DEF CancelStep, Cancel, TypeOK, FileInv
  <1>3. recent' \in [Sessions -> BOOLEAN] /\ open' \in [Sessions -> BOOLEAN]
    BY DEF CancelStep, Cancel, TypeOK
  <1>4. forgot' \in [Sessions -> BOOLEAN] /\ burnt' \in [Sessions -> Nat]
    BY DEF CancelStep, Cancel, TypeOK
  <1>5. banner' \in [Sessions -> {"none", "armed", "paused"}]
    BY DEF CancelStep, Cancel, TypeOK
  <1>6. void' \subseteq 1 .. armed
    <2>1. {schedule[s] : s \in S} \ {None} \subseteq 1 .. armed
      BY DEF TypeOK
    <2>2. {r.at : r \in Running(S)} \subseteq 1 .. armed
      BY DEF TypeOK, Running
    <2>3. void \subseteq 1 .. armed
      BY DEF TypeOK
    <2>4. QED
      BY <2>1, <2>2, <2>3 DEF CancelStep, Cancel
  <1>7. resumes' \subseteq RunType
    BY AbortType DEF CancelStep
  <1>8. SchedulerTyped'
    BY <1>1, <1>2, <1>3, <1>4, <1>5, <1>6, <1>7 DEF TypeOK, SchedulerTyped, RunType
  <1>9. FileInv'
    BY <1>1, <1>2 DEF FileInv, DiskAgrees
  <1>10. QED
    BY <1>8, <1>9

LEMMA FireTypeStep ==
    ASSUME TypeOK, FileInv, NEW s \in Sessions, Fire(s)
    PROVE  SchedulerTyped' /\ FileInv'
  <1> USE DEF None
  <1>1. /\ up /\ up' = up /\ schedule[s] \in 1 .. armed
        /\ disk = [schedule |-> schedule, rehits |-> rehits, paused |-> paused]
        /\ disk' = [schedule |-> schedule', rehits |-> rehits', paused |-> paused']
        /\ schedule' = [schedule EXCEPT ![s] = None]
        /\ UNCHANGED <<rehits, paused, resetOf, armed, continued, burnt, forgot>>
    BY DEF Fire, DropRecord, Persist, FileInv, DiskAgrees, serverVars, TypeOK
  <1>2. /\ schedule' \in [Sessions -> 0 .. armed]
        /\ \A t \in Sessions : t \in paused' => schedule'[t] = None
    BY <1>1 DEF TypeOK, FileInv
  <1>3. recent' \in [Sessions -> BOOLEAN] /\ open' \in [Sessions -> BOOLEAN]
    BY DEF Fire, TypeOK
  <1>4. banner' \in [Sessions -> {"none", "armed", "paused"}]
    BY DEF Fire, TypeOK
  <1>5. spent' \subseteq 1 .. armed /\ void' \subseteq 1 .. armed
    BY <1>1 DEF Fire, TypeOK
  <1>6. inFlight' \in [Sessions -> 0 .. armed]
    BY <1>1 DEF Fire, TypeOK
  <1>7. resumes' \subseteq RunType
    <2> DEFINE new == [of |-> s, at |-> schedule[s], waits |-> "self", dead |-> s \notin alive,
                       aborted |-> FALSE, messaged |-> FALSE]
    <2>1. resumes' = resumes \/ resumes' = resumes \cup {new}
      BY DEF Fire
    <2>2. (s \notin alive) \in BOOLEAN
      OBVIOUS
    <2>3. new \in RunType
      BY <1>1, <2>2 DEF RunType
    <2>4. resumes \subseteq RunType
      BY DEF TypeOK, RunType
    <2>5. QED
      BY <2>1, <2>3, <2>4
  <1>8. SchedulerTyped'
    BY <1>1, <1>2, <1>3, <1>4, <1>5, <1>6, <1>7 DEF TypeOK, SchedulerTyped, RunType
  <1>9. FileInv'
    BY <1>1, <1>2 DEF FileInv, DiskAgrees
  <1>10. QED
    BY <1>8, <1>9

(* A run settles, continuing its session only if it was not aborted. *)
Settles(r) ==
    /\ Settle(r)
    /\ \/ continued' = continued
       \/ ~r.aborted /\ continued' = continued \cup {r.at}

(* A run settles or goes on to wait for the partner. *)
LEMMA ResumeEffect ==
    ASSUME TypeOK, NEW r \in resumes, SelfReady(r) \/ SelfFails(r) \/ PartnerReady(r)
    PROVE  /\ up /\ up' = up
           /\ UNCHANGED <<schedule, resetOf, rehits, recent, paused, disk, banner, usable,
                          armed, spent, void, burnt, open, forgot>>
           /\ Settles(r) \/ \E p \in Sessions : AwaitPartner(r, p)
  <1>1. /\ up /\ up' = up
        /\ UNCHANGED <<schedule, resetOf, rehits, recent, paused, disk, banner, usable,
                       armed, spent, void, burnt, open, forgot>>
    BY Zenon DEF SelfReady, SelfFails, PartnerReady, ResumeUnchanged, serverVars, timerVars
  <1>2. GiveUp(r) \/ (GoOn(r) /\ ~r.aborted) => Settles(r)
    BY Zenon DEF GiveUp, GoOn, Settles
  <1>3. CASE SelfReady(r)
    <2> DEFINE partners == Partners(r.of) \cap usable
    <2>1. partners \subseteq Sessions
      BY DEF Partners
    <2>2. \/ GiveUp(r) \/ (GoOn(r) /\ ~r.aborted)
          \/ \E p \in partners : AwaitPartner(r, p)
      BY <1>3, Zenon DEF SelfReady, Inject
    <2> HIDE DEF partners
    <2>3. Settles(r) \/ \E p \in Sessions : AwaitPartner(r, p)
      BY <1>2, <2>1, <2>2, Zenon
    <2>4. QED
      BY <1>1, <2>3
  <1>4. CASE SelfFails(r)
    <2>1. Settles(r)
      BY <1>2, <1>4, Zenon DEF SelfFails
    <2>2. QED
      BY <1>1, <2>1
  <1>5. CASE PartnerReady(r)
    <2>1. GiveUp(r) \/ (GoOn(r) /\ ~r.aborted)
      BY <1>5, Zenon DEF PartnerReady, Inject
    <2>2. Settles(r)
      BY <1>2, <2>1, Zenon
    <2>3. QED
      BY <1>1, <2>2, Zenon
  <1>6. QED
    BY <1>3, <1>4, <1>5, Zenon

LEMMA ResumeTypeStep ==
    ASSUME TypeOK, FileInv, NEW r \in resumes, SelfReady(r) \/ SelfFails(r) \/ PartnerReady(r)
    PROVE  SchedulerTyped' /\ FileInv'
  <1>1. r \in RunType
    BY DEF TypeOK, RunType
  <1>2. /\ resumes' \subseteq RunType
        /\ inFlight' \in [Sessions -> 0 .. armed]
        /\ continued' \subseteq 1 .. armed
    <2>1. CASE Settles(r)
      <3>1. resumes' \subseteq RunType
        BY <2>1 DEF Settles, Settle, TypeOK, RunType
      <3>2. inFlight' \in [Sessions -> 0 .. armed]
        BY <1>1, <2>1 DEF Settles, Settle, TypeOK, RunType, None
      <3>3. continued' \subseteq 1 .. armed
        BY <1>1, <2>1 DEF Settles, TypeOK, RunType
      <3>4. QED
        BY <3>1, <3>2, <3>3
    <2>2. ASSUME NEW p \in Sessions, AwaitPartner(r, p)
          PROVE  /\ resumes' \subseteq RunType
                 /\ UNCHANGED <<inFlight, continued>>
      <3> DEFINE later == [r EXCEPT !.waits = "partner", !.dead = p \notin alive]
      <3>1. (p \notin alive) \in BOOLEAN
        OBVIOUS
      <3>2. later \in RunType
        BY <1>1, <3>1, Zenon DEF RunType
      <3>3. resumes' = (resumes \ {r}) \cup {later} /\ UNCHANGED <<inFlight, continued>>
        BY <2>2 DEF AwaitPartner
      <3>4. QED
        BY <3>2, <3>3 DEF TypeOK, RunType
    <2>3. QED
      BY <2>1, <2>2, ResumeEffect DEF TypeOK
  <1>3. SchedulerTyped'
    BY <1>2, ResumeEffect DEF TypeOK, SchedulerTyped, RunType
  <1>4. FileInv'
    BY ResumeEffect DEF FileInv, DiskAgrees
  <1>5. QED
    BY <1>3, <1>4

LEMMA RestartTypeStep ==
    ASSUME TypeOK, FileInv, ServerDown \/ Boot
    PROVE  SchedulerTyped' /\ FileInv'
  <1> USE BoundsAssumption DEF None
  <1>1. CASE ServerDown
    <2>1. /\ up' = FALSE /\ paused' = {} /\ resumes' = {}
          /\ schedule' = [s \in Sessions |-> 0] /\ rehits' = [s \in Sessions |-> 0]
          /\ inFlight' = [s \in Sessions |-> 0]
          /\ banner' \in [Sessions -> {"none", "armed"}]
          /\ UNCHANGED <<resetOf, recent, disk, armed, spent, void, continued, burnt, open, forgot>>
      BY <1>1, Zenon DEF ServerDown, history
    <2>2. banner' \in [Sessions -> {"none", "armed", "paused"}]
      BY <2>1
    <2>3. /\ schedule' \in [Sessions -> 0 .. armed]
          /\ rehits' \in [Sessions -> 0 .. MaxConsecutiveRehits]
          /\ inFlight' \in [Sessions -> 0 .. armed]
      BY <2>1 DEF TypeOK
    <2>4. SchedulerTyped'
      BY <2>1, <2>2, <2>3 DEF TypeOK, SchedulerTyped
    <2>5. FileInv'
      BY <2>1 DEF FileInv, DiskAgrees
    <2>6. QED
      BY <2>4, <2>5
  <1>2. CASE Boot
    <2>1. /\ up' = TRUE
          /\ disk' = [schedule |-> schedule', rehits |-> rehits', paused |-> paused']
          /\ UNCHANGED <<resetOf, resumes, inFlight, armed, spent, continued, burnt, open>>
      BY <1>2, Zenon DEF Boot, Persist, resumeVars
    <2>2. /\ schedule' = [s \in Sessions |-> IF s \in usable THEN disk.schedule[s] ELSE 0]
          /\ paused' = disk.paused \cap usable
          /\ recent' = [s \in Sessions |-> recent[s] /\ s \in usable]
          /\ rehits' = [s \in Sessions |-> IF recent'[s] THEN disk.rehits[s] ELSE 0]
      BY <1>2, Zenon DEF Boot, Restored, RestoredPauses
    <2>3. schedule' \in [Sessions -> 0 .. armed] /\ paused' \subseteq Sessions
      BY <2>2 DEF TypeOK
    <2>4. recent' \in [Sessions -> BOOLEAN]
      BY <2>2 DEF TypeOK
    <2>5. rehits' \in [Sessions -> 0 .. MaxConsecutiveRehits]
      BY <2>2 DEF TypeOK
    <2>6. banner' \in [Sessions -> {"none", "armed", "paused"}]
      BY <1>2 DEF Boot, RestoredBanner
    <2>7. void' \subseteq 1 .. armed
      <3>1. {disk.schedule[s] : s \in Sessions \ usable} \ {None} \subseteq 1 .. armed
        BY DEF TypeOK
      <3>2. QED
        BY <1>2, <3>1 DEF Boot, TypeOK
    <2>8. forgot' \in [Sessions -> BOOLEAN]
      <3>1. \A s \in Sessions : (forgot[s] \/ rehits'[s] # disk.rehits[s]) \in BOOLEAN
        OBVIOUS
      <3>2. QED
        BY <1>2, <3>1, Zenon DEF Boot
    <2>9. SchedulerTyped'
      BY <2>1, <2>3, <2>4, <2>5, <2>6, <2>7, <2>8 DEF TypeOK, SchedulerTyped
    <2>10. \A s \in Sessions : /\ rehits'[s] >= MaxConsecutiveRehits => s \in paused'
                               /\ s \in paused' => schedule'[s] = 0
      <3>1. ASSUME NEW s \in Sessions, s \notin usable
            PROVE  rehits'[s] = 0 /\ s \notin paused'
        <4>1. ~recent'[s]
          BY <2>2, <3>1
        <4>2. QED
          BY <2>2, <3>1, <4>1
      <3>2. ASSUME NEW s \in Sessions, s \in usable
            PROVE  /\ rehits'[s] = disk.rehits[s] \/ rehits'[s] = 0
                   /\ s \in paused' <=> s \in disk.paused
                   /\ schedule'[s] = disk.schedule[s]
        BY <2>2, <3>2
      <3>3. QED
        BY <3>1, <3>2 DEF FileInv
    <2>11. FileInv'
      BY <2>1, <2>10 DEF FileInv, DiskAgrees
    <2>12. QED
      BY <2>9, <2>11
  <1>3. QED
    BY <1>1, <1>2

LEMMA SilentTypeStep ==
    ASSUME TypeOK, FileInv, Silent
    PROVE  SchedulerTyped' /\ FileInv'
  <1> USE DEF Silent, resumeVars, history
  <1>1. SchedulerTyped'
    BY DEF TypeOK, SchedulerTyped
  <1>2. FileInv'
    BY DEF FileInv, DiskAgrees
  <1>3. QED
    BY <1>1, <1>2

LEMMA TypeStep == TypeOK /\ FileInv /\ [Next]_vars => TypeOK' /\ FileInv'
  <1> SUFFICES ASSUME TypeOK, FileInv, [Next]_vars
               PROVE  TypeOK' /\ FileInv'
    OBVIOUS
  <1>1. SchedulerTyped' /\ FileInv'
    BY Steps, HitStep, CancelTypeStep, FireTypeStep, ResumeTypeStep, RestartTypeStep,
       SilentTypeStep
  <1>2. QED
    BY <1>1, ServerTypeStep DEF TypeOK, ServerTyped, SchedulerTyped

LEMMA TypeInit == Init => TypeOK /\ FileInv
  <1> SUFFICES ASSUME Init
               PROVE  TypeOK /\ FileInv
    OBVIOUS
  <1>1. (CHOOSE l \in Limits : TRUE) \in Limits
    BY LimitsAssumption
  <1>2. /\ up = TRUE /\ crashes = 0 /\ enabled = TRUE /\ asked = 0 /\ requests = {}
        /\ alive = Sessions /\ usable = Sessions /\ stopped = {}
    BY DEF Init
  <1>3. ServerTyped
    BY <1>2, BoundsAssumption DEF ServerTyped
  <1>4. /\ armed = 0 /\ resumes = {} /\ spent = {} /\ void = {} /\ continued = {} /\ paused = {}
        /\ schedule = [s \in Sessions |-> 0] /\ rehits = [s \in Sessions |-> 0]
        /\ inFlight = [s \in Sessions |-> 0] /\ burnt = [s \in Sessions |-> 0]
        /\ recent = [s \in Sessions |-> FALSE] /\ open = [s \in Sessions |-> FALSE]
        /\ forgot = [s \in Sessions |-> FALSE] /\ banner = [s \in Sessions |-> "none"]
        /\ disk = [schedule |-> schedule, rehits |-> rehits, paused |-> {}]
    BY DEF Init, None
  <1>5. resetOf \in [Sessions -> Limits]
    BY <1>1 DEF Init
  <1>6. SchedulerTyped
    BY <1>4, <1>5, BoundsAssumption DEF SchedulerTyped
  <1>7. FileInv
    BY <1>2, <1>4, BoundsAssumption DEF FileInv, DiskAgrees
  <1>8. QED
    BY <1>3, <1>6, <1>7 DEF TypeOK, ServerTyped, SchedulerTyped

LEMMA TypeInvariant == Spec => [](TypeOK /\ FileInv)
  BY TypeInit, TypeStep, PTL DEF Spec

(* Type correctness: among others that no count passes the limit and that  *)
(* nothing refers to a schedule that was never armed.                      *)
THEOREM TypeCorrect == Spec => []TypeOK
  BY TypeInvariant, PTL

(* Whatever mutation of schedule(), cancel(), fire(), pause() or restore() *)
(* came last, a crash right after it loses nothing: the file agrees.       *)
THEOREM DiskCorrect == Spec => []DiskAgrees
  <1>1. FileInv => DiskAgrees
    BY DEF FileInv
  <1>2. QED
    BY <1>1, TypeInvariant, PTL

-----------------------------------------------------------------------------
(* Fire-once, and the silence of what was cancelled *)

(* Aborted runs are runs that were there: the same schedules, one each, and *)
(* those that cancel() reached are aborted.                                 *)
LEMMA AbortEffect ==
    ASSUME TypeOK, NEW S \in SUBSET Sessions, RunsAbort(S)
    PROVE  \A a, b \in resumes' : \E r, q \in resumes :
               /\ a.at = r.at /\ b.at = q.at
               /\ r = q => a = b
               /\ r.aborted => a.aborted
               /\ r \in Running(S) => a.aborted
  <1> USE DEF RunType
  <1> DEFINE Once(r) == IF r \in Running(S) THEN Aborted(r) ELSE r
             Twice(r, s) == IF Once(r).of = s THEN Messaged(Once(r)) ELSE Once(r)
  <1>1. ASSUME NEW r \in resumes
        PROVE  /\ Once(r) \in RunType /\ Once(r).at = r.at
               /\ r.aborted \/ r \in Running(S) => Once(r).aborted
    <2>1. r \in RunType
      BY DEF TypeOK
    <2>2. Aborted(r) \in RunType /\ Aborted(r).at = r.at /\ Aborted(r).aborted
      BY <2>1 DEF Aborted
    <2>3. QED
      BY <2>1, <2>2
  <1>2. ASSUME NEW r \in resumes, NEW s \in Sessions
        PROVE  /\ Twice(r, s).at = r.at
               /\ r.aborted \/ r \in Running(S) => Twice(r, s).aborted
    <2> HIDE DEF Once
    <2>1. /\ Messaged(Once(r)).at = Once(r).at
          /\ Messaged(Once(r)).aborted = Once(r).aborted
      BY <1>1 DEF Messaged
    <2>2. QED
      BY <1>1, <2>1
  <1>3. CASE resumes' = Abort(S)
    <2>1. resumes' = {Once(r) : r \in resumes}
      BY <1>3 DEF Abort
    <2> HIDE DEF Once
    <2>2. QED
      BY <1>1, <2>1
  <1>4. ASSUME NEW s \in Sessions,
               resumes' = {IF r.of = s THEN Messaged(r) ELSE r : r \in Abort(S)}
        PROVE  resumes' = {Twice(r, s) : r \in resumes}
    <2> DEFINE Noted(r) == IF r.of = s THEN Messaged(r) ELSE r
    <2>1. Abort(S) = {Once(r) : r \in resumes}
      BY DEF Abort
    <2>2. resumes' = {Noted(r) : r \in Abort(S)}
      BY <1>4
    <2>3. \A r : Twice(r, s) = Noted(Once(r))
      OBVIOUS
    <2> HIDE DEF Once, Noted, Twice
    <2>4. QED
      BY <2>1, <2>2, <2>3
  <1>5. ASSUME NEW s \in Sessions, resumes' = {Twice(r, s) : r \in resumes}
        PROVE  \A a, b \in resumes' : \E r, q \in resumes :
                   /\ a.at = r.at /\ b.at = q.at
                   /\ r = q => a = b
                   /\ r.aborted => a.aborted
                   /\ r \in Running(S) => a.aborted
    <2> HIDE DEF Twice
    <2>1. QED
      BY <1>2, <1>5
  <1>6. QED
    BY <1>3, <1>4, <1>5 DEF RunsAbort

LEMMA CancelRunStep ==
    ASSUME TypeOK, FileInv, RunInv, NEW S \in SUBSET Sessions, CancelStep(S)
    PROVE  RunInv'
  <1> USE DEF None
  <1> DEFINE cancelled == {schedule[s] : s \in S} \ {0}
             running == {r.at : r \in Running(S)}
  <1>1. /\ up /\ spent' = spent /\ continued' = continued
        /\ disk.schedule = schedule /\ disk'.schedule = schedule'
        /\ schedule' = [s \in Sessions |-> IF s \in S THEN 0 ELSE schedule[s]]
        /\ void' = void \cup cancelled \cup running
    BY DEF CancelStep, Cancel, Persist, FileInv, DiskAgrees
  <1>2. \A r \in Running(S) : r \in resumes
    BY DEF Running
  <1>3. running \subseteq spent \ continued
    BY <1>2 DEF RunInv
  <1>4. cancelled \cap spent = {}
    BY <1>1 DEF RunInv
  <1>5. cancelled \subseteq 1 .. armed /\ void \subseteq 1 .. armed /\ spent \subseteq 1 .. armed
    BY DEF TypeOK
  <1>6. \A s \in Sessions : disk'.schedule[s] \notin spent' \cup void'
    <2>1. ASSUME NEW s \in S
          PROVE  disk'.schedule[s] \notin spent' \cup void'
      BY <1>1, <1>3, <1>5
    <2>2. ASSUME NEW s \in Sessions \ S
          PROVE  disk'.schedule[s] \notin spent' \cup void'
      <3>1. disk'.schedule[s] = schedule[s] /\ schedule[s] \notin spent \cup void
        BY <1>1 DEF RunInv
      <3>2. schedule[s] \notin cancelled
        BY <1>1 DEF RunInv
      <3>3. QED
        BY <1>1, <1>3, <3>1, <3>2
    <2>3. QED
      BY <2>1, <2>2
  <1>7. \A s, t \in Sessions :
           s # t /\ disk'.schedule[s] # 0 => disk'.schedule[s] # disk'.schedule[t]
    BY <1>1 DEF RunInv
  <1>8. \A r \in resumes' : r.at \in spent' \ continued'
    BY <1>1, AbortEffect DEF RunInv, CancelStep
  <1>9. \A r, q \in resumes' : r.at = q.at => r = q
    BY AbortEffect DEF RunInv, CancelStep
  <1>10. \A a \in resumes' : a.at \in void' => a.aborted
    <2> SUFFICES ASSUME NEW a \in resumes', a.at \in void'
                 PROVE  a.aborted
      OBVIOUS
    <2>1. PICK r \in resumes : /\ a.at = r.at
                               /\ r.aborted => a.aborted
                               /\ r \in Running(S) => a.aborted
      BY AbortEffect DEF CancelStep
    <2>2. r.at \notin cancelled
      BY <1>4 DEF RunInv
    <2>3. r.at \in running => r \in Running(S)
      BY <1>2 DEF RunInv
    <2>4. QED
      BY <1>1, <2>1, <2>2, <2>3 DEF RunInv
  <1>11. continued' \cap void' = {}
    BY <1>1, <1>3, <1>4 DEF RunInv, CancelledIsQuiet
  <1>12. QED
    BY <1>1, <1>6, <1>7, <1>8, <1>9, <1>10, <1>11 DEF RunInv, CancelledIsQuiet

LEMMA HitRunStep ==
    ASSUME TypeOK, FileInv, RunInv, NEW s \in Sessions, NEW l \in Limits,
           HitArms(s, l) \/ HitPauses(s, l)
    PROVE  RunInv'
  <1> USE DEF None
  <1>1. PICK n \in {0, armed + 1} : schedule' = [schedule EXCEPT ![s] = n]
    BY DEF HitArms, HitPauses, Pause
  <1>2. /\ up /\ disk.schedule = schedule /\ disk'.schedule = schedule'
    BY DEF HitArms, HitPauses, Heard, Pause, Persist, FileInv, DiskAgrees
  <1>3. /\ UNCHANGED <<spent, continued, resumes>>
        /\ void' = void \cup ({schedule[s]} \ {0})
    BY Zenon DEF HitArms, HitPauses, resumeVars
  <1>4. /\ schedule \in [Sessions -> 0 .. armed] /\ armed \in Nat
        /\ spent \subseteq 1 .. armed /\ void \subseteq 1 .. armed
    BY DEF TypeOK
  <1>5. n \notin spent \cup void' /\ \A t \in Sessions : n # 0 => schedule[t] # n
    BY <1>1, <1>3, <1>4
  <1>6. \A t \in Sessions : disk'.schedule[t] \notin spent' \cup void'
    BY <1>1, <1>2, <1>3, <1>4, <1>5 DEF RunInv
  <1>7. \A t, u \in Sessions :
           t # u /\ disk'.schedule[t] # 0 => disk'.schedule[t] # disk'.schedule[u]
    BY <1>1, <1>2, <1>4, <1>5 DEF RunInv
  <1>8. schedule[s] \notin spent
    BY <1>2 DEF RunInv
  <1>9. QED
    BY <1>3, <1>6, <1>7, <1>8 DEF RunInv, CancelledIsQuiet

LEMMA FireRunStep ==
    ASSUME TypeOK, FileInv, RunInv, NEW s \in Sessions, Fire(s)
    PROVE  RunInv'
  <1> USE DEF None
  <1> DEFINE n == schedule[s]
  <1>1. /\ up /\ disk.schedule = schedule /\ disk'.schedule = schedule'
        /\ schedule' = [schedule EXCEPT ![s] = 0] /\ continued' = continued
        /\ n # 0
    BY DEF Fire, DropRecord, Persist, FileInv, DiskAgrees
  <1>2. /\ schedule \in [Sessions -> 0 .. armed]
        /\ spent \subseteq 1 .. armed /\ void \subseteq 1 .. armed /\ n \in 1 .. armed
    BY <1>1 DEF TypeOK
  <1>3. n \notin spent \cup void
    BY <1>1 DEF RunInv
  <1>4. \/ spent' = spent \cup {n} /\ void' = void
        \/ spent' = spent /\ void' = void \cup {n} /\ resumes' = resumes
    BY DEF Fire
  <1>5. \A t \in Sessions : disk'.schedule[t] \notin spent' \cup void'
    BY <1>1, <1>2, <1>3, <1>4 DEF RunInv
  <1>6. \A t, u \in Sessions :
           t # u /\ disk'.schedule[t] # 0 => disk'.schedule[t] # disk'.schedule[u]
    BY <1>1, <1>2 DEF RunInv
  <1>7. CASE resumes' = resumes
    BY <1>1, <1>3, <1>4, <1>5, <1>6, <1>7 DEF RunInv, CancelledIsQuiet
  <1>8. CASE resumes' # resumes
    <2> DEFINE new == [of |-> s, at |-> n, waits |-> "self", dead |-> s \notin alive,
                       aborted |-> FALSE, messaged |-> FALSE]
    <2>1. resumes' = resumes \cup {new} /\ new.at = n
      BY <1>8 DEF Fire
    <2>2. spent' = spent \cup {n} /\ void' = void
      BY <1>4, <1>8
    <2> HIDE DEF n, new
    <2>3. \A r \in resumes : r.at # n
      BY <1>3 DEF RunInv
    <2>4. /\ \A r \in resumes' : r.at \in spent' \ continued'
          /\ \A r, q \in resumes' : r.at = q.at => r = q
          /\ \A r \in resumes' : r.at \in void' => r.aborted
      BY <1>1, <1>3, <2>1, <2>2, <2>3 DEF RunInv
    <2>5. continued' \subseteq spent' /\ continued' \cap void' = {}
      BY <1>1, <2>2 DEF RunInv, CancelledIsQuiet
    <2>6. QED
      BY <1>5, <1>6, <2>4, <2>5 DEF RunInv, CancelledIsQuiet
  <1>9. QED
    BY <1>7, <1>8

LEMMA ResumeRunStep ==
    ASSUME TypeOK, RunInv, NEW r \in resumes, SelfReady(r) \/ SelfFails(r) \/ PartnerReady(r)
    PROVE  RunInv'
  <1>1. UNCHANGED <<disk, spent, void>>
    BY ResumeEffect
  <1>2. CASE Settles(r)
    <2>1. resumes' = resumes \ {r}
      BY <1>2 DEF Settles, Settle
    <2>2. \A q \in resumes' : q.at # r.at
      BY <2>1 DEF RunInv
    <2>3. r.at \in spent /\ (r.aborted \/ r.at \notin void)
      BY DEF RunInv
    <2>4. continued' = continued \/ (continued' = continued \cup {r.at} /\ r.at \notin void)
      BY <1>2, <2>3 DEF Settles
    <2>5. QED
      BY <1>1, <2>1, <2>2, <2>3, <2>4 DEF RunInv, CancelledIsQuiet
  <1>3. ASSUME NEW p \in Sessions, AwaitPartner(r, p)
        PROVE  RunInv'
    <2> DEFINE later == [r EXCEPT !.waits = "partner", !.dead = p \notin alive]
    <2>1. resumes' = (resumes \ {r}) \cup {later} /\ continued' = continued
      BY <1>3 DEF AwaitPartner
    <2>2. later.at = r.at /\ later.aborted = r.aborted
      BY DEF TypeOK
    <2> HIDE DEF later
    <2>3. QED
      BY <1>1, <2>1, <2>2 DEF RunInv, CancelledIsQuiet
  <1>4. QED
    BY <1>2, <1>3, ResumeEffect

LEMMA RestartRunStep ==
    ASSUME TypeOK, FileInv, RunInv, ServerDown \/ Boot
    PROVE  RunInv'
  <1> USE DEF None
  <1>1. CASE ServerDown
    <2>1. UNCHANGED <<disk, spent, void, continued>> /\ resumes' = {}
      BY <1>1, Zenon DEF ServerDown, history
    <2>2. QED
      BY <2>1 DEF RunInv, CancelledIsQuiet
  <1>2. CASE Boot
    <2> DEFINE dropped == {disk.schedule[s] : s \in Sessions \ usable} \ {0}
    <2>1. /\ UNCHANGED <<spent, continued, resumes>> /\ resumes = {}
          /\ void' = void \cup dropped
          /\ disk'.schedule = [s \in Sessions |-> IF s \in usable THEN disk.schedule[s] ELSE 0]
      BY <1>2 DEF Boot, Persist, Restored, FileInv, resumeVars
    <2>2. /\ \A s \in usable : disk.schedule[s] \notin dropped
          /\ 0 \notin spent \cup void /\ dropped \cap spent = {}
      BY DEF RunInv, TypeOK
    <2>3. \A s \in Sessions : disk'.schedule[s] \notin spent' \cup void'
      BY <2>1, <2>2 DEF RunInv
    <2>4. \A s, t \in Sessions :
             s # t /\ disk'.schedule[s] # 0 => disk'.schedule[s] # disk'.schedule[t]
      BY <2>1 DEF RunInv
    <2> HIDE DEF dropped
    <2>5. QED
      BY <2>1, <2>2, <2>3, <2>4 DEF RunInv, CancelledIsQuiet
  <1>3. QED
    BY <1>1, <1>2

LEMMA RunStep == TypeOK /\ FileInv /\ RunInv /\ [Next]_vars => RunInv'
  <1> SUFFICES ASSUME TypeOK, FileInv, RunInv, [Next]_vars
               PROVE  RunInv'
    OBVIOUS
  <1>1. CASE Silent
    BY <1>1 DEF Silent, RunInv, CancelledIsQuiet, resumeVars, history
  <1>2. QED
    BY <1>1, Steps, HitRunStep, CancelRunStep, FireRunStep, ResumeRunStep, RestartRunStep

LEMMA RunInvariant == Spec => []RunInv
  <1>1. Init => RunInv
    BY DEF Init, RunInv, CancelledIsQuiet, None
  <1>2. QED
    BY <1>1, RunStep, TypeInvariant, PTL DEF Spec

(* Fire-once: what fired or was cancelled is neither armed nor in the file, *)
(* whatever crashes, restores and later hits there are.                     *)
THEOREM FiresOnce == Spec => []FireOnce
  <1>1. TypeOK /\ FileInv /\ RunInv => FireOnce
    BY DEF TypeOK, FileInv, DiskAgrees, RunInv, FireOnce, None
  <1>2. QED
    BY <1>1, RunInvariant, TypeInvariant, PTL

(* A run that cancel() aborted, or whose schedule was cancelled, does not   *)
(* reach its inject, however its awaits interleave with the cancel.         *)
THEOREM CancelledStaysQuiet == Spec => []CancelledIsQuiet
  <1>1. RunInv => CancelledIsQuiet
    BY DEF RunInv
  <1>2. QED
    BY <1>1, RunInvariant, PTL

-----------------------------------------------------------------------------
(* The banner *)

LEMMA BannerStep == TypeOK /\ FileInv /\ BannerAgrees /\ [Next]_vars => BannerAgrees'
  <1> SUFFICES ASSUME TypeOK, FileInv, BannerAgrees, [Next]_vars
               PROVE  BannerAgrees'
    OBVIOUS
  <1> USE DEF None
  <1>1. ASSUME NEW s \in Sessions, NEW l \in Limits, HitArms(s, l)
        PROVE  BannerAgrees'
    <2>1. /\ up /\ up' = up /\ usable' = usable /\ paused' = paused /\ s \notin paused
          /\ \E n \in Nat \ {0} : schedule' = [schedule EXCEPT ![s] = n]
          /\ banner' = [banner EXCEPT ![s] = "armed"]
      <3>1. /\ up /\ s \notin paused /\ UNCHANGED <<up, usable, paused>>
            /\ schedule' = [schedule EXCEPT ![s] = armed'] /\ armed' = armed + 1
            /\ banner' = [banner EXCEPT ![s] = "armed"]
        BY <1>1 DEF HitArms, Heard, serverVars, sessionVars
      <3>2. armed' \in Nat \ {0}
        BY <3>1 DEF TypeOK
      <3>3. QED
        BY <3>1, <3>2
    <2>2. QED
      BY <2>1 DEF BannerAgrees, TypeOK
  <1>2. ASSUME NEW s \in Sessions, NEW l \in Limits, HitPauses(s, l)
        PROVE  BannerAgrees'
    <2>1. /\ up /\ up' = up /\ usable' = usable /\ paused' = paused \cup {s}
          /\ schedule' = [schedule EXCEPT ![s] = 0]
          /\ banner' = [banner EXCEPT ![s] = "paused"]
      BY <1>2 DEF HitPauses, Pause, Heard, serverVars, sessionVars
    <2>2. QED
      BY <2>1 DEF BannerAgrees, TypeOK
  <1>3. ASSUME NEW S \in SUBSET Sessions, CancelStep(S)
        PROVE  BannerAgrees'
    <2>1. /\ up /\ up' = up /\ usable' = usable /\ paused' = paused \ S
          /\ schedule' = [s \in Sessions |-> IF s \in S THEN 0 ELSE schedule[s]]
          /\ banner' = [s \in Sessions |-> IF s \in S /\ (schedule[s] # 0 \/ s \in paused)
                                           THEN "none" ELSE banner[s]]
      BY <1>3, Zenon DEF CancelStep, Cancel
    <2>2. usable \subseteq Sessions
      BY DEF TypeOK
    <2>3. QED
      BY <2>1, <2>2 DEF BannerAgrees
  <1>4. ASSUME NEW s \in Sessions, Fire(s)
        PROVE  BannerAgrees'
    <2>1. /\ up /\ up' = up /\ usable' = usable /\ paused' = paused
          /\ schedule' = [schedule EXCEPT ![s] = 0] /\ schedule[s] # 0
          /\ banner' = [banner EXCEPT ![s] = "none"]
      BY <1>4 DEF Fire, DropRecord, serverVars
    <2>2. s \notin paused
      BY <2>1 DEF FileInv, DiskAgrees
    <2>3. QED
      BY <2>1, <2>2 DEF BannerAgrees, TypeOK
  <1>5. ASSUME NEW r \in resumes, SelfReady(r) \/ SelfFails(r) \/ PartnerReady(r)
        PROVE  BannerAgrees'
    BY <1>5, ResumeEffect DEF BannerAgrees
  <1>6. CASE ServerDown
    BY <1>6 DEF ServerDown, BannerAgrees
  <1>7. CASE Boot
    <2>1. /\ banner' = [s \in Sessions |-> IF schedule'[s] # 0 THEN "armed"
                                           ELSE IF s \in paused' THEN "paused" ELSE "none"]
          /\ usable' = usable
      BY <1>7, Zenon DEF Boot, RestoredBanner, sessionVars
    <2>2. \A s \in Sessions : s \in paused' => schedule'[s] = 0
      BY <1>7 DEF Boot, Restored, RestoredPauses, FileInv
    <2>3. usable \subseteq Sessions
      BY DEF TypeOK
    <2>4. QED
      BY <2>1, <2>2, <2>3 DEF BannerAgrees
  <1>8. CASE Silent
    BY <1>8 DEF Silent, BannerAgrees
  <1>9. QED
    BY <1>1, <1>2, <1>3, <1>4, <1>5, <1>6, <1>7, <1>8, Steps

(* The banner of every session that exists says what the scheduler will do. *)
THEOREM BannerCorrect == Spec => []BannerAgrees
  <1>1. Init => BannerAgrees
    BY DEF Init, BannerAgrees, None
  <1>2. QED
    BY <1>1, BannerStep, TypeInvariant, PTL DEF Spec

-----------------------------------------------------------------------------
(* The repeat-limit guard *)

LEMMA CountStep == TypeOK /\ FileInv /\ CountInv /\ [Next]_vars => CountInv'
  <1> SUFFICES ASSUME TypeOK, FileInv, CountInv, [Next]_vars
               PROVE  CountInv'
    OBVIOUS
  <1> USE BoundsAssumption DEF None
  <1>0. usable \subseteq Sessions
    BY DEF TypeOK
  <1>1. ASSUME NEW s \in Sessions, NEW l \in Limits, HitArms(s, l)
        PROVE  CountInv'
    <2>1. /\ disk'.rehits = [rehits EXCEPT ![s] = IF recent[s] THEN @ + 1 ELSE 0]
          /\ disk'.schedule = [schedule EXCEPT ![s] = armed'] /\ disk'.paused = paused
          /\ disk = [schedule |-> schedule, rehits |-> rehits, paused |-> paused]
          /\ usable' = usable
      BY <1>1 DEF HitArms, Heard, Persist, FileInv, DiskAgrees, sessionVars
    <2>2. /\ burnt' = [burnt EXCEPT ![s] = IF ~recent[s] THEN 0
                                           ELSE IF open[s] THEN @ + 1 ELSE @]
          /\ forgot' = [forgot EXCEPT ![s] = @ /\ recent[s]]
      BY <1>1 DEF HitArms, CountHit
    <2>3. recent[s] => rehits[s] + 1 < MaxConsecutiveRehits
      BY <1>1 DEF HitArms, TypeOK
    <2>4. ASSUME ~forgot'[s], s \in usable
          PROVE  burnt'[s] <= disk'.rehits[s] /\ burnt'[s] < MaxConsecutiveRehits
      <3>1. CASE recent[s]
        <4>1. ~forgot[s]
          BY <2>2, <2>4, <3>1 DEF TypeOK
        <4>2. burnt[s] <= rehits[s]
          BY <2>1, <2>4, <4>1 DEF CountInv
        <4>3. disk'.rehits[s] = rehits[s] + 1
          BY <2>1, <3>1 DEF TypeOK
        <4>4. burnt'[s] <= burnt[s] + 1
          BY <2>2, <3>1 DEF TypeOK
        <4>5. /\ burnt[s] \in Nat /\ rehits[s] \in Nat
              /\ burnt'[s] \in Nat
          BY <2>2 DEF TypeOK
        <4>6. QED
          BY <2>3, <3>1, <4>2, <4>3, <4>4, <4>5
      <3>2. CASE ~recent[s]
        BY <2>1, <2>2, <3>2 DEF TypeOK
      <3>3. QED
        BY <3>1, <3>2
    <2>5. ASSUME NEW t \in Sessions, t # s
          PROVE  /\ burnt'[t] = burnt[t] /\ forgot'[t] = forgot[t]
                 /\ disk'.rehits[t] = disk.rehits[t]
                 /\ disk'.schedule[t] = disk.schedule[t]
      BY <2>1, <2>2, <2>5 DEF TypeOK
    <2>6. burnt'[s] \in Nat
      BY <2>2 DEF TypeOK
    <2>7. disk'.paused = disk.paused
      BY <2>1
    <2>8. ASSUME NEW t \in usable', ~forgot'[t]
          PROVE  /\ burnt'[t] <= disk'.rehits[t]
                 /\ burnt'[t] >= MaxConsecutiveRehits =>
                       t \in disk'.paused /\ disk'.schedule[t] = 0
      <3>1. CASE t = s
        BY <2>1, <2>4, <2>6, <2>8, <3>1
      <3>2. CASE t # s
        BY <1>0, <2>1, <2>5, <2>7, <2>8, <3>2 DEF CountInv
      <3>3. QED
        BY <3>1, <3>2
    <2>9. QED
      BY <2>8 DEF CountInv
  <1>2. ASSUME NEW s \in Sessions, NEW l \in Limits, HitPauses(s, l)
        PROVE  CountInv'
    <2>1. /\ disk'.rehits = [rehits EXCEPT ![s] = @ + 1]
          /\ disk'.schedule = [schedule EXCEPT ![s] = 0] /\ disk'.paused = paused \cup {s}
          /\ disk = [schedule |-> schedule, rehits |-> rehits, paused |-> paused]
          /\ usable' = usable /\ recent[s]
      BY <1>2 DEF HitPauses, Pause, Heard, Persist, FileInv, DiskAgrees, sessionVars
    <2>2. /\ burnt' = [burnt EXCEPT ![s] = IF open[s] THEN @ + 1 ELSE @]
          /\ forgot' = [forgot EXCEPT ![s] = @ /\ recent[s]]
      BY <1>2, <2>1 DEF HitPauses, CountHit, TypeOK
    <2>3. /\ burnt'[s] <= burnt[s] + 1 /\ burnt[s] \in Nat /\ rehits[s] \in Nat
          /\ burnt'[s] \in Nat /\ disk'.rehits[s] = rehits[s] + 1
      BY <2>1, <2>2 DEF TypeOK
    <2>4. forgot'[s] = forgot[s]
      BY <2>1, <2>2 DEF TypeOK
    <2>5. ASSUME NEW t \in Sessions, t # s
          PROVE  /\ burnt'[t] = burnt[t] /\ forgot'[t] = forgot[t]
                 /\ disk'.rehits[t] = disk.rehits[t]
                 /\ disk'.schedule[t] = disk.schedule[t]
                 /\ t \in disk.paused => t \in disk'.paused
      BY <2>1, <2>2, <2>5 DEF TypeOK
    <2>6. s \in disk'.paused /\ disk'.schedule[s] = 0
      BY <2>1 DEF TypeOK
    <2>7. ASSUME NEW t \in usable', ~forgot'[t]
          PROVE  /\ burnt'[t] <= disk'.rehits[t]
                 /\ burnt'[t] >= MaxConsecutiveRehits =>
                       t \in disk'.paused /\ disk'.schedule[t] = 0
      <3>1. CASE t = s
        <4>1. burnt[s] <= rehits[s]
          BY <2>1, <2>4, <2>7, <3>1 DEF CountInv
        <4>2. QED
          BY <2>3, <2>6, <3>1, <4>1
      <3>2. CASE t # s
        BY <1>0, <2>1, <2>5, <2>7, <3>2 DEF CountInv
      <3>3. QED
        BY <3>1, <3>2
    <2>8. QED
      BY <2>7 DEF CountInv
  <1>3. ASSUME NEW S \in SUBSET Sessions, CancelStep(S)
        PROVE  CountInv'
    <2>1. /\ disk'.schedule = [s \in Sessions |-> IF s \in S THEN 0 ELSE disk.schedule[s]]
          /\ disk'.rehits = [s \in Sessions |-> IF s \in S THEN 0 ELSE disk.rehits[s]]
          /\ disk'.paused = disk.paused \ S
          /\ burnt' = [s \in Sessions |-> IF s \in S THEN 0 ELSE burnt[s]]
          /\ forgot' = [s \in Sessions |-> forgot[s] /\ s \notin S]
          /\ usable' = usable
      BY <1>3 DEF CancelStep, Cancel, Persist, FileInv, DiskAgrees
    <2>2. ASSUME NEW t \in usable, t \in S
          PROVE  burnt'[t] = 0 /\ disk'.rehits[t] = 0
      BY <1>0, <2>1, <2>2
    <2>3. ASSUME NEW t \in usable, t \notin S
          PROVE  /\ burnt'[t] = burnt[t]
                 /\ forgot'[t] <=> forgot[t]
                 /\ disk'.rehits[t] = disk.rehits[t]
                 /\ disk'.schedule[t] = disk.schedule[t]
                 /\ t \in disk.paused => t \in disk'.paused
      BY <1>0, <2>1, <2>3 DEF TypeOK
    <2>4. QED
      BY <2>1, <2>2, <2>3 DEF CountInv
  <1>4. ASSUME NEW s \in Sessions, Fire(s)
        PROVE  CountInv'
    <2>1. /\ disk'.schedule = [disk.schedule EXCEPT ![s] = 0]
          /\ disk'.rehits = disk.rehits /\ disk'.paused = disk.paused
          /\ UNCHANGED <<burnt, forgot, usable>>
      <3>1. /\ up /\ DropRecord(s)
            /\ UNCHANGED <<burnt, forgot, usable>>
        BY <1>4, Zenon DEF Fire
      <3>2. /\ disk = [schedule |-> schedule, rehits |-> rehits, paused |-> paused]
            /\ disk' = [schedule |-> schedule', rehits |-> rehits', paused |-> paused']
            /\ schedule' = [schedule EXCEPT ![s] = 0] /\ UNCHANGED <<rehits, paused>>
        BY <3>1, Zenon DEF DropRecord, Persist, FileInv, DiskAgrees
      <3>3. /\ disk.schedule = schedule /\ disk.rehits = rehits /\ disk.paused = paused
            /\ disk'.schedule = schedule' /\ disk'.rehits = rehits' /\ disk'.paused = paused'
        BY <3>2
      <3>4. QED
        BY <3>1, <3>2, <3>3, Zenon
    <2>2. QED
      BY <1>0, <2>1 DEF CountInv, TypeOK
  <1>5. ASSUME NEW r \in resumes, SelfReady(r) \/ SelfFails(r) \/ PartnerReady(r)
        PROVE  CountInv'
    BY <1>5, ResumeEffect DEF CountInv
  <1>6. CASE ServerDown
    BY <1>6 DEF ServerDown, CountInv, history
  <1>7. CASE Boot
    <2>1. /\ disk'.rehits = rehits' /\ disk'.paused = disk.paused \cap usable
          /\ disk'.schedule = [s \in Sessions |-> IF s \in usable THEN disk.schedule[s] ELSE 0]
          /\ forgot' = [s \in Sessions |-> forgot[s] \/ rehits'[s] # disk.rehits[s]]
          /\ UNCHANGED <<burnt, usable>>
      BY <1>7 DEF Boot, Persist, Restored, RestoredPauses, sessionVars
    <2>2. ASSUME NEW t \in usable, ~forgot'[t]
          PROVE  /\ ~forgot[t] /\ disk'.rehits[t] = disk.rehits[t]
                 /\ disk'.schedule[t] = disk.schedule[t]
                 /\ t \in disk.paused => t \in disk'.paused
      BY <1>0, <2>1, <2>2
    <2>3. QED
      BY <2>1, <2>2 DEF CountInv
  <1>8. CASE Silent
    BY <1>8 DEF Silent, CountInv, history
  <1>9. QED
    BY <1>1, <1>2, <1>3, <1>4, <1>5, <1>6, <1>7, <1>8, Steps

(* Fires that ran straight back into the limit, MaxConsecutiveRehits of     *)
(* them in a row, leave the session paused, unless a restart dropped the    *)
(* count.                                                                   *)
THEOREM RehitsArePaused == Spec => []RehitBound
  <1>1. Init => CountInv
    BY BoundsAssumption DEF Init, CountInv, None
  <1>2. FileInv /\ CountInv => RehitBound
    BY DEF FileInv, DiskAgrees, CountInv, RehitBound
  <1>3. QED
    BY <1>1, <1>2, CountStep, TypeInvariant, PTL DEF Spec

-----------------------------------------------------------------------------
(* Who ends a pause *)

(* The requests through which a user reaches the pause of s. *)
UserEnds(s) ==
    \/ UserMessage(s) \/ UserCancel(s) \/ Delete(s) \/ TurnOff
    \/ \E t \in Sessions : Stop(t) \/ Archive(t)

LEMMA PauseStep ==
    ASSUME TypeOK, FileInv, [Next]_vars,
           NEW s \in usable, s \in disk.paused, s \notin disk'.paused
    PROVE  UserEnds(s)
  <1>0. s \in Sessions
    BY DEF TypeOK
  <1>1. ASSUME NEW S \in SUBSET Sessions, up, Cancel(S)
        PROVE  s \in S
    BY <1>1 DEF Cancel, Persist, FileInv, DiskAgrees
  <1>2. ASSUME NEW t \in Sessions, UserMessage(t) \/ UserCancel(t) \/ Delete(t)
        PROVE  s = t
    BY <1>1, <1>2 DEF UserMessage, UserCancel, Delete, Begin, Ask
  <1>3. ASSUME NEW t \in Sessions, NEW l \in Limits, HitArms(t, l) \/ HitPauses(t, l)
        PROVE  FALSE
    <2>1. disk'.paused = paused' /\ up /\ paused \subseteq paused'
      BY <1>3 DEF HitArms, HitPauses, Heard, Pause, Persist
    <2>2. QED
      BY <2>1 DEF FileInv, DiskAgrees
  <1>4. ASSUME NEW t \in Sessions, Exit(t) \/ Revive(t) \/ ManualRelaunch(t) \/ WindowPasses(t)
        PROVE  FALSE
    BY <1>4 DEF Exit, Revive, ManualRelaunch, WindowPasses
  <1>5. ASSUME TurnOn PROVE FALSE
    BY <1>5 DEF TurnOn
  <1>6. ASSUME NEW t \in Sessions, Fire(t) PROVE FALSE
    <2>1. disk'.paused = paused' /\ up /\ paused = paused'
      BY <1>6 DEF Fire, DropRecord, Persist
    <2>2. QED
      BY <2>1 DEF FileInv, DiskAgrees
  <1>7. ASSUME NEW q \in requests, NEW t \in q.scope, Kill(q, t) PROVE FALSE
    BY <1>7 DEF Kill
  <1>8. ASSUME NEW r \in resumes, SelfReady(r) \/ SelfFails(r) \/ PartnerReady(r) PROVE FALSE
    BY <1>8, ResumeEffect
  <1>9. ASSUME ServerDown \/ Boot PROVE FALSE
    BY <1>9 DEF ServerDown, Boot, RestoredPauses, Persist
  <1>10. CASE Event
    BY <1>2, <1>3, <1>4, <1>5, <1>10 DEF Event, UserEnds
  <1>11. CASE Next /\ ~Event
    BY <1>4, <1>6, <1>7, <1>8, <1>9, <1>11 DEF Next, NextKill, TimerFires, Resuming
  <1>12. CASE UNCHANGED vars
    BY <1>12 DEF vars
  <1>13. QED
    BY <1>10, <1>11, <1>12

(* No hit, fire, restart or relaunch ends a pause: only a request of the    *)
(* user's that reaches the session does.                                    *)
THEOREM PausesNeedUser == Spec => PauseNeedsUser
  <1> DEFINE Step == \A s \in usable : s \in disk.paused /\ s \notin disk'.paused => UserEnds(s)
  <1>1. TypeOK /\ FileInv /\ [Next]_vars => [Step]_vars
    BY PauseStep
  <1>2. Spec => [][Step]_vars
    BY <1>1, TypeInvariant, PTL DEF Spec
  <1>3. QED
    BY <1>2 DEF PauseNeedsUser, UserEnds

-----------------------------------------------------------------------------
(* The safety half of the refinement of OneShot *)

LEMMA TicketStep == TypeOK /\ FileInv /\ RunInv /\ [Next]_vars => [OS!Next]_(OS!vars)
  <1> SUFFICES ASSUME TypeOK, FileInv, RunInv, [Next]_vars
               PROVE  OS!Next \/ UNCHANGED OS!vars
    OBVIOUS
  <1> USE DEF None
  <1>1. ASSUME NEW s \in Sessions, NEW l \in Limits, HitArms(s, l)
        PROVE  OS!Arm(s)
    <2>1. /\ disk.schedule = schedule /\ disk'.schedule = schedule'
          /\ armed' = armed + 1 /\ schedule' = [schedule EXCEPT ![s] = armed']
          /\ void' = void \cup ({schedule[s]} \ {0}) /\ UNCHANGED <<spent, continued>>
      BY <1>1 DEF HitArms, Heard, Persist, FileInv, DiskAgrees
    <2>2. QED
      BY <2>1 DEF OS!Arm
  <1>2. ASSUME NEW S \in SUBSET Sessions, NEW running \in SUBSET (spent \ continued),
               disk'.schedule = [s \in Sessions |-> IF s \in S THEN 0 ELSE disk.schedule[s]],
               void' = void \cup ({disk.schedule[s] : s \in S} \ {0}) \cup running,
               UNCHANGED <<armed, spent, continued>>
        PROVE  OS!Revoke
    <2> DEFINE T == {s \in Sessions : s \in S /\ disk.schedule[s] # 0}
    <2>1. T \in SUBSET {s \in Sessions : disk.schedule[s] # 0}
      OBVIOUS
    <2>2. disk'.schedule = [s \in Sessions |-> IF s \in T THEN 0 ELSE disk.schedule[s]]
      BY <1>2
    <2>3. {disk.schedule[s] : s \in S} \ {0} = {disk.schedule[s] : s \in T}
      OBVIOUS
    <2> HIDE DEF T
    <2>4. QED
      BY <1>2, <2>1, <2>2, <2>3 DEF OS!Revoke
  <1>3. ASSUME NEW s \in Sessions, NEW l \in Limits, HitPauses(s, l)
        PROVE  OS!Revoke
    <2>1. /\ disk.schedule = schedule /\ disk'.schedule = schedule'
          /\ schedule' = [schedule EXCEPT ![s] = 0]
          /\ void' = void \cup ({schedule[s]} \ {0}) /\ UNCHANGED <<armed, spent, continued>>
      BY <1>3 DEF HitPauses, Pause, Heard, Persist, FileInv, DiskAgrees
    <2>2. disk'.schedule = [t \in Sessions |-> IF t \in {s} THEN 0 ELSE disk.schedule[t]]
      BY <2>1 DEF TypeOK
    <2>3. void' = void \cup ({disk.schedule[t] : t \in {s}} \ {0}) \cup {}
      BY <2>1
    <2>4. {s} \in SUBSET Sessions /\ {} \in SUBSET (spent \ continued)
      OBVIOUS
    <2>5. QED
      BY <1>2, <2>1, <2>2, <2>3, <2>4
  <1>4. ASSUME NEW S \in SUBSET Sessions, CancelStep(S)
        PROVE  OS!Revoke
    <2> DEFINE running == {r.at : r \in Running(S)}
    <2>1. /\ disk.schedule = schedule /\ disk'.schedule = schedule'
          /\ schedule' = [s \in Sessions |-> IF s \in S THEN 0 ELSE schedule[s]]
          /\ void' = void \cup ({schedule[s] : s \in S} \ {0}) \cup running
          /\ UNCHANGED <<armed, spent, continued>>
      BY <1>4 DEF CancelStep, Cancel, Persist, FileInv, DiskAgrees
    <2>2. running \in SUBSET (spent \ continued)
      BY DEF Running, RunInv
    <2> HIDE DEF running
    <2>3. disk'.schedule = [s \in Sessions |-> IF s \in S THEN 0 ELSE disk.schedule[s]]
      BY <2>1, Zenon
    <2>4. void' = void \cup ({disk.schedule[s] : s \in S} \ {0}) \cup running
      BY <2>1, Zenon
    <2>5. QED
      BY <1>2, <2>1, <2>2, <2>3, <2>4
  <1>5. ASSUME NEW s \in Sessions, Fire(s)
        PROVE  OS!Next
    <2>1. /\ disk.schedule = schedule /\ disk'.schedule = schedule'
          /\ schedule' = [schedule EXCEPT ![s] = 0] /\ schedule[s] # 0
          /\ UNCHANGED <<armed, continued>>
      BY <1>5 DEF Fire, DropRecord, Persist, FileInv, DiskAgrees
    <2>2. CASE enabled
      <3>1. spent' = spent \cup {schedule[s]} /\ void' = void
        BY <1>5, <2>2 DEF Fire
      <3>2. OS!Spend(s)
        BY <2>1, <3>1 DEF OS!Spend
      <3>3. QED
        BY <3>2 DEF OS!Next
    <2>3. CASE ~enabled
      <3>1. spent' = spent /\ void' = void \cup {schedule[s]}
        BY <1>5, <2>3 DEF Fire
      <3>2. disk'.schedule = [t \in Sessions |-> IF t \in {s} THEN 0 ELSE disk.schedule[t]]
        BY <2>1 DEF TypeOK
      <3>3. void' = void \cup ({disk.schedule[t] : t \in {s}} \ {0}) \cup {}
        BY <2>1, <3>1
      <3>4. {s} \in SUBSET Sessions /\ {} \in SUBSET (spent \ continued)
        OBVIOUS
      <3>5. OS!Revoke
        BY <1>2, <2>1, <3>1, <3>2, <3>3, <3>4
      <3>6. QED
        BY <3>5 DEF OS!Next
    <2>4. QED
      BY <2>2, <2>3
  <1>6. ASSUME NEW r \in resumes, SelfReady(r) \/ SelfFails(r) \/ PartnerReady(r)
        PROVE  OS!Next \/ UNCHANGED OS!vars
    <2>1. UNCHANGED <<disk, armed, spent, void>>
      BY <1>6, ResumeEffect
    <2>2. CASE Settles(r)
      <3>1. CASE continued' = continued
        BY <2>1, <3>1 DEF OS!vars
      <3>2. CASE ~r.aborted /\ continued' = continued \cup {r.at}
        <4>1. r.at \in spent /\ r.at \in spent \ (void \union continued)
          BY <3>2 DEF RunInv
        <4>2. OS!Continue(r.at)
          BY <2>1, <3>2, <4>1 DEF OS!Continue
        <4>3. QED
          BY <4>1, <4>2 DEF OS!Next
      <3>3. QED
        BY <2>2, <3>1, <3>2 DEF Settles
    <2>3. ASSUME NEW p \in Sessions, AwaitPartner(r, p)
          PROVE  UNCHANGED OS!vars
      BY <2>1, <2>3 DEF AwaitPartner, OS!vars
    <2>4. QED
      BY <1>6, <2>2, <2>3, ResumeEffect
  <1>7. ASSUME ServerDown
        PROVE  UNCHANGED OS!vars
    BY <1>7, Zenon DEF ServerDown, history, OS!vars
  <1>8. ASSUME Boot
        PROVE  OS!Revoke
    <2>1. /\ UNCHANGED <<armed, spent, continued>>
          /\ void' = void \cup ({disk.schedule[s] : s \in Sessions \ usable} \ {0})
          /\ disk'.schedule = [s \in Sessions |-> IF s \in usable THEN disk.schedule[s] ELSE 0]
      BY <1>8 DEF Boot, Persist, Restored
    <2> DEFINE gone == Sessions \ usable
    <2>2. disk'.schedule = [s \in Sessions |-> IF s \in gone THEN 0 ELSE disk.schedule[s]]
      BY <2>1
    <2>3. void' = void \cup ({disk.schedule[s] : s \in gone} \ {0}) \cup {}
      BY <2>1
    <2>4. gone \in SUBSET Sessions /\ {} \in SUBSET (spent \ continued)
      OBVIOUS
    <2> HIDE DEF gone
    <2>5. QED
      BY <1>2, <2>1, <2>2, <2>3, <2>4
  <1>9. ASSUME Silent
        PROVE  UNCHANGED OS!vars
    BY <1>9 DEF Silent, history, OS!vars
  <1>10. QED
    BY <1>1, <1>3, <1>4, <1>5, <1>6, <1>7, <1>8, <1>9, Steps DEF OS!Next

(* What the file says of every schedule moves only as a one-shot ticket     *)
(* does: spent at most once or void, continued at most once, never both.    *)
THEOREM OneShotSafety == Spec => OS!Init /\ [][OS!Next]_(OS!vars)
  <1>1. Init => OS!Init
    BY DEF Init, OS!Init, None
  <1>2. QED
    BY <1>1, TicketStep, RunInvariant, TypeInvariant, PTL DEF Spec
=============================================================================
