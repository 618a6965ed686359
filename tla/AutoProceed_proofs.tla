------------------------ MODULE AutoProceed_proofs ------------------------
(***************************************************************************)
(* Proofs about AutoProceed, for every set of STOPs, every cap and every   *)
(* bound of the queues: type correctness, the cap over restarts, the       *)
(* banner's hold, the sticky mark, and that no idle edge is lost.          *)
(***************************************************************************)
EXTENDS AutoProceed, TLAPS

\* Room for a synthetic prompt: an idle turn leaves a place in the CLI.
RoomForAuto == turn = "awaiting" => Len(cli) < MaxQueue

TypeInv == TypeOK /\ RoomForAuto

\* The trace never falls behind memory, nor memory behind what was sent.
CapInv == sends <= count /\ count <= saved

\* The hold record is part of what is on disk; once restored it is the banner,
\* and a timer is armed only while both are empty.
HoldInv ==
    /\ hold \subseteq raised \ disputed
    /\ restore = "done" => dismissed \subseteq resolved /\ hold = Banner
    /\ armed => restore = "done" /\ hold = {}

\* A mark belongs to a turn in flight; a synthetic prompt that was sent to an
\* idle CLI is its head and is marked.  A CLI that is gone has no prompts.
MarkInv ==
    /\ ~link => cli = <<>>
    /\ pending => turn = "inflight" /\ \E i \in 1 .. Len(cli) : cli[i] = "auto"
    /\ Tracked /\ ~overtaken => \A i \in 1 .. Len(cli) : cli[i] = "auto" => i = 1 /\ pending

\* An idle orchestrator of a loop that is going has its timer armed, or an
\* event is still to come that arms it: a continue, a restore, a release.
EdgeIsOwed ==
    \/ armed \/ AtCap \/ limited \/ exceeded \/ ~Tracked
    \/ restore # "done" /\ waiting
    \/ restore = "done" /\ hold # {}

IdleInv ==
    /\ going /\ ~link => queued > 0
    /\ going /\ link /\ turn = "awaiting" => EdgeIsOwed

-----------------------------------------------------------------------------
(***************************************************************************)
(* What the shared parts of the actions do.                                *)
(***************************************************************************)

LEMMA CapBounds ==
    /\ MaxIterations \in Nat /\ 0 \in 0 .. MaxIterations
    /\ \A k \in 0 .. MaxIterations : k < MaxIterations => k + 1 \in 0 .. MaxIterations
  BY BoundsAssumption

LEMMA NoPrompts == <<>> \in Seq({"prompt", "auto"}) /\ Len(<<>>) = 0 /\ 0 < MaxQueue
  BY BoundsAssumption

LEMMA DeliverTypes ==
    ASSUME CliTypes, RoomForAuto, Deliver, UNCHANGED link
    PROVE  CliTypes' /\ RoomForAuto'
  <1> USE BoundsAssumption DEF CliTypes, RoomForAuto, Deliver
  <1>1. CASE link
    BY <1>1
  <1>2. CASE ~link
    BY <1>2
  <1> QED BY <1>1, <1>2 DEF CliTypes

LEMMA EnsureTypes ==
    ASSUME HoldTypes, NEW new \in SUBSET Findings, NEW idle \in BOOLEAN,
           EnsureRestored(new, idle), raised' \in SUBSET Findings, gap' \in BOOLEAN,
           UNCHANGED <<dismissed, disputed>>
    PROVE  HoldTypes'
  BY DEF HoldTypes, EnsureRestored, Restored

LEMMA TimerTypes ==
    ASSUME ManagerTypes, NEW edge \in BOOLEAN, TimerAfter(edge),
           pending' \in BOOLEAN, UNCHANGED saved
    PROVE  ManagerTypes'
  <1>1. armed' = (hold' = {} /\ (armed \/ (edge /\ Armable')))
    BY DEF TimerAfter
  <1>2. armed' \in BOOLEAN
    BY <1>1 DEF ManagerTypes
  <1>3. going' = (going /\ ~(edge /\ status # "active" /\ turn' = "awaiting"))
    BY DEF TimerAfter
  <1>4. going' \in BOOLEAN
    BY <1>3 DEF ManagerTypes
  <1> QED BY <1>2, <1>4 DEF TimerAfter, ManagerTypes

\* What is left of the CLI's prompts after some of them were done.
LEMMA CliAfterTurn ==
    ASSUME CliTypes, NEW n \in 1 .. Len(cli), cli' = SubSeq(cli, n + 1, Len(cli))
    PROVE  /\ cli' \in Seq({"prompt", "auto"})
           /\ Len(cli') = Len(cli) - n
           /\ \A i \in 1 .. Len(cli') : n + i \in 1 .. Len(cli) /\ cli'[i] = cli[n + i]
  BY DEF CliTypes

-----------------------------------------------------------------------------
(***************************************************************************)
(* Type correctness, one group of variables at a time.                     *)
(***************************************************************************)

LEMMA ManagerTypesStep == TypeInv /\ [Next]_vars => ManagerTypes'
  <1> SUFFICES ASSUME TypeInv, [Next]_vars PROVE ManagerTypes'
    OBVIOUS
  <1> USE DEF managerVars, history
  <1>t. ManagerTypes /\ HoldTypes /\ CliTypes
    BY DEF TypeInv, TypeOK
  <1>1. CASE HumanMessage \/ ServerPrompt
    <2>1. CASE HumanMessage
      <3>1. saved' \in 0 .. MaxIterations
        BY <1>t, <2>1, CapBounds DEF HumanMessage, ManagerTypes
      <3> QED BY <1>t, <2>1, <3>1, CapBounds DEF HumanMessage, ManagerTypes
    <2>2. CASE ServerPrompt
      BY <1>t, <2>2 DEF ServerPrompt, ManagerTypes
    <2> QED BY <1>1, <2>1, <2>2
  <1>2. CASE TurnEnds
    <2>1. pending' \in BOOLEAN /\ UNCHANGED saved
      BY <1>t, <1>2 DEF TurnEnds, ManagerTypes
    <2>2. CASE UNCHANGED <<holdVars, count, armed, limited, history>>
      BY <1>t, <2>1, <2>2 DEF ManagerTypes
    <2>3. CASE TimerAfter(TRUE)
      BY <1>t, <2>1, <2>3, TimerTypes
    <2> QED BY <1>2, <2>2, <2>3 DEF TurnEnds
  <1>3. ASSUME NEW new \in SUBSET (Findings \ disputed), Review(new) PROVE ManagerTypes'
    <2>1. WaitingEdge \in BOOLEAN
      BY DEF WaitingEdge
    <2> QED BY <1>t, <1>3, <2>1, TimerTypes DEF Review, ManagerTypes
  <1>4. ASSUME NEW f \in Findings, Dismiss(f) \/ Dispute(f) PROVE ManagerTypes'
    <2>1. TimerAfter(f \in hold /\ hold' = {} /\ restore = "done")
      BY <1>4 DEF Dismiss, Dispute, Release
    <2>2. UNCHANGED <<pending, saved>>
      BY <1>4 DEF Dismiss, Dispute
    <2> QED BY <1>t, <2>1, <2>2, TimerTypes DEF ManagerTypes
  <1>5. CASE GapAppears \/ BudgetCrossed \/ LimitHit
    BY <1>t, <1>5 DEF GapAppears, BudgetCrossed, LimitHit, ManagerTypes
  <1>6. CASE IgnoreGap
    <2>1. UNCHANGED <<pending, saved>>
      BY <1>6 DEF IgnoreGap
    <2>2. CASE UNCHANGED <<holdVars, count, armed, limited, history>>
      BY <1>t, <2>1, <2>2 DEF ManagerTypes
    <2>3. CASE TimerAfter(WaitingEdge)
      <3>1. WaitingEdge \in BOOLEAN
        BY DEF WaitingEdge
      <3> QED BY <1>t, <2>1, <2>3, <3>1, TimerTypes DEF ManagerTypes
    <2> QED BY <1>6, <2>2, <2>3 DEF IgnoreGap
  <1>7. CASE BudgetContinued
    BY <1>t, <1>7, TimerTypes DEF BudgetContinued, ManagerTypes
  <1>8. CASE Fire
    <2>1. Fireable => count + 1 \in 0 .. MaxIterations
      BY <1>t, CapBounds DEF Fireable, AtCap, ManagerTypes
    <2>2. armed' = FALSE /\ UNCHANGED limited
      BY <1>8 DEF Fire
    <2>3. CASE FireSkips
      BY <1>t, <2>2, <2>3 DEF FireSkips, ManagerTypes
    <2>4. CASE FireUnsaved
      BY <1>t, <2>2, <2>4 DEF FireUnsaved, ManagerTypes
    <2>5. CASE FireUnsent
      <3>1. /\ count' \in 0 .. MaxIterations /\ saved' \in 0 .. MaxIterations
            /\ going' = FALSE /\ UNCHANGED <<pending, sends, overtaken>>
        BY <2>1, <2>5 DEF FireUnsent, Counted
      <3> QED BY <1>t, <2>2, <3>1 DEF ManagerTypes
    <2>6. CASE FireSends
      <3>1. /\ count' \in 0 .. MaxIterations /\ saved' \in 0 .. MaxIterations
            /\ pending' = TRUE /\ sends' \in Nat /\ going' = TRUE
        BY <1>t, <2>1, <2>6 DEF FireSends, Counted, ManagerTypes
      <3>2. overtaken' \in BOOLEAN
        BY <2>6 DEF FireSends
      <3> QED BY <1>t, <2>2, <3>1, <3>2 DEF ManagerTypes
    <2> QED BY <1>8, <2>3, <2>4, <2>5, <2>6 DEF Fire
  <1>9. CASE PairMoves \/ UserStop \/ ManualRelaunch
    BY <1>t, <1>9 DEF PairMoves, UserStop, ManualRelaunch, ManagerTypes
  <1>10. CASE OrchestratorExits \/ Attach \/ Archive
    BY <1>t, <1>10 DEF OrchestratorExits, Attach, Archive, ManagerTypes
  <1>11. CASE ServerRestart
    <2>1. saved' \in 0 .. MaxIterations
      BY <1>t, <1>11, CapBounds DEF ServerRestart, Fireable, AtCap, ManagerTypes
    <2>2. count' = saved' /\ armed' = FALSE /\ limited' = FALSE /\ pending' = FALSE
          /\ going' = FALSE /\ UNCHANGED <<sends, overtaken>>
      BY <1>11 DEF ServerRestart
    <2> QED BY <1>t, <2>1, <2>2 DEF ManagerTypes
  <1>12. CASE UNCHANGED vars
    BY <1>t, <1>12 DEF vars, ManagerTypes
  <1> QED BY <1>1, <1>2, <1>3, <1>4, <1>5, <1>6, <1>7, <1>8, <1>9, <1>10, <1>11, <1>12 DEF Next

LEMMA HoldTypesStep == TypeInv /\ [Next]_vars => HoldTypes'
  <1> SUFFICES ASSUME TypeInv, [Next]_vars PROVE HoldTypes'
    OBVIOUS
  <1> USE DEF holdVars, reviewVars
  <1>t. HoldTypes
    BY DEF TypeInv, TypeOK
  <1>1. CASE HumanMessage \/ ServerPrompt
    BY <1>t, <1>1 DEF HumanMessage, ServerPrompt, HoldTypes
  <1>2. CASE TurnEnds
    <2>1. UNCHANGED reviewVars
      BY <1>2 DEF TurnEnds
    <2>2. CASE UNCHANGED holdVars
      BY <1>t, <2>1, <2>2 DEF HoldTypes
    <2>3. CASE EnsureRestored({}, TRUE)
      BY <1>t, <2>1, <2>3, EnsureTypes DEF HoldTypes
    <2> QED BY <1>2, <2>2, <2>3 DEF TurnEnds
  <1>3. ASSUME NEW new \in SUBSET (Findings \ disputed), Review(new) PROVE HoldTypes'
    <2>1. /\ raised' \in SUBSET Findings /\ gap' \in BOOLEAN
          /\ UNCHANGED <<dismissed, disputed>>
      BY <1>t, <1>3 DEF Review, HoldTypes
    <2> QED BY <1>t, <1>3, <2>1, EnsureTypes DEF Review
  <1>4. ASSUME NEW f \in Findings, Dismiss(f) \/ Dispute(f) PROVE HoldTypes'
    BY <1>t, <1>4 DEF Dismiss, Dispute, Release, HoldTypes
  <1>5. CASE GapAppears \/ BudgetCrossed \/ LimitHit
    BY <1>t, <1>5 DEF GapAppears, BudgetCrossed, LimitHit, HoldTypes
  <1>6. CASE IgnoreGap
    <2>1. gap' = FALSE /\ UNCHANGED <<raised, dismissed, disputed>>
      BY <1>6 DEF IgnoreGap
    <2>2. CASE UNCHANGED holdVars
      BY <1>t, <2>1, <2>2 DEF HoldTypes
    <2>3. CASE EnsureRestored({}, FALSE)
      BY <1>t, <2>1, <2>3, EnsureTypes DEF HoldTypes
    <2> QED BY <1>6, <2>2, <2>3 DEF IgnoreGap
  <1>7. CASE BudgetContinued
    BY <1>t, <1>7, EnsureTypes DEF BudgetContinued, HoldTypes
  <1>8. CASE Fire
    BY <1>t, <1>8 DEF Fire, HoldTypes
  <1>9. CASE PairMoves \/ UserStop \/ ManualRelaunch
    BY <1>t, <1>9 DEF PairMoves, UserStop, ManualRelaunch, HoldTypes
  <1>10. CASE OrchestratorExits \/ Attach \/ Archive
    BY <1>t, <1>10 DEF OrchestratorExits, Attach, Archive, HoldTypes
  <1>11. CASE ServerRestart
    BY <1>t, <1>11 DEF ServerRestart, HoldTypes
  <1>12. CASE UNCHANGED vars
    BY <1>t, <1>12 DEF vars, HoldTypes
  <1> QED BY <1>1, <1>2, <1>3, <1>4, <1>5, <1>6, <1>7, <1>8, <1>9, <1>10, <1>11, <1>12 DEF Next

LEMMA PairTypesStep == TypeInv /\ [Next]_vars => PairTypes'
  <1> SUFFICES ASSUME TypeInv, [Next]_vars PROVE PairTypes'
    OBVIOUS
  <1> USE DEF pairVars, PairTypes
  <1>t. PairTypes
    BY DEF TypeInv, TypeOK
  <1>1. CASE HumanMessage \/ ServerPrompt \/ TurnEnds \/ Fire
    BY <1>t, <1>1 DEF HumanMessage, ServerPrompt, TurnEnds, Fire
  <1>2. ASSUME NEW new \in SUBSET (Findings \ disputed), Review(new) PROVE PairTypes'
    BY <1>t, <1>2 DEF Review
  <1>3. ASSUME NEW f \in Findings, Dismiss(f) \/ Dispute(f) PROVE PairTypes'
    BY <1>t, <1>3 DEF Dismiss, Dispute
  <1>4. CASE GapAppears \/ IgnoreGap \/ BudgetCrossed \/ BudgetContinued \/ LimitHit
    BY <1>t, <1>4 DEF GapAppears, IgnoreGap, BudgetCrossed, BudgetContinued, LimitHit
  <1>5. CASE PairMoves \/ UserStop \/ ManualRelaunch
    BY <1>t, <1>5 DEF PairMoves, UserStop, ManualRelaunch
  <1>6. CASE OrchestratorExits \/ Attach \/ Archive
    BY <1>t, <1>6 DEF OrchestratorExits, Attach, Archive
  <1>7. CASE ServerRestart
    BY <1>t, <1>7 DEF ServerRestart
  <1>8. CASE UNCHANGED vars
    BY <1>t, <1>8 DEF vars
  <1> QED BY <1>1, <1>2, <1>3, <1>4, <1>5, <1>6, <1>7, <1>8 DEF Next

LEMMA CliTypesStep == TypeInv /\ [Next]_vars => CliTypes' /\ RoomForAuto'
  <1> SUFFICES ASSUME TypeInv, [Next]_vars PROVE CliTypes' /\ RoomForAuto'
    OBVIOUS
  <1> USE DEF cliVars
  <1>t. CliTypes /\ RoomForAuto
    BY DEF TypeInv, TypeOK
  <1>1. CASE HumanMessage \/ ServerPrompt
    BY <1>t, <1>1, DeliverTypes DEF HumanMessage, ServerPrompt
  <1>2. CASE TurnEnds
    <2>1. PICK n \in 1 .. Len(cli) : cli' = SubSeq(cli, n + 1, Len(cli))
      BY <1>2 DEF TurnEnds
    <2>2. cli' \in Seq({"prompt", "auto"}) /\ Len(cli') < MaxQueue
      BY <1>t, <2>1, CliAfterTurn, BoundsAssumption DEF CliTypes
    <2> QED BY <1>t, <1>2, <2>2, BoundsAssumption DEF TurnEnds, CliTypes, RoomForAuto
  <1>3. CASE UNCHANGED cliVars
    BY <1>t, <1>3 DEF CliTypes, RoomForAuto
  <1>4. CASE Fire
    <2>1. UNCHANGED <<link, queued>>
      BY <1>4 DEF Fire
    <2>2. CASE UNCHANGED <<turn, cli>>
      BY <1>t, <2>1, <2>2 DEF CliTypes, RoomForAuto
    <2>3. CASE FireSends
      <3>1. Len(cli) < MaxQueue /\ cli' = Append(cli, "auto") /\ turn' = "inflight"
        BY <1>t, <2>3 DEF FireSends, Fireable, GateOpen, RoomForAuto
      <3> QED BY <1>t, <2>1, <3>1, BoundsAssumption DEF CliTypes, RoomForAuto
    <2> QED BY <1>4, <2>2, <2>3 DEF Fire, FireSkips, FireUnsaved, FireUnsent
  <1>5. CASE OrchestratorExits
    <2>1. link' = FALSE /\ cli' = <<>> /\ UNCHANGED <<turn, queued>>
      BY <1>5 DEF OrchestratorExits
    <2>2. /\ cli' \in Seq({"prompt", "auto"})
          /\ Len(cli') <= MaxQueue /\ Len(cli') < MaxQueue
      BY <2>1, NoPrompts, BoundsAssumption
    <2> QED BY <1>t, <2>1, <2>2 DEF CliTypes, RoomForAuto
  <1>6. CASE Attach
    <2>1. /\ link' = TRUE /\ queued' = 0 /\ cli' = [i \in 1 .. queued |-> "prompt"]
          /\ turn' = IF queued = 0 THEN "awaiting" ELSE "inflight"
      BY <1>6 DEF Attach
    <2>2. cli' \in Seq({"prompt", "auto"}) /\ Len(cli') = queued
      BY <1>t, <2>1 DEF CliTypes
    <2> QED BY <1>t, <2>1, <2>2, BoundsAssumption DEF CliTypes, RoomForAuto
  <1>7. CASE ServerRestart
    <2>1. link' = FALSE /\ turn' = "inflight" /\ cli' = <<>> /\ UNCHANGED queued
      BY <1>7 DEF ServerRestart
    <2>2. /\ cli' \in Seq({"prompt", "auto"})
          /\ Len(cli') <= MaxQueue /\ Len(cli') < MaxQueue
      BY <2>1, NoPrompts, BoundsAssumption
    <2> QED BY <1>t, <2>1, <2>2 DEF CliTypes, RoomForAuto
  <1>8. ASSUME NEW new \in SUBSET (Findings \ disputed), Review(new) PROVE UNCHANGED cliVars
    BY <1>8 DEF Review
  <1>9. ASSUME NEW f \in Findings, Dismiss(f) \/ Dispute(f) PROVE UNCHANGED cliVars
    BY <1>9 DEF Dismiss, Dispute
  <1>10. CASE GapAppears \/ IgnoreGap \/ BudgetCrossed \/ BudgetContinued \/ LimitHit
    BY <1>3, <1>10 DEF GapAppears, IgnoreGap, BudgetCrossed, BudgetContinued, LimitHit
  <1>11. CASE PairMoves \/ UserStop \/ ManualRelaunch \/ Archive \/ UNCHANGED vars
    BY <1>3, <1>11 DEF PairMoves, UserStop, ManualRelaunch, Archive, vars
  <1> QED BY <1>1, <1>2, <1>3, <1>4, <1>5, <1>6, <1>7, <1>8, <1>9, <1>10, <1>11 DEF Next

\* The initial state has every type, and an empty CLI has room.
LEMMA TypeInit == Init => TypeInv
  <1> SUFFICES ASSUME Init PROVE TypeInv
    OBVIOUS
  <1>1. ManagerTypes
    BY CapBounds DEF Init, ManagerTypes
  <1>2. HoldTypes /\ PairTypes
    BY DEF Init, HoldTypes, PairTypes
  <1>3. CliTypes /\ RoomForAuto
    BY NoPrompts, BoundsAssumption DEF Init, CliTypes, RoomForAuto
  <1> QED BY <1>1, <1>2, <1>3 DEF TypeInv, TypeOK

LEMMA TypeInvariant == Spec => []TypeInv
  <1>1. TypeInv /\ [Next]_vars => TypeInv'
    BY ManagerTypesStep, HoldTypesStep, PairTypesStep, CliTypesStep DEF TypeInv, TypeOK
  <1> QED BY <1>1, TypeInit, PTL DEF Spec

\* Every variable keeps its type; the CLI's queue stays within its bound.
THEOREM TypeCorrect == Spec => []TypeOK
  <1>1. TypeInv => TypeOK
    BY DEF TypeInv
  <1> QED BY <1>1, TypeInvariant, PTL

-----------------------------------------------------------------------------
(***************************************************************************)
(* The cap.  Sent turns are counted in memory before they are sent, and on *)
(* disk before that; only a human message lowers the count, and it starts  *)
(* a new episode.                                                          *)
(***************************************************************************)

LEMMA CapStep == TypeInv /\ CapInv /\ [Next]_vars => CapInv'
  <1> SUFFICES ASSUME TypeInv, CapInv, [Next]_vars PROVE CapInv'
    OBVIOUS
  <1> USE DEF managerVars, history
  <1>t. /\ count \in 0 .. MaxIterations /\ saved \in 0 .. MaxIterations
        /\ sends \in Nat /\ MaxIterations \in Nat
    BY BoundsAssumption DEF TypeInv, TypeOK, ManagerTypes
  <1>u. UNCHANGED <<count, saved, sends>> => CapInv'
    BY DEF CapInv
  <1>1. CASE HumanMessage
    BY <1>t, <1>1 DEF HumanMessage, CapInv
  <1>2. CASE Fire
    <2>1. CASE FireSkips \/ FireUnsaved
      BY <1>u, <2>1 DEF FireSkips, FireUnsaved
    <2>2. CASE FireUnsent
      BY <1>t, <2>2 DEF FireUnsent, Counted, CapInv
    <2>3. CASE FireSends
      BY <1>t, <2>3 DEF FireSends, Counted, CapInv
    <2> QED BY <1>2, <2>1, <2>2, <2>3 DEF Fire
  <1>3. CASE ServerRestart
    <2>1. /\ saved' = saved \/ saved' = count + 1
          /\ count' = saved' /\ sends' = sends
      BY <1>3 DEF ServerRestart
    <2> QED BY <1>t, <2>1 DEF CapInv
  <1>4. CASE ServerPrompt \/ TurnEnds
    BY <1>u, <1>4 DEF ServerPrompt, TurnEnds, TimerAfter
  <1>5. ASSUME NEW new \in SUBSET (Findings \ disputed), Review(new) PROVE CapInv'
    BY <1>u, <1>5 DEF Review, TimerAfter
  <1>6. ASSUME NEW f \in Findings, Dismiss(f) \/ Dispute(f) PROVE CapInv'
    BY <1>u, <1>6 DEF Dismiss, Dispute, Release, TimerAfter
  <1>7. CASE GapAppears \/ BudgetCrossed \/ LimitHit
    BY <1>u, <1>7 DEF GapAppears, BudgetCrossed, LimitHit
  <1>8. CASE IgnoreGap \/ BudgetContinued
    BY <1>u, <1>8 DEF IgnoreGap, BudgetContinued, TimerAfter
  <1>9. CASE PairMoves \/ UserStop \/ ManualRelaunch
    BY <1>u, <1>9 DEF PairMoves, UserStop, ManualRelaunch
  <1>10. CASE OrchestratorExits \/ Attach \/ Archive
    BY <1>u, <1>10 DEF OrchestratorExits, Attach, Archive
  <1>11. CASE UNCHANGED vars
    BY <1>u, <1>11 DEF vars
  <1> QED BY <1>1, <1>2, <1>3, <1>4, <1>5, <1>6, <1>7, <1>8, <1>9, <1>10, <1>11 DEF Next

\* A human who is away gets at most MaxIterations turns they did not ask for:
\* the trace is written before the send, so no crash or failed write loses one.
THEOREM CapHolds == Spec => []EpisodeWithinCap
  <1>1. Init => CapInv
    BY DEF Init, CapInv
  <1>2. TypeInv /\ CapInv => EpisodeWithinCap
    BY BoundsAssumption DEF TypeInv, TypeOK, ManagerTypes, CapInv, EpisodeWithinCap
  <1> QED BY <1>1, <1>2, CapStep, TypeInvariant, PTL DEF Spec

-----------------------------------------------------------------------------
(***************************************************************************)
(* The hold.                                                               *)
(***************************************************************************)

\* A timer is armed only behind a completed restore that holds nothing.
LEMMA TimerNeedsRelease ==
    ASSUME HoldInv, NEW edge \in BOOLEAN, TimerAfter(edge),
           restore = "done" => restore' = "done"
    PROVE  armed' => restore' = "done" /\ hold' = {}
  BY DEF HoldInv, TimerAfter, Armable

LEMMA EnsureHolds ==
    ASSUME HoldTypes, HoldInv, NEW new \in SUBSET (Findings \ disputed),
           NEW idle \in BOOLEAN, EnsureRestored(new, idle),
           raised' = raised \union new, UNCHANGED <<dismissed, disputed>>
    PROVE  /\ hold' \subseteq raised' \ disputed'
           /\ restore' = "done" => dismissed' \subseteq resolved' /\ hold' = Banner'
           /\ restore = "done" => restore' = "done"
  <1>1. CASE restore = "done"
    <2>1. hold' = hold \union (new \ resolved) /\ UNCHANGED <<restore, resolved>>
      BY <1>1 DEF EnsureRestored
    <2>2. dismissed \subseteq resolved /\ hold = raised \ (disputed \union dismissed \union resolved)
      BY <1>1 DEF HoldInv, Banner
    <2> QED BY <2>1, <2>2, <1>1 DEF Banner
  <1>2. CASE restore # "done"
    <2>1. /\ resolved' = resolved \union dismissed
          /\ hold' = ((hold \union new) \ resolved') \union (raised' \ (disputed \union resolved'))
      BY <1>2 DEF EnsureRestored, Restored
    <2>2. hold \union new \subseteq raised' \ disputed'
      BY DEF HoldInv
    <2> QED BY <1>2, <2>1, <2>2 DEF Banner
  <1> QED BY <1>1, <1>2

LEMMA HoldStep == TypeInv /\ HoldInv /\ [Next]_vars => HoldInv'
  <1> SUFFICES ASSUME TypeInv, HoldInv, [Next]_vars PROVE HoldInv'
    OBVIOUS
  <1> USE DEF holdVars, reviewVars
  <1>t. HoldTypes
    BY DEF TypeInv, TypeOK
  <1>u. ASSUME UNCHANGED <<holdVars, raised, dismissed, disputed>>, armed' => armed
        PROVE  HoldInv'
    BY <1>u DEF HoldInv, Banner
  <1>e. ASSUME NEW new \in SUBSET (Findings \ disputed), NEW idle \in BOOLEAN,
               NEW edge \in BOOLEAN, EnsureRestored(new, idle), TimerAfter(edge),
               raised' = raised \union new, UNCHANGED <<dismissed, disputed>>
        PROVE  HoldInv'
    <2>1. /\ hold' \subseteq raised' \ disputed'
          /\ restore' = "done" => dismissed' \subseteq resolved' /\ hold' = Banner'
          /\ restore = "done" => restore' = "done"
      BY <1>t, <1>e, EnsureHolds
    <2>2. armed' => restore' = "done" /\ hold' = {}
      BY <1>e, <2>1, TimerNeedsRelease
    <2> QED BY <2>1, <2>2 DEF HoldInv
  <1>1. CASE HumanMessage \/ ServerPrompt
    BY <1>u, <1>1 DEF HumanMessage, ServerPrompt, managerVars
  <1>2. CASE TurnEnds
    <2>1. UNCHANGED reviewVars
      BY <1>2 DEF TurnEnds
    <2>2. CASE UNCHANGED <<holdVars, count, armed, limited, history>>
      BY <1>u, <2>1, <2>2
    <2>3. CASE EnsureRestored({}, TRUE) /\ TimerAfter(TRUE)
      <3>1. raised' = raised \union {} /\ {} \in SUBSET (Findings \ disputed)
        BY <2>1
      <3> QED BY <1>e, <2>1, <2>3, <3>1
    <2> QED BY <1>2, <2>2, <2>3 DEF TurnEnds
  <1>3. ASSUME NEW new \in SUBSET (Findings \ disputed), Review(new) PROVE HoldInv'
    <2>1. WaitingEdge \in BOOLEAN
      BY DEF WaitingEdge
    <2> QED BY <1>e, <1>3, <2>1 DEF Review
  <1>4. ASSUME NEW f \in Findings, Dismiss(f) \/ Dispute(f) PROVE HoldInv'
    <2>1. hold' = hold \ {f} /\ restore' = restore
          /\ TimerAfter(f \in hold /\ hold' = {} /\ restore = "done")
      BY <1>4 DEF Dismiss, Dispute, Release
    <2>2. armed' => restore' = "done" /\ hold' = {}
      BY <2>1, TimerNeedsRelease
    <2>3. CASE Dismiss(f)
      <3>1. /\ UNCHANGED <<raised, disputed>>
            /\ dismissed' \subseteq dismissed \union {f}
            /\ restore = "done" => resolved' = resolved \union {f}
        BY <2>3 DEF Dismiss
      <3>2. restore = "done" => dismissed' \subseteq resolved' /\ hold' = Banner'
        BY <2>1, <3>1 DEF HoldInv, Banner
      <3> QED BY <2>1, <2>2, <3>1, <3>2 DEF HoldInv
    <2>4. CASE Dispute(f)
      BY <2>1, <2>2, <2>4 DEF Dispute, HoldInv, Banner
    <2> QED BY <1>4, <2>3, <2>4
  <1>5. CASE GapAppears \/ BudgetCrossed \/ LimitHit
    BY <1>u, <1>5 DEF GapAppears, BudgetCrossed, LimitHit, managerVars
  <1>6. CASE IgnoreGap
    <2>1. UNCHANGED <<raised, dismissed, disputed>>
      BY <1>6 DEF IgnoreGap
    <2>2. CASE UNCHANGED <<holdVars, count, armed, limited, history>>
      BY <1>u, <2>1, <2>2
    <2>3. CASE EnsureRestored({}, FALSE) /\ TimerAfter(WaitingEdge)
      <3>1. /\ raised' = raised \union {} /\ {} \in SUBSET (Findings \ disputed)
            /\ WaitingEdge \in BOOLEAN
        BY <2>1 DEF WaitingEdge
      <3> QED BY <1>e, <2>1, <2>3, <3>1
    <2> QED BY <1>6, <2>2, <2>3 DEF IgnoreGap
  <1>7. CASE BudgetContinued
    <2>1. /\ UNCHANGED <<dismissed, disputed>> /\ raised' = raised \union {}
          /\ {} \in SUBSET (Findings \ disputed)
          /\ EnsureRestored({}, TRUE) /\ TimerAfter(TRUE)
      BY <1>7 DEF BudgetContinued
    <2> QED BY <1>e, <2>1
  <1>8. CASE Fire
    BY <1>u, <1>8 DEF Fire
  <1>9. CASE PairMoves \/ UserStop \/ ManualRelaunch
    BY <1>u, <1>9 DEF PairMoves, UserStop, ManualRelaunch, managerVars
  <1>10. CASE OrchestratorExits \/ Attach
    BY <1>u, <1>10 DEF OrchestratorExits, Attach, managerVars
  <1>11. CASE Archive \/ ServerRestart
    BY <1>11 DEF Archive, ServerRestart, HoldInv
  <1>12. CASE UNCHANGED vars
    BY <1>u, <1>12 DEF vars, managerVars
  <1> QED BY <1>1, <1>2, <1>3, <1>4, <1>5, <1>6, <1>7, <1>8, <1>9, <1>10, <1>11, <1>12 DEF Next

LEMMA HoldInvariant == Spec => [](TypeInv /\ HoldInv)
  <1>1. Init => HoldInv
    BY DEF Init, HoldInv
  <1> QED BY <1>1, HoldStep, TypeInvariant, PTL DEF Spec

\* Only a fire that sends adds a synthetic turn.
LEMMA OnlyFireSends ==
    ASSUME TypeInv, Next, sends' = sends + 1
    PROVE  armed
  <1> USE DEF managerVars, history
  <1>t. sends \in Nat /\ sends' # sends /\ sends' # 0
    BY DEF TypeInv, TypeOK, ManagerTypes
  <1>1. CASE HumanMessage \/ ServerPrompt \/ TurnEnds
    BY <1>t, <1>1 DEF HumanMessage, ServerPrompt, TurnEnds, TimerAfter
  <1>2. ASSUME NEW new \in SUBSET (Findings \ disputed), Review(new) PROVE FALSE
    BY <1>t, <1>2 DEF Review, TimerAfter
  <1>3. ASSUME NEW f \in Findings, Dismiss(f) \/ Dispute(f) PROVE FALSE
    BY <1>t, <1>3 DEF Dismiss, Dispute, Release, TimerAfter
  <1>4. CASE GapAppears \/ IgnoreGap \/ BudgetCrossed \/ BudgetContinued \/ LimitHit
    BY <1>t, <1>4 DEF GapAppears, IgnoreGap, BudgetCrossed, BudgetContinued, LimitHit, TimerAfter
  <1>5. CASE Fire
    BY <1>5 DEF Fire
  <1>6. CASE PairMoves \/ UserStop \/ ManualRelaunch
    BY <1>t, <1>6 DEF PairMoves, UserStop, ManualRelaunch
  <1>7. CASE OrchestratorExits \/ Attach \/ Archive \/ ServerRestart
    BY <1>t, <1>7 DEF OrchestratorExits, Attach, Archive, ServerRestart
  <1> QED BY <1>1, <1>2, <1>3, <1>4, <1>5, <1>6, <1>7 DEF Next

\* No synthetic turn is sent while the banner shows a STOP: on every path a
\* STOP cancels the timer, and no idle edge arms one before the last is out.
THEOREM BannerIsRespected == Spec => HoldIsRespected
  <1>1. TypeInv /\ HoldInv /\ [Next]_vars => [sends' = sends + 1 => Banner = {}]_vars
    <2> SUFFICES ASSUME TypeInv, HoldInv, Next, sends' = sends + 1 PROVE Banner = {}
      OBVIOUS
    <2> QED BY OnlyFireSends DEF HoldInv
  <1> QED BY <1>1, HoldInvariant, PTL DEF Spec, HoldIsRespected

-----------------------------------------------------------------------------
(***************************************************************************)
(* The mark.                                                               *)
(***************************************************************************)

LEMMA MarkStep == TypeInv /\ MarkInv /\ [Next]_vars => MarkInv'
  <1> SUFFICES ASSUME TypeInv, MarkInv, [Next]_vars PROVE MarkInv'
    OBVIOUS
  <1> USE DEF managerVars, cliVars, history, pairVars
  <1>t. CliTypes
    BY DEF TypeInv, TypeOK
  <1>u. ASSUME UNCHANGED <<link, cli, pending, turn, overtaken>>, Tracked' => Tracked
        PROVE  MarkInv'
    BY <1>u DEF MarkInv
  <1>1. CASE HumanMessage \/ ServerPrompt
    <2>1. Deliver /\ UNCHANGED <<link, pending, overtaken, status>>
      BY <1>1 DEF HumanMessage, ServerPrompt
    <2>2. CASE ~link
      BY <1>u, <2>1, <2>2 DEF Deliver, Tracked
    <2>3. CASE link
      <3>1. cli' = Append(cli, "prompt") /\ turn' = "inflight"
        BY <2>1, <2>3 DEF Deliver
      <3>2. /\ Len(cli') = Len(cli) + 1 /\ cli'[Len(cli) + 1] = "prompt"
            /\ \A i \in 1 .. Len(cli) : cli'[i] = cli[i]
        BY <1>t, <3>1 DEF CliTypes
      <3>3. \A i \in 1 .. Len(cli') : cli'[i] = "auto" => i \in 1 .. Len(cli)
        BY <1>t, <3>2 DEF CliTypes
      <3> QED BY <1>t, <2>1, <2>3, <3>1, <3>2, <3>3 DEF MarkInv, Tracked, CliTypes
    <2> QED BY <2>2, <2>3
  <1>2. CASE TurnEnds
    <2>1. PICK n \in 1 .. Len(cli) : cli' = SubSeq(cli, n + 1, Len(cli))
      BY <1>2 DEF TurnEnds
    <2>2. \A i \in 1 .. Len(cli') : n + i \in 1 .. Len(cli) /\ n + i # 1 /\ cli'[i] = cli[n + i]
      BY <1>t, <2>1, CliAfterTurn DEF CliTypes
    <2>3. link' /\ ~pending' /\ UNCHANGED <<status, overtaken>>
      BY <1>2 DEF TurnEnds, TimerAfter, MarkInv
    <2> QED BY <2>2, <2>3 DEF MarkInv, Tracked
  <1>3. CASE Fire
    <2>1. UNCHANGED <<link, pairVars>>
      BY <1>3 DEF Fire
    <2>2. CASE FireSkips \/ FireUnsaved \/ FireUnsent
      BY <1>u, <2>1, <2>2 DEF FireSkips, FireUnsaved, FireUnsent, Tracked
    <2>3. CASE FireSends
      <3>1. /\ link /\ cli' = Append(cli, "auto") /\ turn' = "inflight" /\ pending'
            /\ overtaken' = (cli # <<>>)
        BY <2>3 DEF FireSends
      <3>2. Len(cli') = Len(cli) + 1 /\ cli'[Len(cli) + 1] = "auto"
            /\ Len(cli) + 1 \in 1 .. Len(cli')
        BY <1>t, <3>1 DEF CliTypes
      <3>3. ~overtaken' => \A i \in 1 .. Len(cli') : i = 1
        <4>1. cli = <<>> => Len(cli') = 1
          BY <3>2, NoPrompts
        <4>2. ~overtaken' => cli = <<>>
          BY <3>1
        <4>3. cli = <<>> => \A i \in 1 .. Len(cli') : i = 1
          <5> SUFFICES ASSUME cli = <<>>, NEW i \in 1 .. Len(cli') PROVE i = 1
            OBVIOUS
          <5>1. Len(cli') = 1
            BY <4>1
          <5>2. i \in 1 .. 1
            BY <5>1
          <5> QED BY <5>2
        <4> QED BY <4>2, <4>3, Zenon
      <3> QED BY <2>1, <3>1, <3>2, <3>3 DEF MarkInv
    <2> QED BY <1>3, <2>2, <2>3 DEF Fire
  <1>4. CASE OrchestratorExits \/ ServerRestart
    BY <1>4 DEF OrchestratorExits, ServerRestart, MarkInv
  <1>5. CASE Attach
    <2>1. ~pending
      BY <1>t, <1>5 DEF Attach, MarkInv, CliTypes
    <2>2. link' /\ ~pending' /\ cli' = [i \in 1 .. queued |-> "prompt"]
      BY <1>5, <2>1 DEF Attach
    <2>3. \A i \in 1 .. Len(cli') : cli'[i] # "auto"
      BY <1>t, <2>2 DEF CliTypes
    <2> QED BY <2>2, <2>3 DEF MarkInv
  <1>6. CASE Archive
    <2>1. ~pending' /\ ~Tracked' /\ UNCHANGED <<link, cli>>
      BY <1>6 DEF Archive, Tracked
    <2> QED BY <2>1 DEF MarkInv
  <1>7. ASSUME NEW new \in SUBSET (Findings \ disputed), Review(new) PROVE MarkInv'
    BY <1>u, <1>7 DEF Review, TimerAfter, Tracked
  <1>8. ASSUME NEW f \in Findings, Dismiss(f) \/ Dispute(f) PROVE MarkInv'
    BY <1>u, <1>8 DEF Dismiss, Dispute, Release, TimerAfter, Tracked
  <1>9. CASE GapAppears \/ BudgetCrossed \/ LimitHit
    BY <1>u, <1>9 DEF GapAppears, BudgetCrossed, LimitHit, Tracked
  <1>10. CASE IgnoreGap \/ BudgetContinued
    BY <1>u, <1>10 DEF IgnoreGap, BudgetContinued, TimerAfter, Tracked
  <1>11. CASE PairMoves \/ UserStop \/ ManualRelaunch
    BY <1>u, <1>11 DEF PairMoves, UserStop, ManualRelaunch, Tracked
  <1>12. CASE UNCHANGED vars
    BY <1>u, <1>12 DEF vars, Tracked
  <1> QED BY <1>1, <1>2, <1>3, <1>4, <1>5, <1>6, <1>7, <1>8, <1>9, <1>10, <1>11, <1>12 DEF Next

\* The permission gate's mark is set only while a synthetic prompt is in the
\* CLI, and is set while one runs that was sent to an idle CLI.
THEOREM MarkIsSound == Spec => []MarkFitsTurn
  <1>1. Init => MarkInv
    BY DEF Init, MarkInv
  <1>2. TypeInv /\ MarkInv => MarkFitsTurn
    <2> SUFFICES ASSUME TypeInv, MarkInv PROVE MarkFitsTurn
      OBVIOUS
    <2>1. cli # <<>> => 1 \in 1 .. Len(cli)
      BY DEF TypeInv, TypeOK, CliTypes
    <2> QED BY <2>1 DEF MarkInv, MarkFitsTurn
  <1> QED BY <1>1, <1>2, MarkStep, TypeInvariant, PTL DEF Spec

-----------------------------------------------------------------------------
(***************************************************************************)
(* No idle edge is lost.                                                   *)
(***************************************************************************)

\* An idle edge arms the timer, or leaves what arms it later.
LEMMA EdgeArms ==
    ASSUME TypeInv, NEW new \in SUBSET Findings, EnsureRestored(new, TRUE), TimerAfter(TRUE),
           UNCHANGED status, going', turn' = "awaiting"
    PROVE  EdgeIsOwed'
  <1>1. status' = "active"
    BY DEF TimerAfter
  <1>2. CASE restore' # "done"
    BY <1>2 DEF EnsureRestored, EdgeIsOwed
  <1>3. CASE restore' = "done" /\ hold' = {}
    BY <1>1, <1>3 DEF TimerAfter, Armable, GateOpen, EdgeIsOwed
  <1> QED BY <1>2, <1>3 DEF EdgeIsOwed

\* A restore that completes behind the idle edge's back arms it then.
LEMMA WaitingEdgeArms ==
    ASSUME TypeInv, HoldInv, NEW new \in SUBSET Findings, EnsureRestored(new, FALSE),
           TimerAfter(WaitingEdge), UNCHANGED <<status, exceeded, turn>>,
           EdgeIsOwed, going', turn = "awaiting"
    PROVE  EdgeIsOwed'
  <1>1. UNCHANGED <<count, limited>>
        /\ armed' = (hold' = {} /\ (armed \/ (WaitingEdge /\ Armable')))
        /\ (WaitingEdge => status = "active")
    BY DEF TimerAfter
  <1>2. CASE AtCap \/ limited \/ exceeded \/ ~Tracked
    BY <1>1, <1>2 DEF EdgeIsOwed, AtCap, Tracked
  <1>3. CASE armed
    BY <1>1, <1>3 DEF EdgeIsOwed, HoldInv, EnsureRestored
  <1>4. CASE restore = "done" /\ hold # {}
    BY <1>4 DEF EdgeIsOwed, EnsureRestored
  <1>5. CASE restore # "done" /\ waiting
    <2>1. CASE gap'
      BY <1>5, <2>1 DEF EdgeIsOwed, EnsureRestored
    <2>2. CASE ~gap'
      <3>1. restore' = "done" /\ WaitingEdge
        BY <1>5, <2>2 DEF EnsureRestored, WaitingEdge
      <3> QED BY <1>1, <3>1 DEF EdgeIsOwed, Armable, GateOpen
    <2> QED BY <2>1, <2>2
  <1> QED BY <1>2, <1>3, <1>4, <1>5 DEF EdgeIsOwed

LEMMA IdleStep == TypeInv /\ HoldInv /\ IdleInv /\ [Next]_vars => IdleInv'
  <1> SUFFICES ASSUME TypeInv, HoldInv, IdleInv, [Next]_vars PROVE IdleInv'
    OBVIOUS
  <1> USE DEF managerVars, holdVars, cliVars, history, pairVars
  <1>t. ManagerTypes /\ HoldTypes /\ CliTypes
    BY DEF TypeInv, TypeOK
  <1>u. ASSUME UNCHANGED <<link, queued, turn, count, limited, armed, exceeded, holdVars>>,
               going' => going, Tracked' => Tracked
        PROVE  IdleInv'
    BY <1>u DEF IdleInv, EdgeIsOwed, AtCap
  <1>v. ASSUME UNCHANGED <<link, queued, turn>>, going' => going,
               going' /\ link /\ turn = "awaiting" => EdgeIsOwed'
        PROVE  IdleInv'
    BY <1>v DEF IdleInv
  <1>g. ~going' => IdleInv'
    BY DEF IdleInv
  <1>1. CASE HumanMessage \/ ServerPrompt
    <2>1. Deliver /\ UNCHANGED link
      BY <1>1 DEF HumanMessage, ServerPrompt
    <2> QED BY <1>t, <2>1 DEF Deliver, IdleInv, CliTypes
  <1>2. CASE TurnEnds
    <2>1. link' /\ turn' = "awaiting" /\ UNCHANGED <<exceeded, status>>
      BY <1>2 DEF TurnEnds
    <2>2. CASE /\ turn = "awaiting" \/ exceeded \/ ~Tracked
               /\ UNCHANGED <<holdVars, count, armed, limited, history>>
      <3>1. going => EdgeIsOwed
        BY <1>2, <2>2 DEF TurnEnds, IdleInv, EdgeIsOwed
      <3> QED BY <2>1, <2>2, <3>1 DEF IdleInv, EdgeIsOwed, AtCap, Tracked
    <2>3. CASE EnsureRestored({}, TRUE) /\ TimerAfter(TRUE)
      <3>1. going' => EdgeIsOwed'
        BY <2>1, <2>3, EdgeArms
      <3> QED BY <2>1, <3>1 DEF IdleInv
    <2> QED BY <1>2, <2>2, <2>3 DEF TurnEnds
  <1>3. ASSUME NEW new \in SUBSET (Findings \ disputed), Review(new) PROVE IdleInv'
    <2>1. /\ UNCHANGED <<link, queued, turn, status, exceeded>>
          /\ EnsureRestored(new, FALSE) /\ TimerAfter(WaitingEdge)
          /\ new \in SUBSET Findings
      BY <1>3 DEF Review
    <2>2. going' => going
      BY <2>1 DEF TimerAfter
    <2>3. going' /\ link /\ turn = "awaiting" => EdgeIsOwed'
      BY <2>1, <2>2, WaitingEdgeArms DEF IdleInv
    <2> QED BY <1>v, <2>1, <2>2, <2>3
  <1>4. ASSUME NEW f \in Findings, Dismiss(f) \/ Dispute(f) PROVE IdleInv'
    <2> DEFINE edge == f \in hold /\ hold' = {} /\ restore = "done"
    <2>1. /\ UNCHANGED <<link, queued, turn, status, exceeded, restore, waiting>>
          /\ hold' = hold \ {f}
      BY <1>4 DEF Dismiss, Dispute, Release
    <2>t. TimerAfter(edge)
      BY <1>4 DEF Dismiss, Dispute, Release
    <2>n. edge <=> f \in hold /\ hold' = {} /\ restore = "done"
      OBVIOUS
    <2> HIDE DEF edge
    <2>2. /\ UNCHANGED <<count, limited>> /\ (going' => going)
          /\ armed' = (hold' = {} /\ (armed \/ (edge /\ Armable')))
          /\ going' /\ edge /\ turn' = "awaiting" => status = "active"
      BY <2>t DEF TimerAfter
    <2>3. ASSUME EdgeIsOwed, going', turn = "awaiting" PROVE EdgeIsOwed'
      <3>1. CASE AtCap \/ limited \/ exceeded \/ ~Tracked \/ (restore # "done" /\ waiting)
        <4>1. UNCHANGED <<count, limited, exceeded, status, restore, waiting>>
          BY <2>1, <2>2
        <4> QED BY <3>1, <4>1 DEF EdgeIsOwed, AtCap, Tracked
      <3>2. CASE armed
        BY <2>1, <2>2, <3>2 DEF EdgeIsOwed, HoldInv
      <3>3. CASE restore = "done" /\ hold # {}
        <4>1. CASE hold' # {}
          BY <2>1, <3>3, <4>1 DEF EdgeIsOwed
        <4>2. CASE hold' = {}
          <5>1. edge
            BY <2>1, <2>n, <3>3, <4>2
          <5> QED BY <2>1, <2>2, <2>3, <3>3, <4>2, <5>1 DEF EdgeIsOwed, Armable, GateOpen
        <4> QED BY <4>1, <4>2
      <3> QED BY <2>3, <3>1, <3>2, <3>3 DEF EdgeIsOwed
    <2>4. UNCHANGED <<link, queued, turn>> /\ (going' => going)
      BY <2>1, <2>2
    <2>5. going' /\ link /\ turn = "awaiting" => EdgeIsOwed'
      BY <2>3, <2>4 DEF IdleInv
    <2> QED BY <1>v, <2>4, <2>5
  <1>5. CASE GapAppears
    BY <1>u, <1>5 DEF GapAppears, Tracked
  <1>6. CASE BudgetCrossed
    BY <1>v, <1>6 DEF BudgetCrossed, EdgeIsOwed
  <1>7. CASE LimitHit
    BY <1>v, <1>7 DEF LimitHit, EdgeIsOwed
  <1>8. CASE IgnoreGap
    <2>1. UNCHANGED <<link, queued, turn, status, exceeded>>
      BY <1>8 DEF IgnoreGap
    <2>2. CASE UNCHANGED <<holdVars, count, armed, limited, history>>
      BY <1>u, <2>1, <2>2 DEF Tracked
    <2>3. CASE EnsureRestored({}, FALSE) /\ TimerAfter(WaitingEdge)
      <3>1. going' => going
        BY <2>3 DEF TimerAfter
      <3>2. going' /\ link /\ turn = "awaiting" => EdgeIsOwed'
        BY <2>1, <2>3, <3>1, WaitingEdgeArms DEF IdleInv
      <3> QED BY <1>v, <2>1, <3>1, <3>2
    <2> QED BY <1>8, <2>2, <2>3 DEF IgnoreGap
  <1>9. CASE BudgetContinued
    <2>1. /\ UNCHANGED <<link, queued, turn, status>>
          /\ EnsureRestored({}, TRUE) /\ TimerAfter(TRUE)
      BY <1>9 DEF BudgetContinued
    <2>2. going' => going
      BY <2>1 DEF TimerAfter
    <2>3. going' /\ link /\ turn = "awaiting" => EdgeIsOwed'
      BY <2>1, EdgeArms
    <2> QED BY <1>v, <2>1, <2>2, <2>3
  <1>10. CASE Fire
    <2>1. UNCHANGED <<link, queued, limited, exceeded, status, holdVars>>
      BY <1>10 DEF Fire
    <2>2. CASE FireSkips
      <3>1. UNCHANGED <<count, turn>> /\ ~Fireable
            /\ going' = (going /\ ~(status # "active" /\ turn = "awaiting"))
        BY <2>2 DEF FireSkips
      <3>2. going' /\ turn = "awaiting" => EdgeIsOwed'
        BY <2>1, <3>1 DEF Fireable, GateOpen, EdgeIsOwed, AtCap
      <3> QED BY <1>v, <2>1, <3>1, <3>2
    <2>3. CASE FireUnsaved \/ FireUnsent
      BY <1>g, <2>3 DEF FireUnsaved, FireUnsent
    <2>4. CASE FireSends
      BY <2>1, <2>4 DEF FireSends, IdleInv
    <2> QED BY <1>10, <2>2, <2>3, <2>4 DEF Fire
  <1>11. CASE PairMoves \/ ManualRelaunch
    BY <1>u, <1>11 DEF PairMoves, ManualRelaunch, Tracked
  <1>12. CASE UserStop \/ OrchestratorExits \/ ServerRestart
    BY <1>g, <1>12 DEF UserStop, OrchestratorExits, ServerRestart
  <1>13. CASE Attach
    <2>1. ~link /\ link' /\ going' = going /\ (queued # 0 => turn' = "inflight")
      BY <1>13 DEF Attach
    <2> QED BY <1>t, <2>1 DEF IdleInv, CliTypes
  <1>14. CASE Archive
    <2>1. UNCHANGED <<link, queued, turn, going>> /\ ~Tracked'
      BY <1>14 DEF Archive, Tracked
    <2> QED BY <1>v, <2>1 DEF EdgeIsOwed
  <1>15. CASE UNCHANGED vars
    BY <1>u, <1>15 DEF vars, Tracked
  <1> QED BY <1>1, <1>2, <1>3, <1>4, <1>5, <1>6, <1>7, <1>8, <1>9, <1>10, <1>11, <1>12,
             <1>13, <1>14, <1>15 DEF Next

\* No idle edge is lost to the holds: once the last reason to wait is gone, in
\* whichever order they come and go, the timer of an idle orchestrator is armed.
THEOREM IdleEdgeIsKept == Spec => []IdleIsArmed
  <1>1. Init => IdleInv
    BY DEF Init, IdleInv
  <1>2. HoldInv /\ IdleInv => IdleIsArmed
    <2> SUFFICES ASSUME HoldInv, IdleInv, link, turn = "awaiting", going, ~Held, ~AtCap
                 PROVE  armed
      BY DEF IdleIsArmed
    <2> QED BY DEF IdleInv, EdgeIsOwed, Held, HoldInv, Tracked
  <1> QED BY <1>1, <1>2, IdleStep, HoldInvariant, PTL DEF Spec
=============================================================================
