------------------------ MODULE ObserverWake_proofs ------------------------
(***************************************************************************)
(* Proofs about ObserverWake, for every budget and every bound: type       *)
(* correctness, that a heal and whoever waits for it go together, and that *)
(* a review is recorded for the wake it answers.  The state is one record  *)
(* and a handler is a function of it, so there is a lemma for every        *)
(* handler: what it makes of a well-formed pair, and what it leaves alone. *)
(***************************************************************************)
EXTENDS ObserverWake, TLAPS

-----------------------------------------------------------------------------
(***************************************************************************)
(* Updates of the record.  A handler is a chain of them: each keeps the    *)
(* type, and the fields it does not name are those of the old pair.        *)
(***************************************************************************)

Fields == {"status", "lost", "obs", "hello", "cli", "turn", "heard", "last", "pending",
           "deadline", "expect", "rejections", "reviewed", "polls", "timeouts", "recovery",
           "heal", "slots", "sentinel", "review", "fresh", "before", "silent"}

HealStates == [at : {"none", "relaunching", "waiting", "backoff"}, owner : 0 .. MaxSeq,
               attempts : 0 .. MaxAttempts, relaunchedOk : BOOLEAN]

LEMMA PairDomain == \A p \in Pairs : DOMAIN p = Fields
  BY DEF Pairs, Fields

LEMMA PairFields ==
    ASSUME NEW p \in Pairs
    PROVE  /\ p.status \in {"active", "reconnecting", "degraded"}
           /\ p.lost \in {"none", "observer", "primary"}
           /\ p.obs \in {"absent", "detached", "attached"}
           /\ p.hello \in BOOLEAN /\ p.turn \in BOOLEAN /\ p.heard \in BOOLEAN
           /\ p.cli \in Seq(Checkpoints)
           /\ p.last \in 0 .. MaxSeq /\ p.pending \in 0 .. MaxSeq /\ p.deadline \in 0 .. MaxSeq
           /\ p.expect \in 0 .. MaxSeq /\ p.rejections \in 0 .. RejectionsBeforeDegrade
           /\ p.reviewed \in 0 .. MaxSeq /\ p.polls \subseteq Checkpoints
           /\ p.timeouts \in [Checkpoints -> 0 .. TimeoutEscalation - 1]
           /\ p.recovery \in {"none", "awaiting", "healing"} /\ p.heal \in HealStates
           /\ p.slots \in 0 .. MaxPerHour /\ p.sentinel \in 0 .. MaxSeq
           /\ p.review \in [Checkpoints -> {"none", "answer", "refusal"}]
           /\ p.fresh \subseteq Checkpoints /\ p.before \in 0 .. MaxSeq /\ p.silent \in BOOLEAN
  BY DEF Pairs, HealStates

LEMMA PairUpdates ==
    ASSUME NEW p \in Pairs
    PROVE  /\ \A v \in {"active", "reconnecting", "degraded"} : [p EXCEPT !.status = v] \in Pairs
           /\ \A v \in {"none", "observer", "primary"} : [p EXCEPT !.lost = v] \in Pairs
           /\ \A v \in {"absent", "detached", "attached"} : [p EXCEPT !.obs = v] \in Pairs
           /\ \A v \in BOOLEAN : [p EXCEPT !.hello = v] \in Pairs
           /\ \A v \in Seq(Checkpoints) : [p EXCEPT !.cli = v] \in Pairs
           /\ \A v \in BOOLEAN : [p EXCEPT !.turn = v] \in Pairs
           /\ \A v \in BOOLEAN : [p EXCEPT !.heard = v] \in Pairs
           /\ \A v \in 0 .. MaxSeq : [p EXCEPT !.last = v] \in Pairs
           /\ \A v \in 0 .. MaxSeq : [p EXCEPT !.pending = v] \in Pairs
           /\ \A v \in 0 .. MaxSeq : [p EXCEPT !.deadline = v] \in Pairs
           /\ \A v \in 0 .. MaxSeq : [p EXCEPT !.expect = v] \in Pairs
           /\ \A v \in 0 .. RejectionsBeforeDegrade : [p EXCEPT !.rejections = v] \in Pairs
           /\ \A v \in 0 .. MaxSeq : [p EXCEPT !.reviewed = v] \in Pairs
           /\ \A v \in SUBSET Checkpoints : [p EXCEPT !.polls = v] \in Pairs
           /\ \A v \in [Checkpoints -> 0 .. TimeoutEscalation - 1] : [p EXCEPT !.timeouts = v] \in Pairs
           /\ \A v \in {"none", "awaiting", "healing"} : [p EXCEPT !.recovery = v] \in Pairs
           /\ \A v \in HealStates : [p EXCEPT !.heal = v] \in Pairs
           /\ \A v \in 0 .. MaxPerHour : [p EXCEPT !.slots = v] \in Pairs
           /\ \A v \in 0 .. MaxSeq : [p EXCEPT !.sentinel = v] \in Pairs
           /\ \A v \in [Checkpoints -> {"none", "answer", "refusal"}] : [p EXCEPT !.review = v] \in Pairs
           /\ \A v \in SUBSET Checkpoints : [p EXCEPT !.fresh = v] \in Pairs
           /\ \A v \in BOOLEAN : [p EXCEPT !.silent = v] \in Pairs
  <1>1. ASSUME NEW v \in {"active", "reconnecting", "degraded"} PROVE [p EXCEPT !.status = v] \in Pairs
    BY DEF Pairs
  <1>2. ASSUME NEW v \in {"none", "observer", "primary"} PROVE [p EXCEPT !.lost = v] \in Pairs
    BY DEF Pairs
  <1>3. ASSUME NEW v \in {"absent", "detached", "attached"} PROVE [p EXCEPT !.obs = v] \in Pairs
    BY DEF Pairs
  <1>4. ASSUME NEW v \in BOOLEAN PROVE [p EXCEPT !.hello = v] \in Pairs
    BY DEF Pairs
  <1>5. ASSUME NEW v \in Seq(Checkpoints) PROVE [p EXCEPT !.cli = v] \in Pairs
    BY DEF Pairs
  <1>6. ASSUME NEW v \in BOOLEAN PROVE [p EXCEPT !.turn = v] \in Pairs
    BY DEF Pairs
  <1>7. ASSUME NEW v \in BOOLEAN PROVE [p EXCEPT !.heard = v] \in Pairs
    BY DEF Pairs
  <1>8. ASSUME NEW v \in 0 .. MaxSeq PROVE [p EXCEPT !.last = v] \in Pairs
    BY DEF Pairs
  <1>9. ASSUME NEW v \in 0 .. MaxSeq PROVE [p EXCEPT !.pending = v] \in Pairs
    BY DEF Pairs
  <1>10. ASSUME NEW v \in 0 .. MaxSeq PROVE [p EXCEPT !.deadline = v] \in Pairs
    BY DEF Pairs
  <1>11. ASSUME NEW v \in 0 .. MaxSeq PROVE [p EXCEPT !.expect = v] \in Pairs
    BY DEF Pairs
  <1>12. ASSUME NEW v \in 0 .. RejectionsBeforeDegrade PROVE [p EXCEPT !.rejections = v] \in Pairs
    BY DEF Pairs
  <1>13. ASSUME NEW v \in 0 .. MaxSeq PROVE [p EXCEPT !.reviewed = v] \in Pairs
    BY DEF Pairs
  <1>14. ASSUME NEW v \in SUBSET Checkpoints PROVE [p EXCEPT !.polls = v] \in Pairs
    BY DEF Pairs
  <1>15. ASSUME NEW v \in [Checkpoints -> 0 .. TimeoutEscalation - 1] PROVE [p EXCEPT !.timeouts = v] \in Pairs
    BY DEF Pairs
  <1>16. ASSUME NEW v \in {"none", "awaiting", "healing"} PROVE [p EXCEPT !.recovery = v] \in Pairs
    BY DEF Pairs
  <1>17. ASSUME NEW v \in HealStates PROVE [p EXCEPT !.heal = v] \in Pairs
    BY DEF Pairs, HealStates
  <1>18. ASSUME NEW v \in 0 .. MaxPerHour PROVE [p EXCEPT !.slots = v] \in Pairs
    BY DEF Pairs
  <1>19. ASSUME NEW v \in 0 .. MaxSeq PROVE [p EXCEPT !.sentinel = v] \in Pairs
    BY DEF Pairs
  <1>20. ASSUME NEW v \in [Checkpoints -> {"none", "answer", "refusal"}] PROVE [p EXCEPT !.review = v] \in Pairs
    BY DEF Pairs
  <1>21. ASSUME NEW v \in SUBSET Checkpoints PROVE [p EXCEPT !.fresh = v] \in Pairs
    BY DEF Pairs
  <1>22. ASSUME NEW v \in BOOLEAN PROVE [p EXCEPT !.silent = v] \in Pairs
    BY DEF Pairs
  <1> QED BY <1>1, <1>2, <1>3, <1>4, <1>5, <1>6, <1>7, <1>8, <1>9, <1>10, <1>11, <1>12, <1>13, <1>14, <1>15, <1>16, <1>17, <1>18, <1>19, <1>20, <1>21, <1>22

LEMMA Constants ==
    /\ MaxSeq \in Nat \ {0} /\ RejectionsBeforeDegrade \in Nat \ {0} /\ MaxPerHour \in Nat \ {0}
    /\ TimeoutEscalation \in Nat \ {0} /\ MaxAttempts \in Nat \ {0} /\ MaxFaults \in Nat
    /\ None = 0 /\ None \in 0 .. MaxSeq /\ Checkpoints \subseteq 0 .. MaxSeq
    /\ \A c \in Checkpoints : c # None
    /\ \A c \in 0 .. MaxSeq : c # None => c \in Checkpoints
    /\ 0 \in 0 .. RejectionsBeforeDegrade /\ 0 \in 0 .. TimeoutEscalation - 1
  BY WakeAssumption DEF None, Checkpoints

LEMMA HealUpdates ==
    /\ NoHeal \in HealStates /\ NoHeal.at = "none" /\ NoHeal.attempts = 0
    /\ \A h \in HealStates, at \in {"relaunching", "waiting", "backoff"} :
          [h EXCEPT !.at = at] \in HealStates /\ [h EXCEPT !.at = at] # NoHeal
    /\ \A h \in HealStates, n \in 0 .. MaxAttempts : [h EXCEPT !.attempts = n] \in HealStates
    /\ \A h \in HealStates, n \in 0 .. MaxSeq : [h EXCEPT !.owner = n] \in HealStates
    /\ \A h \in HealStates, b \in BOOLEAN : [h EXCEPT !.relaunchedOk = b] \in HealStates
  <1>1. NoHeal \in HealStates /\ NoHeal.at = "none" /\ NoHeal.attempts = 0
    BY Constants DEF NoHeal, HealStates
  <1>2. \A h \in HealStates, at \in {"relaunching", "waiting", "backoff"} :
          [h EXCEPT !.at = at] \in HealStates /\ [h EXCEPT !.at = at] # NoHeal
    BY <1>1 DEF HealStates
  <1>3. \A h \in HealStates, n \in 0 .. MaxAttempts : [h EXCEPT !.attempts = n] \in HealStates
    BY DEF HealStates
  <1>4. \A h \in HealStates, n \in 0 .. MaxSeq : [h EXCEPT !.owner = n] \in HealStates
    BY DEF HealStates
  <1>5. \A h \in HealStates, b \in BOOLEAN : [h EXCEPT !.relaunchedOk = b] \in HealStates
    BY DEF HealStates
  <1> QED BY <1>1, <1>2, <1>3, <1>4, <1>5

-----------------------------------------------------------------------------
(***************************************************************************)
(* A pair between two handlers, and what a handler keeps of it.            *)
(***************************************************************************)

(* A pair waits for a half exactly while it is reconnecting; an observer   *)
(* that is not attached has no turn; the reply that is awaited is that to  *)
(* the last wake the process was given; and none is awaited for what is    *)
(* answered.                                                               *)
WellFormed(p) ==
    /\ p \in Pairs
    /\ (p.lost # "none") = (p.status = "reconnecting")
    /\ p.obs # "attached" => ~p.turn /\ p.cli = <<>> /\ ~p.hello /\ ~p.silent
    /\ p.turn => p.cli # <<>> /\ p.expect = p.cli[Len(p.cli)]
    /\ p.expect # None => p.review[p.expect] # "answer"

(* A heal is its owner's: the recovery's while the recovery heals, or that *)
(* of the poll of a checkpoint, which is still out.  A round that has      *)
(* failed leaves another one to try.                                       *)
Owned(p) ==
    /\ (p.recovery = "healing") = (p.heal # NoHeal /\ Forced(p.heal))
    /\ p.heal # NoHeal /\ ~Forced(p.heal) => p.heal.owner \in p.polls
    /\ p.heal.at = "none" => p.heal = NoHeal
    /\ p.heal.at = "backoff" => p.heal.attempts < MaxAttempts

(* What no handler but a heal's, or a reply's, does.                       *)
KeepsHeal(p, q) == q.heal = p.heal /\ q.recovery = p.recovery
NoReview(p, q) == q.fresh \subseteq p.fresh /\ q.review = p.review /\ q.last = p.last
Minor(p, q) == WellFormed(q) /\ KeepsHeal(p, q) /\ NoReview(p, q)

LEMMA OwnedKept ==
    ASSUME NEW p, NEW q, Owned(p), KeepsHeal(p, q),
           p.polls \subseteq q.polls \/ q.heal = NoHeal \/ Forced(q.heal)
    PROVE  Owned(q)
  BY DEF Owned, KeepsHeal

LEMMA MinorTwice ==
    ASSUME NEW p, NEW q, NEW r, Minor(p, q), Minor(q, r)
    PROVE  Minor(p, r)
  BY DEF Minor, KeepsHeal, NoReview

LEMMA MinorSelf ==
    ASSUME NEW p, WellFormed(p)
    PROVE  Minor(p, p)
  BY DEF Minor, KeepsHeal, NoReview

(* The group.                                                              *)
LEMMA DegradedMinor ==
    ASSUME NEW p, WellFormed(p)
    PROVE  Minor(p, Degraded(p)) /\ Degraded(p).polls = p.polls /\ Degraded(p).turn = p.turn
           /\ Degraded(p).obs = p.obs
  <1> DEFINE q == Degraded(p)
  <1>1. p \in Pairs
    BY DEF WellFormed
  <1>2. q \in Pairs
    BY <1>1, PairUpdates, Constants DEF Degraded
  <1>3. /\ q.status = "degraded" /\ q.lost = "none" /\ q.polls = p.polls /\ q.last = p.last
        /\ q.heal = p.heal /\ q.recovery = p.recovery /\ q.fresh = p.fresh /\ q.turn = p.turn
        /\ q.obs = p.obs /\ q.cli = p.cli /\ q.hello = p.hello /\ q.silent = p.silent
        /\ q.expect = p.expect /\ q.review = p.review
    BY <1>1, PairDomain DEF Degraded, Fields
  <1> HIDE DEF q
  <1>4. Minor(p, q) /\ q.polls = p.polls /\ q.turn = p.turn /\ q.obs = p.obs
    BY <1>2, <1>3 DEF Minor, WellFormed, KeepsHeal, NoReview
  <1> QED BY <1>4 DEF q

LEMMA HalfDiedMinor ==
    ASSUME NEW p, WellFormed(p)
    PROVE  Minor(p, HalfDied(p)) /\ HalfDied(p).polls = p.polls /\ HalfDied(p).turn = p.turn
  BY DegradedMinor, MinorSelf DEF HalfDied

LEMMA ClosedMinor ==
    ASSUME NEW p, WellFormed(p)
    PROVE  /\ Minor(p, Closed(p)) /\ Closed(p).polls = p.polls /\ ~Closed(p).turn
           /\ Closed(p).slots = p.slots
           /\ Minor(p, Attached(p)) /\ Attached(p).polls = p.polls
  <1> DEFINE q == Closed(p)
             r == Attached(p)
  <1>1. p \in Pairs /\ p.obs \in {"absent", "detached", "attached"}
    BY PairFields DEF WellFormed
  <1>2. q \in Pairs
    <2>1. <<>> \in Seq(Checkpoints)
      OBVIOUS
    <2>2. (IF p.obs = "absent" THEN p.obs ELSE "detached") \in {"absent", "detached", "attached"}
      BY <1>1
    <2> QED BY <1>1, <2>1, <2>2, PairUpdates DEF Closed
  <1>3. /\ q.status = p.status /\ q.lost = p.lost /\ q.polls = p.polls /\ q.last = p.last
        /\ q.heal = p.heal /\ q.recovery = p.recovery /\ q.fresh = p.fresh /\ ~q.turn
        /\ q.obs # "attached" /\ q.cli = <<>> /\ ~q.hello /\ ~q.silent /\ q.slots = p.slots
        /\ q.expect = p.expect /\ q.review = p.review
    BY <1>1, PairDomain DEF Closed, Fields
  <1> HIDE DEF q
  <1>4. r = [q EXCEPT !.obs = "attached", !.hello = TRUE]
    BY DEF Attached, q
  <1>5. r \in Pairs
    <2>1. [q EXCEPT !.obs = "attached"] \in Pairs
      BY <1>2, PairUpdates
    <2>2. [q EXCEPT !.obs = "attached", !.hello = TRUE] \in Pairs
      BY <2>1, PairUpdates
    <2> QED BY <1>4, <2>2
  <1>6. /\ r.status = p.status /\ r.lost = p.lost /\ r.polls = p.polls /\ r.last = p.last
        /\ r.heal = p.heal /\ r.recovery = p.recovery /\ r.fresh = p.fresh /\ ~r.turn
        /\ r.obs = "attached" /\ r.expect = p.expect /\ r.review = p.review
    BY <1>2, <1>3, <1>4, PairDomain DEF Fields
  <1> HIDE DEF r
  <1>7. /\ Minor(p, q) /\ q.polls = p.polls /\ ~q.turn /\ q.slots = p.slots
        /\ Minor(p, r) /\ r.polls = p.polls
    BY <1>2, <1>3, <1>5, <1>6 DEF Minor, WellFormed, KeepsHeal, NoReview
  <1> QED BY <1>7 DEF q, r

(* The slot, the polls and the wake itself.                                *)
LEMMA EnqueueMinor ==
    ASSUME NEW p, WellFormed(p), NEW c \in 0 .. MaxSeq
    PROVE  Minor(p, Enqueue(p, c)) /\ Enqueue(p, c).polls = p.polls /\ Enqueue(p, c).turn = p.turn
           /\ Enqueue(p, c).obs = p.obs /\ Enqueue(p, c).status = p.status
  <1> DEFINE q == Enqueue(p, c)
  <1>1. p \in Pairs
    BY DEF WellFormed
  <1>2. q \in Pairs
    BY <1>1, PairUpdates DEF Enqueue
  <1>3. /\ q.status = p.status /\ q.lost = p.lost /\ q.polls = p.polls /\ q.last = p.last
        /\ q.heal = p.heal /\ q.recovery = p.recovery /\ q.fresh = p.fresh /\ q.turn = p.turn
        /\ q.obs = p.obs /\ q.cli = p.cli /\ q.hello = p.hello /\ q.silent = p.silent
        /\ q.expect = p.expect /\ q.review = p.review
    BY <1>1, PairDomain DEF Enqueue, Fields
  <1> HIDE DEF q
  <1>4. Minor(p, q) /\ q.polls = p.polls /\ q.turn = p.turn /\ q.obs = p.obs
        /\ q.status = p.status
    BY <1>2, <1>3 DEF Minor, WellFormed, KeepsHeal, NoReview
  <1> QED BY <1>4 DEF q

LEMMA PollsMinor ==
    ASSUME NEW p, WellFormed(p), NEW c \in Checkpoints
    PROVE  /\ Minor(p, RequestCatchup(p, c)) /\ p.polls \subseteq RequestCatchup(p, c).polls
           /\ Minor(p, Released(p, c)) /\ Released(p, c).polls = p.polls \ {c}
           /\ Released(p, c).obs = p.obs /\ Released(p, c).turn = p.turn
  <1>1. p \in Pairs /\ p.polls \subseteq Checkpoints
    BY PairFields DEF WellFormed
  <1>2. ASSUME NEW s \in SUBSET Checkpoints
        PROVE  LET q == [p EXCEPT !.polls = s]
               IN  Minor(p, q) /\ q.polls = s /\ q.obs = p.obs /\ q.turn = p.turn
    <2> DEFINE q == [p EXCEPT !.polls = s]
    <2>1. q \in Pairs
      BY <1>1, PairUpdates
    <2>2. /\ q.status = p.status /\ q.lost = p.lost /\ q.polls = s /\ q.last = p.last
          /\ q.heal = p.heal /\ q.recovery = p.recovery /\ q.fresh = p.fresh /\ q.turn = p.turn
          /\ q.obs = p.obs /\ q.cli = p.cli /\ q.hello = p.hello /\ q.silent = p.silent
          /\ q.expect = p.expect /\ q.review = p.review
      BY <1>1, PairDomain DEF Fields
    <2> HIDE DEF q
    <2>3. Minor(p, q) /\ q.polls = s /\ q.obs = p.obs /\ q.turn = p.turn
      BY <2>1, <2>2 DEF Minor, WellFormed, KeepsHeal, NoReview
    <2> QED BY <2>3 DEF q
  <1>3. p.polls \union {c} \in SUBSET Checkpoints /\ p.polls \ {c} \in SUBSET Checkpoints
    BY <1>1
  <1>4. Released(p, c) = [p EXCEPT !.polls = p.polls \ {c}]
    BY DEF Released
  <1>5. RequestCatchup(p, c) \in {p, [p EXCEPT !.polls = p.polls \union {c}]}
    BY DEF RequestCatchup
  <1>6. Minor(p, RequestCatchup(p, c)) /\ p.polls \subseteq RequestCatchup(p, c).polls
    BY <1>2, <1>3, <1>5, MinorSelf
  <1> QED BY <1>2, <1>3, <1>4, <1>6

LEMMA TimeoutsMinor ==
    ASSUME NEW p, WellFormed(p), NEW c \in Checkpoints, NEW n \in 0 .. TimeoutEscalation - 1
    PROVE  LET q == [p EXCEPT !.timeouts[c] = n]
           IN  Minor(p, q) /\ q.polls = p.polls /\ q.heal = p.heal
  <1> DEFINE q == [p EXCEPT !.timeouts[c] = n]
             t == [p.timeouts EXCEPT ![c] = n]
  <1>1. p \in Pairs /\ t \in [Checkpoints -> 0 .. TimeoutEscalation - 1]
    BY PairFields DEF WellFormed
  <1>2. q = [p EXCEPT !.timeouts = t]
    OBVIOUS
  <1> HIDE DEF q, t
  <1>3. q \in Pairs
    BY <1>1, <1>2, PairUpdates
  <1>4. /\ q.status = p.status /\ q.lost = p.lost /\ q.polls = p.polls /\ q.last = p.last
        /\ q.heal = p.heal /\ q.recovery = p.recovery /\ q.fresh = p.fresh /\ q.turn = p.turn
        /\ q.obs = p.obs /\ q.cli = p.cli /\ q.hello = p.hello /\ q.silent = p.silent
        /\ q.expect = p.expect /\ q.review = p.review
    BY <1>1, <1>2, PairDomain DEF Fields
  <1>5. Minor(p, q) /\ q.polls = p.polls /\ q.heal = p.heal
    BY <1>3, <1>4 DEF Minor, WellFormed, KeepsHeal, NoReview
  <1> QED BY <1>5 DEF q

LEMMA ForgivenMinor ==
    ASSUME NEW p, WellFormed(p), NEW c \in Checkpoints
    PROVE  Minor(p, Forgiven(p, c)) /\ Forgiven(p, c).polls = p.polls
  BY TimeoutsMinor, Constants DEF Forgiven

(* A wake makes its checkpoint the one whose reply is awaited.             *)
LEMMA SendMinor ==
    ASSUME NEW p, WellFormed(p), NEW c \in Checkpoints, p.obs = "attached", ~Answered(p, c)
    PROVE  Minor(p, Send(p, c)) /\ Send(p, c).polls = p.polls
  <1> DEFINE q == Send(p, c)
             l == Append(p.cli, c)
  <1>1. p \in Pairs /\ p.cli \in Seq(Checkpoints) /\ p.fresh \subseteq Checkpoints
    BY PairFields DEF WellFormed
  <1>2. l \in Seq(Checkpoints) /\ l # <<>> /\ l[Len(l)] = c /\ p.fresh \ {c} \in SUBSET Checkpoints
    BY <1>1
  <1>3. q = [p EXCEPT !.cli = l, !.turn = TRUE, !.heard = FALSE, !.sentinel = c, !.deadline = c,
                      !.expect = c, !.fresh = p.fresh \ {c}]
    BY DEF Send
  <1> HIDE DEF q, l
  <1>4. q \in Pairs
    BY <1>1, <1>2, <1>3, PairUpdates, Constants
  <1>5. /\ q.status = p.status /\ q.lost = p.lost /\ q.polls = p.polls /\ q.last = p.last
        /\ q.heal = p.heal /\ q.recovery = p.recovery /\ q.fresh = p.fresh \ {c}
        /\ q.obs = p.obs /\ q.cli = l /\ q.expect = c /\ q.review = p.review
    BY <1>1, <1>3, PairDomain DEF Fields
  <1>6. Minor(p, q) /\ q.polls = p.polls
    BY <1>2, <1>4, <1>5 DEF Minor, WellFormed, KeepsHeal, NoReview, Answered
  <1> QED BY <1>6 DEF q

LEMMA DispatchMinor ==
    ASSUME NEW p, WellFormed(p), NEW c \in Checkpoints, NEW throws
    PROVE  Minor(p, Dispatch(p, c, throws)) /\ p.polls \subseteq Dispatch(p, c, throws).polls
  <1>1. p.obs \in {"absent", "detached", "attached"}
    BY PairFields DEF WellFormed
  <1> QED BY <1>1, Constants, MinorSelf, EnqueueMinor, PollsMinor, HalfDiedMinor, SendMinor
         DEF Dispatch, AlreadyAsked

LEMMA DrainMinor ==
    ASSUME NEW p, WellFormed(p), NEW throws
    PROVE  Minor(p, Drain(p, throws)) /\ p.polls \subseteq Drain(p, throws).polls
  <1>1. p \in Pairs /\ p.pending \in 0 .. MaxSeq
    BY PairFields DEF WellFormed
  <1>2. CASE p.pending = None
    BY <1>2, MinorSelf DEF Drain
  <1>3. CASE p.pending # None
    <2> DEFINE q == Enqueue(p, None)
    <2>1. p.pending \in Checkpoints
      BY <1>1, <1>3, Constants
    <2>2. Minor(p, q) /\ q.polls = p.polls /\ WellFormed(q)
      BY EnqueueMinor, Constants DEF Minor
    <2>3. Drain(p, throws) = Dispatch(q, p.pending, throws)
      BY <1>3 DEF Drain, Enqueue
    <2> HIDE DEF q
    <2> QED BY <2>1, <2>2, <2>3, DispatchMinor, MinorTwice
  <1> QED BY <1>2, <1>3

-----------------------------------------------------------------------------
(***************************************************************************)
(* The heal and the recovery.                                              *)
(***************************************************************************)

(* What every handler makes of a pair whose heals have their owners.       *)
Good(p) == WellFormed(p) /\ Owned(p)
Sound(p, q) == Good(q) /\ NoReview(p, q)

LEMMA SoundAfter ==
    ASSUME NEW p, NEW q, NEW r, NoReview(p, q), Sound(q, r)
    PROVE  Sound(p, r)
  BY DEF Sound, NoReview

LEMMA MinorSound ==
    ASSUME NEW p, NEW q, Owned(p), Minor(p, q), p.polls \subseteq q.polls
    PROVE  Sound(p, q)
  BY OwnedKept DEF Sound, Good, Minor

LEMMA IdleOwned ==
    ASSUME NEW p, p.heal = NoHeal, p.recovery # "healing"
    PROVE  Owned(p)
  BY HealUpdates DEF Owned

LEMMA SetHeal ==
    ASSUME NEW p, WellFormed(p), NEW h \in HealStates
    PROVE  LET q == [p EXCEPT !.heal = h]
           IN  /\ WellFormed(q) /\ NoReview(p, q)
               /\ q.heal = h /\ q.recovery = p.recovery /\ q.polls = p.polls
  <1> DEFINE q == [p EXCEPT !.heal = h]
  <1>1. p \in Pairs
    BY DEF WellFormed
  <1>2. q \in Pairs
    BY <1>1, PairUpdates
  <1>3. /\ q.status = p.status /\ q.lost = p.lost /\ q.polls = p.polls /\ q.last = p.last
        /\ q.heal = h /\ q.recovery = p.recovery /\ q.fresh = p.fresh /\ q.turn = p.turn
        /\ q.obs = p.obs /\ q.cli = p.cli /\ q.hello = p.hello /\ q.silent = p.silent
        /\ q.expect = p.expect /\ q.review = p.review
    BY <1>1, PairDomain DEF Fields
  <1> HIDE DEF q
  <1>4. /\ WellFormed(q) /\ NoReview(p, q)
        /\ q.heal = h /\ q.recovery = p.recovery /\ q.polls = p.polls
    BY <1>2, <1>3 DEF WellFormed, NoReview
  <1> QED BY <1>4 DEF q

LEMMA SetRecovery ==
    ASSUME NEW p, WellFormed(p), NEW v \in {"none", "awaiting", "healing"}
    PROVE  LET q == [p EXCEPT !.recovery = v]
           IN  /\ WellFormed(q) /\ NoReview(p, q)
               /\ q.heal = p.heal /\ q.recovery = v /\ q.polls = p.polls
  <1> DEFINE q == [p EXCEPT !.recovery = v]
  <1>1. p \in Pairs
    BY DEF WellFormed
  <1>2. q \in Pairs
    BY <1>1, PairUpdates
  <1>3. /\ q.status = p.status /\ q.lost = p.lost /\ q.polls = p.polls /\ q.last = p.last
        /\ q.heal = p.heal /\ q.recovery = v /\ q.fresh = p.fresh /\ q.turn = p.turn
        /\ q.obs = p.obs /\ q.cli = p.cli /\ q.hello = p.hello /\ q.silent = p.silent
        /\ q.expect = p.expect /\ q.review = p.review
    BY <1>1, PairDomain DEF Fields
  <1> HIDE DEF q
  <1>4. /\ WellFormed(q) /\ NoReview(p, q)
        /\ q.heal = p.heal /\ q.recovery = v /\ q.polls = p.polls
    BY <1>2, <1>3 DEF WellFormed, NoReview
  <1> QED BY <1>4 DEF q

(* A strike ends the poll, and at the threshold it degrades the pair.      *)
LEMMA StrikeMinor ==
    ASSUME NEW p, WellFormed(p), NEW c \in Checkpoints
    PROVE  Minor(p, Strike(p, c)) /\ Strike(p, c).polls = p.polls \ {c}
  <1>1. p.timeouts[c] \in 0 .. TimeoutEscalation - 1
    BY PairFields DEF WellFormed
  <1>2. CASE p.timeouts[c] + 1 >= TimeoutEscalation
    <2> DEFINE q == Forgiven(p, c)
               r == Released(q, c)
    <2>1. Minor(p, q) /\ q.polls = p.polls /\ WellFormed(q)
      BY ForgivenMinor DEF Minor
    <2> HIDE DEF q
    <2>2. Minor(q, r) /\ r.polls = q.polls \ {c} /\ WellFormed(r)
      BY <2>1, PollsMinor DEF Minor
    <2> HIDE DEF r
    <2>3. Minor(r, HalfDied(r)) /\ HalfDied(r).polls = r.polls
      BY <2>2, HalfDiedMinor
    <2>4. Strike(p, c) = HalfDied(r)
      BY <1>2 DEF Strike, Escalated, q, r
    <2>5. Minor(p, r)
      BY <2>1, <2>2, MinorTwice
    <2> QED BY <2>1, <2>2, <2>3, <2>4, <2>5, MinorTwice
  <1>3. CASE ~(p.timeouts[c] + 1 >= TimeoutEscalation)
    <2> DEFINE n == p.timeouts[c] + 1
               q == [p EXCEPT !.timeouts[c] = n]
    <2>1. n \in 0 .. TimeoutEscalation - 1
      BY <1>1, <1>3, Constants
    <2>2. Strike(p, c) = Released(q, c)
      BY <1>3 DEF Strike
    <2> HIDE DEF n
    <2>3. Minor(p, q) /\ q.polls = p.polls /\ WellFormed(q)
      BY <2>1, TimeoutsMinor DEF Minor
    <2> HIDE DEF q
    <2> QED BY <2>2, <2>3, PollsMinor, MinorTwice
  <1> QED BY <1>2, <1>3

(* The owner of an episode takes its result, and the episode is over.      *)
LEMMA HealResultSound ==
    ASSUME NEW p, Good(p), p.heal # NoHeal, NEW throws,
           NEW result \in {"healed", "exhausted", "blocked", "rate_limited"}
    PROVE  Sound(p, HealResult(p, result, throws))
  <1> DEFINE c == p.heal.owner
             q == [p EXCEPT !.heal = NoHeal]
             x == HealResult(p, result, throws)
  <1>1. p \in Pairs /\ p.polls \subseteq Checkpoints
        /\ p.recovery \in {"none", "awaiting", "healing"}
    BY PairFields DEF Good, WellFormed
  <1>2. WellFormed(q) /\ NoReview(p, q) /\ q.heal = NoHeal /\ q.recovery = p.recovery
        /\ q.polls = p.polls
    BY SetHeal, HealUpdates DEF Good
  <1>3. CASE Forced(p.heal)
    <2> DEFINE r == [q EXCEPT !.recovery = "none"]
    <2>1. x \in {Drain(r, throws), r}
      BY <1>3 DEF HealResult
    <2> HIDE DEF q, x
    <2>2. WellFormed(r) /\ NoReview(q, r) /\ r.heal = NoHeal /\ r.recovery = "none"
      BY <1>2, SetRecovery
    <2> HIDE DEF r
    <2>3. Minor(r, x)
      BY <2>1, <2>2, DrainMinor, MinorSelf
    <2>4. x.heal = NoHeal /\ x.recovery = "none" /\ WellFormed(x) /\ NoReview(p, x)
      BY <1>2, <2>2, <2>3 DEF Minor, KeepsHeal, NoReview
    <2>5. Sound(p, x)
      BY <2>4, IdleOwned DEF Sound, Good
    <2> QED BY <2>5 DEF x
  <1>4. CASE ~Forced(p.heal)
    <2>1. c \in Checkpoints /\ p.recovery # "healing"
      BY <1>1, <1>4 DEF Good, Owned
    <2>2. x \in {Dispatch(Released(Forgiven(q, c), c), c, throws),
                 Escalated(Released(Forgiven(q, c), c)),
                 Released(Forgiven(q, c), c), Strike(q, c)}
      BY <1>4 DEF HealResult
    <2> HIDE DEF c, q, x
    <2> DEFINE f == Forgiven(q, c)
               r == Released(f, c)
    <2>3. Minor(q, f) /\ WellFormed(f)
      BY <1>2, <2>1, ForgivenMinor DEF Minor
    <2> HIDE DEF f
    <2>4. Minor(f, r) /\ Minor(q, r) /\ WellFormed(r)
      <3>1. Minor(f, r)
        BY <2>1, <2>3, PollsMinor
      <3> QED BY <2>3, <3>1, MinorTwice DEF Minor
    <2> HIDE DEF r
    <2>5. x \in {Dispatch(r, c, throws), HalfDied(r), r, Strike(q, c)}
      BY <2>2 DEF f, r, Escalated
    <2>6. Minor(r, x) \/ Minor(q, x)
      BY <1>2, <2>1, <2>4, <2>5, DispatchMinor, HalfDiedMinor, MinorSelf, StrikeMinor
    <2>7. Minor(q, x)
      BY <2>4, <2>6, MinorTwice
    <2>8. x.heal = NoHeal /\ x.recovery # "healing" /\ WellFormed(x) /\ NoReview(p, x)
      BY <1>2, <2>1, <2>7 DEF Minor, KeepsHeal, NoReview
    <2>9. Sound(p, x)
      BY <2>8, IdleOwned DEF Sound, Good
    <2> QED BY <2>9 DEF x
  <1> QED BY <1>3, <1>4

(* One round ends the episode or goes on to a relaunch.                    *)
LEMMA HealRoundSound ==
    ASSUME NEW p, Good(p), p.heal.at = "backoff", NEW throws
    PROVE  Sound(p, HealRound(p, throws))
  <1>1. p.heal # NoHeal
    BY HealUpdates
  <1>2. p \in Pairs /\ p.heal \in HealStates /\ p.slots \in 0 .. MaxPerHour
        /\ p.heal.attempts \in 0 .. MaxAttempts /\ p.heal.attempts < MaxAttempts
    BY PairFields DEF Good, WellFormed, Owned, HealStates
  <1> DEFINE q == Closed(p)
             h == [p.heal EXCEPT !.at = "relaunching", !.attempts = p.heal.attempts + 1]
             x == [q EXCEPT !.slots = q.slots - 1, !.heal = h]
  <1>3. \/ \E result \in {"healed", "exhausted", "blocked", "rate_limited"} :
              HealRound(p, throws) = HealResult(p, result, throws)
        \/ p.slots # 0
           /\ HealRound(p, throws) =
                 [q EXCEPT !.slots = @ - 1, !.heal.at = "relaunching", !.heal.attempts = @ + 1]
    BY DEF HealRound
  <1>4. Minor(p, q) /\ q.polls = p.polls /\ q.slots = p.slots /\ q.heal = p.heal
        /\ q.recovery = p.recovery /\ WellFormed(q) /\ q \in Pairs
    BY ClosedMinor DEF Good, Minor, KeepsHeal, WellFormed
  <1> HIDE DEF q
  <1>5. [q EXCEPT !.slots = @ - 1, !.heal.at = "relaunching", !.heal.attempts = @ + 1] = x
    BY <1>4, PairDomain DEF Fields
  <1>6. ASSUME p.slots # 0 PROVE Sound(p, x)
    <2>1. p.heal.attempts + 1 \in 0 .. MaxAttempts /\ q.slots - 1 \in 0 .. MaxPerHour
      BY <1>2, <1>4, <1>6, Constants
    <2>2. h \in HealStates /\ h # NoHeal /\ h.at = "relaunching" /\ h.owner = p.heal.owner
      <3>1. h \in HealStates
        BY <1>2, <2>1, HealUpdates
      <3>2. h.at = "relaunching" /\ h.owner = p.heal.owner
        BY <1>2 DEF HealStates
      <3> QED BY <3>1, <3>2, HealUpdates
    <2> HIDE DEF h
    <2>3. x \in Pairs
      BY <1>4, <2>1, <2>2, PairUpdates
    <2>4. /\ x.status = q.status /\ x.lost = q.lost /\ x.polls = q.polls /\ x.last = q.last
          /\ x.heal = h /\ x.recovery = q.recovery /\ x.fresh = q.fresh /\ x.turn = q.turn
          /\ x.obs = q.obs /\ x.cli = q.cli /\ x.hello = q.hello /\ x.silent = q.silent
          /\ x.expect = q.expect /\ x.review = q.review
      BY <1>4, PairDomain DEF Fields
    <2> HIDE DEF x
    <2>5. WellFormed(x) /\ NoReview(p, x)
      BY <1>4, <2>3, <2>4 DEF WellFormed, NoReview, Minor
    <2>6. Owned(x)
      BY <1>1, <1>4, <2>2, <2>4 DEF Good, Owned, Forced
    <2>7. Sound(p, x)
      BY <2>5, <2>6 DEF Sound, Good
    <2> QED BY <2>7 DEF x
  <1> HIDE DEF x
  <1> QED BY <1>1, <1>3, <1>5, <1>6, HealResultSound

(* A relaunch that failed is tried again or was the last one.              *)
LEMMA SetHealSound ==
    ASSUME NEW p, Good(p), p.heal # NoHeal,
           NEW at \in {"waiting", "backoff"}, NEW ok \in BOOLEAN,
           at = "backoff" => p.heal.attempts < MaxAttempts
    PROVE  LET h == [p.heal EXCEPT !.at = at, !.relaunchedOk = ok]
           IN  Sound(p, [p EXCEPT !.heal = h])
  <1> DEFINE h == [p.heal EXCEPT !.at = at, !.relaunchedOk = ok]
             q == [p EXCEPT !.heal = h]
  <1>1. p.heal \in HealStates
    BY PairFields DEF Good, WellFormed
  <1>2. /\ h \in HealStates /\ h.at = at /\ h.owner = p.heal.owner
        /\ h.attempts = p.heal.attempts /\ h # NoHeal
    <2>1. h \in HealStates
      BY <1>1, HealUpdates
    <2>2. h.at = at /\ h.owner = p.heal.owner /\ h.attempts = p.heal.attempts
      BY <1>1 DEF HealStates
    <2> QED BY <2>1, <2>2, HealUpdates
  <1> HIDE DEF h
  <1>3. /\ WellFormed(q) /\ NoReview(p, q)
        /\ q.heal = h /\ q.recovery = p.recovery /\ q.polls = p.polls
    BY <1>2, SetHeal DEF Good
  <1> HIDE DEF q
  <1>4. Owned(q)
    BY <1>2, <1>3 DEF Good, Owned, Forced
  <1>5. Sound(p, q)
    BY <1>3, <1>4 DEF Sound, Good
  <1> QED BY <1>5 DEF q, h

LEMMA HealRoundFailedSound ==
    ASSUME NEW p, Good(p), p.heal # NoHeal, NEW throws
    PROVE  Sound(p, HealRoundFailed(p, throws))
  <1>1. p \in Pairs /\ p.heal \in HealStates /\ p.heal.attempts \in 0 .. MaxAttempts
        /\ p.heal.relaunchedOk \in BOOLEAN
    BY PairFields DEF Good, WellFormed, HealStates
  <1>2. CASE p.heal.attempts = MaxAttempts
    BY <1>2, HealResultSound DEF HealRoundFailed
  <1>3. CASE p.heal.attempts # MaxAttempts
    <2> DEFINE h == [p.heal EXCEPT !.at = "backoff", !.relaunchedOk = p.heal.relaunchedOk]
    <2>1. h = [p.heal EXCEPT !.at = "backoff"]
      BY <1>1 DEF HealStates
    <2>2. HealRoundFailed(p, throws) = [p EXCEPT !.heal = h]
      <3>1. HealRoundFailed(p, throws) = [p EXCEPT !.heal.at = "backoff"]
        BY <1>3 DEF HealRoundFailed
      <3> QED BY <2>1, <3>1
    <2>3. p.heal.attempts < MaxAttempts
      BY <1>1, <1>3, Constants
    <2> QED BY <1>1, <2>2, <2>3, SetHealSound
  <1> QED BY <1>2, <1>3

(* An episode starts with an owner.                                        *)
LEMMA StartHealSound ==
    ASSUME NEW p, WellFormed(p), p.heal = NoHeal, NEW owner \in 0 .. MaxSeq, NEW throws,
           (p.recovery = "healing") = (owner = None),
           owner # None => owner \in p.polls
    PROVE  Sound(p, StartHeal(p, owner, throws))
  <1> DEFINE h == [NoHeal EXCEPT !.at = "backoff", !.owner = owner]
             q == [p EXCEPT !.heal = h]
  <1>1. h \in HealStates /\ h.at = "backoff" /\ h.owner = owner /\ h.attempts = 0 /\ h # NoHeal
    <2>1. h \in HealStates
      BY HealUpdates
    <2>2. h.at = "backoff" /\ h.owner = owner /\ h.attempts = 0
      BY DEF NoHeal
    <2> QED BY <2>1, <2>2, HealUpdates
  <1>2. StartHeal(p, owner, throws) = HealRound(q, throws)
    BY DEF StartHeal
  <1> HIDE DEF h
  <1>3. /\ WellFormed(q) /\ NoReview(p, q)
        /\ q.heal = h /\ q.recovery = p.recovery /\ q.polls = p.polls
    BY <1>1, SetHeal
  <1> HIDE DEF q
  <1>4. Good(q)
    <2>1. 0 < MaxAttempts
      BY Constants
    <2> QED BY <1>1, <1>3, <2>1 DEF Good, Owned, Forced
  <1> QED BY <1>1, <1>2, <1>3, <1>4, HealRoundSound, SoundAfter

LEMMA StartRecoverySound ==
    ASSUME NEW p, Good(p), p.recovery # "healing", NEW throws
    PROVE  Sound(p, StartRecovery(p, throws))
  <1>1. CASE p.heal # NoHeal
    <2> DEFINE q == [p EXCEPT !.recovery = "none"]
    <2>1. StartRecovery(p, throws) = q
      BY <1>1 DEF StartRecovery
    <2>2. /\ WellFormed(q) /\ NoReview(p, q)
          /\ q.heal = p.heal /\ q.recovery = "none" /\ q.polls = p.polls
      BY SetRecovery DEF Good
    <2> HIDE DEF q
    <2>3. Owned(q)
      BY <2>2 DEF Good, Owned
    <2> QED BY <2>1, <2>2, <2>3 DEF Sound, Good
  <1>2. CASE p.heal = NoHeal
    <2> DEFINE q == [p EXCEPT !.recovery = "healing"]
    <2>1. StartRecovery(p, throws) = StartHeal(q, None, throws)
      BY <1>2 DEF StartRecovery
    <2>2. /\ WellFormed(q) /\ NoReview(p, q)
          /\ q.heal = NoHeal /\ q.recovery = "healing" /\ q.polls = p.polls
      BY <1>2, SetRecovery DEF Good
    <2> HIDE DEF q
    <2>3. Sound(q, StartHeal(q, None, throws))
      BY <2>2, Constants, StartHealSound
    <2> QED BY <2>1, <2>2, <2>3, SoundAfter
  <1> QED BY <1>1, <1>2

LEMMA SoundSelf ==
    ASSUME NEW p, Good(p)
    PROVE  Sound(p, p)
  BY DEF Sound, NoReview

(* A recovery that does not heal can wait, or be forgotten.                *)
LEMMA SetRecoverySound ==
    ASSUME NEW p, Good(p), p.recovery # "healing", NEW v \in {"none", "awaiting"}
    PROVE  Sound(p, [p EXCEPT !.recovery = v])
  <1> DEFINE q == [p EXCEPT !.recovery = v]
  <1>1. /\ WellFormed(q) /\ NoReview(p, q)
        /\ q.heal = p.heal /\ q.recovery = v /\ q.polls = p.polls
    BY SetRecovery DEF Good
  <1> HIDE DEF q
  <1>2. Owned(q)
    BY <1>1 DEF Good, Owned
  <1>3. Sound(p, q)
    BY <1>1, <1>2 DEF Sound, Good
  <1> QED BY <1>3 DEF q

LEMMA OnWakeUnansweredSound ==
    ASSUME NEW p, Good(p), NEW throws
    PROVE  Sound(p, OnWakeUnanswered(p, throws))
  BY SoundSelf, SetRecoverySound, StartRecoverySound DEF OnWakeUnanswered

LEMMA QueueUnansweredSound ==
    ASSUME NEW p, Good(p), NEW throws
    PROVE  Sound(p, QueueUnanswered(p, throws))
  <1>1. p.last \in 0 .. MaxSeq
    BY PairFields DEF Good, WellFormed
  <1> DEFINE q == IF p.last = None THEN p ELSE Enqueue(p, p.last)
  <1>2. Sound(p, q)
    BY <1>1, SoundSelf, EnqueueMinor, MinorSound DEF Good
  <1>3. QueueUnanswered(p, throws) = OnWakeUnanswered(q, throws)
    BY DEF QueueUnanswered
  <1> HIDE DEF q
  <1> QED BY <1>2, <1>3, OnWakeUnansweredSound, SoundAfter DEF Sound

LEMMA OnTurnDoneSound ==
    ASSUME NEW p, Good(p), NEW throws
    PROVE  Sound(p, OnTurnDone(p, throws))
  BY SoundSelf, SetRecoverySound, StartRecoverySound DEF OnTurnDone

-----------------------------------------------------------------------------
(***************************************************************************)
(* The reply of a turn and its review.                                     *)
(***************************************************************************)

(* A field that none of the properties looks at.                           *)
LEMMA SetDeadlineMinor ==
    ASSUME NEW p, WellFormed(p), NEW d \in 0 .. MaxSeq
    PROVE  LET q == [p EXCEPT !.deadline = d]
           IN  Minor(p, q) /\ q.polls = p.polls /\ q.turn = p.turn
  <1> DEFINE q == [p EXCEPT !.deadline = d]
  <1>1. p \in Pairs
    BY DEF WellFormed
  <1>2. q \in Pairs
    BY <1>1, PairUpdates
  <1>3. /\ q.status = p.status /\ q.lost = p.lost /\ q.polls = p.polls /\ q.last = p.last
        /\ q.heal = p.heal /\ q.recovery = p.recovery /\ q.fresh = p.fresh /\ q.turn = p.turn
        /\ q.obs = p.obs /\ q.cli = p.cli /\ q.hello = p.hello /\ q.silent = p.silent
        /\ q.expect = p.expect /\ q.review = p.review
    BY <1>1, PairDomain DEF Fields
  <1> HIDE DEF q
  <1>4. Minor(p, q) /\ q.polls = p.polls /\ q.turn = p.turn
    BY <1>2, <1>3 DEF Minor, WellFormed, KeepsHeal, NoReview
  <1> QED BY <1>4 DEF q

(* A reply is taken for the checkpoint that was expected, and for no other.*)
AnswersKept(p, q) ==
    \A c \in Checkpoints : p.review[c] = "answer" => q.review[c] = "answer"

LEMMA FinalizeSound ==
    ASSUME NEW p, Good(p), ~p.turn, NEW reply \in {"findings", "refusal", "junk", "empty"}
    PROVE  LET q == Finalize(p, reply)
           IN  /\ Good(q) /\ q.last = p.last
               /\ q.fresh \subseteq p.fresh \union ({p.expect} \ {None})
               /\ AnswersKept(p, q)
  <1> DEFINE c == p.expect
             n == p.rejections + 1
             q == Finalize(p, reply)
  <1>1. /\ p \in Pairs /\ c \in 0 .. MaxSeq /\ p.rejections \in 0 .. RejectionsBeforeDegrade
        /\ p.deadline \in 0 .. MaxSeq /\ p.fresh \subseteq Checkpoints
        /\ p.review \in [Checkpoints -> {"none", "answer", "refusal"}]
        /\ WellFormed(p) /\ Owned(p)
    BY PairFields DEF Good, WellFormed
  <1>2. ASSUME NEW f \in SUBSET Checkpoints, q \in Pairs,
               q.status = p.status, q.lost = p.lost, q.polls = p.polls, q.last = p.last,
               q.heal = p.heal, q.recovery = p.recovery, q.fresh = f, q.turn = p.turn,
               q.obs = p.obs, q.cli = p.cli, q.hello = p.hello, q.silent = p.silent,
               q.expect = None
        PROVE  Good(q)
    <2> HIDE DEF q
    <2> QED BY <1>1, <1>2 DEF Good, WellFormed, Owned
  <1>3. CASE c = None
    BY <1>1, <1>3 DEF Finalize, AnswersKept
  <1>4. CASE c # None /\ reply \in {"junk", "empty"}
    <2> DEFINE r == IF n > RejectionsBeforeDegrade THEN p.rejections ELSE n
               alive == reply = "junk" /\ n < RejectionsBeforeDegrade /\ p.deadline = c
               d == IF alive THEN None ELSE p.deadline
    <2>1. r \in 0 .. RejectionsBeforeDegrade /\ d \in 0 .. MaxSeq
      BY <1>1, Constants
    <2>2. q = [p EXCEPT !.expect = None, !.rejections = r, !.deadline = d]
      <3>1. q = [[p EXCEPT !.expect = None] EXCEPT
                    !.rejections = IF n > RejectionsBeforeDegrade THEN @ ELSE n,
                    !.deadline = IF alive THEN None ELSE @]
        BY <1>4 DEF Finalize
      <3> HIDE DEF q, n, alive
      <3> QED BY <1>1, <3>1, PairDomain DEF Fields
    <2> HIDE DEF q, r, d
    <2>3. q \in Pairs
      BY <1>1, <2>1, <2>2, PairUpdates, Constants
    <2>4. /\ q.status = p.status /\ q.lost = p.lost /\ q.polls = p.polls /\ q.last = p.last
          /\ q.heal = p.heal /\ q.recovery = p.recovery /\ q.fresh = p.fresh /\ q.turn = p.turn
          /\ q.obs = p.obs /\ q.cli = p.cli /\ q.hello = p.hello /\ q.silent = p.silent
          /\ q.expect = None /\ q.review = p.review
      BY <1>1, <2>2, PairDomain DEF Fields
    <2>5. Good(q)
      BY <1>1, <1>2, <2>3, <2>4
    <2> QED BY <2>4, <2>5 DEF q, AnswersKept
  <1>5. CASE c # None /\ reply \notin {"junk", "empty"}
    <2> DEFINE v == IF reply = "findings" THEN "answer" ELSE "refusal"
               w == [p.review EXCEPT ![c] = v]
               f == p.fresh \union {c}
    <2>1. w \in [Checkpoints -> {"none", "answer", "refusal"}] /\ f \in SUBSET Checkpoints
      BY <1>1, <1>5, Constants
    <2>2. q = [p EXCEPT !.expect = None, !.review = w, !.fresh = f, !.rejections = 0]
      <3>1. q = [[p EXCEPT !.expect = None] EXCEPT
                    !.review[c] = v, !.fresh = @ \union {c}, !.rejections = 0]
        BY <1>5 DEF Finalize
      <3> HIDE DEF q, v
      <3> QED BY <1>1, <3>1, PairDomain DEF Fields
    <2> HIDE DEF q, w, f
    <2>3. q \in Pairs
      BY <1>1, <2>1, <2>2, PairUpdates, Constants
    <2>4. /\ q.status = p.status /\ q.lost = p.lost /\ q.polls = p.polls /\ q.last = p.last
          /\ q.heal = p.heal /\ q.recovery = p.recovery /\ q.fresh = f /\ q.turn = p.turn
          /\ q.obs = p.obs /\ q.cli = p.cli /\ q.hello = p.hello /\ q.silent = p.silent
          /\ q.expect = None /\ q.review = w
      BY <1>1, <2>2, PairDomain DEF Fields
    <2>5. Good(q)
      BY <1>2, <2>1, <2>3, <2>4
    <2>6. AnswersKept(p, q)
      <3>1. p.review[c] # "answer"
        BY <1>1, <1>5 DEF WellFormed
      <3>2. \A x \in Checkpoints : x # c => w[x] = p.review[x]
        BY <1>1 DEF w
      <3> QED BY <2>4, <3>1, <3>2 DEF AnswersKept
    <2> QED BY <1>5, <2>4, <2>5, <2>6 DEF q, f
  <1> QED BY <1>3, <1>4, <1>5

(* The reply first, then the queue, then the recovery that waited: what is *)
(* new among the reviews is what the turn was expected to answer.          *)
LEMMA TurnDoneSound ==
    ASSUME NEW p, NEW throws, NEW reply \in {"findings", "refusal", "junk", "empty"},
           Good([p EXCEPT !.turn = FALSE]), ~[p EXCEPT !.turn = FALSE].turn
    PROVE  LET o == [p EXCEPT !.turn = FALSE]
               q == TurnDone(p, reply, throws)
           IN  /\ Good(q) /\ q.last = o.last
               /\ q.fresh \subseteq o.fresh \union ({o.expect} \ {None})
               /\ AnswersKept(o, q)
  <1> DEFINE o == [p EXCEPT !.turn = FALSE]
             f == Finalize(o, reply)
             d == Drain(f, throws)
             q == TurnDone(p, reply, throws)
  <1>1. q = OnTurnDone(d, throws)
    BY DEF TurnDone
  <1> HIDE DEF q
  <1>2. /\ Good(f) /\ f.last = o.last /\ f.fresh \subseteq o.fresh \union ({o.expect} \ {None})
        /\ AnswersKept(o, f)
    BY FinalizeSound
  <1> HIDE DEF f
  <1>3. Sound(f, d)
    BY <1>2, DrainMinor, MinorSound DEF Good
  <1> HIDE DEF d
  <1>4. Sound(d, q)
    BY <1>1, <1>3, OnTurnDoneSound DEF Sound
  <1>5. /\ Good(q) /\ q.last = o.last /\ q.fresh \subseteq o.fresh \union ({o.expect} \ {None})
        /\ AnswersKept(o, q)
    BY <1>2, <1>3, <1>4 DEF Sound, NoReview, AnswersKept
  <1> QED BY <1>5 DEF q

LEMMA HandleReviewMinor ==
    ASSUME NEW p, WellFormed(p), NEW c \in 0 .. MaxSeq
    PROVE  Minor(p, HandleReview(p, c)) /\ HandleReview(p, c).polls = p.polls
  <1> DEFINE d == IF p.deadline = c THEN None ELSE p.deadline
             q == [p EXCEPT !.deadline = d, !.reviewed = c]
  <1>1. p \in Pairs /\ d \in 0 .. MaxSeq
    BY PairFields, Constants DEF WellFormed
  <1>2. HandleReview(p, c) \in {p, q}
    BY DEF HandleReview
  <1> HIDE DEF d
  <1>3. q \in Pairs
    BY <1>1, PairUpdates
  <1>4. /\ q.status = p.status /\ q.lost = p.lost /\ q.polls = p.polls /\ q.last = p.last
        /\ q.heal = p.heal /\ q.recovery = p.recovery /\ q.fresh = p.fresh /\ q.turn = p.turn
        /\ q.obs = p.obs /\ q.cli = p.cli /\ q.hello = p.hello /\ q.silent = p.silent
        /\ q.expect = p.expect /\ q.review = p.review
    BY <1>1, PairDomain DEF Fields
  <1> HIDE DEF q
  <1>5. Minor(p, q) /\ q.polls = p.polls
    BY <1>3, <1>4 DEF Minor, WellFormed, KeepsHeal, NoReview
  <1> QED BY <1>2, <1>5, MinorSelf

LEMMA DeadlineExpiredSound ==
    ASSUME NEW p, Good(p), NEW throws
    PROVE  Sound(p, DeadlineExpired(p, throws))
  <1> DEFINE c == p.deadline
             q == [p EXCEPT !.deadline = None]
  <1>1. c \in 0 .. MaxSeq
    BY PairFields DEF Good, WellFormed
  <1>2. DeadlineExpired(p, throws) \in
           {q, HandleReview(q, c), QueueUnanswered(HalfDied(q), throws)}
    BY DEF DeadlineExpired
  <1>3. Sound(p, q)
    BY SetDeadlineMinor, MinorSound, Constants DEF Good
  <1> HIDE DEF c, q
  <1>4. Sound(q, HandleReview(q, c))
    BY <1>1, <1>3, HandleReviewMinor, MinorSound DEF Sound, Good
  <1>5. Sound(q, HalfDied(q))
    BY <1>3, HalfDiedMinor, MinorSound DEF Sound, Good
  <1>6. Sound(HalfDied(q), QueueUnanswered(HalfDied(q), throws))
    BY <1>5, QueueUnansweredSound DEF Sound
  <1>7. Sound(q, QueueUnanswered(HalfDied(q), throws))
    BY <1>5, <1>6, SoundAfter DEF Sound
  <1> QED BY <1>2, <1>3, <1>4, <1>7, SoundAfter DEF Sound

(* A pair whose turn is over, in whatever way.                             *)
LEMMA TurnOver ==
    ASSUME NEW p, Good(p), NEW s \in BOOLEAN, s => p.obs = "attached",
           NEW d \in 0 .. MaxSeq
    PROVE  LET q == [p EXCEPT !.turn = FALSE, !.deadline = d, !.silent = s]
           IN  Sound(p, q)
  <1> DEFINE q == [p EXCEPT !.turn = FALSE, !.deadline = d, !.silent = s]
  <1>1. p \in Pairs
    BY DEF Good, WellFormed
  <1>2. q \in Pairs
    BY <1>1, PairUpdates
  <1>3. /\ q.status = p.status /\ q.lost = p.lost /\ q.polls = p.polls /\ q.last = p.last
        /\ q.heal = p.heal /\ q.recovery = p.recovery /\ q.fresh = p.fresh /\ ~q.turn
        /\ q.obs = p.obs /\ q.cli = p.cli /\ q.hello = p.hello /\ q.silent = s
        /\ q.expect = p.expect /\ q.review = p.review
    BY <1>1, PairDomain DEF Fields
  <1> HIDE DEF q
  <1>4. Sound(p, q)
    BY <1>2, <1>3 DEF Sound, Good, WellFormed, Owned, NoReview
  <1> QED BY <1>4 DEF q

LEMMA SilentWakeSound ==
    ASSUME NEW p, Good(p), p.turn, NEW throws
    PROVE  Sound(p, SilentWake(p, throws))
  <1> DEFINE o == [p EXCEPT !.turn = FALSE, !.deadline = None, !.silent = TRUE]
             q == HalfDied(o)
  <1>1. SilentWake(p, throws) \in {q, QueueUnanswered(q, throws)}
    BY DEF SilentWake
  <1>2. p.obs = "attached"
    BY DEF Good, WellFormed
  <1>3. Sound(p, o)
    BY <1>2, TurnOver, Constants
  <1> HIDE DEF o
  <1>4. Sound(o, q)
    BY <1>3, HalfDiedMinor, MinorSound DEF Sound, Good
  <1> HIDE DEF q
  <1>5. Sound(q, QueueUnanswered(q, throws))
    BY <1>4, QueueUnansweredSound DEF Sound
  <1>6. Sound(p, q)
    BY <1>3, <1>4, SoundAfter DEF Sound
  <1> QED BY <1>1, <1>5, <1>6, SoundAfter DEF Sound

-----------------------------------------------------------------------------
(***************************************************************************)
(* Checkpoints, polls and processes.                                       *)
(***************************************************************************)

LEMMA SetLast ==
    ASSUME NEW p, Good(p), NEW c \in 0 .. MaxSeq
    PROVE  LET q == [p EXCEPT !.last = c]
           IN  Good(q) /\ q.last = c /\ q.fresh = p.fresh /\ q.review = p.review
  <1> DEFINE q == [p EXCEPT !.last = c]
  <1>1. p \in Pairs
    BY DEF Good, WellFormed
  <1>2. q \in Pairs
    BY <1>1, PairUpdates
  <1>3. /\ q.status = p.status /\ q.lost = p.lost /\ q.polls = p.polls /\ q.last = c
        /\ q.heal = p.heal /\ q.recovery = p.recovery /\ q.fresh = p.fresh /\ q.turn = p.turn
        /\ q.obs = p.obs /\ q.cli = p.cli /\ q.hello = p.hello /\ q.silent = p.silent
        /\ q.expect = p.expect /\ q.review = p.review
    BY <1>1, PairDomain DEF Fields
  <1> HIDE DEF q
  <1>4. Good(q) /\ q.last = c /\ q.fresh = p.fresh /\ q.review = p.review
    BY <1>2, <1>3 DEF Good, WellFormed, Owned
  <1> QED BY <1>4 DEF q

LEMMA CheckpointGood ==
    ASSUME NEW p, Good(p), NEW c \in Checkpoints, NEW throws
    PROVE  LET q == Checkpoint(p, c, throws)
           IN  /\ Good(q) /\ q.last \in {p.last, c}
               /\ q.fresh \subseteq p.fresh /\ q.review = p.review
  <1> DEFINE o == [p EXCEPT !.last = c]
             q == Checkpoint(p, c, throws)
  <1>1. q \in {p, Dispatch(o, c, throws)}
    BY DEF Checkpoint
  <1>2. Good(o) /\ o.last = c /\ o.fresh = p.fresh /\ o.review = p.review
    <2>1. c \in 0 .. MaxSeq
      BY Constants
    <2> QED BY <2>1, SetLast
  <1> HIDE DEF o, q
  <1>3. Sound(o, Dispatch(o, c, throws))
    BY <1>2, DispatchMinor, MinorSound DEF Good
  <1>4. /\ Good(q) /\ q.last \in {p.last, c}
        /\ q.fresh \subseteq p.fresh /\ q.review = p.review
    BY <1>1, <1>2, <1>3 DEF Sound, NoReview
  <1> QED BY <1>4 DEF q

(* A poll that does not own the heal can end without leaving it alone.     *)
LEMMA PollOver ==
    ASSUME NEW p, NEW q, Good(p), NEW c, c # p.heal.owner, Minor(p, q), p.polls \ {c} \subseteq q.polls
    PROVE  Sound(p, q)
  BY DEF Sound, Good, Owned, Minor, KeepsHeal, Forced

LEMMA PollReadySound ==
    ASSUME NEW p, Good(p), NEW c \in p.polls, c # p.heal.owner, NEW throws
    PROVE  Sound(p, Forgiven(Dispatch(Released(p, c), c, throws), c))
  <1> DEFINE r == Released(p, c)
             d == Dispatch(r, c, throws)
             q == Forgiven(d, c)
  <1>1. c \in Checkpoints /\ WellFormed(p)
    BY PairFields DEF Good, WellFormed
  <1>2. Minor(p, r) /\ r.polls = p.polls \ {c} /\ WellFormed(r)
    BY <1>1, PollsMinor DEF Minor
  <1> HIDE DEF r
  <1>3. Minor(r, d) /\ r.polls \subseteq d.polls /\ WellFormed(d)
    BY <1>1, <1>2, DispatchMinor DEF Minor
  <1> HIDE DEF d
  <1>4. Minor(d, q) /\ q.polls = d.polls
    BY <1>1, <1>3, ForgivenMinor
  <1> HIDE DEF q
  <1>5. Minor(p, q) /\ p.polls \ {c} \subseteq q.polls
    <2>1. Minor(p, d)
      BY <1>2, <1>3, MinorTwice
    <2> QED BY <1>2, <1>3, <1>4, <2>1, MinorTwice
  <1>6. Sound(p, q)
    BY <1>5, PollOver
  <1> QED BY <1>6 DEF q, d, r

LEMMA PollTimeoutSound ==
    ASSUME NEW p, Good(p), NEW c \in p.polls, c # p.heal.owner, NEW throws
    PROVE  Sound(p, PollTimeout(p, c, throws))
  <1>1. c \in Checkpoints /\ WellFormed(p) /\ p.recovery \in {"none", "awaiting", "healing"}
        /\ c \in 0 .. MaxSeq /\ c # None
    BY PairFields, Constants DEF Good, WellFormed
  <1>2. CASE Blocked(p, FALSE)
    <2> DEFINE f == Forgiven(p, c)
               q == Released(f, c)
    <2>1. PollTimeout(p, c, throws) = q
      BY <1>2 DEF PollTimeout
    <2>2. Minor(p, f) /\ f.polls = p.polls /\ WellFormed(f)
      BY <1>1, ForgivenMinor DEF Minor
    <2> HIDE DEF f
    <2>3. Minor(f, q) /\ q.polls = f.polls \ {c}
      BY <1>1, <2>2, PollsMinor
    <2> HIDE DEF q
    <2>4. Minor(p, q)
      BY <2>2, <2>3, MinorTwice
    <2> QED BY <2>1, <2>2, <2>3, <2>4, PollOver
  <1>3. CASE ~Blocked(p, FALSE) /\ p.heal # NoHeal
    <2>1. PollTimeout(p, c, throws) = Strike(p, c)
      BY <1>3 DEF PollTimeout
    <2>2. Minor(p, Strike(p, c)) /\ Strike(p, c).polls = p.polls \ {c}
      BY <1>1, StrikeMinor
    <2> QED BY <2>1, <2>2, PollOver
  <1>4. CASE ~Blocked(p, FALSE) /\ p.heal = NoHeal
    <2>1. PollTimeout(p, c, throws) = StartHeal(p, c, throws)
      BY <1>4 DEF PollTimeout
    <2>2. p.recovery # "healing"
      BY <1>4 DEF Good, Owned
    <2> QED BY <1>1, <1>4, <2>1, <2>2, StartHealSound
  <1> QED BY <1>2, <1>3, <1>4

(* The group comes back, or loses a half.                                  *)
LEMMA SetStatusMinor ==
    ASSUME NEW p, WellFormed(p),
           NEW s \in {"active", "reconnecting", "degraded"},
           NEW l \in {"none", "observer", "primary"},
           l # "none" <=> s = "reconnecting"
    PROVE  LET q == [p EXCEPT !.status = s, !.lost = l]
           IN  Minor(p, q) /\ q.polls = p.polls
  <1> DEFINE q == [p EXCEPT !.status = s, !.lost = l]
  <1>1. p \in Pairs
    BY DEF WellFormed
  <1>2. q \in Pairs
    BY <1>1, PairUpdates
  <1>3. /\ q.status = s /\ q.lost = l /\ q.polls = p.polls /\ q.last = p.last
        /\ q.heal = p.heal /\ q.recovery = p.recovery /\ q.fresh = p.fresh /\ q.turn = p.turn
        /\ q.obs = p.obs /\ q.cli = p.cli /\ q.hello = p.hello /\ q.silent = p.silent
        /\ q.expect = p.expect /\ q.review = p.review
    BY <1>1, PairDomain DEF Fields
  <1> HIDE DEF q
  <1>4. Minor(p, q) /\ q.polls = p.polls
    BY <1>2, <1>3 DEF Minor, WellFormed, KeepsHeal, NoReview
  <1> QED BY <1>4 DEF q

(* A frame of the observer's, the init frame too.                          *)
LEMMA HeardMinor ==
    ASSUME NEW p, WellFormed(p), NEW q, NEW b \in BOOLEAN,
           \/ q = [p EXCEPT !.heard = b]
           \/ q = [p EXCEPT !.hello = FALSE, !.heard = b]
    PROVE  Minor(p, q) /\ q.polls = p.polls /\ q.expect = p.expect
  <1>1. p \in Pairs
    BY DEF WellFormed
  <1>2. q \in Pairs
    <2>1. [p EXCEPT !.heard = b] \in Pairs
      BY <1>1, PairUpdates
    <2>2. [p EXCEPT !.hello = FALSE] \in Pairs
      BY <1>1, PairUpdates
    <2>3. [p EXCEPT !.hello = FALSE, !.heard = b] \in Pairs
      BY <2>2, PairUpdates
    <2> QED BY <2>1, <2>3
  <1>3. /\ q.status = p.status /\ q.lost = p.lost /\ q.polls = p.polls /\ q.last = p.last
        /\ q.heal = p.heal /\ q.recovery = p.recovery /\ q.fresh = p.fresh /\ q.turn = p.turn
        /\ q.obs = p.obs /\ q.cli = p.cli /\ q.silent = p.silent
        /\ q.expect = p.expect /\ q.review = p.review
    BY <1>1, PairDomain DEF Fields
  <1>4. ~p.hello => ~q.hello
    BY <1>1, PairDomain DEF Fields
  <1> QED BY <1>2, <1>3, <1>4 DEF Minor, WellFormed, KeepsHeal, NoReview

LEMMA HelloSound ==
    ASSUME NEW p, Good(p), NEW throws
    PROVE  Sound(p, Hello(p, throws))
  <1> DEFINE q == [p EXCEPT !.hello = FALSE, !.heard = TRUE]
             r == [q EXCEPT !.status = "active", !.lost = "none"]
  <1>1. Hello(p, throws) \in {Drain(r, throws), q}
    BY DEF Hello
  <1>2. WellFormed(p) /\ Owned(p)
    BY DEF Good
  <1>3. Minor(p, q) /\ q.polls = p.polls
    BY <1>2, HeardMinor
  <1> HIDE DEF q
  <1>4. Minor(q, r) /\ r.polls = q.polls
    BY <1>3, SetStatusMinor DEF Minor
  <1> HIDE DEF r
  <1>5. Minor(r, Drain(r, throws)) /\ r.polls \subseteq Drain(r, throws).polls
    BY <1>4, DrainMinor DEF Minor
  <1>6. Sound(p, q) /\ Sound(q, r)
    BY <1>2, <1>3, <1>4, MinorSound DEF Sound, Good
  <1>7. Sound(r, Drain(r, throws))
    BY <1>5, <1>6, MinorSound DEF Sound, Good
  <1>8. Sound(p, r)
    BY <1>6, SoundAfter DEF Sound
  <1> QED BY <1>1, <1>6, <1>7, <1>8, SoundAfter DEF Sound

LEMMA HalfExitedSound ==
    ASSUME NEW p, Good(p), NEW role \in {"observer", "primary"}
    PROVE  Sound(p, HalfExited(p, role))
  <1>1. HalfExited(p, role) \in {[p EXCEPT !.status = "reconnecting", !.lost = role], Degraded(p), p}
    BY DEF HalfExited
  <1>2. Sound(p, [p EXCEPT !.status = "reconnecting", !.lost = role])
    BY SetStatusMinor, MinorSound DEF Good
  <1>3. Sound(p, Degraded(p))
    BY DegradedMinor, MinorSound DEF Good
  <1> QED BY <1>1, <1>2, <1>3, SoundSelf

LEMMA ClosedSound ==
    ASSUME NEW p, Good(p)
    PROVE  Sound(p, Closed(p)) /\ Sound(p, Attached(p))
  BY ClosedMinor, MinorSound DEF Good

-----------------------------------------------------------------------------
(***************************************************************************)
(* What is left of the actions: a restart, the end of a turn, a spawn.     *)
(***************************************************************************)

LEMMA RestoredGood ==
    ASSUME NEW f, f.sentinel \in 0 .. MaxSeq, f.before \in 0 .. MaxSeq,
           f.fresh \in SUBSET Checkpoints,
           f.review \in [Checkpoints -> {"none", "answer", "refusal"}]
    PROVE  /\ Good(Restored(f)) /\ Restored(f).last = None
           /\ Restored(f).fresh = f.fresh /\ Restored(f).review = f.review
  <1> DEFINE q == Restored(f)
  <1>1. q \in Pairs
    <2>1. <<>> \in Seq(Checkpoints) /\ {} \in SUBSET Checkpoints /\ MaxPerHour \in 0 .. MaxPerHour
      BY Constants
    <2>2. [c \in Checkpoints |-> 0] \in [Checkpoints -> 0 .. TimeoutEscalation - 1]
      BY Constants
    <2>3. NoHeal \in HealStates
      BY HealUpdates
    <2> QED BY <2>1, <2>2, <2>3, Constants DEF Restored, Pairs, HealStates
  <1>2. /\ q.status = "active" /\ q.lost = "none" /\ q.obs = "absent" /\ ~q.turn /\ q.cli = <<>>
        /\ ~q.hello /\ ~q.silent /\ q.heal = NoHeal /\ q.recovery = "none"
        /\ q.last = None /\ q.fresh = f.fresh /\ q.review = f.review /\ q.expect = None
    BY DEF Restored
  <1> HIDE DEF q
  <1>3. Good(q) /\ q.last = None /\ q.fresh = f.fresh /\ q.review = f.review
    BY <1>1, <1>2, IdleOwned DEF Good, WellFormed
  <1> QED BY <1>3 DEF q

LEMMA NoFilesGood == Good(Restored(NoFiles)) /\ Restored(NoFiles).last = None
  <1>1. /\ NoFiles.sentinel \in 0 .. MaxSeq /\ NoFiles.before \in 0 .. MaxSeq
        /\ NoFiles.fresh \in SUBSET Checkpoints
        /\ NoFiles.review \in [Checkpoints -> {"none", "answer", "refusal"}]
    BY Constants DEF NoFiles
  <1> QED BY <1>1, RestoredGood

LEMMA RestartGood ==
    ASSUME NEW p, Good(p), NEW b \in 0 .. MaxSeq
    PROVE  LET q == Restored([p EXCEPT !.before = b])
           IN  Good(q) /\ q.last = None /\ q.fresh = p.fresh /\ q.review = p.review
  <1> DEFINE f == [p EXCEPT !.before = b]
  <1>1. p \in Pairs
    BY DEF Good, WellFormed
  <1>2. /\ f.sentinel = p.sentinel /\ f.before = b /\ f.fresh = p.fresh /\ f.review = p.review
    BY <1>1, PairDomain DEF Fields
  <1>3. /\ p.sentinel \in 0 .. MaxSeq /\ p.fresh \in SUBSET Checkpoints
        /\ p.review \in [Checkpoints -> {"none", "answer", "refusal"}]
    BY <1>1, PairFields
  <1> HIDE DEF f
  <1>4. /\ Good(Restored(f)) /\ Restored(f).last = None
        /\ Restored(f).fresh = p.fresh /\ Restored(f).review = p.review
    BY <1>2, <1>3, RestoredGood
  <1> QED BY <1>4 DEF f

(* A result frame ends a turn of the adapter's, if it has one, and the     *)
(* reply to come is that to the wake the turn was for.                     *)
LEMMA TurnEnded ==
    ASSUME NEW p, Good(p), p.obs = "attached", NEW l \in Seq(Checkpoints)
    PROVE  LET o == [[p EXCEPT !.cli = l] EXCEPT !.turn = FALSE]
           IN  /\ Good(o) /\ ~o.turn /\ o.last = p.last /\ o.fresh = p.fresh /\ o.expect = p.expect
               /\ o.review = p.review
  <1> DEFINE o == [[p EXCEPT !.cli = l] EXCEPT !.turn = FALSE]
  <1>1. p \in Pairs /\ Owned(p) /\ WellFormed(p)
    BY DEF Good, WellFormed
  <1>2. o \in Pairs
    <2>1. [p EXCEPT !.cli = l] \in Pairs
      BY <1>1, PairUpdates
    <2> QED BY <2>1, PairUpdates
  <1>3. /\ o.status = p.status /\ o.lost = p.lost /\ o.polls = p.polls /\ o.last = p.last
        /\ o.heal = p.heal /\ o.recovery = p.recovery /\ o.fresh = p.fresh /\ ~o.turn
        /\ o.obs = p.obs /\ o.expect = p.expect /\ o.review = p.review
    BY <1>1, PairDomain DEF Fields
  <1> HIDE DEF o
  <1>4. WellFormed(o)
    BY <1>1, <1>2, <1>3 DEF WellFormed
  <1>5. Owned(o)
    BY <1>1, <1>3, OwnedKept DEF KeepsHeal
  <1>6. /\ Good(o) /\ ~o.turn /\ o.last = p.last /\ o.fresh = p.fresh /\ o.expect = p.expect
        /\ o.review = p.review
    BY <1>3, <1>4, <1>5 DEF Good
  <1> QED BY <1>6 DEF o

LEMMA EndTurnReplies ==
    ASSUME NEW p, Good(p), p.obs = "attached", NEW l \in Seq(Checkpoints), NEW throws,
           NEW reply \in {"findings", "refusal", "junk", "empty"}
    PROVE  LET q == TurnDone([p EXCEPT !.cli = l], reply, throws)
           IN  /\ Good(q) /\ q.last = p.last /\ q.fresh \subseteq p.fresh \union {p.expect}
               /\ AnswersKept(p, q)
  <1> DEFINE o == [p EXCEPT !.cli = l]
             e == [o EXCEPT !.turn = FALSE]
             q == TurnDone(o, reply, throws)
  <1>1. /\ Good(e) /\ ~e.turn /\ e.last = p.last /\ e.fresh = p.fresh /\ e.expect = p.expect
        /\ e.review = p.review
    BY TurnEnded
  <1> HIDE DEF o
  <1>2. /\ Good(q) /\ q.last = e.last /\ q.fresh \subseteq e.fresh \union ({e.expect} \ {None})
        /\ AnswersKept(e, q)
    BY <1>1, TurnDoneSound
  <1> HIDE DEF e, q
  <1>3. /\ Good(q) /\ q.last = p.last /\ q.fresh \subseteq p.fresh \union {p.expect}
        /\ AnswersKept(p, q)
    BY <1>1, <1>2 DEF AnswersKept
  <1> QED BY <1>3 DEF q, o

LEMMA EndTurnUnheard ==
    ASSUME NEW p, Good(p), p.obs = "attached", ~p.turn, NEW l \in Seq(Checkpoints)
    PROVE  LET q == [p EXCEPT !.cli = l]
           IN  Good(q) /\ q.last = p.last /\ q.fresh = p.fresh /\ q.review = p.review
  <1> DEFINE o == [p EXCEPT !.cli = l]
             e == [o EXCEPT !.turn = FALSE]
  <1>1. Good(e) /\ e.last = p.last /\ e.fresh = p.fresh /\ e.review = p.review
    BY TurnEnded
  <1>2. p \in Pairs
    BY DEF Good, WellFormed
  <1>3. o \in Pairs /\ o.turn = p.turn
    BY <1>2, PairDomain, PairUpdates DEF Fields
  <1> HIDE DEF o
  <1>4. o.turn = FALSE
    BY <1>3, PairFields
  <1>5. [o EXCEPT !.turn = o.turn] = o
    BY <1>3 DEF Pairs
  <1>6. e = o
    BY <1>4, <1>5
  <1> HIDE DEF e
  <1>7. Good(o) /\ o.last = p.last /\ o.fresh = p.fresh /\ o.review = p.review
    BY <1>1, <1>6
  <1> QED BY <1>7 DEF o

LEMMA ForceReleaseGood ==
    ASSUME NEW p, Good(p), p.turn, NEW throws
    PROVE  LET q == TurnDone(p, "empty", throws)
           IN  /\ Good(q) /\ q.last = p.last /\ q.fresh \subseteq p.fresh \union {p.expect}
               /\ AnswersKept(p, q)
  <1> DEFINE e == [p EXCEPT !.turn = FALSE]
  <1>1. p \in Pairs /\ p.cli \in Seq(Checkpoints) /\ p.obs = "attached"
    BY PairFields DEF Good, WellFormed
  <1>2. [p EXCEPT !.cli = p.cli] = p
    BY <1>1 DEF Pairs
  <1>3. /\ Good(e) /\ ~e.turn /\ e.last = p.last /\ e.fresh = p.fresh /\ e.expect = p.expect
        /\ e.review = p.review
    <2> DEFINE x == [p EXCEPT !.cli = p.cli]
               o == [x EXCEPT !.turn = FALSE]
    <2>1. /\ Good(o) /\ ~o.turn /\ o.last = p.last /\ o.fresh = p.fresh /\ o.expect = p.expect
          /\ o.review = p.review
      BY <1>1, TurnEnded
    <2>2. x = p
      BY <1>2
    <2> HIDE DEF x
    <2>3. o = e
      BY <2>2
    <2> QED BY <2>1, <2>3
  <1>4. /\ Good(TurnDone(p, "empty", throws)) /\ TurnDone(p, "empty", throws).last = e.last
        /\ AnswersKept(e, TurnDone(p, "empty", throws))
        /\ TurnDone(p, "empty", throws).fresh \subseteq e.fresh \union ({e.expect} \ {None})
    BY <1>3, TurnDoneSound
  <1> HIDE DEF e
  <1> QED BY <1>3, <1>4 DEF AnswersKept

(* A spawn of the heal's own: a new transport, and the wait for it.        *)
LEMMA HealSpawnedSound ==
    ASSUME NEW p, Good(p), p.heal.at = "relaunching"
    PROVE  Sound(p, [Attached(p) EXCEPT !.heal.at = "waiting", !.heal.relaunchedOk = TRUE])
  <1> DEFINE a == Attached(p)
             h == [a.heal EXCEPT !.at = "waiting", !.relaunchedOk = TRUE]
  <1>1. Sound(p, a) /\ a.heal = p.heal
    BY ClosedSound, ClosedMinor DEF Good, Minor, KeepsHeal
  <1>2. a.heal # NoHeal
    BY <1>1, HealUpdates
  <1>3. a \in Pairs
    BY <1>1 DEF Sound, Good, WellFormed
  <1> HIDE DEF a
  <1>4. Sound(a, [a EXCEPT !.heal = h])
    BY <1>1, <1>2, SetHealSound DEF Sound
  <1>5. [a EXCEPT !.heal.at = "waiting", !.heal.relaunchedOk = TRUE] = [a EXCEPT !.heal = h]
    BY <1>3, PairDomain DEF Fields
  <1>6. Sound(p, [a EXCEPT !.heal.at = "waiting", !.heal.relaunchedOk = TRUE])
    BY <1>1, <1>4, <1>5, SoundAfter DEF Sound
  <1> QED BY <1>6 DEF a

-----------------------------------------------------------------------------
(***************************************************************************)
(* The invariant, and that no step adds a review but the end of a turn.    *)
(***************************************************************************)

(* The pair between two steps, and a watcher that knows no checkpoint that *)
(* was not written.                                                        *)
WakeInv ==
    /\ Good(pair)
    /\ emitted \in 0 .. MaxSeq /\ pair.last <= emitted
    /\ stopped \in BOOLEAN
    /\ faults \in 0 .. MaxFaults

(* A review that is there after a step and was not before it is that of    *)
(* the wake whose reply was awaited, and a turn was on.                    *)
ReviewStep ==
    \/ pair'.fresh \subseteq pair.fresh
    \/ pair.turn /\ pair'.fresh \subseteq pair.fresh \union {pair.expect}

(* What is answered stays answered.                                        *)
AnswersStay == AnswersKept(pair, pair')

LEMMA WakeInvNext ==
    ASSUME Good(pair'), emitted' \in 0 .. MaxSeq, pair'.last <= emitted',
           stopped' \in BOOLEAN, faults' \in 0 .. MaxFaults
    PROVE  WakeInv'
  BY DEF WakeInv, Good, WellFormed, Owned, Forced

LEMMA FaultCounts ==
    ASSUME WakeInv, Fault \/ UNCHANGED faults
    PROVE  faults' \in 0 .. MaxFaults
  BY WakeAssumption DEF WakeInv, Fault

LEMMA SoundStep ==
    ASSUME WakeInv, Sound(pair, pair'), UNCHANGED emitted, stopped' \in BOOLEAN,
           Fault \/ UNCHANGED faults
    PROVE  WakeInv' /\ ReviewStep /\ AnswersStay
  <1>1. /\ pair'.last <= emitted' /\ pair'.fresh \subseteq pair.fresh /\ Good(pair')
        /\ pair'.review = pair.review
    BY DEF Sound, NoReview, WakeInv
  <1>2. emitted' \in 0 .. MaxSeq
    BY DEF WakeInv
  <1> QED BY <1>1, <1>2, FaultCounts, WakeInvNext DEF ReviewStep, AnswersStay, AnswersKept

LEMMA EmitStep ==
    ASSUME WakeInv, Emit
    PROVE  WakeInv' /\ ReviewStep /\ AnswersStay
  <1>1. Good(pair') /\ pair' = pair /\ pair.last \in Nat
    BY PairFields DEF WakeInv, Emit, Good, WellFormed
  <1>2. emitted' \in 0 .. MaxSeq /\ pair'.last <= emitted'
    BY <1>1, WakeAssumption DEF WakeInv, Emit
  <1> QED BY <1>1, <1>2, WakeInvNext DEF WakeInv, Emit, ReviewStep, AnswersStay, AnswersKept

LEMMA CheckpointStep ==
    ASSUME WakeInv, CheckpointArrives
    PROVE  WakeInv' /\ ReviewStep /\ AnswersStay
  <1>1. PICK c \in pair.before + 1 .. emitted :
              MaySend(LAMBDA throws : Checkpoint(pair, c, throws))
    BY DEF CheckpointArrives
  <1>2. pair' = Checkpoint(pair, c, FALSE) \/ pair' = Checkpoint(pair, c, TRUE)
    BY <1>1 DEF MaySend
  <1>3. Fault \/ UNCHANGED faults
    BY <1>1 DEF MaySend
  <1>4. emitted \in 0 .. MaxSeq /\ pair.before \in 0 .. MaxSeq /\ pair.last <= emitted
    BY PairFields DEF WakeInv, Good, WellFormed
  <1>5. c \in Checkpoints /\ c <= emitted
    BY <1>4, WakeAssumption DEF Checkpoints
  <1>6. /\ Good(pair') /\ pair'.last \in {pair.last, c} /\ pair'.fresh \subseteq pair.fresh
        /\ pair'.review = pair.review
    <2>1. Good(pair)
      BY DEF WakeInv
    <2>2. \A throws :
             /\ Good(Checkpoint(pair, c, throws))
             /\ Checkpoint(pair, c, throws).last \in {pair.last, c}
             /\ Checkpoint(pair, c, throws).fresh \subseteq pair.fresh
             /\ Checkpoint(pair, c, throws).review = pair.review
      BY <1>5, <2>1, CheckpointGood
    <2> QED BY <1>2, <2>2
  <1> QED BY <1>3, <1>4, <1>5, <1>6, FaultCounts, WakeInvNext
          DEF WakeInv, CheckpointArrives, ReviewStep, AnswersStay, AnswersKept

LEMMA ScanStep ==
    ASSUME WakeInv, Scan
    PROVE  WakeInv' /\ ReviewStep /\ AnswersStay
  <1> DEFINE o == [pair EXCEPT !.last = emitted]
  <1>1. Good(pair) /\ pair \in Pairs /\ emitted \in 0 .. MaxSeq /\ emitted # None
    BY DEF WakeInv, Good, WellFormed, Scan, Missed, None
  <1>2. emitted \in Checkpoints
    BY <1>1, Constants
  <1>3. Good(o) /\ o.last = emitted /\ o.fresh = pair.fresh /\ o.review = pair.review
    BY <1>1, SetLast
  <1>4. o.polls = pair.polls
    BY <1>1, PairDomain DEF Fields
  <1>5. pair' = [o EXCEPT !.polls = pair.polls \union {emitted}]
    BY DEF Scan
  <1> HIDE DEF o
  <1>6. pair' = RequestCatchup(o, emitted)
    BY <1>4, <1>5 DEF RequestCatchup, Scan, Missed
  <1>7. Sound(o, RequestCatchup(o, emitted))
    BY <1>2, <1>3, PollsMinor, MinorSound DEF Good
  <1>8. /\ Good(pair') /\ pair'.last = emitted /\ pair'.fresh \subseteq pair.fresh
        /\ pair'.review = pair.review
    BY <1>3, <1>6, <1>7 DEF Sound, NoReview
  <1> QED BY <1>8, WakeInvNext DEF WakeInv, Scan, ReviewStep, AnswersStay, AnswersKept

LEMMA PollStep ==
    ASSUME WakeInv, PollReady \/ PollExpires
    PROVE  WakeInv' /\ ReviewStep /\ AnswersStay
  <1>1. Good(pair)
    BY DEF WakeInv
  <1>2. Sound(pair, pair') /\ (Fault \/ UNCHANGED faults)
    <2>1. CASE PollReady
      <3>1. PICK c \in pair.polls :
                /\ c # pair.heal.owner
                /\ MaySend(LAMBDA throws :
                       Forgiven(Dispatch(Released(pair, c), c, throws), c))
        BY <2>1 DEF PollReady
      <3>2. \/ pair' = Forgiven(Dispatch(Released(pair, c), c, FALSE), c)
            \/ pair' = Forgiven(Dispatch(Released(pair, c), c, TRUE), c)
        BY <3>1 DEF MaySend
      <3>3. Fault \/ UNCHANGED faults
        BY <3>1 DEF MaySend
      <3> QED BY <1>1, <3>1, <3>2, <3>3, PollReadySound
    <2>2. CASE PollExpires
      <3>1. PICK c \in pair.polls :
                /\ c # pair.heal.owner
                /\ MaySend(LAMBDA throws : PollTimeout(pair, c, throws))
        BY <2>2 DEF PollExpires
      <3>2. pair' = PollTimeout(pair, c, FALSE) \/ pair' = PollTimeout(pair, c, TRUE)
        BY <3>1 DEF MaySend
      <3>3. Fault \/ UNCHANGED faults
        BY <3>1 DEF MaySend
      <3> QED BY <1>1, <3>1, <3>2, <3>3, PollTimeoutSound
    <2> QED BY <2>1, <2>2
  <1>3. UNCHANGED emitted /\ stopped' \in BOOLEAN
    BY DEF WakeInv, PollReady, PollExpires
  <1> QED BY <1>2, <1>3, SoundStep

LEMMA EndTurnStep ==
    ASSUME WakeInv, NEW reply \in {"findings", "refusal", "junk", "empty"}, EndTurn(reply)
    PROVE  WakeInv' /\ ReviewStep /\ AnswersStay
  <1> DEFINE l == Tail(pair.cli)
             o == [pair EXCEPT !.cli = l]
  <1>1. Good(pair) /\ pair.cli # <<>>
    BY DEF EndTurn, WakeInv
  <1>2. pair \in Pairs /\ pair.cli \in Seq(Checkpoints) /\ pair.obs = "attached"
    BY <1>1, PairFields DEF Good, WellFormed
  <1>3. l \in Seq(Checkpoints)
    BY <1>1, <1>2
  <1>4. PICK throws \in BOOLEAN : pair' = IF o.turn THEN TurnDone(o, reply, throws) ELSE o
    BY DEF EndTurn, MaySend
  <1>5. Fault \/ UNCHANGED faults
    BY DEF EndTurn, MaySend
  <1> HIDE DEF l
  <1>6. o.turn = pair.turn
    BY <1>2, PairDomain DEF Fields
  <1>7. Good(pair') /\ pair'.last = pair.last /\ ReviewStep /\ AnswersStay
    <2>1. CASE pair.turn
      <3>1. pair' = TurnDone(o, reply, throws)
        BY <1>4, <1>6, <2>1
      <3>2. /\ Good(TurnDone(o, reply, throws)) /\ TurnDone(o, reply, throws).last = pair.last
            /\ TurnDone(o, reply, throws).fresh \subseteq pair.fresh \union {pair.expect}
            /\ AnswersKept(pair, TurnDone(o, reply, throws))
        BY <1>1, <1>2, <1>3, EndTurnReplies
      <3> HIDE DEF o
      <3> QED BY <2>1, <3>1, <3>2 DEF ReviewStep, AnswersStay
    <2>2. CASE ~pair.turn
      <3>1. pair' = o
        BY <1>4, <1>6, <2>2
      <3>2. Good(o) /\ o.last = pair.last /\ o.fresh = pair.fresh /\ o.review = pair.review
        BY <1>1, <1>2, <1>3, <2>2, EndTurnUnheard
      <3> HIDE DEF o
      <3> QED BY <3>1, <3>2 DEF ReviewStep, AnswersStay, AnswersKept
    <2> QED BY <2>1, <2>2
  <1> QED BY <1>5, <1>7, FaultCounts, WakeInvNext DEF WakeInv, EndTurn

LEMMA WatchdogStep ==
    ASSUME WakeInv, Silence \/ ForceRelease
    PROVE  WakeInv' /\ ReviewStep /\ AnswersStay
  <1>1. Good(pair) /\ pair.turn
    BY DEF WakeInv, Silence, ForceRelease
  <1>2. CASE Silence
    <2>1. Sound(pair, pair')
      BY <1>1, <1>2, SilentWakeSound DEF Silence
    <2> QED BY <1>2, <2>1, SoundStep DEF WakeInv, Silence
  <1>3. CASE ForceRelease
    <2>1. Good(pair') /\ pair'.last = pair.last
          /\ pair'.fresh \subseteq pair.fresh \union {pair.expect} /\ AnswersKept(pair, pair')
      BY <1>1, <1>3, ForceReleaseGood DEF ForceRelease
    <2> QED BY <1>1, <1>3, <2>1, FaultCounts, WakeInvNext DEF WakeInv, ForceRelease, ReviewStep,
                                                            AnswersStay
  <1> QED BY <1>2, <1>3

LEMMA ReviewLandsStep ==
    ASSUME WakeInv, ReviewLands
    PROVE  WakeInv' /\ ReviewStep /\ AnswersStay
  <1>1. PICK c \in Checkpoints : pair' = HandleReview(pair, c)
    BY DEF ReviewLands
  <1>2. Sound(pair, pair')
    BY <1>1, HandleReviewMinor, MinorSound, Constants DEF WakeInv, Good
  <1> QED BY <1>2, SoundStep DEF WakeInv, ReviewLands

LEMMA DeadlineStep ==
    ASSUME WakeInv, DeadlineFires
    PROVE  WakeInv' /\ ReviewStep /\ AnswersStay
  <1> DEFINE b == pair.heard \/ pair.turn
             p == [pair EXCEPT !.heard = b]
  <1>1. Good(pair) /\ WellFormed(pair) /\ Owned(pair)
    BY DEF WakeInv, Good
  <1>2. b \in BOOLEAN
    BY <1>1, PairFields DEF WellFormed
  <1>3. pair' = DeadlineExpired(p, FALSE)
    BY DEF DeadlineFires
  <1> HIDE DEF b
  <1>4. Minor(pair, p) /\ p.polls = pair.polls
    BY <1>1, <1>2, HeardMinor
  <1> HIDE DEF p
  <1>5. Sound(pair, p)
    BY <1>1, <1>4, MinorSound
  <1>6. Sound(p, DeadlineExpired(p, FALSE))
    BY <1>5, DeadlineExpiredSound DEF Sound
  <1>7. Sound(pair, pair')
    BY <1>3, <1>5, <1>6, SoundAfter DEF Sound
  <1> QED BY <1>7, SoundStep DEF WakeInv, DeadlineFires

(* The halves and their processes.                                         *)
LEMMA ProcessStep ==
    ASSUME WakeInv,
           ObserverExits \/ ObserverRespawns \/ PrimaryExits \/ PrimarySaysHello \/ GraceExpires
             \/ UserStops
    PROVE  WakeInv' /\ ReviewStep /\ AnswersStay
  <1>1. Good(pair) /\ WellFormed(pair) /\ Owned(pair)
    BY DEF WakeInv, Good
  <1>2. Sound(pair, pair')
    <2>1. CASE ObserverExits
      <3>1. Sound(pair, Closed(pair))
        BY <1>1, ClosedSound
      <3>2. Sound(Closed(pair), HalfExited(Closed(pair), "observer"))
        BY <3>1, HalfExitedSound DEF Sound
      <3> QED BY <2>1, <3>1, <3>2, SoundAfter DEF ObserverExits, Sound
    <2>2. CASE ObserverRespawns
      BY <1>1, <2>2, ClosedSound DEF ObserverRespawns
    <2>3. CASE PrimaryExits
      BY <1>1, <2>3, HalfExitedSound DEF PrimaryExits
    <2>4. CASE PrimarySaysHello
      <3> DEFINE q == [pair EXCEPT !.status = "active", !.lost = "none"]
      <3>1. Minor(pair, q) /\ q.polls = pair.polls
        BY <1>1, SetStatusMinor
      <3>2. pair' = q
        BY <2>4 DEF PrimarySaysHello
      <3> HIDE DEF q
      <3> QED BY <1>1, <3>1, <3>2, MinorSound
    <2>5. CASE GraceExpires
      BY <1>1, <2>5, DegradedMinor, MinorSound DEF GraceExpires
    <2>6. CASE UserStops
      BY <1>1, <2>6, ClosedSound DEF UserStops
    <2> QED BY <2>1, <2>2, <2>3, <2>4, <2>5, <2>6
  <1>3. UNCHANGED emitted /\ stopped' \in BOOLEAN /\ (Fault \/ UNCHANGED faults)
    BY DEF WakeInv, ObserverExits, ObserverRespawns, PrimaryExits, PrimarySaysHello,
           GraceExpires, UserStops
  <1> QED BY <1>2, <1>3, SoundStep

LEMMA HelloStep ==
    ASSUME WakeInv, ObserverSaysHello
    PROVE  WakeInv' /\ ReviewStep /\ AnswersStay
  <1>1. pair' = Hello(pair, FALSE) \/ pair' = Hello(pair, TRUE)
    BY DEF ObserverSaysHello, MaySend
  <1>2. Fault \/ UNCHANGED faults
    BY DEF ObserverSaysHello, MaySend
  <1>3. Sound(pair, pair')
    BY <1>1, HelloSound DEF WakeInv
  <1> QED BY <1>2, <1>3, SoundStep DEF WakeInv, ObserverSaysHello

LEMMA RestartStep ==
    ASSUME WakeInv, Restart
    PROVE  WakeInv' /\ ReviewStep /\ AnswersStay
  <1>1. /\ Good(pair') /\ pair'.last = None /\ pair'.fresh = pair.fresh
        /\ pair'.review = pair.review
    BY RestartGood DEF WakeInv, Restart
  <1>2. None <= emitted
    BY Constants DEF WakeInv
  <1> QED BY <1>1, <1>2, FaultCounts, WakeInvNext DEF WakeInv, Restart, ReviewStep, AnswersStay, AnswersKept

LEMMA HealStep ==
    ASSUME WakeInv, HealGoesOn
    PROVE  WakeInv' /\ ReviewStep /\ AnswersStay
  <1>1. Good(pair)
    BY DEF WakeInv
  <1>2. Sound(pair, pair') /\ (Fault \/ UNCHANGED faults)
    <2>1. CASE HealSpawned
      BY <1>1, <2>1, HealSpawnedSound DEF HealSpawned
    <2>2. CASE HealSpawnFails
      BY <1>1, <2>2, HealUpdates, HealRoundFailedSound DEF HealSpawnFails
    <2>3. CASE HealWaitOver
      <3>1. pair.heal # NoHeal
        BY <2>3, HealUpdates DEF HealWaitOver
      <3>2. \E throws : pair' \in {HealRoundFailed(pair, throws), HealResult(pair, "healed", throws)}
        BY <2>3 DEF HealWaitOver, MaySend
      <3>3. Fault \/ UNCHANGED faults
        BY <2>3 DEF HealWaitOver, MaySend
      <3> QED BY <1>1, <3>1, <3>2, <3>3, HealRoundFailedSound, HealResultSound
    <2>4. CASE HealBackoffOver
      <3>1. pair.heal.at = "backoff"
        BY <2>4 DEF HealBackoffOver
      <3>2. \E throws : pair' = HealRound(pair, throws)
        BY <2>4 DEF HealBackoffOver, MaySend
      <3>3. Fault \/ UNCHANGED faults
        BY <2>4 DEF HealBackoffOver, MaySend
      <3> QED BY <1>1, <3>1, <3>2, <3>3, HealRoundSound
    <2> QED BY <2>1, <2>2, <2>3, <2>4 DEF HealGoesOn
  <1>3. UNCHANGED emitted /\ stopped' \in BOOLEAN
    BY DEF WakeInv, HealGoesOn, HealSpawned, HealSpawnFails, HealWaitOver, HealBackoffOver
  <1> QED BY <1>2, <1>3, SoundStep

LEMMA WakeStep ==
    ASSUME WakeInv, [Next]_vars
    PROVE  WakeInv' /\ ReviewStep /\ AnswersStay
  <1>1. CASE UNCHANGED vars
    BY <1>1, WakeInvNext DEF vars, WakeInv, ReviewStep, AnswersStay, AnswersKept
  <1>2. CASE Next
    <2>1. \A reply \in Replies : reply \in {"findings", "refusal", "junk", "empty"}
      BY WakeAssumption
    <2> QED
      BY <1>2, <2>1, EmitStep, CheckpointStep, ScanStep, PollStep, EndTurnStep, WatchdogStep,
         ReviewLandsStep, DeadlineStep, ProcessStep, HelloStep, RestartStep, HealStep
         DEF Next, TurnEnds
  <1> QED BY <1>1, <1>2

-----------------------------------------------------------------------------
(***************************************************************************)
(* What follows for every behaviour.                                       *)
(***************************************************************************)

(* The invariant holds throughout, for every budget of the heal, every     *)
(* number of checkpoints and of faults: whatever a handler does on its way *)
(* (dispatch, queue, degrade, heal) it leaves a pair the next one can take.*)
THEOREM WakeInvariant == Spec => []WakeInv
  <1>1. Init => WakeInv
    <2> SUFFICES ASSUME Init PROVE WakeInv
      OBVIOUS
    <2>1. Good(pair) /\ pair.last = 0
      BY NoFilesGood DEF Init, None
    <2>2. emitted \in 0 .. MaxSeq /\ faults \in 0 .. MaxFaults /\ pair.last <= emitted
      BY <2>1, WakeAssumption DEF Init
    <2>3. stopped \in BOOLEAN
      BY DEF Init
    <2> QED BY <2>1, <2>2, <2>3 DEF WakeInv
  <1>2. WakeInv /\ [Next]_vars => WakeInv'
    BY WakeStep
  <1> QED BY <1>1, <1>2, PTL DEF Spec

(* Type correctness, with what the type says of two fields at a time: the  *)
(* half that is waited for, and an observer without a transport.           *)
THEOREM TypeCorrect == Spec => []TypeOK
  <1>1. WakeInv => TypeOK
    BY DEF WakeInv, Good, WellFormed, TypeOK
  <1> QED BY <1>1, WakeInvariant, PTL

(* An episode of the heal always has somebody who takes its result, and    *)
(* nobody waits for one that is not there (observer-autoheal.ts, from the  *)
(* poll's timeout or from council-wake-recovery.ts).                       *)
THEOREM EpisodeHasItsOwner == Spec => []HealHasItsOwner
  <1>1. WakeInv => HealHasItsOwner
    BY DEF WakeInv, Good, Owned, HealHasItsOwner
  <1> QED BY <1>1, WakeInvariant, PTL

(* However many wakes the process works on, only the end of a turn adds a  *)
(* review that postdates its wake, one, and it is taken for the answer to  *)
(* the last wake that was written, the only one that is awaited.           *)
ReviewIsOfTheLastWake ==
    \A c \in pair'.fresh \ pair.fresh :
        pair.turn /\ pair.cli # <<>> /\ c = pair.cli[Len(pair.cli)]

LEMMA OfTheLastWake ==
    ASSUME WakeInv, [Next]_vars
    PROVE  ReviewIsOfTheLastWake
  <1>1. pair.turn => pair.cli # <<>> /\ pair.expect = pair.cli[Len(pair.cli)]
    BY DEF WakeInv, Good, WellFormed
  <1> QED BY <1>1, WakeStep DEF ReviewStep, ReviewIsOfTheLastWake

(* No step takes an answer away again: a checkpoint that is answered is not *)
(* woken for (dispatchObserverWake), so that a refusal, or the late reply   *)
(* to a wake that was given up, is never written over it.                   *)
THEOREM AnswersAreKept == Spec => [][AnswersStay]_vars
  <1>1. WakeInv /\ [Next]_vars => AnswersStay
    BY WakeStep
  <1> QED BY <1>1, WakeInvariant, PTL DEF Spec

(* The same for every step: a review is recorded under the last wake.      *)
THEOREM ReviewsAreOfTheLastWake == Spec => [][ReviewIsOfTheLastWake]_vars
  <1>1. WakeInv /\ [Next]_vars => ReviewIsOfTheLastWake
    BY OfTheLastWake
  <1> QED BY <1>1, WakeInvariant, PTL DEF Spec

(* A reply is recorded as the review of the wake it answers while the      *)
(* process works on one wake only (finalizeObserverReply, before the drain *)
(* of the queue at the end of a turn).                                     *)
THEOREM ReplyAnswersItsWake == Spec => ReplyIsForItsWake
  <1> DEFINE Reply == \A c \in Checkpoints :
                          c \in pair'.fresh \ pair.fresh /\ Len(pair.cli) = 1 => Head(pair.cli) = c
  <1>1. WakeInv /\ [Next]_vars => Reply
    <2> SUFFICES ASSUME WakeInv, [Next]_vars,
                        NEW c \in Checkpoints, c \in pair'.fresh \ pair.fresh, Len(pair.cli) = 1
                 PROVE  Head(pair.cli) = c
      OBVIOUS
    <2>1. pair.cli \in Seq(Checkpoints)
      BY PairFields DEF WakeInv, Good, WellFormed
    <2>2. c = pair.cli[Len(pair.cli)] /\ pair.cli # <<>>
      BY OfTheLastWake DEF ReviewIsOfTheLastWake
    <2> QED BY <2>1, <2>2
  <1> QED BY <1>1, WakeInvariant, PTL DEF Spec, ReplyIsForItsWake
=============================================================================
