------------------------------- MODULE OneShot -------------------------------
(***************************************************************************)
(* What the auto-resume scheduler promises.  A ticket is one armed resume  *)
(* of one session.  It is spent at most once, or it is void: cancelled,    *)
(* replaced, or its session gone.  A spent ticket continues its session at *)
(* most once, and never after it was voided.  Crashes do not exist here.   *)
(***************************************************************************)
EXTENDS Naturals

CONSTANT Sessions

VARIABLES
    ticket,     \* ticket[s]: the ticket armed for s, 0 when there is none
    issued,     \* tickets are numbered in the order they were issued
    spent,      \* tickets whose resume was started
    void,       \* tickets that must not continue their session any more
    continued   \* tickets that did continue their session

vars == <<ticket, issued, spent, void, continued>>

Init ==
    /\ ticket = [s \in Sessions |-> 0]
    /\ issued = 0
    /\ spent = {} /\ void = {} /\ continued = {}

\* A new ticket replaces the one that was armed.
Arm(s) ==
    /\ issued' = issued + 1
    /\ ticket' = [ticket EXCEPT ![s] = issued']
    /\ void' = void \union ({ticket[s]} \ {0})
    /\ UNCHANGED <<spent, continued>>

Spend(s) ==
    /\ ticket[s] # 0
    /\ spent' = spent \union {ticket[s]}
    /\ ticket' = [ticket EXCEPT ![s] = 0]
    /\ UNCHANGED <<issued, void, continued>>

\* Armed tickets are voided (one user action may void several), together
\* with spent ones that have not continued their session yet.
Revoke ==
    \E S \in SUBSET {s \in Sessions : ticket[s] # 0}, running \in SUBSET (spent \ continued) :
        /\ ticket' = [s \in Sessions |-> IF s \in S THEN 0 ELSE ticket[s]]
        /\ void' = void \union {ticket[s] : s \in S} \union running
        /\ UNCHANGED <<issued, spent, continued>>

Continue(n) ==
    /\ n \in spent \ (void \union continued)
    /\ continued' = continued \union {n}
    /\ UNCHANGED <<ticket, issued, spent, void>>

Next ==
    \/ \E s \in Sessions : Arm(s) \/ Spend(s)
    \/ Revoke
    \/ \E n \in spent : Continue(n)

\* A ticket does not stay armed for ever: weak fairness of the steps that end
\* it, written out, for the scheduler's file takes the place of ticket.
Ends(s) == []<>(ticket[s] = 0) \/ []<><<ticket'[s] # ticket[s]>>_vars

Spec == Init /\ [][Next]_vars /\ \A s \in Sessions : Ends(s)
=============================================================================
