--------------------------- MODULE EventDelivery ---------------------------
(***************************************************************************)
(* What the event outbox promises to the emitter of an event: once an      *)
(* event has been expanded into deliveries, each delivery is owed until    *)
(* its subscriber has accepted it or the attempts are exhausted, unless a  *)
(* deploy removes the subscriber; a settled delivery stays settled; a dead *)
(* one is reopened by an operator only, and then has all its attempts.     *)
(* Acceptance may happen more than once (at-least-once delivery).          *)
(***************************************************************************)
EXTENDS Naturals

CONSTANTS Delivery,      \* pairs <<event, subscriber>>
          MaxAttempts,   \* what is tried before a delivery is given up
          Leaving        \* deliveries whose subscriber some deploy removes

VARIABLES state,         \* what the emitter is still owed
          accepted,      \* deliveries answered 2xx by their subscriber
          tries          \* attempts since it was owed or reopened

vars == <<state, accepted, tries>>

Init == /\ state = [d \in Delivery |-> "none"]
        /\ accepted = {}
        /\ tries = [d \in Delivery |-> 0]

\* One event is expanded: all its deliveries become owed in one step.
Owe == \E S \in SUBSET {d \in Delivery : state[d] = "none"} :
          /\ state' = [d \in Delivery |-> IF d \in S THEN "owed" ELSE state[d]]
          /\ UNCHANGED <<accepted, tries>>

Try == \E S \in SUBSET {d \in Delivery : state[d] = "owed"} :
          /\ tries' = [d \in Delivery |-> IF d \in S THEN tries[d] + 1 ELSE tries[d]]
          /\ UNCHANGED <<state, accepted>>

Accept(d) == /\ state[d] = "owed"
             /\ accepted' = accepted \union {d}
             /\ UNCHANGED <<state, tries>>

Settle(d) == /\ state[d] = "owed" /\ d \in accepted
             /\ state' = [state EXCEPT ![d] = "settled"]
             /\ UNCHANGED <<accepted, tries>>

GiveUp(d) == /\ state[d] = "owed"
             /\ tries[d] >= MaxAttempts \/ d \in Leaving
             /\ state' = [state EXCEPT ![d] = "dead"]
             /\ UNCHANGED <<accepted, tries>>

Reopen(d) == /\ state[d] = "dead"
             /\ state' = [state EXCEPT ![d] = "owed"]
             /\ tries' = [tries EXCEPT ![d] = 0]
             /\ UNCHANGED accepted

Next == \/ Owe \/ Try
        \/ \E d \in Delivery : Accept(d) \/ Settle(d) \/ GiveUp(d) \/ Reopen(d)

Spec == Init /\ [][Next]_vars
=============================================================================
