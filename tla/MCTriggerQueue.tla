--------------------------- MODULE MCTriggerQueue ---------------------------
(* Small instances of TriggerQueue for TLC. *)
EXTENDS TriggerQueue

CONSTANTS w1, w2, m2

\* The second container was deployed without the agent's trigger_url.
OnlyFirstHasUrl == {w1}

\* To keep the instance small, either the second message or the reconcile
\* events were dealt with before the behaviour starts, and so were the
\* faults or the redeliveries.
InitPast ==
  /\ inbox \in {[m \in Msg |-> "none"], [m \in Msg |-> IF m = m2 THEN "read" ELSE "none"]}
  /\ hook = [m \in Msg |-> IF inbox[m] = "read" THEN "done" ELSE "none"]
  /\ told = IF inbox[m2] = "read" THEN {} ELSE Reconcile
  /\ status = [r \in Row |-> IF r \in told THEN "fired" ELSE "absent"]
  /\ rowOf = [m \in Msg |-> {}] /\ attempt = Zero /\ due = [r \in Row |-> FALSE]
  /\ phase = [w \in Worker |-> "down"] /\ fire = [w \in Worker |-> Idle]
  /\ seen = [w \in Worker |-> Zero] /\ woken = FALSE
  /\ absorbed = {}
  /\ skipped = IF inbox[m2] = "read" THEN {} ELSE Redelivered
  /\ faults = IF inbox[m2] = "read" THEN MaxFaults ELSE 0

SpecPast == InitPast /\ [][Next]_vars /\ Fairness
=============================================================================
