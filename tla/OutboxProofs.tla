---------------------------- MODULE OutboxProofs ----------------------------
(***************************************************************************)
(* Proofs about the outbox for every set of events, subscribers, workers   *)
(* and configurations, and every number of faults.                         *)
(***************************************************************************)
EXTENDS Outbox, TLAPS

\* What the two batch steps do to the tables, without the batch bound.
LEMMA ExpandStep ==
  ASSUME NEW w \in Worker, ExpandPendingEvents(w)
  PROVE  \E E \in SUBSET Event :
           /\ status' = [d \in Delivery |->
                           IF d \in NewRows(w, E) THEN "pending" ELSE status[d]]
           /\ due' = [d \in Delivery |-> IF d \in NewRows(w, E) THEN TRUE ELSE due[d]]
           /\ outbox' = [e \in Event |-> IF e \in E THEN "dispatched" ELSE outbox[e]]
           /\ expected' = [e \in Event |-> IF e \in E THEN config[w][e] ELSE expected[e]]
BY DEF ExpandPendingEvents, BatchOf, Undispatched

LEMMA ClaimStep ==
  ASSUME NEW w \in Worker, ClaimDueDeliveries(w)
  PROVE  \E C \in SUBSET Delivery :
           /\ \A d \in C : status[d] = "pending" /\ due[d]
           /\ attempt' = [d \in Delivery |-> IF d \in C THEN attempt[d] + 1 ELSE attempt[d]]
           /\ due' = [d \in Delivery |-> IF d \in C THEN FALSE ELSE due[d]]
           /\ task' = [task EXCEPT ![w] =
                         [d \in Delivery |-> IF d \in C THEN "post" ELSE "none"]]
           /\ seen' = [seen EXCEPT ![w] =
                         [d \in Delivery |-> IF d \in C THEN attempt[d] + 1 ELSE 0]]
BY DEF ClaimDueDeliveries, BatchOf, Claimable

LEMMA ExpandTypeOK ==
  ASSUME TypeOK, NEW w \in Worker, ExpandPendingEvents(w) PROVE TypeOK'
<1>1. PICK E \in SUBSET Event :
        /\ status' = [d \in Delivery |->
                        IF d \in NewRows(w, E) THEN "pending" ELSE status[d]]
        /\ due' = [d \in Delivery |-> IF d \in NewRows(w, E) THEN TRUE ELSE due[d]]
        /\ outbox' = [e \in Event |-> IF e \in E THEN "dispatched" ELSE outbox[e]]
        /\ expected' = [e \in Event |-> IF e \in E THEN config[w][e] ELSE expected[e]]
  BY ExpandStep
<1>2. outbox' \in [Event -> {"absent", "undispatched", "dispatched"}]
  BY <1>1 DEF TypeOK
<1>3. status' \in [Delivery -> {"absent", "pending", "delivered", "dead"}]
  BY <1>1 DEF TypeOK
<1>4. due' \in [Delivery -> BOOLEAN]
  BY <1>1 DEF TypeOK
<1>5. expected' \in [Event -> SUBSET Subscriber]
  BY <1>1 DEF TypeOK
<1>6. phase' \in [Worker -> {"down", "idle", "expand", "claim", "deliver"}]
  BY DEF TypeOK, ExpandPendingEvents
<1> QED
  BY <1>2, <1>3, <1>4, <1>5, <1>6 DEF TypeOK, ExpandPendingEvents

LEMMA ClaimTypeOK ==
  ASSUME TypeOK, NEW w \in Worker, ClaimDueDeliveries(w) PROVE TypeOK'
<1>1. PICK C \in SUBSET Delivery :
        /\ attempt' = [d \in Delivery |-> IF d \in C THEN attempt[d] + 1 ELSE attempt[d]]
        /\ due' = [d \in Delivery |-> IF d \in C THEN FALSE ELSE due[d]]
        /\ task' = [task EXCEPT ![w] =
                      [d \in Delivery |-> IF d \in C THEN "post" ELSE "none"]]
        /\ seen' = [seen EXCEPT ![w] =
                      [d \in Delivery |-> IF d \in C THEN attempt[d] + 1 ELSE 0]]
  BY ClaimStep
<1>2. attempt' \in [Delivery -> Nat]
  BY <1>1 DEF TypeOK
<1>3. due' \in [Delivery -> BOOLEAN]
  BY <1>1 DEF TypeOK
<1>4. task' \in [Worker -> [Delivery -> {"none", "post", "accepted", "rejected"}]]
  BY <1>1 DEF TypeOK
<1>5. [d \in Delivery |-> IF d \in C THEN attempt[d] + 1 ELSE 0] \in [Delivery -> Nat]
  BY DEF TypeOK
<1>6. seen' \in [Worker -> [Delivery -> Nat]]
  BY <1>1, <1>5 DEF TypeOK
<1>7. phase' \in [Worker -> {"down", "idle", "expand", "claim", "deliver"}]
  BY DEF TypeOK, ClaimDueDeliveries
<1> QED
  BY <1>2, <1>3, <1>4, <1>6, <1>7 DEF TypeOK, ClaimDueDeliveries, histVars

LEMMA PostTypeOK ==
  ASSUME TypeOK, NEW w \in Worker, NEW d \in Delivery, Post(w, d) PROVE TypeOK'
<1>1. task' \in [Worker -> [Delivery -> {"none", "post", "accepted", "rejected"}]]
  <2>1. CASE task' = [task EXCEPT ![w][d] = "accepted"]
    BY <2>1 DEF TypeOK
  <2>2. CASE task' = [task EXCEPT ![w][d] = "rejected"]
    BY <2>2 DEF TypeOK
  <2> QED
    BY <2>1, <2>2 DEF Post
<1>2. accepted' \subseteq Delivery
  BY DEF Post, TypeOK
<1> QED
  BY <1>1, <1>2 DEF Post, TypeOK, dbVars

LEMMA StepTypeOK == TypeOK /\ [Next]_vars => TypeOK'
<1> SUFFICES ASSUME TypeOK, [Next]_vars PROVE TypeOK'
  OBVIOUS
<1>1. ASSUME NEW e \in Event, InsertEventTx(e) PROVE TypeOK'
  BY <1>1 DEF TypeOK, InsertEventTx, workerVars, histVars
<1>2. ASSUME NEW d \in Delivery, RequeueDelivery(d) PROVE TypeOK'
  BY <1>2 DEF TypeOK, RequeueDelivery, workerVars, histVars
<1>3. ASSUME NEW d \in Delivery, BecomeDue(d) PROVE TypeOK'
  BY <1>3 DEF TypeOK, BecomeDue, workerVars, histVars
<1>4. ASSUME NEW w \in Worker, Boot(w), NEW c \in Configs,
             config' = [config EXCEPT ![w] = c]
      PROVE  TypeOK'
  BY <1>4, OutboxAssumption DEF OutboxAssumption, TypeOK, Boot, dbVars, histVars
<1>5. ASSUME NEW w \in Worker, Crash(w) PROVE TypeOK'
  BY <1>5 DEF TypeOK, Crash, dbVars, histVars, Idle, Zero
<1>6. ASSUME NEW w \in Worker, Tick(w) PROVE TypeOK'
  BY <1>6 DEF TypeOK, Tick, dbVars, histVars
<1>7. ASSUME NEW w \in Worker, CycleFails(w) PROVE TypeOK'
  BY <1>7 DEF TypeOK, CycleFails, dbVars, histVars
<1>8. ASSUME NEW w \in Worker, EndCycle(w) PROVE TypeOK'
  BY <1>8 DEF TypeOK, EndCycle, dbVars, histVars, Zero
<1>9. ASSUME NEW w \in Worker, NEW d \in Delivery, MarkDeliveryDelivered(w, d) PROVE TypeOK'
  BY <1>9 DEF TypeOK, MarkDeliveryDelivered, Finish, histVars
<1>10. ASSUME NEW w \in Worker, NEW d \in Delivery, MarkDeliveryRetryOrDead(w, d) PROVE TypeOK'
  BY <1>10 DEF TypeOK, MarkDeliveryRetryOrDead, RetryOrDead, Finish, histVars
<1>11. ASSUME NEW w \in Worker, NEW d \in Delivery, MarkUnsubscribed(w, d) PROVE TypeOK'
  BY <1>11 DEF TypeOK, MarkUnsubscribed, RetryOrDead, Finish, histVars
<1>12. ASSUME NEW w \in Worker, NEW d \in Delivery, MarkDeliveredFails(w, d) PROVE TypeOK'
  BY <1>12 DEF TypeOK, MarkDeliveredFails, dbVars, histVars
<1>13. ASSUME NEW w \in Worker, NEW d \in Delivery, MarkFails(w, d) PROVE TypeOK'
  BY <1>13 DEF TypeOK, MarkFails, Finish, dbVars, histVars
<1>14. CASE UNCHANGED vars
  BY <1>14 DEF TypeOK, vars
<1> QED
  <2>1. ASSUME NEW w \in Worker, Boot(w) PROVE TypeOK'
    BY <2>1, <1>4 DEF Boot
  <2> QED
    BY <1>1, <1>2, <1>3, <2>1, <1>5, <1>6, <1>7, <1>8, <1>9, <1>10, <1>11, <1>12, <1>13,
       <1>14, ExpandTypeOK, ClaimTypeOK, PostTypeOK DEF Next, Settle

(* Type correctness: every column and every worker keeps to its domain. *)
THEOREM TypeCorrect == Spec => []TypeOK
<1>1. Init => TypeOK
  BY DEF Init, TypeOK, Idle, Zero
<1> QED
  BY <1>1, StepTypeOK, PTL DEF Spec

-----------------------------------------------------------------------------
(* What holds whatever stalls. *)

\* A worker about to record "delivered" has seen its POST accepted.
AcceptedIsHonest ==
  \A w \in Worker : \A d \in Delivery : task[w][d] = "accepted" => d \in accepted

HistInv == TypeOK /\ AcceptedIsHonest /\ DeliveredMeansAccepted /\ DispatchedHasDeliveries

LEMMA HistInit == Init => HistInv
<1> SUFFICES ASSUME Init PROVE HistInv
  OBVIOUS
<1>1. TypeOK
  BY DEF Init, TypeOK, Idle, Zero
<1> QED
  BY <1>1 DEF Init, HistInv, AcceptedIsHonest, DeliveredMeansAccepted,
              DispatchedHasDeliveries, Idle, Delivery

LEMMA StepHonest == TypeOK /\ AcceptedIsHonest /\ [Next]_vars => AcceptedIsHonest'
<1> SUFFICES ASSUME TypeOK, AcceptedIsHonest, [Next]_vars,
                    NEW v \in Worker, NEW c \in Delivery, task'[v][c] = "accepted"
             PROVE  c \in accepted'
  BY DEF AcceptedIsHonest
<1>1. task[v][c] = "accepted" => c \in accepted
  BY DEF AcceptedIsHonest
<1>2. ASSUME NEW w \in Worker, ClaimDueDeliveries(w) PROVE c \in accepted'
  <2>1. PICK C \in SUBSET Delivery :
          task' = [task EXCEPT ![w] =
                     [d \in Delivery |-> IF d \in C THEN "post" ELSE "none"]]
    BY <1>2, ClaimStep
  <2> QED
    BY <1>1, <1>2, <2>1 DEF ClaimDueDeliveries, TypeOK, histVars
<1>3. ASSUME NEW w \in Worker, NEW d \in Delivery, Post(w, d) PROVE c \in accepted'
  <2>1. CASE v = w /\ c = d
    BY <1>3, <2>1 DEF Post, TypeOK
  <2>2. CASE ~(v = w /\ c = d)
    <3>1. task[v][c] = "accepted"
      BY <1>3, <2>2 DEF Post, TypeOK
    <3> QED
      BY <1>1, <1>3, <3>1 DEF Post
  <2> QED
    BY <2>1, <2>2
<1>4. ASSUME NEW w \in Worker, NEW d \in Delivery,
             \/ MarkDeliveryDelivered(w, d) \/ MarkDeliveryRetryOrDead(w, d)
             \/ MarkUnsubscribed(w, d) \/ MarkFails(w, d) \/ MarkDeliveredFails(w, d)
      PROVE  c \in accepted'
  <2>1. \/ task' = [task EXCEPT ![w][d] = "none"]
        \/ task' = [task EXCEPT ![w][d] = "rejected"]
    BY <1>4 DEF MarkDeliveryDelivered, MarkDeliveryRetryOrDead, MarkUnsubscribed,
                MarkFails, MarkDeliveredFails, Finish
  <2>2. accepted' = accepted
    BY <1>4 DEF MarkDeliveryDelivered, MarkDeliveryRetryOrDead, MarkUnsubscribed,
                MarkFails, MarkDeliveredFails, histVars
  <2>3. CASE v = w /\ c = d
    BY <2>1, <2>3 DEF TypeOK
  <2>4. CASE ~(v = w /\ c = d)
    <3>1. task[v][c] = "accepted"
      BY <2>1, <2>4 DEF TypeOK
    <3> QED
      BY <1>1, <2>2, <3>1
  <2> QED
    BY <2>3, <2>4
<1>5. ASSUME NEW w \in Worker, Crash(w) PROVE c \in accepted'
  BY <1>1, <1>5 DEF Crash, TypeOK, histVars, Idle
<1>6. CASE UNCHANGED <<task, accepted>>
  BY <1>1, <1>6
<1> QED
  BY <1>2, <1>3, <1>4, <1>5, <1>6
  DEF Next, Settle, vars, workerVars, histVars, InsertEventTx, RequeueDelivery,
      BecomeDue, Boot, Tick, CycleFails, ExpandPendingEvents, EndCycle

LEMMA StepDelivered ==
  TypeOK /\ AcceptedIsHonest /\ DeliveredMeansAccepted /\ [Next]_vars
    => DeliveredMeansAccepted'
<1> SUFFICES ASSUME TypeOK, AcceptedIsHonest, DeliveredMeansAccepted, [Next]_vars,
                    NEW c \in Delivery, status'[c] = "delivered"
             PROVE  c \in accepted'
  BY DEF DeliveredMeansAccepted
<1>1. accepted \subseteq accepted'
  BY DEF Next, Settle, vars, workerVars, histVars, InsertEventTx, RequeueDelivery,
      BecomeDue, Boot, Crash, Tick, CycleFails, ExpandPendingEvents, ClaimDueDeliveries,
      EndCycle, Post, MarkDeliveryDelivered, MarkDeliveryRetryOrDead, MarkUnsubscribed,
      MarkFails, MarkDeliveredFails
<1>2. status[c] = "delivered" => c \in accepted
  BY DEF DeliveredMeansAccepted
<1>3. ASSUME NEW w \in Worker, ExpandPendingEvents(w) PROVE c \in accepted'
  <2>1. PICK E \in SUBSET Event :
          status' = [d \in Delivery |-> IF d \in NewRows(w, E) THEN "pending" ELSE status[d]]
    BY <1>3, ExpandStep
  <2> QED
    BY <1>1, <1>2, <2>1
<1>4. ASSUME NEW w \in Worker, NEW d \in Delivery, MarkDeliveryDelivered(w, d)
      PROVE  c \in accepted'
  BY <1>1, <1>2, <1>4 DEF MarkDeliveryDelivered, TypeOK, AcceptedIsHonest
<1>5. ASSUME NEW w \in Worker, NEW d \in Delivery,
             MarkDeliveryRetryOrDead(w, d) \/ MarkUnsubscribed(w, d)
      PROVE  c \in accepted'
  BY <1>1, <1>2, <1>5 DEF MarkDeliveryRetryOrDead, MarkUnsubscribed, RetryOrDead, TypeOK
<1>6. ASSUME NEW d \in Delivery, RequeueDelivery(d) PROVE c \in accepted'
  BY <1>1, <1>2, <1>6 DEF RequeueDelivery, TypeOK
<1>7. CASE UNCHANGED status
  BY <1>1, <1>2, <1>7
<1> QED
  BY <1>3, <1>4, <1>5, <1>6, <1>7
  DEF Next, Settle, vars, dbVars, InsertEventTx, BecomeDue, Boot, Crash, Tick, CycleFails,
      ClaimDueDeliveries, EndCycle, Post, MarkFails, MarkDeliveredFails

LEMMA StepDispatched ==
  TypeOK /\ DispatchedHasDeliveries /\ [Next]_vars => DispatchedHasDeliveries'
<1> SUFFICES ASSUME TypeOK, DispatchedHasDeliveries, [Next]_vars,
                    NEW f \in Event, outbox'[f] = "dispatched", NEW s \in expected'[f]
             PROVE  status'[<<f, s>>] # "absent"
  BY DEF DispatchedHasDeliveries
<1>1. ASSUME outbox[f] = "dispatched", s \in expected[f] PROVE status[<<f, s>>] # "absent"
  BY <1>1 DEF DispatchedHasDeliveries
<1>2. ASSUME NEW d \in Delivery, status[d] # "absent" PROVE status'[d] # "absent"
  <2>1. ASSUME NEW w \in Worker, ExpandPendingEvents(w) PROVE status'[d] # "absent"
    BY <1>2, <2>1, ExpandStep
  <2>2. ASSUME NEW w \in Worker, NEW c \in Delivery,
               \/ MarkDeliveryDelivered(w, c) \/ MarkDeliveryRetryOrDead(w, c)
               \/ MarkUnsubscribed(w, c) \/ RequeueDelivery(c)
        PROVE  status'[d] # "absent"
    BY <1>2, <2>2 DEF MarkDeliveryDelivered, MarkDeliveryRetryOrDead, MarkUnsubscribed,
                      RetryOrDead, RequeueDelivery, TypeOK
  <2>3. ASSUME NEW c \in Delivery, RequeueDelivery(c) PROVE status'[d] # "absent"
    BY <1>2, <2>3 DEF RequeueDelivery, TypeOK
  <2>4. CASE UNCHANGED status
    BY <1>2, <2>4
  <2> QED
    BY <2>1, <2>2, <2>3, <2>4
    DEF Next, Settle, vars, dbVars, InsertEventTx, BecomeDue, Boot, Crash, Tick,
        CycleFails, ClaimDueDeliveries, EndCycle, Post, MarkFails, MarkDeliveredFails
<1>3. ASSUME NEW w \in Worker, ExpandPendingEvents(w) PROVE status'[<<f, s>>] # "absent"
  <2>1. PICK E \in SUBSET Event :
          /\ status' = [d \in Delivery |->
                          IF d \in NewRows(w, E) THEN "pending" ELSE status[d]]
          /\ outbox' = [e \in Event |-> IF e \in E THEN "dispatched" ELSE outbox[e]]
          /\ expected' = [e \in Event |-> IF e \in E THEN config[w][e] ELSE expected[e]]
    BY <1>3, ExpandStep
  <2>2. <<f, s>> \in Delivery
    BY <2>1 DEF TypeOK, Delivery
  <2>3. CASE f \in E
    BY <2>1, <2>2, <2>3 DEF NewRows
  <2>4. CASE f \notin E
    BY <1>1, <1>2, <2>1, <2>2, <2>4
  <2> QED
    BY <2>3, <2>4
<1>4. CASE UNCHANGED expected /\ (outbox'[f] = "dispatched" => outbox[f] = "dispatched")
  <2>1. <<f, s>> \in Delivery
    BY <1>4 DEF TypeOK, Delivery
  <2> QED
    BY <1>1, <1>2, <1>4, <2>1
<1>5. ASSUME NEW e \in Event, InsertEventTx(e)
      PROVE  UNCHANGED expected /\ (outbox'[f] = "dispatched" => outbox[f] = "dispatched")
  BY <1>5 DEF InsertEventTx, TypeOK, histVars
<1> QED
  BY <1>3, <1>4, <1>5
  DEF Next, Settle, vars, dbVars, histVars, RequeueDelivery, BecomeDue, Boot, Crash, Tick,
      CycleFails, ClaimDueDeliveries, EndCycle, Post, MarkFails, MarkDeliveredFails,
      MarkDeliveryDelivered, MarkDeliveryRetryOrDead, MarkUnsubscribed

LEMMA StepHist == HistInv /\ [Next]_vars => HistInv'
BY StepTypeOK, StepHonest, StepDelivered, StepDispatched DEF HistInv

(* No event is stamped dispatched without a delivery row for each subscriber it
   was expanded for, whatever crashes and stalls. *)
THEOREM NoEventLost == Spec => []DispatchedHasDeliveries
<1>1. HistInv => DispatchedHasDeliveries
  BY DEF HistInv
<1> QED
  BY HistInit, StepHist, <1>1, PTL DEF Spec

(* A row says delivered only if its subscriber accepted the event. *)
THEOREM DeliveredIsAccepted == Spec => []DeliveredMeansAccepted
<1>1. HistInv => DeliveredMeansAccepted
  BY DEF HistInv
<1> QED
  BY HistInit, StepHist, <1>1, PTL DEF Spec

-----------------------------------------------------------------------------
(* What the lease gives while no worker outlives it. *)

Busy(w, d) == task[w][d] # "none"

\* Only a worker in the last part of its cycle holds claimed rows.
BusyOnlyDelivering == \A w \in Worker : \A d \in Delivery :
                        Busy(w, d) => phase[w] = "deliver"

\* A running worker read one of the deployed configurations at boot.
KnownConfig == \A w \in Worker : phase[w] # "down" => config[w] \in Configs

LeaseInv == /\ TypeOK
            /\ SingleInFlight /\ InFlightIsCurrent
            /\ BusyOnlyDelivering /\ KnownConfig
            /\ DeadOnlyWhenExhausted

LEMMA LeaseInit == Init => LeaseInv
<1> SUFFICES ASSUME Init PROVE LeaseInv
  OBVIOUS
<1>1. TypeOK
  BY DEF Init, TypeOK, Idle, Zero
<1> QED
  BY <1>1 DEF Init, LeaseInv, SingleInFlight, InFlightIsCurrent, BusyOnlyDelivering,
              KnownConfig, DeadOnlyWhenExhausted, Busy, Idle

\* Taking a row's task away from its only holder keeps the rest of the invariant.
LEMMA OneTaskEnds ==
  ASSUME LeaseInv, TypeOK', NEW w \in Worker, NEW d \in Delivery, Busy(w, d),
         task' = [task EXCEPT ![w][d] = "none"],
         \A c \in Delivery : c # d => status'[c] = status[c] /\ due'[c] = due[c],
         UNCHANGED <<phase, config, seen, attempt>>
  PROVE  SingleInFlight' /\ InFlightIsCurrent' /\ BusyOnlyDelivering' /\ KnownConfig'
<1>1. ASSUME NEW v \in Worker, NEW c \in Delivery, Busy(v, c)'
      PROVE  Busy(v, c) /\ ~(v = w /\ c = d)
  <2>1. CASE v = w /\ c = d
    BY <1>1, <2>1 DEF Busy, LeaseInv, TypeOK
  <2>2. CASE ~(v = w /\ c = d)
    BY <1>1, <2>2 DEF Busy, LeaseInv, TypeOK
  <2> QED
    BY <2>1, <2>2
<1>2. ASSUME NEW v \in Worker, NEW c \in Delivery, Busy(v, c)' PROVE c # d
  BY <1>1, <1>2 DEF LeaseInv, SingleInFlight, Busy
<1>3. SingleInFlight'
  BY <1>1 DEF LeaseInv, SingleInFlight, Busy
<1>4. InFlightIsCurrent'
  BY <1>1, <1>2 DEF LeaseInv, InFlightIsCurrent, Busy
<1>5. BusyOnlyDelivering'
  BY <1>1 DEF LeaseInv, BusyOnlyDelivering
<1>6. KnownConfig'
  BY DEF LeaseInv, KnownConfig
<1> QED
  BY <1>3, <1>4, <1>5, <1>6

\* So does a change of a task's outcome that leaves the tables alone.
LEMMA OneTaskMoves ==
  ASSUME LeaseInv, NEW w \in Worker, NEW d \in Delivery, Busy(w, d),
         NEW r \in {"accepted", "rejected"},
         task' = [task EXCEPT ![w][d] = r],
         UNCHANGED <<status, due, phase, config, seen, attempt>>
  PROVE  SingleInFlight' /\ InFlightIsCurrent' /\ BusyOnlyDelivering' /\ KnownConfig'
         /\ DeadOnlyWhenExhausted'
<1>1. ASSUME NEW v \in Worker, NEW c \in Delivery, Busy(v, c)' PROVE Busy(v, c)
  <2>1. CASE v = w /\ c = d
    BY <2>1
  <2>2. CASE ~(v = w /\ c = d)
    BY <1>1, <2>2 DEF Busy, LeaseInv, TypeOK
  <2> QED
    BY <2>1, <2>2
<1> QED
  BY <1>1 DEF LeaseInv, SingleInFlight, InFlightIsCurrent, BusyOnlyDelivering, KnownConfig,
              DeadOnlyWhenExhausted, Busy

LEMMA ClaimLease ==
  ASSUME LeaseInv, NEW w \in Worker, ClaimDueDeliveries(w) PROVE LeaseInv'
<1>1. PICK C \in SUBSET Delivery :
        /\ \A d \in C : status[d] = "pending" /\ due[d]
        /\ attempt' = [d \in Delivery |-> IF d \in C THEN attempt[d] + 1 ELSE attempt[d]]
        /\ due' = [d \in Delivery |-> IF d \in C THEN FALSE ELSE due[d]]
        /\ task' = [task EXCEPT ![w] =
                      [d \in Delivery |-> IF d \in C THEN "post" ELSE "none"]]
        /\ seen' = [seen EXCEPT ![w] =
                      [d \in Delivery |-> IF d \in C THEN attempt[d] + 1 ELSE 0]]
  BY ClaimStep
<1>2. TypeOK'
  BY ClaimTypeOK DEF LeaseInv
<1>3. /\ phase[w] = "claim" /\ phase' = [phase EXCEPT ![w] = "deliver"]
      /\ UNCHANGED <<status, config>>
  BY DEF ClaimDueDeliveries
<1>4. \A d \in Delivery : ~Busy(w, d)
  BY <1>3 DEF LeaseInv, BusyOnlyDelivering
<1>5. \A v \in Worker : \A d \in Delivery : Busy(v, d) => d \notin C
  BY <1>1 DEF LeaseInv, InFlightIsCurrent, Busy
<1>6. \A v \in Worker : \A d \in Delivery :
        Busy(v, d)' => (v = w /\ d \in C) \/ (v # w /\ Busy(v, d))
  BY <1>1 DEF Busy, LeaseInv, TypeOK
<1>7. SingleInFlight'
  BY <1>5, <1>6 DEF LeaseInv, SingleInFlight, Busy
<1>8. InFlightIsCurrent'
  <2> SUFFICES ASSUME NEW v \in Worker, NEW d \in Delivery, Busy(v, d)'
               PROVE  status'[d] = "pending" /\ ~due'[d] /\ seen'[v][d] = attempt'[d]
    BY DEF InFlightIsCurrent, Busy
  <2>1. CASE v = w /\ d \in C
    BY <1>1, <1>3, <2>1 DEF LeaseInv, TypeOK
  <2>2. CASE v # w /\ Busy(v, d)
    BY <1>1, <1>3, <1>5, <2>2 DEF LeaseInv, TypeOK, InFlightIsCurrent, Busy
  <2> QED
    BY <1>6, <2>1, <2>2
<1>9. BusyOnlyDelivering'
  BY <1>3, <1>6 DEF LeaseInv, BusyOnlyDelivering, TypeOK
<1>10. KnownConfig'
  BY <1>3 DEF LeaseInv, KnownConfig, TypeOK
<1>11. DeadOnlyWhenExhausted'
  <2> SUFFICES ASSUME NEW d \in Delivery, status[d] = "dead"
               PROVE  attempt'[d] = attempt[d]
    BY <1>3 DEF LeaseInv, DeadOnlyWhenExhausted
  <2> QED
    BY <1>1
<1> QED
  BY <1>2, <1>7, <1>8, <1>9, <1>10, <1>11 DEF LeaseInv

LEMMA MarkLease ==
  ASSUME LeaseInv, NEW w \in Worker, NEW d \in Delivery, TypeOK',
         \/ MarkDeliveryDelivered(w, d) \/ MarkDeliveryRetryOrDead(w, d)
         \/ MarkUnsubscribed(w, d) \/ MarkFails(w, d)
  PROVE  LeaseInv'
<1>1. Busy(w, d)
  BY DEF MarkDeliveryDelivered, MarkDeliveryRetryOrDead, MarkUnsubscribed, MarkFails, Busy
<1>2. UNCHANGED <<phase, config, seen, attempt>> /\ Finish(w, d)
  BY DEF MarkDeliveryDelivered, MarkDeliveryRetryOrDead, MarkUnsubscribed, MarkFails, dbVars
<1>3. \A c \in Delivery : c # d => status'[c] = status[c] /\ due'[c] = due[c]
  <2>1. CASE MarkDeliveryDelivered(w, d)
    BY <2>1 DEF MarkDeliveryDelivered, LeaseInv, TypeOK
  <2>2. CASE MarkDeliveryRetryOrDead(w, d)
    BY <2>2 DEF MarkDeliveryRetryOrDead, RetryOrDead, LeaseInv, TypeOK
  <2>3. CASE MarkUnsubscribed(w, d)
    BY <2>3 DEF MarkUnsubscribed, RetryOrDead, LeaseInv, TypeOK
  <2>4. CASE MarkFails(w, d)
    BY <2>4 DEF MarkFails, dbVars
  <2> QED
    BY <2>1, <2>2, <2>3, <2>4
<1>4. status'[d] = "dead" =>
        \/ attempt[d] >= MaxAttempts
        \/ d \in MayLeave
  <2>1. CASE MarkDeliveryDelivered(w, d)
    BY <2>1 DEF MarkDeliveryDelivered, LeaseInv, TypeOK
  <2>2. CASE MarkDeliveryRetryOrDead(w, d)
    <3>1. seen[w][d] = attempt[d]
      BY <1>1 DEF LeaseInv, InFlightIsCurrent, Busy
    <3> QED
      BY <2>2, <3>1 DEF MarkDeliveryRetryOrDead, RetryOrDead, LeaseInv, TypeOK
  <2>3. CASE MarkUnsubscribed(w, d)
    <3>1. phase[w] = "deliver"
      BY <1>1 DEF LeaseInv, BusyOnlyDelivering
    <3>2. config[w] \in Configs
      BY <3>1 DEF LeaseInv, KnownConfig
    <3> QED
      BY <2>3, <3>2 DEF MarkUnsubscribed, Subscribed, MayLeave
  <2>4. CASE MarkFails(w, d)
    BY <2>4 DEF MarkFails, dbVars, LeaseInv, DeadOnlyWhenExhausted
  <2> QED
    BY <2>1, <2>2, <2>3, <2>4
<1>5. DeadOnlyWhenExhausted'
  BY <1>2, <1>3, <1>4 DEF LeaseInv, DeadOnlyWhenExhausted
<1> QED
  BY <1>1, <1>2, <1>3, <1>5, OneTaskEnds DEF LeaseInv, Finish

LEMMA StepLease == ~MayStall => (LeaseInv /\ [Next]_vars => LeaseInv')
<1> SUFFICES ASSUME ~MayStall, LeaseInv, [Next]_vars PROVE LeaseInv'
  OBVIOUS
<1>0. TypeOK'
  BY StepTypeOK DEF LeaseInv
<1> USE <1>0
<1>1. ASSUME NEW e \in Event, InsertEventTx(e) PROVE LeaseInv'
  BY <1>1 DEF InsertEventTx, workerVars, LeaseInv, SingleInFlight, InFlightIsCurrent,
              BusyOnlyDelivering, KnownConfig, DeadOnlyWhenExhausted, Busy
<1>2. ASSUME NEW d \in Delivery, RequeueDelivery(d) PROVE LeaseInv'
  <2>1. \A w \in Worker : ~Busy(w, d)
    BY <1>2 DEF RequeueDelivery, LeaseInv, InFlightIsCurrent, Busy
  <2>2. \A c \in Delivery : c # d =>
          status'[c] = status[c] /\ due'[c] = due[c] /\ attempt'[c] = attempt[c]
    BY <1>2 DEF RequeueDelivery, LeaseInv, TypeOK
  <2>3. InFlightIsCurrent'
    BY <1>2, <2>1, <2>2 DEF RequeueDelivery, workerVars, LeaseInv, InFlightIsCurrent, Busy
  <2>4. DeadOnlyWhenExhausted'
    <3>1. status'[d] = "pending"
      BY <1>2 DEF RequeueDelivery, LeaseInv, TypeOK
    <3> QED
      BY <2>2, <3>1 DEF LeaseInv, DeadOnlyWhenExhausted
  <2> QED
    BY <1>2, <2>3, <2>4 DEF RequeueDelivery, workerVars, LeaseInv, SingleInFlight,
                            BusyOnlyDelivering, KnownConfig, Busy
<1>3. ASSUME NEW d \in Delivery, BecomeDue(d) PROVE LeaseInv'
  <2>1. \A w \in Worker : ~Busy(w, d)
    BY <1>3 DEF BecomeDue, BeingDelivered, Busy
  <2>2. \A c \in Delivery : c # d => due'[c] = due[c]
    BY <1>3 DEF BecomeDue, LeaseInv, TypeOK
  <2>3. InFlightIsCurrent'
    BY <1>3, <2>1, <2>2 DEF BecomeDue, workerVars, LeaseInv, InFlightIsCurrent, Busy
  <2> QED
    BY <1>3, <2>3 DEF BecomeDue, workerVars, LeaseInv, SingleInFlight,
                      BusyOnlyDelivering, KnownConfig, DeadOnlyWhenExhausted, Busy
<1>4. ASSUME NEW w \in Worker, Boot(w) PROVE LeaseInv'
  <2>1. KnownConfig'
    BY <1>4 DEF Boot, LeaseInv, TypeOK, KnownConfig
  <2>2. BusyOnlyDelivering'
    BY <1>4 DEF Boot, LeaseInv, TypeOK, BusyOnlyDelivering, Busy
  <2> QED
    BY <1>4, <2>1, <2>2 DEF Boot, dbVars, LeaseInv, SingleInFlight, InFlightIsCurrent,
                            DeadOnlyWhenExhausted
<1>5. ASSUME NEW w \in Worker, Crash(w) PROVE LeaseInv'
  <2>1. \A v \in Worker : \A d \in Delivery : Busy(v, d)' => v # w /\ Busy(v, d)
    BY <1>5 DEF Crash, LeaseInv, TypeOK, Busy, Idle
  <2>2. \A v \in Worker : v # w => phase'[v] = phase[v] /\ seen'[v] = seen[v]
    BY <1>5 DEF Crash, LeaseInv, TypeOK
  <2>3. KnownConfig'
    BY <1>5 DEF Crash, LeaseInv, TypeOK, KnownConfig
  <2>4. UNCHANGED <<status, due, attempt>>
    BY <1>5 DEF Crash, dbVars
  <2>5. InFlightIsCurrent'
    BY <2>1, <2>2, <2>4 DEF LeaseInv, InFlightIsCurrent, Busy
  <2>6. SingleInFlight' /\ BusyOnlyDelivering' /\ DeadOnlyWhenExhausted'
    BY <2>1, <2>2, <2>4 DEF LeaseInv, SingleInFlight, BusyOnlyDelivering,
                            DeadOnlyWhenExhausted, Busy
  <2> QED
    BY <2>3, <2>5, <2>6 DEF LeaseInv
<1>6. ASSUME NEW w \in Worker, Tick(w) \/ CycleFails(w) PROVE LeaseInv'
  <2>1. /\ phase[w] \notin {"deliver", "down"}
        /\ \A v \in Worker : v # w => phase'[v] = phase[v]
    BY <1>6 DEF Tick, CycleFails, LeaseInv, TypeOK
  <2>2. UNCHANGED <<status, due, attempt, task, seen, config>>
    BY <1>6 DEF Tick, CycleFails, dbVars
  <2>3. BusyOnlyDelivering' /\ KnownConfig'
    BY <2>1, <2>2 DEF LeaseInv, BusyOnlyDelivering, KnownConfig, Busy
  <2> QED
    BY <2>2, <2>3 DEF LeaseInv, SingleInFlight, InFlightIsCurrent, DeadOnlyWhenExhausted
<1>7. ASSUME NEW w \in Worker, EndCycle(w) PROVE LeaseInv'
  <2>1. \A d \in Delivery : ~Busy(w, d)
    BY <1>7 DEF EndCycle, Busy, Idle
  <2>2. \A v \in Worker : v # w => phase'[v] = phase[v] /\ seen'[v] = seen[v]
    BY <1>7 DEF EndCycle, LeaseInv, TypeOK
  <2>3. UNCHANGED <<status, due, attempt, task, config>> /\ phase[w] # "down"
    BY <1>7 DEF EndCycle, dbVars
  <2>4. BusyOnlyDelivering' /\ KnownConfig'
    BY <2>1, <2>2, <2>3 DEF LeaseInv, BusyOnlyDelivering, KnownConfig, Busy
  <2>5. InFlightIsCurrent'
    BY <2>1, <2>2, <2>3 DEF LeaseInv, InFlightIsCurrent, Busy
  <2> QED
    BY <2>3, <2>4, <2>5 DEF LeaseInv, SingleInFlight, DeadOnlyWhenExhausted
<1>8. ASSUME NEW w \in Worker, ExpandPendingEvents(w) PROVE LeaseInv'
  <2>1. PICK E \in SUBSET Event :
          /\ status' = [d \in Delivery |->
                          IF d \in NewRows(w, E) THEN "pending" ELSE status[d]]
          /\ due' = [d \in Delivery |-> IF d \in NewRows(w, E) THEN TRUE ELSE due[d]]
    BY <1>8, ExpandStep
  <2>2. /\ UNCHANGED <<attempt, task, seen, config>>
        /\ phase[w] = "expand" /\ phase' = [phase EXCEPT ![w] = "claim"]
    BY <1>8 DEF ExpandPendingEvents
  <2>3. \A d \in Delivery : status[d] # "absent" =>
          status'[d] = status[d] /\ due'[d] = due[d]
    BY <2>1 DEF NewRows
  <2>4. InFlightIsCurrent'
    BY <2>2, <2>3 DEF LeaseInv, InFlightIsCurrent
  <2>5. DeadOnlyWhenExhausted'
    <3>1. \A d \in Delivery : status'[d] = "dead" => status[d] = "dead"
      BY <2>1
    <3> QED
      BY <2>2, <3>1 DEF LeaseInv, DeadOnlyWhenExhausted
  <2>6. BusyOnlyDelivering' /\ KnownConfig'
    BY <2>2 DEF LeaseInv, BusyOnlyDelivering, KnownConfig, Busy, TypeOK
  <2> QED
    BY <2>2, <2>4, <2>5, <2>6 DEF LeaseInv, SingleInFlight
<1>9. ASSUME NEW w \in Worker, NEW d \in Delivery, Post(w, d) \/ MarkDeliveredFails(w, d)
      PROVE  LeaseInv'
  <2>1. PICK r \in {"accepted", "rejected"} : task' = [task EXCEPT ![w][d] = r]
    BY <1>9 DEF Post, MarkDeliveredFails
  <2>2. Busy(w, d) /\ UNCHANGED <<status, due, phase, config, seen, attempt>>
    BY <1>9 DEF Post, MarkDeliveredFails, Busy, dbVars
  <2> QED
    BY <2>1, <2>2, OneTaskMoves DEF LeaseInv
<1>10. CASE UNCHANGED vars
  BY <1>10 DEF vars, LeaseInv, SingleInFlight, InFlightIsCurrent, BusyOnlyDelivering,
               KnownConfig, DeadOnlyWhenExhausted, Busy
<1> QED
  BY <1>1, <1>2, <1>3, <1>4, <1>5, <1>6, <1>7, <1>8, <1>9, <1>10, ClaimLease, MarkLease
  DEF Next, Settle

(* While workers mark within their lease, a delivery is in flight at one worker
   at most. *)
THEOREM LeaseExcludes == ~MayStall => (Spec => []SingleInFlight)
<1> SUFFICES ASSUME ~MayStall PROVE Spec => []SingleInFlight
  OBVIOUS
<1>1. LeaseInv /\ [Next]_vars => LeaseInv'
  BY StepLease
<1>2. LeaseInv => SingleInFlight
  BY DEF LeaseInv
<1> QED
  BY LeaseInit, <1>1, <1>2, PTL DEF Spec

(* ... and the dead letters are exhausted or unsubscribed ones: an old outcome
   never buries a replayed delivery. *)
THEOREM DeadIsExhausted == ~MayStall => (Spec => []DeadOnlyWhenExhausted)
<1> SUFFICES ASSUME ~MayStall PROVE Spec => []DeadOnlyWhenExhausted
  OBVIOUS
<1>1. LeaseInv /\ [Next]_vars => LeaseInv'
  BY StepLease
<1>2. LeaseInv => DeadOnlyWhenExhausted
  BY DEF LeaseInv
<1> QED
  BY LeaseInit, <1>1, <1>2, PTL DEF Spec

-----------------------------------------------------------------------------
(* Steps: no recorded outcome is undone, and the outbox keeps its promise. *)

\* In a step that marks, the marked row was pending.
LEMMA MarksPending ==
  ASSUME LeaseInv, NEW w \in Worker, NEW d \in Delivery, Busy(w, d)
  PROVE  status[d] = "pending"
BY DEF LeaseInv, InFlightIsCurrent, Busy

LEMMA StepRegress == LeaseInv /\ [Next]_vars => [NoStatusRegress]_vars
<1> SUFFICES ASSUME LeaseInv, Next PROVE NoStatusRegress
  BY DEF vars
<1>1. ASSUME NEW w \in Worker, ExpandPendingEvents(w) PROVE NoStatusRegress
  <2>1. PICK E \in SUBSET Event :
          status' = [d \in Delivery |-> IF d \in NewRows(w, E) THEN "pending" ELSE status[d]]
    BY <1>1, ExpandStep
  <2> QED
    BY <2>1 DEF NoStatusRegress, NewRows
<1>2. ASSUME NEW w \in Worker, NEW d \in Delivery,
             \/ MarkDeliveryDelivered(w, d) \/ MarkDeliveryRetryOrDead(w, d)
             \/ MarkUnsubscribed(w, d)
      PROVE  NoStatusRegress
  <2>1. status[d] = "pending"
    BY <1>2, MarksPending
    DEF MarkDeliveryDelivered, MarkDeliveryRetryOrDead, MarkUnsubscribed, Busy
  <2>2. \A c \in Delivery : c # d => status'[c] = status[c]
    BY <1>2 DEF MarkDeliveryDelivered, MarkDeliveryRetryOrDead, MarkUnsubscribed,
                RetryOrDead, LeaseInv, TypeOK
  <2> QED
    BY <2>1, <2>2 DEF NoStatusRegress
<1>3. ASSUME NEW d \in Delivery, RequeueDelivery(d) PROVE NoStatusRegress
  <2>1. \A c \in Delivery : c # d => status'[c] = status[c]
    BY <1>3 DEF RequeueDelivery, LeaseInv, TypeOK
  <2> QED
    BY <1>3, <2>1 DEF NoStatusRegress, RequeueDelivery
<1>4. CASE UNCHANGED status
  BY <1>4 DEF NoStatusRegress
<1> QED
  BY <1>1, <1>2, <1>3, <1>4
  DEF Next, Settle, dbVars, InsertEventTx, BecomeDue, Boot, Crash, Tick, CycleFails,
      ClaimDueDeliveries, EndCycle, Post, MarkFails, MarkDeliveredFails

(* While workers mark within their lease, what one of them has recorded is never
   undone by another: only an operator reopens a dead letter. *)
THEOREM NeverRegressesThm == ~MayStall => (Spec => NeverRegresses)
<1> SUFFICES ASSUME ~MayStall PROVE Spec => NeverRegresses
  OBVIOUS
<1>1. LeaseInv /\ [Next]_vars => LeaseInv'
  BY StepLease
<1> QED
  BY LeaseInit, <1>1, StepRegress, PTL DEF Spec, NeverRegresses

LEMMA Names == /\ SeenAs("absent") = "none" /\ SeenAs("pending") = "owed"
               /\ SeenAs("delivered") = "settled" /\ SeenAs("dead") = "dead"
BY DEF SeenAs

\* How a change of one row's status looks from the emitter's side.
LEMMA AbsRow ==
  ASSUME TypeOK, NEW d \in Delivery, NEW s \in {"pending", "delivered", "dead"},
         status' = [status EXCEPT ![d] = s]
  PROVE  AbsState' = [AbsState EXCEPT ![d] = SeenAs(s)]
<1>1. \A c \in Delivery : status'[c] = IF c = d THEN s ELSE status[c]
  BY DEF TypeOK
<1>2. AbsState' = [c \in Delivery |-> IF c = d THEN SeenAs(s) ELSE SeenAs(status[c])]
  <2>1. AbsState' = [c \in Delivery |-> SeenAs(status'[c])]
    BY DEF AbsState
  <2>2. \A c \in Delivery :
          SeenAs(status'[c]) = IF c = d THEN SeenAs(s) ELSE SeenAs(status[c])
    BY <1>1
  <2> QED
    BY <2>1, <2>2
<1>3. [AbsState EXCEPT ![d] = SeenAs(s)]
        = [c \in Delivery |-> IF c = d THEN SeenAs(s) ELSE SeenAs(status[c])]
  BY DEF AbsState
<1> QED
  BY <1>2, <1>3

LEMMA StepPromise ==
  LeaseInv /\ LeaseInv' /\ HistInv /\ [Next]_vars => [Promise!Next]_(Promise!vars)
<1> SUFFICES ASSUME LeaseInv, LeaseInv', HistInv, [Next]_vars,
                    ~(UNCHANGED <<AbsState, accepted, attempt>>)
             PROVE  Promise!Next
  BY DEF Promise!vars
<1> USE DEF Promise!Next, Promise!Owe, Promise!Try, Promise!Accept, Promise!Settle, Promise!GiveUp,
            Promise!Reopen
<1> USE Names
<1>0. TypeOK
  BY DEF LeaseInv
<1>1. ASSUME UNCHANGED <<status, accepted, attempt>> PROVE FALSE
  BY <1>1 DEF AbsState
<1>2. ASSUME NEW w \in Worker, ExpandPendingEvents(w) PROVE Promise!Next
  <2>1. PICK E \in SUBSET Event :
          status' = [d \in Delivery |-> IF d \in NewRows(w, E) THEN "pending" ELSE status[d]]
    BY <1>2, ExpandStep
  <2>2. NewRows(w, E) \in SUBSET {d \in Delivery : AbsState[d] = "none"}
    BY DEF NewRows, AbsState
  <2>3. AbsState' = [d \in Delivery |-> IF d \in NewRows(w, E) THEN "owed" ELSE AbsState[d]]
    BY <2>1 DEF AbsState
  <2>4. UNCHANGED <<accepted, attempt>>
    BY <1>2 DEF ExpandPendingEvents
  <2> QED
    BY <2>2, <2>3, <2>4
<1>3. ASSUME NEW d \in Delivery, RequeueDelivery(d) PROVE Promise!Next
  <2>1. AbsState[d] = "dead" /\ AbsState' = [AbsState EXCEPT ![d] = "owed"]
    BY <1>0, <1>3, AbsRow DEF RequeueDelivery, AbsState
  <2>2. accepted' = accepted /\ attempt' = [attempt EXCEPT ![d] = 0]
    BY <1>3 DEF RequeueDelivery, histVars
  <2> QED
    BY <2>1, <2>2
<1>4. ASSUME NEW w \in Worker, NEW d \in Delivery, Post(w, d) PROVE Promise!Next
  <2>1. AbsState[d] = "owed"
    BY <1>4, MarksPending DEF Post, Busy, AbsState
  <2>2. UNCHANGED <<status, attempt, AbsState>>
    BY <1>4 DEF Post, dbVars, AbsState
  <2> QED
    BY <1>1, <1>4, <2>1, <2>2 DEF Post
<1>5. ASSUME NEW w \in Worker, NEW d \in Delivery, MarkDeliveryDelivered(w, d)
      PROVE  Promise!Next
  <2>1. AbsState[d] = "owed" /\ d \in accepted
    BY <1>5, MarksPending DEF MarkDeliveryDelivered, Busy, AbsState, HistInv, AcceptedIsHonest
  <2>2. AbsState' = [AbsState EXCEPT ![d] = "settled"] /\ UNCHANGED <<accepted, attempt>>
    BY <1>0, <1>5, AbsRow DEF MarkDeliveryDelivered, histVars
  <2> QED
    BY <2>1, <2>2
<1>6. ASSUME NEW w \in Worker, NEW d \in Delivery,
             MarkDeliveryRetryOrDead(w, d) \/ MarkUnsubscribed(w, d)
      PROVE  Promise!Next
  <2>1. status[d] = "pending" /\ AbsState[d] = "owed" /\ UNCHANGED <<accepted, attempt>>
    BY <1>6, MarksPending
    DEF MarkDeliveryRetryOrDead, MarkUnsubscribed, Busy, AbsState, histVars
  <2>2. CASE status' = [status EXCEPT ![d] = "dead"]
    <3>1. AbsState' = [AbsState EXCEPT ![d] = "dead"]
      BY <1>0, <2>2, AbsRow
    <3>2. attempt[d] >= MaxAttempts \/ d \in MayLeave
      <4>1. status'[d] = "dead"
        BY <1>0, <2>2 DEF TypeOK
      <4>2. attempt'[d] >= MaxAttempts \/ d \in MayLeave
        BY <4>1 DEF LeaseInv, DeadOnlyWhenExhausted
      <4> QED
        BY <2>1, <4>2
    <3> QED
      BY <2>1, <3>1, <3>2
  <2>3. CASE status' = [status EXCEPT ![d] = "pending"]
    BY <1>0, <1>1, <2>1, <2>3 DEF TypeOK
  <2> QED
    BY <1>6, <2>2, <2>3 DEF MarkDeliveryRetryOrDead, MarkUnsubscribed, RetryOrDead
<1>7. ASSUME NEW w \in Worker, ClaimDueDeliveries(w) PROVE Promise!Next
  <2>1. PICK C \in SUBSET Delivery :
          /\ \A d \in C : status[d] = "pending"
          /\ attempt' = [d \in Delivery |-> IF d \in C THEN attempt[d] + 1 ELSE attempt[d]]
    BY <1>7, ClaimStep
  <2>2. C \in SUBSET {d \in Delivery : AbsState[d] = "owed"}
    BY <2>1 DEF AbsState
  <2>3. UNCHANGED <<AbsState, accepted>>
    BY <1>7 DEF ClaimDueDeliveries, histVars, AbsState
  <2> QED
    BY <2>1, <2>2, <2>3
<1> QED
  BY <1>1, <1>2, <1>3, <1>4, <1>5, <1>6, <1>7
  DEF Next, Settle, vars, dbVars, histVars, InsertEventTx, BecomeDue, Boot, Crash, Tick,
      CycleFails, EndCycle, MarkFails, MarkDeliveredFails

(* The outbox implements the at-least-once promise of EventDelivery, for every
   number of containers, while workers mark within their lease. *)
THEOREM KeepsPromise == ~MayStall => (Spec => ImplementsPromise)
<1> SUFFICES ASSUME ~MayStall PROVE Spec => Promise!Spec
  BY DEF ImplementsPromise
<1>1. Init => Promise!Init
  BY Names DEF Init, Promise!Init, AbsState, Zero
<1>2. LeaseInv /\ [Next]_vars => LeaseInv'
  BY StepLease
<1> QED
  BY LeaseInit, HistInit, <1>1, <1>2, StepHist, StepPromise, PTL DEF Spec, Promise!Spec
=============================================================================
