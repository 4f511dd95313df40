------------------------------- MODULE Outbox -------------------------------
(***************************************************************************)
(* The event outbox: src/src/events/outbox.ts (the tables event_outbox and *)
(* event_outbox_deliveries) and src/src/events/dispatcher.ts (the poller). *)
(* Several workers run at once: a rolling deploy keeps the old container   *)
(* alive while the new one starts, both polling the same Postgres.         *)
(*                                                                         *)
(* Time is abstracted: due[d] stands for next_attempt_at <= NOW(), and     *)
(* BecomeDue(d) is the passing of the 60 s lease or of the backoff.        *)
(* MayStall = FALSE says that a worker always marks its delivery before    *)
(* the lease runs out (10 s of HTTP timeout against 60 s of lease);        *)
(* MayStall = TRUE lets the lease run out under a live worker.             *)
(***************************************************************************)
EXTENDS Integers, FiniteSets

CONSTANTS Event, Subscriber, Worker,
          MaxAttempts,   \* OUTBOX_MAX_ATTEMPTS
          Batch,         \* OUTBOX_POLLER_BATCH_SIZE
          Configs,       \* the values EVENT_SUBSCRIBERS_JSON takes across deploys
          MayStall,
          MaxFaults,     \* bound: crashes and failed database calls
          MaxReplays     \* bound: operator replays

ASSUME OutboxAssumption ==
  /\ MaxAttempts \in Nat \ {0}
  /\ Batch \in Nat \ {0}
  /\ Configs \subseteq [Event -> SUBSET Subscriber]
  /\ MayStall \in BOOLEAN
  /\ MaxFaults \in Nat /\ MaxReplays \in Nat

Delivery == Event \X Subscriber

VARIABLES
  outbox,     \* event_outbox: has the row been inserted, has it been dispatched
  status,     \* event_outbox_deliveries.status, "absent" before the row exists
  attempt,    \* event_outbox_deliveries.attempt_count
  due,        \* next_attempt_at <= NOW()
  phase,      \* where each worker's cycle is; the running flag is phase # "idle"
  config,     \* the subscriber map each worker booted with
  task,       \* deliver(row) in progress for a claimed row, per worker
  seen,       \* row.attempt_count of the claimed row, per worker
  accepted,   \* history: deliveries some POST of which the subscriber accepted
  expected,   \* history: the subscribers configured when the event was expanded
  faults, replays

dbVars     == <<outbox, status, attempt, due>>
workerVars == <<phase, config, task, seen>>
histVars   == <<accepted, expected>>
vars == <<outbox, status, attempt, due, phase, config, task, seen,
          accepted, expected, faults, replays>>

Idle == [d \in Delivery |-> "none"]
Zero == [d \in Delivery |-> 0]

TypeOK ==
  /\ outbox   \in [Event -> {"absent", "undispatched", "dispatched"}]
  /\ status   \in [Delivery -> {"absent", "pending", "delivered", "dead"}]
  /\ attempt  \in [Delivery -> Nat]
  /\ due      \in [Delivery -> BOOLEAN]
  /\ phase    \in [Worker -> {"down", "idle", "expand", "claim", "deliver"}]
  /\ config   \in [Worker -> [Event -> SUBSET Subscriber]]
  /\ task     \in [Worker -> [Delivery -> {"none", "post", "accepted", "rejected"}]]
  /\ seen     \in [Worker -> [Delivery -> Nat]]
  /\ accepted \subseteq Delivery
  /\ expected \in [Event -> SUBSET Subscriber]
  /\ faults \in Nat /\ replays \in Nat

Init ==
  /\ outbox = [e \in Event |-> "absent"]
  /\ status = [d \in Delivery |-> "absent"]
  /\ attempt = Zero
  /\ due = [d \in Delivery |-> FALSE]
  /\ phase = [w \in Worker |-> "down"]
  /\ config = [w \in Worker |-> [e \in Event |-> {}]]
  /\ task = [w \in Worker |-> Idle]
  /\ seen = [w \in Worker |-> Zero]
  /\ accepted = {}
  /\ expected = [e \in Event |-> {}]
  /\ faults = 0 /\ replays = 0

-----------------------------------------------------------------------------
(* The emitter and the operator. *)

\* The event row commits with the transaction of whoever emits it.
InsertEventTx(e) ==
  /\ outbox[e] = "absent"
  /\ outbox' = [outbox EXCEPT ![e] = "undispatched"]
  /\ UNCHANGED <<status, attempt, due, workerVars, histVars, faults, replays>>

\* Admin replay of a dead letter: fresh attempts, due at once.
RequeueDelivery(d) ==
  /\ status[d] = "dead" /\ replays < MaxReplays
  /\ status' = [status EXCEPT ![d] = "pending"]
  /\ attempt' = [attempt EXCEPT ![d] = 0]
  /\ due' = [due EXCEPT ![d] = TRUE]
  /\ replays' = replays + 1
  /\ UNCHANGED <<outbox, workerVars, histVars, faults>>

-----------------------------------------------------------------------------
(* The clock. *)

BeingDelivered(d) == \E w \in Worker : task[w][d] # "none"

BecomeDue(d) ==
  /\ status[d] = "pending" /\ ~due[d]
  /\ MayStall \/ ~BeingDelivered(d)
  /\ due' = [due EXCEPT ![d] = TRUE]
  /\ UNCHANGED <<outbox, status, attempt, workerVars, histVars, faults, replays>>

-----------------------------------------------------------------------------
(* The poller's cycle: expand, claim, deliver every claimed row, settle. *)

Boot(w) ==
  /\ phase[w] = "down"
  /\ phase' = [phase EXCEPT ![w] = "idle"]
  /\ \E c \in Configs : config' = [config EXCEPT ![w] = c]
  /\ UNCHANGED <<dbVars, task, seen, histVars, faults, replays>>

\* The process dies (deploy, crash): what it was delivering is forgotten.
Crash(w) ==
  /\ phase[w] # "down" /\ faults < MaxFaults
  /\ phase' = [phase EXCEPT ![w] = "down"]
  /\ task' = [task EXCEPT ![w] = Idle]
  /\ seen' = [seen EXCEPT ![w] = Zero]
  /\ faults' = faults + 1
  /\ UNCHANGED <<dbVars, config, histVars, replays>>

\* The interval fires; a cycle still running makes the tick return early.
Tick(w) ==
  /\ phase[w] = "idle"
  /\ phase' = [phase EXCEPT ![w] = "expand"]
  /\ UNCHANGED <<dbVars, config, task, seen, histVars, faults, replays>>

\* expandPendingEvents or claimDueDeliveries throws: the cycle is abandoned.
CycleFails(w) ==
  /\ phase[w] \in {"expand", "claim"} /\ faults < MaxFaults
  /\ phase' = [phase EXCEPT ![w] = "idle"]
  /\ faults' = faults + 1
  /\ UNCHANGED <<dbVars, config, task, seen, histVars, replays>>

Undispatched == {e \in Event : outbox[e] = "undispatched"}

\* As many of S as one batch takes (the order of the queue is abstracted).
BatchOf(S) == {B \in SUBSET S : \/ B = S /\ Cardinality(S) <= Batch
                                \/ Cardinality(B) = Batch}

\* Mutant: a conflict target without the subscriber, ON CONFLICT (event_id).
NewRowsPerEvent(w, E) ==
  {d \in Delivery : /\ d[1] \in E /\ d[2] = CHOOSE s \in config[w][d[1]] : TRUE
                    /\ status[d] = "absent"}

\* The rows the INSERT ... ON CONFLICT DO NOTHING adds: worker w's configuration
\* asks for them, for the events in E, and they are not there yet.
NewRows(w, E) == {d \in Delivery : /\ d[1] \in E /\ d[2] \in config[w][d[1]]
                                   /\ status[d] = "absent"}

\* One transaction: insert the delivery rows and stamp dispatched_at.
ExpandPendingEvents(w) ==
  /\ phase[w] = "expand"
  /\ phase' = [phase EXCEPT ![w] = "claim"]
  /\ \E E \in BatchOf(Undispatched) :
       /\ status' = [d \in Delivery |-> IF d \in NewRows(w, E) THEN "pending" ELSE status[d]]
       /\ due' = [d \in Delivery |-> IF d \in NewRows(w, E) THEN TRUE ELSE due[d]]
       /\ outbox' = [e \in Event |-> IF e \in E THEN "dispatched" ELSE outbox[e]]
       /\ expected' = [e \in Event |-> IF e \in E THEN config[w][e] ELSE expected[e]]
  /\ UNCHANGED <<attempt, config, task, seen, accepted, faults, replays>>

\* Mutants: a claim without the lease, and one that never reclaims a lost row.
ClaimableLeased  == {d \in Delivery : status[d] = "pending"}
ClaimableOnce    == {d \in Delivery : status[d] = "pending" /\ due[d] /\ attempt[d] = 0}

Claimable == {d \in Delivery : status[d] = "pending" /\ due[d]}

\* One UPDATE over FOR UPDATE SKIP LOCKED: the row leaves the due set for 60 s.
ClaimDueDeliveries(w) ==
  /\ phase[w] = "claim"
  /\ phase' = [phase EXCEPT ![w] = "deliver"]
  /\ \E C \in BatchOf(Claimable) :
       /\ attempt' = [d \in Delivery |-> IF d \in C THEN attempt[d] + 1 ELSE attempt[d]]
       /\ due' = [d \in Delivery |-> IF d \in C THEN FALSE ELSE due[d]]
       /\ task' = [task EXCEPT ![w] = [d \in Delivery |-> IF d \in C THEN "post" ELSE "none"]]
       /\ seen' = [seen EXCEPT ![w] =
                     [d \in Delivery |-> IF d \in C THEN attempt[d] + 1 ELSE 0]]
  /\ UNCHANGED <<outbox, status, config, histVars, faults, replays>>

-----------------------------------------------------------------------------
(* deliver(row): look the subscriber up, POST, record the outcome. *)

Finish(w, d) == task' = [task EXCEPT ![w][d] = "none"]

Subscribed(w, d) == d[2] \in config[w][d[1]]

\* The POST: accepted, refused, or accepted with the answer lost (timeout).
Post(w, d) ==
  /\ task[w][d] = "post" /\ Subscribed(w, d)
  /\ \/ /\ accepted' = accepted \union {d}
        /\ \E r \in {"accepted", "rejected"} : task' = [task EXCEPT ![w][d] = r]
     \/ /\ task' = [task EXCEPT ![w][d] = "rejected"]
        /\ UNCHANGED accepted
  /\ UNCHANGED <<dbVars, phase, config, seen, expected, faults, replays>>

\* Mutant: r.ok is not looked at.
MarkDeliveredUnchecked(w, d) ==
  /\ task[w][d] \in {"accepted", "rejected"}
  /\ status' = [status EXCEPT ![d] = "delivered"]
  /\ Finish(w, d)
  /\ UNCHANGED <<outbox, attempt, due, phase, config, seen, histVars, faults, replays>>

MarkDeliveryDelivered(w, d) ==
  /\ task[w][d] = "accepted"
  /\ status' = [status EXCEPT ![d] = "delivered"]
  /\ Finish(w, d)
  /\ UNCHANGED <<outbox, attempt, due, phase, config, seen, histVars, faults, replays>>

\* Mutant: the attempt that was just made is counted twice.
RetryOrDeadEarly(d, n) ==
  IF n + 1 >= MaxAttempts
  THEN /\ status' = [status EXCEPT ![d] = "dead"]
       /\ UNCHANGED due
  ELSE /\ status' = [status EXCEPT ![d] = "pending"]
       /\ due' = [due EXCEPT ![d] = FALSE]

\* The UPDATE ... WHERE id = $1 asks nothing of the row's current status.
RetryOrDead(d, n) ==
  IF n >= MaxAttempts
  THEN /\ status' = [status EXCEPT ![d] = "dead"]
       /\ UNCHANGED due
  ELSE /\ status' = [status EXCEPT ![d] = "pending"]
       /\ due' = [due EXCEPT ![d] = FALSE]

MarkDeliveryRetryOrDead(w, d) ==
  /\ task[w][d] = "rejected"
  /\ RetryOrDead(d, seen[w][d])
  /\ Finish(w, d)
  /\ UNCHANGED <<outbox, attempt, phase, config, seen, histVars, faults, replays>>

\* The subscriber left the configuration after the expansion: dead at once.
MarkUnsubscribed(w, d) ==
  /\ task[w][d] = "post" /\ ~Subscribed(w, d)
  /\ RetryOrDead(d, MaxAttempts)
  /\ Finish(w, d)
  /\ UNCHANGED <<outbox, attempt, phase, config, seen, histVars, faults, replays>>

\* markDeliveryDelivered throws: the catch block treats it as a failed POST.
MarkDeliveredFails(w, d) ==
  /\ task[w][d] = "accepted" /\ faults < MaxFaults
  /\ task' = [task EXCEPT ![w][d] = "rejected"]
  /\ faults' = faults + 1
  /\ UNCHANGED <<dbVars, phase, config, seen, histVars, replays>>

\* markDeliveryRetryOrDead throws: allSettled swallows it, the row stays leased.
MarkFails(w, d) ==
  /\ \/ task[w][d] = "rejected"
     \/ task[w][d] = "post" /\ ~Subscribed(w, d)
  /\ faults < MaxFaults
  /\ Finish(w, d)
  /\ faults' = faults + 1
  /\ UNCHANGED <<dbVars, phase, config, seen, histVars, replays>>

\* Every deliver() has settled: the running flag is cleared.
EndCycle(w) ==
  /\ phase[w] = "deliver" /\ task[w] = Idle
  /\ phase' = [phase EXCEPT ![w] = "idle"]
  /\ seen' = [seen EXCEPT ![w] = Zero]
  /\ UNCHANGED <<dbVars, config, task, histVars, faults, replays>>

Settle(w, d) == \/ Post(w, d)
                \/ MarkDeliveryDelivered(w, d)
                \/ MarkDeliveryRetryOrDead(w, d)
                \/ MarkUnsubscribed(w, d)

Next ==
  \/ \E e \in Event : InsertEventTx(e)
  \/ \E d \in Delivery : RequeueDelivery(d) \/ BecomeDue(d)
  \/ \E w \in Worker :
       \/ Boot(w) \/ Crash(w) \/ Tick(w) \/ CycleFails(w)
       \/ ExpandPendingEvents(w) \/ ClaimDueDeliveries(w) \/ EndCycle(w)
       \/ \E d \in Delivery :
            Settle(w, d) \/ MarkDeliveredFails(w, d) \/ MarkFails(w, d)

Spec == Init /\ [][Next]_vars

\* The container is restarted, the interval keeps firing, fetch ends within its
\* 10 s timeout, database calls return, and the clock runs.
Fairness ==
  /\ \A d \in Delivery : WF_vars(BecomeDue(d))
  /\ \A w \in Worker :
       /\ WF_vars(Boot(w)) /\ WF_vars(Tick(w))
       /\ WF_vars(ExpandPendingEvents(w)) /\ WF_vars(ClaimDueDeliveries(w))
       /\ WF_vars(EndCycle(w))
       /\ \A d \in Delivery : WF_vars(Settle(w, d))

FairSpec == Spec /\ Fairness

-----------------------------------------------------------------------------
(* Properties. *)

(* No lost event (outbox.ts:30-32, "crash nunca deixa evento despachado sem
   entregas"): an event stamped dispatched has a delivery row for every
   subscriber that was configured when it was expanded. *)
DispatchedHasDeliveries ==
  \A e \in Event : outbox[e] = "dispatched" =>
    \A s \in expected[e] : status[<<e, s>>] # "absent"

(* A delivery recorded as delivered was accepted by its subscriber, whatever
   crashes, lost answers and stale workers did in between. *)
DeliveredMeansAccepted ==
  \A d \in Delivery : status[d] = "delivered" => d \in accepted

(* While workers mark within their lease, no delivery is being posted by two
   workers at once: the claim is the only mutual exclusion there is. *)
SingleInFlight ==
  \A d \in Delivery : \A v, w \in Worker :
    task[v][d] # "none" /\ task[w][d] # "none" => v = w

(* A delivery in flight belongs to a row that is still pending and not due, and
   to its latest attempt: what a worker is about to write is not stale. *)
InFlightIsCurrent ==
  \A w \in Worker : \A d \in Delivery : task[w][d] # "none" =>
    /\ status[d] = "pending" /\ ~due[d]
    /\ seen[w][d] = attempt[d]

MayLeave == {d \in Delivery : \E c \in Configs : d[2] \notin c[d[1]]}

(* The dead-letter queue holds exhausted deliveries only: either the row has
   used its attempts, or some worker may run with a configuration in which the
   subscriber is gone. A replayed delivery is therefore never buried again by
   the outcome of an attempt made before the replay. *)
DeadOnlyWhenExhausted ==
  \A d \in Delivery : status[d] = "dead" =>
    \/ attempt[d] >= MaxAttempts
    \/ d \in MayLeave

(* No worker undoes what another has recorded: a delivered row keeps that
   status, and only the operator's replay takes a row out of the dead letters. *)
NoStatusRegress ==
  \A d \in Delivery :
    /\ status[d] = "delivered" => status'[d] = "delivered"
    /\ status[d] = "dead" /\ status'[d] # "dead" => replays' = replays + 1
NeverRegresses == [][NoStatusRegress]_vars

(* Every event that commits is eventually dispatched and each of its deliveries
   ends up delivered or dead, for good or until an operator replays it, however
   the workers crash. *)
Settled(e) == /\ outbox[e] = "dispatched"
              /\ \A s \in expected[e] : status[<<e, s>>] \in {"delivered", "dead"}
EventuallySettled ==
  \A e \in Event : outbox[e] # "absent" ~> []Settled(e)

\* The outbox implements the promise made to its emitters.
SeenAs(s) == CASE s = "absent"    -> "none"
               [] s = "pending"   -> "owed"
               [] s = "delivered" -> "settled"
               [] s = "dead"      -> "dead"
AbsState == [d \in Delivery |-> SeenAs(status[d])]
Promise == INSTANCE EventDelivery WITH state <- AbsState, tries <- attempt, Leaving <- MayLeave

(* Refinement: seen from the emitter, the tables and the workers together do
   nothing but owe, try, accept, settle, give up and reopen deliveries, and give
   up only what has had its attempts or has lost its subscriber. *)
ImplementsPromise == Promise!Spec
=============================================================================
