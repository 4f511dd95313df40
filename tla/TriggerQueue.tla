---------------------------- MODULE TriggerQueue ----------------------------
(***************************************************************************)
(* Waking an agent for the messages of one conversation: the webhook       *)
(* handler writes the inbox row and enqueues a trigger (webhook/routes.ts),*)
(* pending_triggers debounces bursts into one row (db.ts), and the poller  *)
(* fires the row at the agent over HTTP (triggers/poller.ts). The agent    *)
(* is outside the repository: a trigger makes it read every unread inbox   *)
(* row of the conversation.                                                *)
(*                                                                         *)
(* Rows of different conversations share nothing but the batch, so one     *)
(* conversation is modelled, with the meeting_reconcile rows that bypass   *)
(* the debounce. A row is named after the message that created it.         *)
(* Time: due[r] is scheduled_at <= NOW(). MayStall = FALSE says that a     *)
(* fire (5 s of HTTP) is marked before the row becomes due again, by its   *)
(* 60 s lease or by a message that pushed scheduled_at.                    *)
(***************************************************************************)
EXTENDS Integers, FiniteSets

CONSTANTS Msg, Reconcile, Worker,
          MaxAttempts,   \* TRIGGER_POLLER_MAX_ATTEMPTS
          Batch,         \* TRIGGER_POLLER_BATCH_SIZE
          HasUrl,        \* the workers whose AGENT_TOKENS_JSON has a trigger_url
          MayStall,
          Redelivered,   \* bound: the messages Evolution may deliver again
          MaxFaults      \* bound: crashes and failed database calls

ASSUME TriggerAssumption ==
  /\ Msg \cap Reconcile = {}
  /\ MaxAttempts \in Nat \ {0} /\ Batch \in Nat \ {0}
  /\ HasUrl \subseteq Worker /\ Redelivered \subseteq Msg
  /\ MayStall \in BOOLEAN /\ MaxFaults \in Nat

Row == Msg \union Reconcile

VARIABLES
  inbox,      \* webhook_logs: processed_at
  hook,       \* the webhook request that first brought each message
  rowOf,      \* history: the rows (none or one) each message was enqueued in
  status,     \* pending_triggers.status, "absent" before the row exists
  attempt,    \* pending_triggers.attempt_count
  due,        \* scheduled_at <= NOW()
  phase,      \* each worker: down, idle, or with its running flag set
  fire,       \* fireTrigger(row) in progress, per worker
  seen,       \* row.attempt_count of the claimed row, per worker
  woken,      \* the agent has been triggered and has not read its inbox yet
  told,       \* history: reconcile events POSTed to the agent
  absorbed,   \* history: messages upserted into a row while it was being fired
  skipped,    \* history: messages whose redelivery was answered as a duplicate
  faults

rowVars  == <<status, attempt, due>>
workVars == <<phase, fire, seen>>
msgVars  == <<inbox, hook, rowOf, absorbed, skipped>>
vars == <<inbox, hook, rowOf, status, attempt, due, phase, fire, seen,
          woken, told, absorbed, skipped, faults>>

Idle == [r \in Row |-> "none"]
Zero == [r \in Row |-> 0]

TypeOK ==
  /\ inbox   \in [Msg -> {"none", "unread", "read"}]
  /\ hook    \in [Msg -> {"none", "enqueue", "done", "lost"}]
  /\ rowOf   \in [Msg -> SUBSET Msg]
  /\ status  \in [Row -> {"absent", "pending", "fired", "failed"}]
  /\ attempt \in [Row -> Nat]
  /\ due     \in [Row -> BOOLEAN]
  /\ phase   \in [Worker -> {"down", "idle", "running"}]
  /\ fire    \in [Worker -> [Row -> {"none", "post", "ok", "bad"}]]
  /\ seen    \in [Worker -> [Row -> Nat]]
  /\ woken \in BOOLEAN
  /\ told \subseteq Reconcile
  /\ absorbed \subseteq Msg /\ skipped \subseteq Msg
  /\ faults \in Nat

Init ==
  /\ inbox = [m \in Msg |-> "none"] /\ hook = [m \in Msg |-> "none"]
  /\ rowOf = [m \in Msg |-> {}]
  /\ status = [r \in Row |-> "absent"]
  /\ attempt = Zero
  /\ due = [r \in Row |-> FALSE]
  /\ phase = [w \in Worker |-> "down"]
  /\ fire = [w \in Worker |-> Idle]
  /\ seen = [w \in Worker |-> Zero]
  /\ woken = FALSE
  /\ told = {} /\ absorbed = {} /\ skipped = {}
  /\ faults = 0

-----------------------------------------------------------------------------
(* The webhook handler. *)

\* logWebhook inserts the inbox row: a new message.
LogWebhook(m) ==
  /\ inbox[m] = "none"
  /\ inbox' = [inbox EXCEPT ![m] = "unread"]
  /\ hook' = [hook EXCEPT ![m] = "enqueue"]
  /\ UNCHANGED <<rowOf, absorbed, skipped, rowVars, workVars, woken, told, faults>>

\* Evolution delivers the event again: duplicate, answered without a trigger.
Redelivery(m) ==
  /\ m \in Redelivered \ skipped /\ inbox[m] # "none"
  /\ skipped' = skipped \union {m}
  /\ UNCHANGED <<inbox, hook, rowOf, absorbed, rowVars, workVars, woken, told, faults>>

\* Mutant: an index without WHERE status = 'pending' joins closed rows.
AnyInboxRows == {r \in Msg : status[r] # "absent"}

OpenInboxRows == {r \in Msg : status[r] = "pending"}

BeingFired(r) == \E w \in Worker : fire[w][r] # "none"

\* The upsert on the partial unique index: join the pending row and push its
\* scheduled_at, or open a row.
EnqueuePendingTrigger(m) ==
  /\ hook[m] = "enqueue"
  /\ hook' = [hook EXCEPT ![m] = "done"]
  /\ \/ \E r \in OpenInboxRows :
          /\ due' = [due EXCEPT ![r] = FALSE]
          /\ rowOf' = [rowOf EXCEPT ![m] = {r}]
          /\ absorbed' = IF BeingFired(r) THEN absorbed \union {m} ELSE absorbed
          /\ UNCHANGED <<status, attempt>>
     \/ /\ OpenInboxRows = {}
        /\ status' = [status EXCEPT ![m] = "pending"]
        /\ rowOf' = [rowOf EXCEPT ![m] = {m}]
        /\ UNCHANGED <<attempt, due, absorbed>>
  /\ UNCHANGED <<inbox, skipped, workVars, woken, told, faults>>

\* The upsert throws (logged only), or the process dies before it.
EnqueueLost(m) ==
  /\ hook[m] = "enqueue" /\ faults < MaxFaults
  /\ hook' = [hook EXCEPT ![m] = "lost"]
  /\ faults' = faults + 1
  /\ UNCHANGED <<inbox, rowOf, absorbed, skipped, rowVars, workVars, woken, told>>

\* A cancelled or moved meeting: always a row of its own, due at once.
EnqueueReconcileTrigger(r) ==
  /\ status[r] = "absent"
  /\ status' = [status EXCEPT ![r] = "pending"]
  /\ due' = [due EXCEPT ![r] = TRUE]
  /\ UNCHANGED <<attempt, msgVars, workVars, woken, told, faults>>

-----------------------------------------------------------------------------
(* The clock and the agent. *)

BecomeDue(r) ==
  /\ status[r] = "pending" /\ ~due[r]
  /\ MayStall \/ ~BeingFired(r)
  /\ due' = [due EXCEPT ![r] = TRUE]
  /\ UNCHANGED <<status, attempt, msgVars, workVars, woken, told, faults>>

\* A triggered agent reads the inbox and processes what is unread at that time.
AgentReads ==
  /\ woken
  /\ woken' = FALSE
  /\ inbox' = [m \in Msg |-> IF inbox[m] = "unread" THEN "read" ELSE inbox[m]]
  /\ UNCHANGED <<hook, rowOf, absorbed, skipped, rowVars, workVars, told, faults>>

-----------------------------------------------------------------------------
(* The poller. *)

Boot(w) ==
  /\ phase[w] = "down"
  /\ phase' = [phase EXCEPT ![w] = "idle"]
  /\ UNCHANGED <<rowVars, fire, seen, msgVars, woken, told, faults>>

Crash(w) ==
  /\ phase[w] # "down" /\ faults < MaxFaults
  /\ phase' = [phase EXCEPT ![w] = "down"]
  /\ fire' = [fire EXCEPT ![w] = Idle]
  /\ seen' = [seen EXCEPT ![w] = Zero]
  /\ faults' = faults + 1
  /\ UNCHANGED <<rowVars, msgVars, woken, told>>

\* Mutants: a claim without the lease, and one that never reclaims a lost fire.
DueRowsUnleased == {r \in Row : status[r] = "pending"}
DueRowsOnce     == {r \in Row : status[r] = "pending" /\ due[r] /\ attempt[r] = 0}

DueRows == {r \in Row : status[r] = "pending" /\ due[r]}

\* One batch, FOR UPDATE SKIP LOCKED. Promise.all ends the cycle at the first
\* rejection, so fires of an earlier cycle may still be running here; a row one
\* of them holds is left to the other workers.
ClaimDuePendingTriggers(w) ==
  /\ phase[w] = "idle"
  /\ \E C \in SUBSET {r \in DueRows : fire[w][r] = "none"} :
       /\ C # {} /\ Cardinality(C) <= Batch
       /\ phase' = [phase EXCEPT ![w] = "running"]
       /\ attempt' = [r \in Row |-> IF r \in C THEN attempt[r] + 1 ELSE attempt[r]]
       /\ due' = [r \in Row |-> IF r \in C THEN FALSE ELSE due[r]]
       /\ fire' = [fire EXCEPT ![w] = [r \in Row |-> IF r \in C THEN "post" ELSE fire[w][r]]]
       /\ seen' = [seen EXCEPT ![w] =
                     [r \in Row |-> IF r \in C THEN attempt[r] + 1 ELSE seen[w][r]]]
  /\ UNCHANGED <<status, msgVars, woken, told, faults>>

\* The agent gets the trigger; its answer may be an error or be lost.
Post(w, r) ==
  /\ fire[w][r] = "post" /\ w \in HasUrl
  /\ \/ /\ \E a \in {"ok", "bad"} : fire' = [fire EXCEPT ![w][r] = a]
        /\ woken' = TRUE
        /\ told' = told \union ({r} \cap Reconcile)
     \/ /\ fire' = [fire EXCEPT ![w][r] = "bad"]
        /\ UNCHANGED <<woken, told>>
  /\ UNCHANGED <<rowVars, phase, seen, msgVars, faults>>

Finish(w, r) == /\ fire' = [fire EXCEPT ![w][r] = "none"]
                /\ seen' = [seen EXCEPT ![w][r] = 0]

\* Mutant: r.ok is not looked at.
MarkFiredUnchecked(w, r) ==
  /\ fire[w][r] \in {"ok", "bad"}
  /\ status' = [status EXCEPT ![r] = "fired"]
  /\ Finish(w, r)
  /\ UNCHANGED <<attempt, due, phase, msgVars, woken, told, faults>>

MarkTriggerFired(w, r) ==
  /\ fire[w][r] = "ok"
  /\ status' = [status EXCEPT ![r] = "fired"]
  /\ Finish(w, r)
  /\ UNCHANGED <<attempt, due, phase, msgVars, woken, told, faults>>

\* Reopening a row that lost its place to a newer pending one breaks the index.
MayReopen(r) == r \in Reconcile \/ OpenInboxRows \subseteq {r}

\* Mutant: the status the outbox would write.
RetryOrDead(r, n) ==
  \/ /\ n >= MaxAttempts
     /\ status' = [status EXCEPT ![r] = "dead"]
     /\ UNCHANGED due
  \/ /\ n < MaxAttempts /\ MayReopen(r)
     /\ status' = [status EXCEPT ![r] = "pending"]
     /\ due' = [due EXCEPT ![r] = FALSE]

RetryOrFail(r, n) ==
  \/ /\ n >= MaxAttempts
     /\ status' = [status EXCEPT ![r] = "failed"]
     /\ UNCHANGED due
  \/ /\ n < MaxAttempts /\ MayReopen(r)
     /\ status' = [status EXCEPT ![r] = "pending"]
     /\ due' = [due EXCEPT ![r] = FALSE]

MarkTriggerRetryOrFail(w, r) ==
  /\ \/ fire[w][r] = "bad" /\ RetryOrFail(r, seen[w][r])
     \/ fire[w][r] = "post" /\ w \notin HasUrl /\ RetryOrFail(r, MaxAttempts)
  /\ Finish(w, r)
  /\ UNCHANGED <<attempt, phase, msgVars, woken, told, faults>>

\* The UPDATE breaks the unique index: fireTrigger rejects, the cycle ends.
MarkConflicts(w, r) ==
  /\ fire[w][r] = "bad" /\ seen[w][r] < MaxAttempts /\ ~MayReopen(r)
  /\ Finish(w, r)
  /\ phase' = [phase EXCEPT ![w] = "idle"]
  /\ UNCHANGED <<rowVars, msgVars, woken, told, faults>>

\* markTriggerFired throws: the catch block handles it as a failed fire.
MarkFiredFails(w, r) ==
  /\ fire[w][r] = "ok" /\ faults < MaxFaults
  /\ fire' = [fire EXCEPT ![w][r] = "bad"]
  /\ faults' = faults + 1
  /\ UNCHANGED <<rowVars, phase, seen, msgVars, woken, told>>

\* markTriggerRetryOrFail throws: Promise.all rejects, the running flag clears.
MarkFails(w, r) ==
  /\ \/ fire[w][r] = "bad"
     \/ fire[w][r] = "post" /\ w \notin HasUrl
  /\ faults < MaxFaults
  /\ Finish(w, r)
  /\ phase' = [phase EXCEPT ![w] = "idle"]
  /\ faults' = faults + 1
  /\ UNCHANGED <<rowVars, msgVars, woken, told>>

EndCycle(w) ==
  /\ phase[w] = "running" /\ fire[w] = Idle
  /\ phase' = [phase EXCEPT ![w] = "idle"]
  /\ UNCHANGED <<rowVars, fire, seen, msgVars, woken, told, faults>>

Settle(w, r) == \/ Post(w, r) \/ MarkTriggerFired(w, r)
                \/ MarkTriggerRetryOrFail(w, r) \/ MarkConflicts(w, r)

Next ==
  \/ AgentReads
  \/ \E m \in Msg : LogWebhook(m) \/ Redelivery(m) \/ EnqueuePendingTrigger(m) \/ EnqueueLost(m)
  \/ \E r \in Reconcile : EnqueueReconcileTrigger(r)
  \/ \E r \in Row : BecomeDue(r)
  \/ \E w \in Worker :
       \/ Boot(w) \/ Crash(w) \/ ClaimDuePendingTriggers(w) \/ EndCycle(w)
       \/ \E r \in Row : Settle(w, r) \/ MarkFiredFails(w, r) \/ MarkFails(w, r)

Spec == Init /\ [][Next]_vars

\* Containers restart, the interval fires, HTTP and database calls end, the clock
\* runs, a started request is carried on, and a triggered agent reads its inbox.
\* A batch is in scheduled_at order, so no due row is passed over for ever.
Fairness ==
  /\ WF_vars(AgentReads)
  /\ \A m \in Msg : WF_vars(EnqueuePendingTrigger(m))
  /\ \A r \in Row : WF_vars(BecomeDue(r))
  /\ \A w \in Worker :
       /\ WF_vars(Boot(w)) /\ WF_vars(ClaimDuePendingTriggers(w)) /\ WF_vars(EndCycle(w))
       /\ \A r \in Row : WF_vars(Settle(w, r))

FairSpec == Spec /\ Fairness

-----------------------------------------------------------------------------
(* Properties. *)

Queued(m) == rowOf[m] # {}
FailedFor(m) == \E r \in rowOf[m] : status[r] = "failed"

(* A message that is queued and still unread has a trigger coming: its row is
   pending, or the agent has been woken, or the row ran out of attempts. The one
   exception the code has is a message upserted into a row while that row was
   being fired. *)
UnreadIsCovered ==
  \A m \in Msg : inbox[m] = "unread" /\ Queued(m) /\ m \notin absorbed =>
    \/ woken \/ FailedFor(m)
    \/ \E r \in rowOf[m] : status[r] = "pending"

(* Debounce and lease together: the agent is never sent the same row by two
   workers at once while fires are marked in time. *)
OneFirePerRow ==
  \A r \in Row : Cardinality({w \in Worker : fire[w][r] # "none"}) <= 1

(* A reconcile event is never merged away: its row is closed as fired only after
   the agent was sent its payload, and never before. *)
ReconcileToldOnce ==
  \A r \in Reconcile : status[r] = "fired" => r \in told

(* Every queued message is eventually read by the agent, unless its row failed
   for good or it slipped into a row that was being fired. *)
EventuallyRead ==
  []<>(\A m \in Msg : Queued(m) => inbox[m] = "read" \/ FailedFor(m) \/ m \in absorbed)

(* migrations/008:6-9 and 15-16: every message of a burst pushes the pending row
   and the agent gets its trigger once the lead stops typing, "zero perda": an
   enqueued unread message has a trigger pending, sent, or failed for good. *)
ZeroLoss ==
  \A m \in Msg : inbox[m] = "unread" /\ Queued(m) =>
    \/ woken \/ FailedFor(m)
    \/ OpenInboxRows # {}

(* webhook/routes.ts:391-392 answers a duplicate without a trigger because the
   original "já foi processado ou está na fila": it has been read, it was queued,
   or the request that brought it is still about to queue it. *)
DuplicateIsQueued ==
  [][\A m \in skipped' \ skipped :
        inbox[m] = "read" \/ Queued(m) \/ hook[m] = "enqueue"]_vars
=============================================================================
