------------------------------ MODULE OpsNotify ------------------------------
(***************************************************************************)
(* Notices to the operator: the queue ops_notify_queue (ops-notify/queue.ts),*)
(* the rules that say when a batch leaves (ops-notify/digest.ts) and the   *)
(* flusher that sends it (ops-notify/flusher.ts). Two containers flush the *)
(* same queue during a rolling deploy.                                     *)
(*                                                                         *)
(* An urgent notice leaves once it has waited its window, a digest notice  *)
(* at the next fixed slot; a batch takes whatever is pending, oldest       *)
(* first, up to a limit. claimed_at is both the lease of a batch being     *)
(* sent and the backoff of one that failed.                                *)
(*                                                                         *)
(* MayStall = FALSE says that a send ends within the 10-minute lease.      *)
(***************************************************************************)
EXTENDS Integers, FiniteSets, Sequences, SequencesExt

CONSTANTS Notice, Urgent, Worker,
          BatchLimit,    \* start.ts BATCH_LIMIT
          MayStall,
          MaxFaults      \* bound: crashes, failed database calls, lost answers

VARIABLES
  rows,       \* ops_notify_queue, by created_at
  sent,       \* sent_at IS NOT NULL
  leased,     \* claimed_at is younger than the lease
  before,     \* how many rows were created before the last slot
  ripe,       \* how many rows are older than the urgent window
  slotted,    \* OPS_DIGEST_SLOTS has a slot
  phase,      \* where each flusher is
  batch,      \* the notices a flusher has claimed
  reached,    \* history: messages with the notice that WhatsApp accepted
  remainder,  \* history: what a flusher's last full batch left pending
  faults

rowVars  == <<rows, sent, leased, before, ripe>>
vars == <<rows, sent, leased, before, ripe, slotted, phase, batch, reached, remainder, faults>>

TypeOK ==
  /\ rows \in Seq(Notice) /\ IsInjective(rows)
  /\ sent \subseteq Notice /\ leased \subseteq Notice
  /\ before \in 0..Len(rows) /\ ripe \in 0..Len(rows)
  /\ slotted \in BOOLEAN
  /\ phase \in [Worker -> {"down", "idle", "claim", "template", "text", "sent", "failed"}]
  /\ batch \in [Worker -> SUBSET Notice]
  /\ \A w \in Worker : Cardinality(batch[w]) <= BatchLimit
  /\ reached \in [Notice -> Nat]
  /\ remainder \in [Worker -> SUBSET Notice]
  /\ faults \in Nat

Init ==
  /\ rows = <<>> /\ sent = {} /\ leased = {} /\ before = 0 /\ ripe = 0
  /\ slotted \in BOOLEAN
  /\ phase = [w \in Worker |-> "down"] /\ batch = [w \in Worker |-> {}]
  /\ reached = [n \in Notice |-> 0] /\ remainder = [w \in Worker |-> {}]
  /\ faults = 0

Queued == ToSet(rows)

-----------------------------------------------------------------------------
(* The route and the clock. *)

EnqueueOps(n) ==
  /\ n \notin Queued
  /\ rows' = Append(rows, n)
  /\ UNCHANGED <<sent, leased, before, ripe, slotted, phase, batch, reached, remainder, faults>>

\* 09:00 or 16:00 strikes: what is in the queue is older than the last slot.
SlotPasses ==
  /\ slotted /\ before < Len(rows)
  /\ before' = Len(rows)
  /\ UNCHANGED <<rows, sent, leased, ripe, slotted, phase, batch, reached, remainder, faults>>

\* OPS_URGENT_WINDOW_MIN has passed since the next row was created.
WindowPasses ==
  /\ ripe < Len(rows)
  /\ ripe' = ripe + 1
  /\ UNCHANGED <<rows, sent, leased, before, slotted, phase, batch, reached, remainder, faults>>

LeaseExpires(n) ==
  /\ n \in leased
  /\ MayStall \/ \A w \in Worker : n \notin batch[w]
  /\ leased' = leased \ {n}
  /\ UNCHANGED <<rows, sent, before, ripe, slotted, phase, batch, reached, remainder, faults>>

-----------------------------------------------------------------------------
(* runOpsFlush: look at the queue, decide, claim, send, mark. *)

\* Mutant: the lease is not looked at.
PendingUnleased == Queued \ sent

Pending == Queued \ (sent \union leased)

SomePending(first, S) == \E i \in 1..first : rows[i] \in Pending \intersect S

\* Mutant: the window rule is missing, urgents wait for the slot too.
PlanFlushAtSlots == SomePending(before, Notice)

\* Something older than the last slot, or an urgent whose window is over.
PlanFlush == SomePending(before, Notice) \/ SomePending(ripe, Urgent)

Goto(w, p) == phase' = [phase EXCEPT ![w] = p]

Boot(w) ==
  /\ phase[w] = "down" /\ Goto(w, "idle")
  /\ UNCHANGED <<rowVars, slotted, batch, reached, remainder, faults>>

\* The tick's decision, taken before the claim and in another query.
Decide(w) ==
  /\ phase[w] = "idle" /\ PlanFlush
  /\ Goto(w, "claim")
  /\ UNCHANGED <<rowVars, slotted, batch, reached, remainder, faults>>

\* A tick that decides there is nothing to send.
DecideIdle(w) ==
  /\ phase[w] = "idle" /\ ~PlanFlush /\ remainder[w] # {}
  /\ remainder' = [remainder EXCEPT ![w] = {}]
  /\ UNCHANGED <<rowVars, slotted, phase, batch, reached, faults>>

\* Mutant: no LIMIT.
OldestUnlimited == Pending

\* The pending notices that one batch takes, oldest first: those that have fewer
\* than a batch of pending ones before them.
Ahead(i) == {k \in 1..(i - 1) : rows[k] \in Pending}
Oldest == {rows[i] : i \in {k \in 1..Len(rows) : rows[k] \in Pending /\ Cardinality(Ahead(k)) < BatchLimit}}

ClaimBatch(w) ==
  /\ phase[w] = "claim"
  /\ batch' = [batch EXCEPT ![w] = Oldest]
  /\ leased' = leased \union Oldest
  /\ remainder' = [remainder EXCEPT ![w] = Pending \ Oldest]
  /\ Goto(w, IF Oldest = {} THEN "idle" ELSE "template")
  /\ UNCHANGED <<rows, sent, before, ripe, slotted, reached, faults>>

Reach(w) == reached' = [n \in Notice |-> IF n \in batch[w] THEN reached[n] + 1 ELSE reached[n]]

\* The template is accepted, or the text when the template was refused.
SendAccepted(w) ==
  /\ phase[w] \in {"template", "text"}
  /\ Reach(w)
  /\ Goto(w, "sent")
  /\ UNCHANGED <<rowVars, slotted, batch, remainder, faults>>

After(p) == IF p = "template" THEN "text" ELSE "failed"

SendRefused(w) ==
  /\ phase[w] \in {"template", "text"}
  /\ Goto(w, After(phase[w]))
  /\ UNCHANGED <<rowVars, slotted, batch, reached, remainder, faults>>

\* Accepted, but the call throws: the ladder goes on as if it had been refused.
AnswerLost(w) ==
  /\ phase[w] \in {"template", "text"} /\ faults < MaxFaults
  /\ Reach(w)
  /\ Goto(w, After(phase[w]))
  /\ faults' = faults + 1
  /\ UNCHANGED <<rowVars, slotted, batch, remainder>>

Drop(w) == batch' = [batch EXCEPT ![w] = {}]

MarkSent(w) ==
  /\ phase[w] = "sent"
  /\ sent' = sent \union batch[w]
  /\ Drop(w) /\ Goto(w, "idle")
  /\ UNCHANGED <<rows, leased, before, ripe, slotted, reached, remainder, faults>>

\* Only last_error is written: claimed_at stays, as the backoff.
MarkFailed(w) ==
  /\ phase[w] = "failed"
  /\ Drop(w) /\ Goto(w, "idle")
  /\ UNCHANGED <<rowVars, slotted, reached, remainder, faults>>

\* A query throws: the tick is over, what it claimed stays leased.
TickFails(w) ==
  /\ phase[w] \in {"claim", "sent", "failed"} /\ faults < MaxFaults
  /\ Drop(w) /\ Goto(w, "idle")
  /\ faults' = faults + 1
  /\ UNCHANGED <<rowVars, slotted, reached, remainder>>

Crash(w) ==
  /\ phase[w] # "down" /\ faults < MaxFaults
  /\ Drop(w) /\ Goto(w, "down")
  /\ remainder' = [remainder EXCEPT ![w] = {}]
  /\ faults' = faults + 1
  /\ UNCHANGED <<rowVars, slotted, reached>>

Next ==
  \/ SlotPasses \/ WindowPasses
  \/ \E n \in Notice : EnqueueOps(n) \/ LeaseExpires(n)
  \/ \E w \in Worker :
       \/ Boot(w) \/ Decide(w) \/ DecideIdle(w) \/ ClaimBatch(w)
       \/ SendAccepted(w) \/ SendRefused(w) \/ AnswerLost(w)
       \/ MarkSent(w) \/ MarkFailed(w) \/ TickFails(w) \/ Crash(w)

Spec == Init /\ [][Next]_vars

\* What is left of a tick once it has begun, and the next one.
Advance(w) ==
  Boot(w) \/ Decide(w) \/ ClaimBatch(w) \/ SendRefused(w) \/ MarkSent(w) \/ MarkFailed(w)

\* The clock runs, ticks keep coming and their calls return, and WhatsApp does
\* not refuse every message for ever.
Fairness ==
  /\ WF_vars(SlotPasses) /\ WF_vars(WindowPasses)
  /\ \A n \in Notice : WF_vars(LeaseExpires(n))
  /\ \A w \in Worker : WF_vars(Advance(w))
  /\ SF_vars(\E w \in Worker : SendAccepted(w))

FairSpec == Spec /\ Fairness

-----------------------------------------------------------------------------
(* Properties. *)

(* queue.ts:43-44, "dois containers no rolling deploy nao mandam o mesmo resumo
   duas vezes": with sends shorter than the lease the operator gets a notice
   twice only where a crash, a failed query or a lost answer came between. *)
NoSecondMessage == \A n \in Notice : reached[n] <= 1 + faults

(* routes.ts:22-24, "202 continua significando 'nao vai se perder'": whatever was
   queued is eventually sent, an urgent notice even where no digest slot is
   configured. *)
EventuallySent ==
  []<>(\A n \in Queued : slotted \/ n \in Urgent => n \in sent)

(* flusher.ts:29, "Teto de itens por mensagem; o resto sai no tick seguinte":
   the tick after a full batch does not leave the rest of it in the queue. *)
RestLeavesNextTick ==
  [][\A w \in Worker : DecideIdle(w) => remainder[w] \intersect Pending = {}]_vars
=============================================================================
