--------------------------- MODULE Transcription ---------------------------
(***************************************************************************)
(* Transcribing voice messages: the queue transcription_jobs (db.ts), its  *)
(* poller and circuit breaker (transcription/poller.ts, breaker.ts), the   *)
(* processing of one job (transcription/service.ts) and the retry policy   *)
(* (transcription/error-class.ts) that tells an outage of the provider     *)
(* from a bad audio.                                                       *)
(*                                                                         *)
(* The poller has no running flag: setInterval starts a tick whether or    *)
(* not the one before has ended, so several batches run at once in one     *)
(* process. A batch is claimed whole, under one 5-minute lease, and        *)
(* processed one job after the other. MayStall = FALSE says that a batch   *)
(* ends within the lease; with MayStall = TRUE a job may be due again      *)
(* while a batch still holds it.                                           *)
(***************************************************************************)
EXTENDS Integers, FiniteSets

CONSTANTS Job,
          Tick,          \* the batches that may be running at once
          MaxAttempts,   \* TRANSCRIBE_MAX_ATTEMPTS
          BatchSize,     \* TRANSCRIBE_POLLER_BATCH_SIZE
          MayStall,
          MaxFaults      \* bound: crashes and failed database calls

VARIABLES
  status,     \* transcription_jobs.status
  attempts,   \* transcription_jobs.attempts
  due,        \* scheduled_at <= NOW()
  envelope,   \* raw_envelope still holds what the download needs
  old,        \* older than TRANSCRIBE_SYSTEMIC_MAX_AGE_H
  text,       \* messages.text
  open,       \* the breaker is open
  todo,       \* the claimed jobs a tick has not started yet
  cur,        \* the job a tick is processing, as a set of none or one
  step,       \* where processJob is
  copy,       \* the attempts and envelope a tick's claim returned, per job
  metrics,    \* llm_metrics rows per job
  triggered,  \* jobs for which the agent's trigger was enqueued
  errors,     \* history: item errors recorded per job
  lost,       \* history: claims that ended with no processing recorded, per job
  cut,        \* history: jobs whose terminal outcome was cut before its trigger
  faults

jobVars  == <<status, attempts, due, envelope, old>>
tickVars == <<todo, cur, step, copy>>
histVars == <<errors, lost, cut>>
vars == <<status, attempts, due, envelope, old, text, open, todo, cur, step, copy,
          metrics, triggered, errors, lost, cut, faults>>

NoCopy == [j \in Job |-> [attempts |-> 0, envelope |-> FALSE]]

TypeOK ==
  /\ status    \in [Job -> {"pending", "done", "failed"}]
  /\ attempts  \in [Job -> Nat]
  /\ due       \in [Job -> BOOLEAN] /\ envelope \in [Job -> BOOLEAN] /\ old \in [Job -> BOOLEAN]
  /\ text      \in [Job -> {"none", "transcript", "too long", "unavailable"}]
  /\ open \in BOOLEAN
  /\ todo      \in [Tick -> SUBSET Job] /\ cur \in [Tick -> SUBSET Job]
  /\ \A t \in Tick : Cardinality(cur[t]) <= 1
  /\ step      \in [Tick -> {"idle", "next", "work", "close", "give up", "trigger"}]
  /\ copy      \in [Tick -> [Job -> [attempts : Nat, envelope : BOOLEAN]]]
  /\ metrics   \in [Job -> Nat]
  /\ triggered \subseteq Job
  /\ errors \in [Job -> Nat] /\ lost \in [Job -> Nat] /\ cut \subseteq Job
  /\ faults \in Nat

Init ==
  /\ status = [j \in Job |-> "pending"] /\ attempts = [j \in Job |-> 0]
  /\ due = [j \in Job |-> TRUE] /\ envelope = [j \in Job |-> TRUE]
  /\ old = [j \in Job |-> FALSE] /\ text = [j \in Job |-> "none"]
  /\ open = FALSE
  /\ todo = [t \in Tick |-> {}] /\ cur = [t \in Tick |-> {}]
  /\ step = [t \in Tick |-> "idle"] /\ copy = [t \in Tick |-> NoCopy]
  /\ metrics = [j \in Job |-> 0] /\ triggered = {}
  /\ errors = [j \in Job |-> 0] /\ lost = [j \in Job |-> 0] /\ cut = {}
  /\ faults = 0

-----------------------------------------------------------------------------
(* The clock. *)

Held(j) == \E t \in Tick : j \in todo[t] \union cur[t]

BecomeDue(j) ==
  /\ status[j] = "pending" /\ ~due[j]
  /\ MayStall \/ ~Held(j)
  /\ due' = [due EXCEPT ![j] = TRUE]
  /\ UNCHANGED <<status, attempts, envelope, old, text, open, tickVars, metrics, triggered,
                 histVars, faults>>

GrowOld(j) ==
  /\ ~old[j]
  /\ old' = [old EXCEPT ![j] = TRUE]
  /\ UNCHANGED <<status, attempts, due, envelope, text, open, tickVars, metrics, triggered,
                 histVars, faults>>

CoolDown ==
  /\ open
  /\ open' = FALSE
  /\ UNCHANGED <<jobVars, text, tickVars, metrics, triggered, histVars, faults>>

-----------------------------------------------------------------------------
(* A tick: claim a batch, then its jobs one by one while the breaker is shut. *)

Goto(t, s) == step' = [step EXCEPT ![t] = s]

\* Processing of the current job is over.
NextJob(t) == Goto(t, "next") /\ cur' = [cur EXCEPT ![t] = {}]

\* Mutant: a claim that does not look at scheduled_at, so not at the lease.
DueJobsUnleased == {j \in Job : status[j] = "pending"}

DueJobs == {j \in Job : status[j] = "pending" /\ due[j]}

BatchOf(S) == {B \in SUBSET S : \/ B = S /\ Cardinality(S) <= BatchSize
                                \/ Cardinality(B) = BatchSize}

ClaimDueTranscriptionJobs(t) ==
  /\ step[t] = "idle" /\ ~open /\ DueJobs # {}
  /\ \E B \in BatchOf(DueJobs) :
       /\ attempts' = [j \in Job |-> IF j \in B THEN attempts[j] + 1 ELSE attempts[j]]
       /\ due' = [j \in Job |-> IF j \in B THEN FALSE ELSE due[j]]
       /\ todo' = [todo EXCEPT ![t] = B]
       /\ copy' = [copy EXCEPT ![t] = [j \in Job |->
                     IF j \in B THEN [attempts |-> attempts[j] + 1, envelope |-> envelope[j]]
                     ELSE NoCopy[j]]]
  /\ Goto(t, "next")
  /\ UNCHANGED <<status, envelope, old, text, open, cur, metrics, triggered, histVars, faults>>

\* Mutant: the batch is processed in parallel.
StartAllJobs(t) ==
  /\ step[t] = "next" /\ ~open /\ todo[t] # {}
  /\ cur' = [cur EXCEPT ![t] = todo[t]]
  /\ todo' = [todo EXCEPT ![t] = {}]
  /\ Goto(t, "work")
  /\ UNCHANGED <<jobVars, text, open, copy, metrics, triggered, histVars, faults>>

StartJob(t) ==
  /\ step[t] = "next" /\ ~open
  /\ \E j \in todo[t] : /\ cur' = [cur EXCEPT ![t] = {j}]
                        /\ todo' = [todo EXCEPT ![t] = @ \ {j}]
  /\ Goto(t, "work")
  /\ UNCHANGED <<jobVars, text, open, copy, metrics, triggered, histVars, faults>>

\* Mutant: the claims are released, their attempt is not given back.
KeepAttempt(j) == attempts[j]

GiveBack(j) == IF attempts[j] > 0 THEN attempts[j] - 1 ELSE 0

\* The breaker opened: what is left of the batch goes back, with its attempt.
ReleaseTranscriptionClaims(t) ==
  /\ step[t] = "next" /\ open /\ todo[t] # {}
  /\ LET R == {j \in todo[t] : status[j] = "pending"}
     IN /\ attempts' = [j \in Job |-> IF j \in R THEN GiveBack(j) ELSE attempts[j]]
        /\ due' = [j \in Job |-> IF j \in R THEN FALSE ELSE due[j]]
  /\ todo' = [todo EXCEPT ![t] = {}]
  /\ UNCHANGED <<status, envelope, old, text, open, cur, step, copy, metrics, triggered,
                 histVars, faults>>

EndTick(t) ==
  /\ step[t] = "next" /\ todo[t] = {}
  /\ Goto(t, "idle")
  /\ copy' = [copy EXCEPT ![t] = NoCopy]
  /\ UNCHANGED <<jobVars, text, open, todo, cur, metrics, triggered, histVars, faults>>

-----------------------------------------------------------------------------
(* processJob. *)

\* The transaction: text, cost and done; the envelope is emptied with it.
Complete(t) ==
  /\ step[t] = "work"
  /\ \E j \in cur[t] :
       /\ copy[t][j].envelope
       /\ text' = [text EXCEPT ![j] = "transcript"]
       /\ metrics' = [metrics EXCEPT ![j] = @ + 1]
       /\ status' = [status EXCEPT ![j] = "done"]
       /\ envelope' = [envelope EXCEPT ![j] = FALSE]
  /\ Goto(t, "trigger")
  /\ UNCHANGED <<attempts, due, old, open, todo, cur, copy, triggered, histVars, faults>>

\* Above the duration cap: the message first, then the job, and no trigger.
TooLong(t) ==
  /\ step[t] = "work"
  /\ \E j \in cur[t] : /\ copy[t][j].envelope
                       /\ text' = [text EXCEPT ![j] = "too long"]
  /\ Goto(t, "close")
  /\ UNCHANGED <<jobVars, open, todo, cur, copy, metrics, triggered, histVars, faults>>

MarkTranscriptionDone(t) ==
  /\ step[t] = "close"
  /\ \E j \in cur[t] : /\ status' = [status EXCEPT ![j] = "done"]
                       /\ envelope' = [envelope EXCEPT ![j] = FALSE]
  /\ NextJob(t)
  /\ UNCHANGED <<attempts, due, old, text, open, todo, copy, metrics, triggered, histVars, faults>>

\* planTranscriptionRetry: an outage is bounded by age, an item by its attempts.
GivesUp(t, j, systemic) == IF systemic THEN old[j] ELSE copy[t][j].attempts >= MaxAttempts

\* The work throws. The UPDATE asks nothing of the job's current status, and an
\* outage gives the attempt back and trips the breaker.
MarkTranscriptionRetryOrFail(t, systemic) ==
  /\ step[t] \in {"work", "close"}
  /\ \E j \in cur[t] :
       /\ errors' = IF systemic THEN errors ELSE [errors EXCEPT ![j] = @ + 1]
       /\ \/ /\ GivesUp(t, j, systemic)
             /\ status' = [status EXCEPT ![j] = "failed"]
             /\ Goto(t, "give up")
             /\ UNCHANGED <<attempts, due, cur>>
          \/ /\ ~GivesUp(t, j, systemic)
             /\ status' = [status EXCEPT ![j] = "pending"]
             /\ attempts' = IF systemic THEN [attempts EXCEPT ![j] = GiveBack(j)] ELSE attempts
             /\ due' = [due EXCEPT ![j] = FALSE]
             /\ NextJob(t)
  /\ open' = (open \/ systemic)
  /\ UNCHANGED <<envelope, old, text, todo, copy, metrics, triggered, lost, cut, faults>>

\* Mutant: a terminal failure does not trigger.
GiveUpSilently(t) ==
  /\ step[t] = "give up"
  /\ \E j \in cur[t] : text' = [text EXCEPT ![j] = "unavailable"]
  /\ NextJob(t)
  /\ UNCHANGED <<jobVars, open, todo, copy, metrics, triggered, histVars, faults>>

\* A terminal failure writes the placeholder text, and triggers all the same.
GiveUp(t) ==
  /\ step[t] = "give up"
  /\ \E j \in cur[t] : text' = [text EXCEPT ![j] = "unavailable"]
  /\ Goto(t, "trigger")
  /\ UNCHANGED <<jobVars, open, todo, cur, copy, metrics, triggered, histVars, faults>>

MaybeTrigger(t) ==
  /\ step[t] = "trigger"
  /\ triggered' = triggered \union cur[t]
  /\ NextJob(t)
  /\ UNCHANGED <<jobVars, text, open, todo, copy, metrics, histVars, faults>>

\* maybeTrigger throws: logged, the job stays as it is.
TriggerFails(t) ==
  /\ step[t] = "trigger" /\ faults < MaxFaults
  /\ cut' = cut \union cur[t]
  /\ NextJob(t)
  /\ faults' = faults + 1
  /\ UNCHANGED <<jobVars, text, open, todo, copy, metrics, triggered, errors, lost>>

\* What ticks in T leave behind when they stop: claims nobody works on, and
\* terminal jobs whose trigger is never sent.
Abandon(T) ==
  LET Left == {j \in Job : \E t \in T : \/ j \in todo[t]
                                        \/ j \in cur[t] /\ step[t] \in {"work", "close"}}
      Cut  == {j \in Job : \E t \in T : j \in cur[t] /\ step[t] \in {"give up", "trigger"}}
  IN /\ lost' = [j \in Job |-> IF j \in Left THEN lost[j] + 1 ELSE lost[j]]
     /\ cut' = cut \union Cut
     /\ todo' = [t \in Tick |-> IF t \in T THEN {} ELSE todo[t]]
     /\ cur' = [t \in Tick |-> IF t \in T THEN {} ELSE cur[t]]
     /\ step' = [t \in Tick |-> IF t \in T THEN "idle" ELSE step[t]]
     /\ copy' = [t \in Tick |-> IF t \in T THEN NoCopy ELSE copy[t]]

\* A query outside the try, or one of the catch block, throws: the rest of the
\* batch is abandoned with its lease.
TickAborts(t) ==
  /\ step[t] \in {"next", "work", "close", "give up"} /\ faults < MaxFaults
  /\ Abandon({t})
  /\ faults' = faults + 1
  /\ UNCHANGED <<jobVars, text, open, metrics, triggered, errors>>

\* The process restarts: every batch is lost, the breaker forgets.
Crash ==
  /\ faults < MaxFaults
  /\ Abandon(Tick)
  /\ open' = FALSE
  /\ faults' = faults + 1
  /\ UNCHANGED <<jobVars, text, metrics, triggered, errors>>

Advance(t) == \/ StartJob(t) \/ ReleaseTranscriptionClaims(t) \/ EndTick(t)
              \/ Complete(t) \/ TooLong(t) \/ MarkTranscriptionDone(t)
              \/ MarkTranscriptionRetryOrFail(t, TRUE) \/ MarkTranscriptionRetryOrFail(t, FALSE)
              \/ GiveUp(t) \/ MaybeTrigger(t)

Next ==
  \/ CoolDown \/ Crash
  \/ \E j \in Job : BecomeDue(j) \/ GrowOld(j)
  \/ \E t \in Tick : ClaimDueTranscriptionJobs(t) \/ Advance(t) \/ TriggerFails(t) \/ TickAborts(t)

Spec == Init /\ [][Next]_vars

\* Calls return or throw, the clock runs, the interval keeps ticking. An outage
\* may trip the breaker again and again: a tick meets it shut infinitely often.
Fairness ==
  /\ WF_vars(CoolDown)
  /\ \A j \in Job : WF_vars(BecomeDue(j)) /\ WF_vars(GrowOld(j))
  /\ \A t \in Tick : WF_vars(Advance(t))
  /\ SF_vars(\E t \in Tick : ClaimDueTranscriptionJobs(t))

FairSpec == Spec /\ Fairness

-----------------------------------------------------------------------------
(* Properties. *)

(* error-class.ts:16-19: an outage of the provider costs a job no attempt. A job
   that failed before the age cap had MaxAttempts errors of its own, or claims
   lost with a crashed or aborted batch. *)
OutageBurnsNoJob ==
  \A j \in Job : status[j] = "failed" /\ ~old[j] => errors[j] + lost[j] >= MaxAttempts

(* service.ts:90-91: the transaction leaves neither a duplicated cost nor a job
   that is done without the text its message is to have. *)
DoneOnce ==
  \A j \in Job : /\ metrics[j] <= 1
                 /\ status[j] = "done" => text[j] \in {"transcript", "too long"}

(* service.ts:124-125: a job that reached done or failed stays there. *)
OutcomeIsDurable ==
  [][\A j \in Job : status[j] # "pending" => status'[j] = status[j]]_vars

(* A transcript that has been written is never replaced by a placeholder. *)
TranscriptKept == [][\A j \in Job : text[j] = "transcript" => text'[j] = "transcript"]_vars

(* Every job is transcribed or given up, however long the provider is out. *)
EventuallySettled == <>[](\A j \in Job : status[j] # "pending")

(* service.ts:120, "nao travar o lead": a failed job triggers the agent all the
   same, unless a crash or a failed call comes between the two. *)
LeadNotStuck == []<>(\A j \in Job : status[j] = "failed" => j \in triggered \union cut)
=============================================================================
