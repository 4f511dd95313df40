------------------------------ MODULE MCQueues ------------------------------
(***************************************************************************)
(* One run for three queues that share no row: webhook receipts, notices   *)
(* to the operator, transcription jobs. A behaviour works one of them.     *)
(***************************************************************************)
EXTENDS Receipts

CONSTANTS Notice, Urgent, BatchLimit, NoticeFaults, Job, j2, Tick, MayStall

\* A batch of notices takes at least one.
ASSUME NoticesAssumption == BatchLimit \in Nat \ {0}

VARIABLES
  queue,  \* the queue that the behaviour works
  rows, sent, claimed, before, ripe, slotted, phase, batch, reached, remainder, mishaps,
  state, attempts, scheduled, envelope, old, text, open, todo, cur, step, copy,
  metrics, triggered, errors, lost, cut, failures

O == INSTANCE OpsNotify WITH leased <- claimed, faults <- mishaps, MaxFaults <- NoticeFaults
T == INSTANCE Transcription WITH status <- state, due <- scheduled, faults <- failures

receiving == vars
noticing == <<rows, sent, claimed, before, ripe, slotted, phase, batch, reached, remainder, mishaps>>
transcribing == <<state, attempts, scheduled, envelope, old, text, open, todo, cur, step, copy,
                  metrics, triggered, errors, lost, cut, failures>>

\* Either the second job was transcribed before the behaviour starts, or the
\* faults were: two jobs, two ticks and a fault at once are too many for TLC.
Past(done) ==
  /\ state = [j \in Job |-> IF j \in done THEN "done" ELSE "pending"]
  /\ attempts = [j \in Job |-> IF j \in done THEN 1 ELSE 0]
  /\ envelope = [j \in Job |-> j \notin done] /\ scheduled = envelope
  /\ old = [j \in Job |-> j \in done]
  /\ text = [j \in Job |-> IF j \in done THEN "transcript" ELSE "none"]
  /\ metrics = attempts /\ triggered = done
  /\ todo = [t \in Tick |-> {}] /\ cur = [t \in Tick |-> {}]
  /\ step = [t \in Tick |-> "idle"] /\ copy = [t \in Tick |-> T!NoCopy]
  /\ errors = [j \in Job |-> 0] /\ lost = [j \in Job |-> 0]
  /\ open = FALSE /\ cut = {}
  /\ failures = IF done = {} THEN MaxFaults ELSE 0

\* No notice comes, and the flushers are up.
NoNotices ==
  /\ rows = <<>> /\ sent = {} /\ claimed = {} /\ before = 0 /\ ripe = 0 /\ slotted = TRUE
  /\ phase = [w \in Worker |-> "idle"] /\ batch = [w \in Worker |-> {}]
  /\ reached = [n \in Notice |-> 0] /\ remainder = batch /\ mishaps = 0

InitQueues ==
  /\ queue \in {"receipts", "notices", "jobs"}
  /\ Init
  /\ IF queue = "notices" THEN O!Init ELSE NoNotices
  /\ IF queue = "jobs" THEN Past({}) \/ Past({j2}) ELSE Past(Job)

NextQueues ==
  \/ queue = "receipts" /\ Next /\ UNCHANGED <<queue, noticing, transcribing>>
  \/ queue = "notices" /\ O!Next /\ UNCHANGED <<queue, receiving, transcribing>>
  \/ queue = "jobs" /\ T!Next /\ UNCHANGED <<queue, receiving, noticing>>

\* The clock and the workers run; the receipts are asked for safety only.
SpecQueues ==
  /\ InitQueues /\ [][NextQueues]_<<queue, receiving, noticing, transcribing>>
  /\ O!Fairness /\ T!Fairness

(* The properties of OpsNotify and Transcription. Every notice leaves and every
   job is settled. *)
NoSecondMessage == O!NoSecondMessage
OutageBurnsNoJob == T!OutageBurnsNoJob
DoneOnce == T!DoneOnce
QueuesDrain == O!EventuallySent /\ T!EventuallySettled
LeadNotStuck == T!LeadNotStuck
=============================================================================
