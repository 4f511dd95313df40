--------------------------- MODULE LuaProcessing ---------------------------
(***************************************************************************)
(* The memory pipeline over episodes: the ledger lua_processing and its    *)
(* leases (src/src/lua/db.ts), the two transactions of one episode         *)
(* (lua/pipeline.ts: TX1 chunks, TX2 facts), the nightly drain             *)
(* (lua/scheduler.ts) and the bootstrap (lua/bootstrap.ts), while episodes *)
(* are imported and imported again under a new revision (episodes/db.ts).  *)
(*                                                                         *)
(* A worker is one drain loop of one run. Episodes are numbered in the     *)
(* order of occurred_at, the order of the claim; all have a workspace.     *)
(* A batch is the set of facts of one extraction: facts[e] holds the       *)
(* revisions whose batch is live. claimed_by and claimed_at are one value, *)
(* holder: a worker has one claim at a time, and only the fence looks at   *)
(* them. expired[r] is claimed_at < NOW() - 15 min.                        *)
(***************************************************************************)
EXTENDS Integers, FiniteSets

CONSTANTS NumEpisodes, MaxRevision,
          Worker,
          Bootstrap,     \* the workers run by the bootstrap command
          Scope,         \* the episodes of its --workspace option
          Empty,         \* episodes whose transcript has no turn
          MaxAttempts,   \* LUA_MAX_ATTEMPTS
          MaxFaults,     \* bound: failed steps, crashes, leases lost while working
          MaxOps         \* bound: operator requeues and reprocessings

Episode  == 1..NumEpisodes
Revision == 1..MaxRevision
Nobody   == "nobody"

ASSUME LuaAssumption ==
  /\ NumEpisodes \in Nat /\ MaxRevision \in Nat \ {0} /\ MaxAttempts \in Nat \ {0}
  /\ Nobody \notin Worker /\ Bootstrap \subseteq Worker
  /\ Scope \subseteq Episode /\ Empty \subseteq Episode
  /\ MaxFaults \in Nat /\ MaxOps \in Nat

Row == Episode \X Revision
NoRow == <<0, 0>>

VARIABLES
  rev,        \* episodes.revision, 0 before the first import
  status,     \* lua_processing.status, "absent" before the row exists
  attempt,    \* attempt_count
  due,        \* next_attempt_at <= NOW()
  holder,     \* whose claim the row carries, Nobody for claimed_at NULL
  expired,    \* the claim is more than 15 minutes old
  chunks,     \* episode_chunks: the revision they are labelled with and their text's
  facts,      \* facts: the revisions whose batch is live, per episode
  phase,      \* each worker's run
  job,        \* the row it works on (its copy of the row outlives the lease)
  text,       \* the revision of the turns it has loaded
  seen,       \* the attempt_count that failProcessing read back
  batches,    \* history: extractions committed per row
  reopens,    \* history: times a row left "done"
  faults, ops

rowVars  == <<status, attempt, due, holder, expired>>
memVars  == <<chunks, facts, batches>>
workVars == <<phase, job, text, seen>>
vars == <<rev, status, attempt, due, holder, expired, chunks, facts,
          phase, job, text, seen, batches, reopens, faults, ops>>

Working == {"load", "tx1", "reclaim", "extract", "tx2", "fail"}

TypeOK ==
  /\ rev     \in [Episode -> 0..MaxRevision]
  /\ status  \in [Row -> {"absent", "pending", "chunked", "done", "failed", "dead", "skipped"}]
  /\ attempt \in [Row -> Nat]
  /\ due     \in [Row -> BOOLEAN]
  /\ holder  \in [Row -> Worker \union {Nobody}]
  /\ expired \in [Row -> BOOLEAN]
  /\ chunks  \in [Episode -> (0..MaxRevision) \X (0..MaxRevision)]
  /\ facts   \in [Episode -> SUBSET Revision]
  /\ phase   \in [Worker -> {"idle", "mark", "enqueue", "drain"} \union Working]
  /\ job     \in [Worker -> Row \union {NoRow}]
  /\ \A w \in Worker : phase[w] \in Working => job[w] \in Row
  /\ text    \in [Worker -> 0..MaxRevision]
  /\ seen    \in [Worker -> Nat]
  /\ batches \in [Row -> Nat] /\ reopens \in [Row -> Nat]
  /\ faults \in Nat /\ ops \in Nat

Init ==
  /\ rev = [e \in Episode |-> 0]
  /\ status = [r \in Row |-> "absent"]
  /\ attempt = [r \in Row |-> 0]
  /\ due = [r \in Row |-> FALSE]
  /\ holder = [r \in Row |-> Nobody]
  /\ expired = [r \in Row |-> FALSE]
  /\ chunks = [e \in Episode |-> <<0, 0>>]
  /\ facts = [e \in Episode |-> {}]
  /\ phase = [w \in Worker |-> "idle"]
  /\ job = [w \in Worker |-> NoRow]
  /\ text = [w \in Worker |-> 0]
  /\ seen = [w \in Worker |-> 0]
  /\ batches = [r \in Row |-> 0] /\ reopens = [r \in Row |-> 0]
  /\ faults = 0 /\ ops = 0

-----------------------------------------------------------------------------
(* Imports and operators. *)

\* A first import, or a forced one: the turns are replaced, the revision bumped.
InsertEpisodeWithTurns(e) ==
  /\ rev[e] < MaxRevision
  /\ rev' = [rev EXCEPT ![e] = @ + 1]
  /\ UNCHANGED <<rowVars, memVars, workVars, reopens, faults, ops>>

\* The row goes back to the queue: attempts zeroed, lease dropped, due now.
Reset(r) ==
  /\ status' = [status EXCEPT ![r] = "pending"]
  /\ attempt' = [attempt EXCEPT ![r] = 0]
  /\ due' = [due EXCEPT ![r] = TRUE]
  /\ holder' = [holder EXCEPT ![r] = Nobody]
  /\ expired' = [expired EXCEPT ![r] = FALSE]

Reopened(r) == IF status[r] = "done" THEN [reopens EXCEPT ![r] = @ + 1] ELSE reopens

ForceReprocess(e) ==
  /\ rev[e] > 0 /\ ops < MaxOps
  /\ Reset(<<e, rev[e]>>)
  /\ reopens' = Reopened(<<e, rev[e]>>)
  /\ ops' = ops + 1
  /\ UNCHANGED <<rev, memVars, workVars, faults>>

RequeueDead(r) ==
  /\ status[r] = "dead" /\ ops < MaxOps
  /\ Reset(r)
  /\ ops' = ops + 1
  /\ UNCHANGED <<rev, memVars, workVars, reopens, faults>>

-----------------------------------------------------------------------------
(* The clock. *)

BecomeDue(r) ==
  /\ status[r] = "failed" /\ ~due[r]
  /\ due' = [due EXCEPT ![r] = TRUE]
  /\ UNCHANGED <<rev, status, attempt, holder, expired, memVars, workVars, reopens, faults, ops>>

\* The lease runs out: after a crash, or (bounded) under a slow worker.
LeaseExpires(r) ==
  /\ holder[r] # Nobody /\ ~expired[r]
  /\ expired' = [expired EXCEPT ![r] = TRUE]
  /\ IF \E w \in Worker : holder[r] = w /\ job[w] = r
     THEN faults < MaxFaults /\ faults' = faults + 1
     ELSE UNCHANGED faults
  /\ UNCHANGED <<rev, status, attempt, due, holder, memVars, workVars, reopens, ops>>

-----------------------------------------------------------------------------
(* A run: maintenance, then claims one at a time until the queue is drained. *)

Goto(w, p) == phase' = [phase EXCEPT ![w] = p]

StartRun(w) ==
  /\ phase[w] = "idle"
  /\ Goto(w, IF w \in Bootstrap THEN "enqueue" ELSE "mark")
  /\ UNCHANGED <<rev, rowVars, memVars, job, text, seen, reopens, faults, ops>>

Stale(r) == status[r] \in {"pending", "failed", "chunked"} /\ r[2] < rev[r[1]]

\* Only the status is written: a claim on the row stays.
MarkStaleRevisions(w) ==
  /\ phase[w] = "mark"
  /\ status' = [r \in Row |-> IF Stale(r) THEN "skipped" ELSE status[r]]
  /\ Goto(w, "enqueue")
  /\ UNCHANGED <<rev, attempt, due, holder, expired, memVars, job, text, seen,
                 reopens, faults, ops>>

\* The sweep of the night, or the bootstrap's restricted to its scope.
Eligible(w) == {<<e, rev[e]>> : e \in {x \in Episode : /\ rev[x] > 0
                                                       /\ w \in Bootstrap => x \in Scope}}

Enqueue(w) ==
  /\ phase[w] = "enqueue"
  /\ LET New == {r \in Eligible(w) : status[r] = "absent"}
     IN /\ status' = [r \in Row |-> IF r \in New THEN "pending" ELSE status[r]]
        /\ due' = [r \in Row |-> IF r \in New THEN TRUE ELSE due[r]]
  /\ Goto(w, "drain")
  /\ UNCHANGED <<rev, attempt, holder, expired, memVars, job, text, seen, reopens, faults, ops>>

\* Mutant: a claim that never retakes a lease.
ClaimableOnlyFree ==
  {r \in Row : /\ status[r] \in {"pending", "chunked", "failed"}
               /\ due[r] /\ holder[r] = Nobody /\ r[2] = rev[r[1]]}

Claimable == {r \in Row : /\ status[r] \in {"pending", "chunked", "failed"}
                          /\ due[r]
                          /\ holder[r] = Nobody \/ expired[r]
                          /\ r[2] = rev[r[1]]}

ClaimProcessing(w) ==
  /\ phase[w] = "drain"
  /\ \E r \in Claimable :
       /\ \A q \in Claimable : r[1] <= q[1]
       /\ holder' = [holder EXCEPT ![r] = w]
       /\ expired' = [expired EXCEPT ![r] = FALSE]
       /\ job' = [job EXCEPT ![w] = r]
  /\ Goto(w, "load")
  /\ UNCHANGED <<rev, status, attempt, due, memVars, text, seen, reopens, faults, ops>>

\* Back to the top of the loop.
Loop(w) == /\ Goto(w, "drain")
           /\ job' = [job EXCEPT ![w] = NoRow]
           /\ text' = [text EXCEPT ![w] = 0]
           /\ seen' = [seen EXCEPT ![w] = 0]

\* Nothing to claim ends the loop; so does, for the night only, the window.
EndDrain(w) ==
  /\ phase[w] = "drain"
  /\ Claimable = {} \/ w \notin Bootstrap
  /\ Goto(w, "idle")
  /\ UNCHANGED <<rev, rowVars, memVars, job, text, seen, reopens, faults, ops>>

-----------------------------------------------------------------------------
(* runEpisode. *)

\* The turns are read outside any transaction, in the revision of that moment.
LoadTurns(w) ==
  /\ phase[w] \in {"load", "extract"}
  /\ text' = [text EXCEPT ![w] = rev[job[w][1]]]
  /\ Goto(w, IF phase[w] = "load" THEN "tx1" ELSE "tx2")
  /\ UNCHANGED <<rev, rowVars, memVars, job, seen, reopens, faults, ops>>

\* Mutant: no fence.
FenceNone(w) == TRUE

Fenced(w) == holder[job[w]] = w

FinishProcessingTx(w, s) ==
  /\ status' = [status EXCEPT ![job[w]] = s]
  /\ holder' = [holder EXCEPT ![job[w]] = Nobody]
  /\ expired' = [expired EXCEPT ![job[w]] = FALSE]

\* TX1: all the episode's chunks are replaced and the claim is released.
CommitChunks(w) ==
  /\ phase[w] = "tx1" /\ Fenced(w)
  /\ FinishProcessingTx(w, "chunked")
  /\ IF job[w][1] \in Empty
     THEN /\ Loop(w)                          \* read as a lost lease
          /\ chunks' = [chunks EXCEPT ![job[w][1]] = <<0, 0>>]
     ELSE /\ Goto(w, "reclaim") /\ UNCHANGED <<job, text, seen>>
          /\ chunks' = [chunks EXCEPT ![job[w][1]] = <<job[w][2], text[w]>>]
  /\ UNCHANGED <<rev, attempt, due, facts, batches, reopens, faults, ops>>

\* The fence fails in TX1 or TX2: rollback, the next claim is tried.
LeaseLost(w) ==
  /\ phase[w] \in {"tx1", "tx2"} /\ ~Fenced(w)
  /\ Loop(w)
  /\ UNCHANGED <<rev, rowVars, memVars, reopens, faults, ops>>

\* Between the stages the row is claimed again by its id, whoever holds it.
Reclaim(w) ==
  /\ phase[w] = "reclaim"
  /\ \/ /\ status[job[w]] = "chunked"
        /\ holder' = [holder EXCEPT ![job[w]] = w]
        /\ expired' = [expired EXCEPT ![job[w]] = FALSE]
        /\ Goto(w, "extract")
        /\ UNCHANGED <<job, text, seen>>
     \/ /\ status[job[w]] # "chunked"
        /\ Loop(w)
        /\ UNCHANGED <<holder, expired>>
  /\ UNCHANGED <<rev, status, attempt, due, memVars, reopens, faults, ops>>

\* Mutants: the new facts are dropped as duplicates of those that are then
\* retired; later batches are retired too.
RetireAfterDedup(w) ==
  facts' = [facts EXCEPT ![job[w][1]] = IF @ = {} THEN {job[w][2]}
                                        ELSE {v \in @ : v >= job[w][2]}]
RetireOthers(w) == facts' = [facts EXCEPT ![job[w][1]] = {job[w][2]}]

\* TX2 retires the batches of earlier revisions and adds its own.
ReplaceFacts(w) ==
  facts' = [facts EXCEPT ![job[w][1]] = {v \in @ : v >= job[w][2]} \union {job[w][2]}]

CommitFacts(w) ==
  /\ phase[w] = "tx2" /\ Fenced(w)
  /\ ReplaceFacts(w)
  /\ batches' = [batches EXCEPT ![job[w]] = @ + 1]
  /\ FinishProcessingTx(w, "done")
  /\ Loop(w)
  /\ UNCHANGED <<rev, attempt, due, chunks, reopens, faults, ops>>

\* A step throws: failProcessing starts, with no fence, by counting the attempt.
StepFails(w) ==
  /\ phase[w] \in Working \ {"fail"} /\ faults < MaxFaults
  /\ attempt' = [attempt EXCEPT ![job[w]] = @ + 1]
  /\ seen' = [seen EXCEPT ![w] = attempt[job[w]] + 1]
  /\ faults' = faults + 1
  /\ Goto(w, "fail")
  /\ UNCHANGED <<rev, status, due, holder, expired, memVars, job, text, reopens, ops>>

\* Mutant: a status the table's CHECK does not know.
FailedAsError(w) == IF seen[w] >= MaxAttempts THEN "dead" ELSE "error"

FailedStatus(w) == IF seen[w] >= MaxAttempts THEN "dead" ELSE "failed"

\* Its second UPDATE settles the row, or is lost with the call that failed.
FailProcessing(w) ==
  /\ phase[w] = "fail"
  /\ status' = [status EXCEPT ![job[w]] = FailedStatus(w)]
  /\ due' = [due EXCEPT ![job[w]] = (FailedStatus(w) = "dead") /\ @]
  /\ holder' = [holder EXCEPT ![job[w]] = Nobody]
  /\ expired' = [expired EXCEPT ![job[w]] = FALSE]
  /\ reopens' = Reopened(job[w])
  /\ Loop(w)
  /\ UNCHANGED <<rev, attempt, memVars, faults, ops>>

FailLost(w) ==
  /\ phase[w] = "fail"
  /\ Loop(w)
  /\ UNCHANGED <<rev, rowVars, memVars, reopens, faults, ops>>

Crash(w) ==
  /\ phase[w] # "idle" /\ faults < MaxFaults
  /\ Goto(w, "idle")
  /\ job' = [job EXCEPT ![w] = NoRow]
  /\ text' = [text EXCEPT ![w] = 0]
  /\ seen' = [seen EXCEPT ![w] = 0]
  /\ faults' = faults + 1
  /\ UNCHANGED <<rev, rowVars, memVars, reopens, ops>>

Step(w) == \/ MarkStaleRevisions(w) \/ Enqueue(w)
           \/ LoadTurns(w) \/ CommitChunks(w) \/ LeaseLost(w)
           \/ Reclaim(w) \/ CommitFacts(w) \/ FailProcessing(w)

Next ==
  \/ \E e \in Episode : InsertEpisodeWithTurns(e) \/ ForceReprocess(e)
  \/ \E r \in Row : RequeueDead(r) \/ BecomeDue(r) \/ LeaseExpires(r)
  \/ \E w \in Worker : \/ StartRun(w) \/ ClaimProcessing(w) \/ EndDrain(w) \/ Step(w)
                       \/ StepFails(w) \/ FailLost(w) \/ Crash(w)

Spec == Init /\ [][Next]_vars

\* The night comes back, calls return or throw, the clock runs, a drained queue
\* ends the loop, and every window leaves time to claim something.
Fairness ==
  /\ \A r \in Row : WF_vars(BecomeDue(r)) /\ WF_vars(LeaseExpires(r))
  /\ \A w \in Worker :
       /\ WF_vars(StartRun(w)) /\ WF_vars(Step(w))
       /\ SF_vars(ClaimProcessing(w))
       /\ WF_vars(EndDrain(w) /\ Claimable = {})

FairSpec == Spec /\ Fairness

-----------------------------------------------------------------------------
(* Properties. *)

(* The fence of finishProcessingTx (db.ts:247-250): however leases expire, are
   stolen between the stages or survive their worker, a row's extraction is
   committed once, and once more only after it left "done". *)
NoDoubleExtraction == \A r \in Row : batches[r] <= 1 + reopens[r]

(* A row marked done has its facts in memory, or those of a later revision: the
   status and the facts never come apart, and no batch is retired by an older
   revision's worker. *)
DoneIsRemembered ==
  \A r \in Row : status[r] = "done" => \E v \in facts[r[1]] : v >= r[2]

(* pipeline.ts:208-212: the facts of the previous revision are retired only when
   those of the new one are in: an episode that has a memory is never without
   one, whatever fails during its reprocessing. *)
NeverForgets == [][\A e \in Episode : facts[e] # {} => facts'[e] # {}]_vars

(* The latest revision of every episode is eventually processed or dead-lettered,
   through crashes, lost leases and re-imports. *)
LatestSettled(e) == rev[e] > 0 /\ status[<<e, rev[e]>>] \in {"done", "dead"}
EventuallyRemembered == \A e \in Episode : rev[e] > 0 ~> LatestSettled(e)

(* bootstrap.ts:259-260, "ate a fila drenar": a run that claims until the queue
   is drained does come to an end. *)
DrainEnds == \A w \in Bootstrap : phase[w] = "drain" ~> phase[w] = "idle"

(* scheduler.ts:154-155: done, dead and skipped are terminal; only an operator
   takes a row out of them. *)
Terminal == {"done", "dead", "skipped"}
TerminalIsTerminal ==
  [][\A r \in Row : status[r] \in Terminal /\ status'[r] # status[r] => ops' = ops + 1]_vars

(* migrations/021:6, "proveniencia: qual texto foi vetorizado": the revision on
   the chunks of an episode is the one of the text they were made from. *)
ChunkProvenance == \A e \in Episode : chunks[e][1] = chunks[e][2]

(* bootstrap.ts:93-96, "o claim global nunca pega um estranho": a scoped bootstrap
   works on the episodes of its scope only. *)
NoStranger == \A w \in Bootstrap : job[w] # NoRow => job[w][1] \in Scope
=============================================================================
