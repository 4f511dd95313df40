------------------------------ MODULE LuaProofs ------------------------------
(***************************************************************************)
(* Three parts of MCLua.                                                   *)
(* The ledger, for every number of episodes, revisions and workers,        *)
(* whatever leases expire under their holders, are stolen between the      *)
(* stages or survive a crash: a row that is done carries no claim, so no   *)
(* fence lets anybody commit it again until an operator, or a late         *)
(* failure, has taken it out of "done".                                    *)
(* The nights, for every set of facts and containers and any number of     *)
(* nights, decisions and failures. Rules follow facts: a conduta in force  *)
(* that cites a fact an open extraction is about to supersede was either   *)
(* seen by that extraction, which flags it when it commits, or was         *)
(* approved later, by somebody who was not told. The published status:     *)
(* there is one run at a time, so what a run publishes stays until it      *)
(* ends, and a fact that lost its force never regains it.                  *)
(* The facts, for every talk, every number of workers and episodes, every  *)
(* verdict of the judge and whatever people decide meanwhile: what an open *)
(* transaction has copied, searched and written still fits the rows that   *)
(* others have committed since, so that when it commits each successor is  *)
(* newer than what it supersedes, and a clash nobody was told of is one    *)
(* neither side could see.                                                 *)
(***************************************************************************)
EXTENDS MCLua, SequenceTheorems, FiniteSetTheorems, WellFoundedInduction, TLAPS

\* A done row carries no claim, and counts one extraction more than it has
\* been reopened; any other row counts no more than that.
LedgerInv ==
  \A r \in Row :
    /\ status[r] = "done" => holder[r] = Nobody /\ batches[r] <= 1 + reopens[r]
    /\ status[r] # "done" => batches[r] <= reopens[r]

Inv == TypeOK /\ LedgerInv /\ DoneIsRemembered

LEMMA InitInv == Init => Inv
  BY LuaAssumption DEF Init, Inv, TypeOK, LedgerInv, DoneIsRemembered, Row, Working, NoRow

-----------------------------------------------------------------------------
(* Types, one lemma per group of actions. *)

\* A worker's step to phase p keeps the types of the worker's variables.
LEMMA GotoType ==
  ASSUME TypeOK, NEW w \in Worker, NEW p \in {"idle", "mark", "enqueue", "drain"} \union Working,
         Goto(w, p)
  PROVE  phase' \in [Worker -> {"idle", "mark", "enqueue", "drain"} \union Working]
  BY DEF TypeOK, Goto

LEMMA LoopType ==
  ASSUME TypeOK, NEW w \in Worker, Loop(w)
  PROVE  /\ phase' \in [Worker -> {"idle", "mark", "enqueue", "drain"} \union Working]
         /\ job' \in [Worker -> Row \union {NoRow}]
         /\ \A v \in Worker : phase'[v] \in Working => job'[v] \in Row
         /\ text' \in [Worker -> 0..MaxRevision] /\ seen' \in [Worker -> Nat]
  <1>1. "drain" \notin Working BY DEF Working
  <1>2. 0 \in 0..MaxRevision BY LuaAssumption
  <1>. QED BY <1>1, <1>2 DEF TypeOK, Loop, Goto

LEMMA ImportTypes ==
  ASSUME TypeOK, NEW e \in Episode, InsertEpisodeWithTurns(e) \/ ForceReprocess(e)
  PROVE  TypeOK'
  <1>1. CASE InsertEpisodeWithTurns(e)
    BY <1>1, LuaAssumption DEF TypeOK, InsertEpisodeWithTurns, rowVars, memVars, workVars
  <1>2. CASE ForceReprocess(e)
    <2>1. <<e, rev[e]>> \in Row BY <1>2, LuaAssumption DEF TypeOK, ForceReprocess, Row, Revision
    <2>. QED BY <1>2, <2>1 DEF TypeOK, ForceReprocess, Reset, Reopened, memVars, workVars
  <1>. QED BY <1>1, <1>2

LEMMA RowTypes ==
  ASSUME TypeOK, NEW r \in Row, RequeueDead(r) \/ BecomeDue(r) \/ LeaseExpires(r)
  PROVE  TypeOK'
  <1>1. CASE RequeueDead(r)
    BY <1>1 DEF TypeOK, RequeueDead, Reset, memVars, workVars
  <1>2. CASE BecomeDue(r)
    BY <1>2 DEF TypeOK, BecomeDue, memVars, workVars
  <1>3. CASE LeaseExpires(r)
    BY <1>3 DEF TypeOK, LeaseExpires, memVars, workVars
  <1>. QED BY <1>1, <1>2, <1>3

LEMMA RunTypes ==
  ASSUME TypeOK, NEW w \in Worker,
         \/ StartRun(w) \/ MarkStaleRevisions(w) \/ Enqueue(w)
         \/ ClaimProcessing(w) \/ EndDrain(w)
  PROVE  TypeOK'
  <1>. {"idle", "mark", "enqueue", "drain"} \cap Working = {} BY DEF Working
  <1>1. CASE StartRun(w)
    BY <1>1 DEF TypeOK, StartRun, Goto, rowVars, memVars
  <1>2. CASE MarkStaleRevisions(w)
    BY <1>2 DEF TypeOK, MarkStaleRevisions, Goto, memVars
  <1>3. CASE Enqueue(w)
    <2>1. PICK New : /\ status' = [r \in Row |-> IF r \in New THEN "pending" ELSE status[r]]
                     /\ due' = [r \in Row |-> IF r \in New THEN TRUE ELSE due[r]]
      BY <1>3 DEF Enqueue
    <2>2. due' \in [Row -> BOOLEAN]
      <3>1. \A r \in Row : (IF r \in New THEN TRUE ELSE due[r]) \in BOOLEAN
        BY Zenon DEF TypeOK
      <3>. QED BY <2>1, <3>1, Zenon
    <2>3. status' \in [Row -> {"absent", "pending", "chunked", "done", "failed", "dead", "skipped"}]
      BY <2>1 DEF TypeOK
    <2>. QED BY <1>3, <2>2, <2>3 DEF TypeOK, Enqueue, Goto, memVars
  <1>4. CASE ClaimProcessing(w)
    BY <1>4 DEF TypeOK, ClaimProcessing, Claimable, Goto, memVars, Working
  <1>5. CASE EndDrain(w)
    BY <1>5 DEF TypeOK, EndDrain, Goto, rowVars, memVars
  <1>. QED BY <1>1, <1>2, <1>3, <1>4, <1>5

LEMMA StageTypes ==
  ASSUME TypeOK, NEW w \in Worker,
         \/ LoadTurns(w) \/ CommitChunks(w) \/ LeaseLost(w) \/ Reclaim(w) \/ CommitFacts(w)
  PROVE  TypeOK'
  <1>1. CASE LoadTurns(w)
    <2>1. job[w] \in Row BY <1>1 DEF TypeOK, LoadTurns, Working
    <2>2. rev[job[w][1]] \in 0..MaxRevision BY <2>1 DEF TypeOK, Row
    <2>. QED BY <1>1, <2>1, <2>2 DEF TypeOK, LoadTurns, Goto, rowVars, memVars, Working
  <1>2. CASE CommitChunks(w)
    <2>1. job[w] \in Row /\ job[w][1] \in Episode /\ job[w][2] \in 0..MaxRevision
      BY <1>2 DEF TypeOK, CommitChunks, Working, Row, Revision
    <2>2. chunks' \in [Episode -> (0..MaxRevision) \X (0..MaxRevision)]
      <3>1. 0 \in 0..MaxRevision BY LuaAssumption
      <3>. QED BY <1>2, <2>1, <3>1 DEF TypeOK, CommitChunks
    <2>3. /\ status' \in [Row -> {"absent", "pending", "chunked", "done", "failed", "dead", "skipped"}]
          /\ holder' \in [Row -> Worker \union {Nobody}]
          /\ expired' \in [Row -> BOOLEAN]
      BY <1>2, <2>1 DEF TypeOK, CommitChunks, FinishProcessingTx
    <2>4. /\ phase' \in [Worker -> {"idle", "mark", "enqueue", "drain"} \union Working]
          /\ job' \in [Worker -> Row \union {NoRow}]
          /\ \A v \in Worker : phase'[v] \in Working => job'[v] \in Row
          /\ text' \in [Worker -> 0..MaxRevision] /\ seen' \in [Worker -> Nat]
      <3>1. CASE Loop(w) BY <3>1, LoopType
      <3>2. CASE Goto(w, "reclaim") /\ UNCHANGED <<job, text, seen>>
        BY <3>2, <2>1 DEF TypeOK, Goto, Working
      <3>. QED BY <1>2, <3>1, <3>2 DEF CommitChunks
    <2>. QED BY <1>2, <2>2, <2>3, <2>4 DEF TypeOK, CommitChunks
  <1>3. CASE LeaseLost(w)
    BY <1>3, LoopType DEF TypeOK, LeaseLost, rowVars, memVars
  <1>4. CASE Reclaim(w)
    <2>1. job[w] \in Row BY <1>4 DEF TypeOK, Reclaim, Working
    <2>2. CASE status[job[w]] = "chunked"
      <3>1. /\ holder' = [holder EXCEPT ![job[w]] = w]
            /\ expired' = [expired EXCEPT ![job[w]] = FALSE]
            /\ Goto(w, "extract") /\ UNCHANGED <<job, text, seen>>
        BY <1>4, <2>2, Zenon DEF Reclaim
      <3>. QED BY <1>4, <2>1, <3>1 DEF TypeOK, Reclaim, Goto, memVars, Working
    <2>3. CASE status[job[w]] # "chunked"
      BY <1>4, <2>3, LoopType DEF TypeOK, Reclaim, memVars
    <2>. QED BY <2>2, <2>3
  <1>5. CASE CommitFacts(w)
    <2>1. job[w] \in Row /\ job[w][1] \in Episode /\ job[w][2] \in Revision
      BY <1>5 DEF TypeOK, CommitFacts, Working, Row
    <2>2. facts' \in [Episode -> SUBSET Revision] /\ batches' \in [Row -> Nat]
      BY <1>5, <2>1 DEF TypeOK, CommitFacts, ReplaceFacts
    <2>3. /\ status' \in [Row -> {"absent", "pending", "chunked", "done", "failed", "dead", "skipped"}]
          /\ holder' \in [Row -> Worker \union {Nobody}]
          /\ expired' \in [Row -> BOOLEAN]
      BY <1>5, <2>1 DEF TypeOK, CommitFacts, FinishProcessingTx
    <2>. QED BY <1>5, <2>2, <2>3, LoopType DEF TypeOK, CommitFacts
  <1>. QED BY <1>1, <1>2, <1>3, <1>4, <1>5

LEMMA FailureTypes ==
  ASSUME TypeOK, NEW w \in Worker,
         StepFails(w) \/ FailProcessing(w) \/ FailLost(w) \/ Crash(w)
  PROVE  TypeOK'
  <1>1. CASE StepFails(w)
    <2>1. job[w] \in Row BY <1>1 DEF TypeOK, StepFails
    <2>. QED BY <1>1, <2>1 DEF TypeOK, StepFails, Goto, memVars, Working
  <1>2. CASE FailProcessing(w)
    <2>1. job[w] \in Row BY <1>2 DEF TypeOK, FailProcessing, Working
    <2>2. status' \in [Row -> {"absent", "pending", "chunked", "done", "failed", "dead", "skipped"}]
      BY <1>2, <2>1 DEF TypeOK, FailProcessing, FailedStatus
    <2>3. due' \in [Row -> BOOLEAN]
      <3>1. ((FailedStatus(w) = "dead") /\ due[job[w]]) \in BOOLEAN OBVIOUS
      <3>. QED BY <1>2, <2>1, <3>1 DEF TypeOK, FailProcessing
    <2>4. holder' \in [Row -> Worker \union {Nobody}] /\ expired' \in [Row -> BOOLEAN]
      BY <1>2, <2>1 DEF TypeOK, FailProcessing
    <2>5. reopens' \in [Row -> Nat] BY <1>2, <2>1 DEF TypeOK, FailProcessing, Reopened
    <2>. QED BY <1>2, <2>2, <2>3, <2>4, <2>5, LoopType DEF TypeOK, FailProcessing, memVars
  <1>3. CASE FailLost(w)
    BY <1>3, LoopType DEF TypeOK, FailLost, rowVars, memVars
  <1>4. CASE Crash(w)
    <2>1. "idle" \notin Working /\ 0 \in 0..MaxRevision BY LuaAssumption DEF Working
    <2>. QED BY <1>4, <2>1 DEF TypeOK, Crash, Goto, rowVars, memVars
  <1>. QED BY <1>1, <1>2, <1>3, <1>4

LEMMA NextTypes ==
  ASSUME TypeOK, Next
  PROVE  TypeOK'
  <1>1. CASE \E e \in Episode : InsertEpisodeWithTurns(e) \/ ForceReprocess(e)
    BY <1>1, ImportTypes
  <1>2. CASE \E r \in Row : RequeueDead(r) \/ BecomeDue(r) \/ LeaseExpires(r)
    BY <1>2, RowTypes
  <1>3. CASE \E w \in Worker : \/ StartRun(w) \/ ClaimProcessing(w) \/ EndDrain(w) \/ Step(w)
                               \/ StepFails(w) \/ FailLost(w) \/ Crash(w)
    BY <1>3, RunTypes, StageTypes, FailureTypes DEF Step
  <1>. QED BY <1>1, <1>2, <1>3 DEF Next

-----------------------------------------------------------------------------
(* The ledger and the facts. *)

\* Steps that change no status, no history and no memory, and give no row a claim.
LEMMA QuietStep ==
  ASSUME Inv, UNCHANGED <<status, holder, batches, reopens, facts>>
  PROVE  (LedgerInv /\ DoneIsRemembered)'
  BY DEF Inv, LedgerInv, DoneIsRemembered

\* A row is put back in the queue, its claim dropped; a done one counts a reopening.
LEMMA ReopenStep ==
  ASSUME Inv, NEW r \in Row, NEW s \in {"pending", "failed", "dead"},
         status' = [status EXCEPT ![r] = s],
         holder' = [holder EXCEPT ![r] = Nobody],
         reopens' = Reopened(r),
         UNCHANGED <<batches, facts>>
  PROVE  (LedgerInv /\ DoneIsRemembered)'
  <1>1. LedgerInv'
    <2>. SUFFICES ASSUME NEW q \in Row
                  PROVE  /\ status'[q] = "done" => holder'[q] = Nobody /\ batches'[q] <= 1 + reopens'[q]
                         /\ status'[q] # "done" => batches'[q] <= reopens'[q]
      BY DEF LedgerInv
    <2>1. CASE q = r
      BY <2>1 DEF Inv, TypeOK, LedgerInv, Reopened
    <2>2. CASE q # r
      BY <2>2 DEF Inv, TypeOK, LedgerInv, Reopened
    <2>. QED BY <2>1, <2>2
  <1>2. DoneIsRemembered' BY DEF Inv, TypeOK, DoneIsRemembered
  <1>. QED BY <1>1, <1>2

LEMMA CommitFactsStep ==
  ASSUME Inv, NEW w \in Worker, CommitFacts(w)
  PROVE  (LedgerInv /\ DoneIsRemembered)'
  <1>. DEFINE r == job[w]
  <1>1. r \in Row /\ r[1] \in Episode /\ r[2] \in Revision
    BY DEF Inv, TypeOK, CommitFacts, Working, Row
  <1>2. holder[r] = w /\ w # Nobody BY LuaAssumption DEF CommitFacts, Fenced
  \* The fence: whoever commits holds a claim, so the row is not done yet.
  <1>3. status[r] # "done" /\ batches[r] <= reopens[r] BY <1>1, <1>2 DEF Inv, LedgerInv
  <1>4. /\ status' = [status EXCEPT ![r] = "done"] /\ holder' = [holder EXCEPT ![r] = Nobody]
        /\ batches' = [batches EXCEPT ![r] = @ + 1] /\ UNCHANGED reopens
        /\ facts' = [facts EXCEPT ![r[1]] = {v \in @ : v >= r[2]} \union {r[2]}]
    BY DEF CommitFacts, FinishProcessingTx, ReplaceFacts
  <1>5. LedgerInv' BY <1>1, <1>3, <1>4 DEF Inv, TypeOK, LedgerInv
  <1>6. DoneIsRemembered'
    <2>. SUFFICES ASSUME NEW q \in Row, status'[q] = "done"
                  PROVE  \E v \in facts'[q[1]] : v >= q[2]
      BY DEF DoneIsRemembered
    <2>0. q[1] \in Episode /\ q[2] \in Int /\ r[2] \in Int BY <1>1 DEF Row, Revision
    <2>1. CASE q = r
      <3>1. r[2] \in facts'[r[1]] BY <1>1, <1>4 DEF Inv, TypeOK
      <3>. QED BY <2>0, <2>1, <3>1
    <2>2. CASE q # r
      <3>1. status[q] = "done" BY <1>1, <1>4, <2>2 DEF Inv, TypeOK
      <3>2. PICK v \in facts[q[1]] : v >= q[2] BY <3>1 DEF Inv, DoneIsRemembered
      <3>3. v \in Int BY <2>0, <3>2 DEF Inv, TypeOK, Revision
      <3>4. CASE q[1] # r[1] BY <1>1, <1>4, <2>0, <3>2, <3>4 DEF Inv, TypeOK
      \* Only earlier batches are retired, and r's own, later one comes in.
      <3>5. CASE q[1] = r[1]
        <4>1. facts'[q[1]] = {x \in facts[q[1]] : x >= r[2]} \union {r[2]}
          BY <1>1, <1>4, <2>0, <3>5 DEF Inv, TypeOK
        <4>2. CASE v >= r[2] BY <3>2, <4>1, <4>2
        <4>3. CASE v < r[2]
          <5>1. r[2] \in facts'[q[1]] BY <4>1
          <5>2. r[2] >= q[2] BY <2>0, <3>2, <3>3, <4>3
          <5>. QED BY <5>1, <5>2
        <4>. QED BY <2>0, <3>3, <4>2, <4>3
      <3>. QED BY <3>4, <3>5
    <2>. QED BY <2>1, <2>2
  <1>. QED BY <1>5, <1>6

LEMMA NextInv ==
  ASSUME Inv, [Next]_vars
  PROVE  Inv'
  <1>. SUFFICES TypeOK' /\ (LedgerInv /\ DoneIsRemembered)'
    BY DEF Inv
  <1>0. CASE UNCHANGED vars
    <2>1. TypeOK' BY <1>0 DEF vars, Inv, TypeOK
    <2>. QED BY <1>0, <2>1, QuietStep DEF vars
  <1>. SUFFICES ASSUME Next PROVE TypeOK' /\ (LedgerInv /\ DoneIsRemembered)'
    BY <1>0
  <1>1. TypeOK' BY NextTypes DEF Inv
  <1>2. (LedgerInv /\ DoneIsRemembered)'
    <2>1. ASSUME NEW e \in Episode, InsertEpisodeWithTurns(e)
          PROVE  (LedgerInv /\ DoneIsRemembered)'
      BY <2>1, QuietStep DEF InsertEpisodeWithTurns, rowVars, memVars
    <2>2. ASSUME NEW e \in Episode, ForceReprocess(e)
          PROVE  (LedgerInv /\ DoneIsRemembered)'
      <3>1. <<e, rev[e]>> \in Row
        BY <2>2, LuaAssumption DEF Inv, TypeOK, ForceReprocess, Row, Revision
      <3>. QED BY <2>2, <3>1, ReopenStep DEF ForceReprocess, Reset, memVars
    <2>3. ASSUME NEW r \in Row, RequeueDead(r)
          PROVE  (LedgerInv /\ DoneIsRemembered)'
      <3>1. reopens' = Reopened(r) BY <2>3 DEF RequeueDead, Reopened
      <3>. QED BY <2>3, <3>1, ReopenStep DEF RequeueDead, Reset, memVars
    <2>4. ASSUME NEW r \in Row, BecomeDue(r) \/ LeaseExpires(r)
          PROVE  (LedgerInv /\ DoneIsRemembered)'
      BY <2>4, QuietStep DEF BecomeDue, LeaseExpires, memVars
    <2>5. ASSUME NEW w \in Worker,
                 \/ StartRun(w) \/ EndDrain(w) \/ LoadTurns(w) \/ LeaseLost(w)
                 \/ StepFails(w) \/ FailLost(w) \/ Crash(w)
          PROVE  (LedgerInv /\ DoneIsRemembered)'
      BY <2>5, QuietStep DEF StartRun, EndDrain, LoadTurns, LeaseLost, StepFails, FailLost, Crash,
                             rowVars, memVars
    <2>6. ASSUME NEW w \in Worker, MarkStaleRevisions(w) \/ Enqueue(w)
          PROVE  (LedgerInv /\ DoneIsRemembered)'
      <3>1. /\ UNCHANGED <<holder, batches, reopens, facts>>
            /\ \A r \in Row : \/ status'[r] = status[r]
                              \/ status[r] # "done" /\ status'[r] # "done"
        BY <2>6 DEF MarkStaleRevisions, Enqueue, Stale, memVars
      <3>. QED BY <3>1 DEF Inv, TypeOK, LedgerInv, DoneIsRemembered
    <2>7. ASSUME NEW w \in Worker, ClaimProcessing(w)
          PROVE  (LedgerInv /\ DoneIsRemembered)'
      <3>1. PICK r \in Claimable : holder' = [holder EXCEPT ![r] = w]
        BY <2>7 DEF ClaimProcessing
      <3>2. status[r] # "done" BY DEF Claimable
      <3>. QED BY <2>7, <3>1, <3>2 DEF ClaimProcessing, memVars, Inv, TypeOK, LedgerInv, DoneIsRemembered
    <2>8. ASSUME NEW w \in Worker, CommitChunks(w)
          PROVE  (LedgerInv /\ DoneIsRemembered)'
      <3>1. job[w] \in Row BY <2>8 DEF Inv, TypeOK, CommitChunks, Working
      <3>2. status[job[w]] # "done" /\ batches[job[w]] <= reopens[job[w]]
        BY <2>8, <3>1, LuaAssumption DEF CommitChunks, Fenced, Inv, LedgerInv
      <3>3. /\ status' = [status EXCEPT ![job[w]] = "chunked"]
            /\ holder' = [holder EXCEPT ![job[w]] = Nobody]
            /\ UNCHANGED <<batches, reopens, facts>>
        BY <2>8 DEF CommitChunks, FinishProcessingTx
      <3>. QED BY <3>1, <3>2, <3>3 DEF Inv, TypeOK, LedgerInv, DoneIsRemembered
    <2>9. ASSUME NEW w \in Worker, Reclaim(w)
          PROVE  (LedgerInv /\ DoneIsRemembered)'
      <3>1. job[w] \in Row BY <2>9 DEF Inv, TypeOK, Reclaim, Working
      <3>2. /\ \/ holder' = holder
               \/ status[job[w]] # "done" /\ holder' = [holder EXCEPT ![job[w]] = w]
            /\ UNCHANGED <<status, batches, reopens, facts>>
        BY <2>9 DEF Reclaim, memVars
      <3>. QED BY <3>1, <3>2 DEF Inv, TypeOK, LedgerInv, DoneIsRemembered
    <2>10. ASSUME NEW w \in Worker, CommitFacts(w)
           PROVE  (LedgerInv /\ DoneIsRemembered)'
      BY <2>10, CommitFactsStep
    <2>11. ASSUME NEW w \in Worker, FailProcessing(w)
           PROVE  (LedgerInv /\ DoneIsRemembered)'
      <3>1. job[w] \in Row BY <2>11 DEF Inv, TypeOK, FailProcessing, Working
      <3>2. FailedStatus(w) \in {"pending", "failed", "dead"} BY DEF FailedStatus
      <3>. QED BY <2>11, <3>1, <3>2, ReopenStep DEF FailProcessing, memVars
    <2>. QED BY <2>1, <2>2, <2>3, <2>4, <2>5, <2>6, <2>7, <2>8, <2>9, <2>10, <2>11 DEF Next, Step
  <1>. QED BY <1>1, <1>2

THEOREM Invariance == Spec => []Inv
  BY InitInv, NextInv, PTL DEF Spec

-----------------------------------------------------------------------------
(* The state of the ledger is always well formed. *)
THEOREM TypeCorrect == Spec => []TypeOK
  BY Invariance, PTL DEF Inv

(* An extraction is committed once, and once more only after its row left
   "done" (db.ts:247-250, the fence of finishProcessingTx), for any number of
   workers and without any assumption on leases. *)
THEOREM ExtractedOnce == Spec => []NoDoubleExtraction
  <1>1. Inv => NoDoubleExtraction
    <2>. SUFFICES ASSUME Inv, NEW r \in Row PROVE batches[r] <= 1 + reopens[r]
      BY DEF NoDoubleExtraction
    <2>. QED BY DEF Inv, TypeOK, LedgerInv
  <1>. QED BY <1>1, Invariance, PTL

(* A row marked done has its facts in memory, or those of a later revision. *)
THEOREM DoneHasFacts == Spec => []DoneIsRemembered
  BY Invariance, PTL DEF Inv

(* pipeline.ts:208-212: no step, of whichever stale worker or failed stage,
   empties the memory of an episode that has one. *)
THEOREM MemoryIsKept == Spec => NeverForgets
  <1>. DEFINE Kept == \A e \in Episode : facts[e] # {} => facts'[e] # {}
  <1>1. Inv /\ [Next]_vars => [Kept]_vars
    <2>. SUFFICES ASSUME Inv, Next PROVE Kept
      OBVIOUS
    <2>1. ASSUME NEW w \in Worker, CommitFacts(w) PROVE Kept
      <3>1. job[w][1] \in Episode BY <2>1 DEF Inv, TypeOK, CommitFacts, Working, Row
      <3>2. facts' = [facts EXCEPT ![job[w][1]] = {v \in @ : v >= job[w][2]} \union {job[w][2]}]
        BY <2>1 DEF CommitFacts, ReplaceFacts
      <3>. QED BY <3>1, <3>2 DEF Inv, TypeOK
    <2>2. CASE UNCHANGED facts BY <2>2
    <2>. QED BY <2>1, <2>2 DEF Next, Step, InsertEpisodeWithTurns, ForceReprocess, RequeueDead, BecomeDue,
           LeaseExpires, StartRun, ClaimProcessing, EndDrain, MarkStaleRevisions, Enqueue, LoadTurns,
           CommitChunks, LeaseLost, Reclaim, FailProcessing, StepFails, FailLost, Crash, memVars
  <1>. QED BY <1>1, Invariance, PTL DEF NeverForgets, Spec

-----------------------------------------------------------------------------
(* The nights: invariants. *)

\* What an open extraction supersedes and has not seen cited is known to be blind.
OpenInv ==
  \A f \in Fact, c \in DOMAIN condutas :
    known[f].state = "open" /\ condutas[c].status = "active" =>
      \/ c \in known[f].marks
      \/ known[f].kills \cap condutas[c].cites \subseteq condutas[c].flagged \cup condutas[c].blind

RuleInv == C!TypeOK /\ OpenInv /\ RulesFollowFacts

\* The run of the night, when there is one, and what it owes the status.
Gone(f) == known[f].state \in {"superseded", "manual"}
OneRun ==
  /\ today \in 1..Nights
  /\ \A w \in Container : run[w] # C!Idle => night[today] # "none"
  /\ \A v, w \in Container : run[v] # C!Idle /\ run[w] # C!Idle => v = w
StatusOwed(w) ==
  /\ \A f \in run[w].gone : Gone(f)
  /\ run[w].due => run[w].touched
  /\ run[w].at = "publish" => run[w].pub \cap run[w].gone = {}
  /\ run[w].at \in {"recap", "write", "propose", "persist", "finish"} /\ run[w].due =>
       published \cap run[w].gone = {} \/ run[w].pub = {}
NightInv == OneRun /\ \A w \in Container : run[w] # C!Idle => StatusOwed(w)

-----------------------------------------------------------------------------
(* The nights: types, and what each action writes. *)

LEMMA InitTypes == C!Init => C!TypeOK
  <1>. SUFFICES ASSUME C!Init PROVE C!TypeOK
    OBVIOUS
  <1>1. known \in [Fact -> C!FactRow] BY DEF C!Init, C!FactRow
  <1>2. condutas \in Seq(C!CondutaRow) BY EmptySeq DEF C!Init
  <1>. QED BY <1>1, <1>2 DEF C!Init, C!TypeOK

\* A fact opens; the rest of its row, and the other versions, stay.
LEMMA ExtractWrites ==
  ASSUME C!TypeOK, NEW f \in Fact, C!Extract(f)
  PROVE  /\ C!TypeOK'
         /\ known[f].state = "unborn" /\ known'[f].state = "open"
         /\ known'[f].marks = C!FlagCondutaRulesCiting(known'[f].kills)
         /\ \A g \in Fact : g # f => known'[g] = known[g]
         /\ UNCHANGED <<condutas, today, night, published, recaps, run, ops, faults>>
  <1>1. PICK kills \in SUBSET Fact :
          known' = [known EXCEPT ![f].state = "open", ![f].kills = kills,
                                 ![f].marks = C!FlagCondutaRulesCiting(kills)]
    BY DEF C!Extract, C!InForce, C!InState
  <1>2. known[f] \in C!FactRow BY DEF C!TypeOK
  <1>3. C!FlagCondutaRulesCiting(kills) \in SUBSET Nat
    BY DEF C!FlagCondutaRulesCiting, C!TypeOK
  <1>4. /\ known'[f].state = "open" /\ known'[f].kills = kills
        /\ known'[f].marks = C!FlagCondutaRulesCiting(kills) /\ known'[f] \in C!FactRow
        /\ \A g \in Fact : g # f => known'[g] = known[g]
        /\ known' \in [Fact -> C!FactRow]
    BY <1>1, <1>2, <1>3 DEF C!FactRow, C!TypeOK
  <1>5. known[f].state = "unborn" /\ UNCHANGED <<condutas, today, night, published, recaps, run, ops, faults>>
    BY DEF C!Extract
  <1>6. C!TypeOK' BY <1>4, <1>5 DEF C!TypeOK
  <1>. QED BY <1>4, <1>5, <1>6

\* The commit: f is live, what it superseded is, and the marked versions are flagged.
LEMMA CommitWrites ==
  ASSUME C!TypeOK, NEW f \in Fact, C!CommitFacts(f)
  PROVE  /\ C!TypeOK'
         /\ known[f].state = "open" /\ known'[f].state = "live"
         /\ \A g \in Fact : g # f =>
              known'[g] = IF g \in known[f].kills THEN [known[g] EXCEPT !.state = "superseded"] ELSE known[g]
         /\ DOMAIN condutas' = DOMAIN condutas
         /\ \A c \in DOMAIN condutas : condutas'[c] =
              IF c \in known[f].marks
              THEN [condutas[c] EXCEPT !.flagged = @ \cup (known[f].kills \cap condutas[c].cites)]
              ELSE condutas[c]
         /\ \A w \in Container : run'[w] = IF run[w] = C!Idle THEN C!Idle ELSE [run[w] EXCEPT !.touched = TRUE]
         /\ UNCHANGED <<today, night, published, recaps, ops, faults>>
  <1>. DEFINE row == known[f]
  <1>1. row \in C!FactRow /\ row.state = "open" /\ row.kills \subseteq Fact BY DEF C!TypeOK, C!CommitFacts, C!FactRow
  <1>2. PICK review \in BOOLEAN :
          known' = [g \in Fact |->
            IF g = f THEN [row EXCEPT !.state = "live", !.kills = {}, !.marks = {}, !.review = review]
            ELSE IF g \in row.kills THEN [known[g] EXCEPT !.state = "superseded"] ELSE known[g]]
    BY DEF C!CommitFacts
  <1>. DEFINE new == [row EXCEPT !.state = "live", !.kills = {}, !.marks = {}, !.review = review]
  <1>. HIDE DEF new
  <1>12. known' = [g \in Fact |-> IF g = f THEN new
                                 ELSE IF g \in row.kills THEN [known[g] EXCEPT !.state = "superseded"] ELSE known[g]]
    BY <1>2 DEF new
  <1>3. known'[f] = new BY <1>12
  <1>4. known'[f] \in C!FactRow /\ known'[f].state = "live" BY <1>1, <1>3 DEF C!FactRow, new
  <1>5. ASSUME NEW g \in Fact, g # f
        PROVE  /\ known'[g] = IF g \in row.kills THEN [known[g] EXCEPT !.state = "superseded"] ELSE known[g]
               /\ known'[g] \in C!FactRow
    <2>1. known'[g] = IF g \in row.kills THEN [known[g] EXCEPT !.state = "superseded"] ELSE known[g]
      BY <1>12, <1>5
    <2>2. known[g] \in C!FactRow BY DEF C!TypeOK
    <2>. QED BY <2>1, <2>2 DEF C!FactRow
  <1>6. known' \in [Fact -> C!FactRow]
    <2>1. \A g \in Fact : known'[g] \in C!FactRow BY <1>4, <1>5
    <2>2. known' = [g \in Fact |-> known'[g]] BY <1>12
    <2>. QED BY <2>1, <2>2
  <1>7. condutas' = [c \in DOMAIN condutas |->
          IF c \in row.marks THEN [condutas[c] EXCEPT !.flagged = @ \cup (row.kills \cap condutas[c].cites)]
          ELSE condutas[c]]
    BY DEF C!CommitFacts
  <1>8. condutas' \in Seq(C!CondutaRow)
    <2>1. ASSUME NEW c \in DOMAIN condutas PROVE condutas'[c] \in C!CondutaRow
      <3>1. condutas[c] \in C!CondutaRow BY DEF C!TypeOK
      <3>2. CASE c \notin row.marks BY <1>7, <3>1, <3>2
      <3>3. CASE c \in row.marks
        <4>1. condutas'[c] = [condutas[c] EXCEPT !.flagged = @ \cup (row.kills \cap condutas[c].cites)]
          BY <1>7, <3>3
        <4>. QED BY <1>1, <3>1, <4>1 DEF C!CondutaRow
      <3>. QED BY <3>2, <3>3
    <2>2. DOMAIN condutas = 1..Len(condutas) /\ Len(condutas) \in Nat BY DEF C!TypeOK
    <2>3. condutas' \in [1..Len(condutas) -> C!CondutaRow] BY <1>7, <2>1, <2>2
    <2>. QED BY <2>2, <2>3, SeqDef
  <1>9. run' = [w \in Container |-> IF run[w] = C!Idle THEN C!Idle ELSE [run[w] EXCEPT !.touched = TRUE]]
        /\ UNCHANGED <<today, night, published, recaps, ops, faults>>
    BY DEF C!CommitFacts
  <1>10. run' \in [Container -> C!NightRun \cup {C!Idle}]
    <2>. SUFFICES ASSUME NEW w \in Container, run[w] # C!Idle
                  PROVE  [run[w] EXCEPT !.touched = TRUE] \in C!NightRun
      BY <1>9
    <2>1. run[w] \in C!NightRun BY DEF C!TypeOK
    <2>. QED BY <2>1 DEF C!NightRun
  <1>11. C!TypeOK' BY <1>6, <1>8, <1>9, <1>10 DEF C!TypeOK
  <1>. QED BY <1>1, <1>4, <1>5, <1>7, <1>9, <1>11

\* A run in progress is a record with all its fields.
LEMMA RunRecord ==
  ASSUME C!TypeOK, NEW w \in Container
  PROVE  /\ run[w] # C!Idle => run[w] \in C!NightRun
         /\ run[w].at # "idle" => run[w] # C!Idle
         /\ \A r \in C!NightRun : r.at # "idle" /\ r # C!Idle
  BY DEF C!TypeOK, C!NightRun, C!Idle

\* Only PersistProposal of a night's steps writes facts or condutas.
LEMMA NightWrites ==
  ASSUME C!TypeOK, NEW w \in Container,
         \/ C!ClaimNight(w) \/ C!DrainQueue(w) \/ C!NightFails(w) \/ C!FinishRun(w) \/ C!Crash(w)
         \/ C!GenerateStatus(w) \/ C!InsertProjectStatus(w) \/ C!GenerateRecap(w) \/ C!InsertRecap(w)
         \/ C!ProposeConduta(w) \/ C!DerivativeFails(w)
  PROVE  /\ C!TypeOK' /\ UNCHANGED <<known, condutas>>
         /\ \A v \in Container : v # w => run'[v] = run[v]
  <1>0. /\ UNCHANGED <<known, condutas, today, ops>>
        /\ run \in [Container -> C!NightRun \cup {C!Idle}]
    BY DEF C!TypeOK, C!ClaimNight, C!DrainQueue, C!NightFails, C!FinishRun, C!Crash, C!GenerateStatus,
           C!InsertProjectStatus, C!GenerateRecap, C!InsertRecap, C!ProposeConduta, C!DerivativeFails
  <1>1. C!InForce \subseteq Fact /\ C!Publishable \subseteq Fact /\ C!Eligible \subseteq Fact
        /\ C!InState("superseded") \cup C!InState("manual") \subseteq Fact
    BY DEF C!InForce, C!InState, C!Publishable, C!Eligible
  <1>2. night' \in [1..Nights -> {"none", "running", "done", "failed"}]
    BY DEF C!TypeOK, C!ClaimNight, C!DrainQueue, C!NightFails, C!FinishRun, C!Crash, C!GenerateStatus,
           C!InsertProjectStatus, C!GenerateRecap, C!InsertRecap, C!ProposeConduta, C!DerivativeFails
  <1>3. faults' \in Nat
    BY DEF C!TypeOK, C!ClaimNight, C!DrainQueue, C!NightFails, C!FinishRun, C!Crash, C!GenerateStatus,
           C!InsertProjectStatus, C!GenerateRecap, C!InsertRecap, C!ProposeConduta, C!DerivativeFails
  <1>4. published' \subseteq Fact /\ recaps' \subseteq Nat
    <2>1. CASE C!InsertProjectStatus(w)
      <3>1. run[w] \in C!NightRun BY <2>1, RunRecord DEF C!InsertProjectStatus
      <3>. QED BY <2>1, <3>1 DEF C!InsertProjectStatus, C!NightRun, C!TypeOK
    <2>2. CASE C!InsertRecap(w)
      <3>1. run[w] \in C!NightRun BY <2>2, RunRecord DEF C!InsertRecap
      <3>. QED BY <2>2, <3>1 DEF C!InsertRecap, C!NightRun, C!TypeOK
    <2>3. CASE UNCHANGED <<published, recaps>> BY <2>3 DEF C!TypeOK
    <2>. QED BY <2>1, <2>2, <2>3
         DEF C!ClaimNight, C!DrainQueue, C!NightFails, C!FinishRun, C!Crash, C!GenerateStatus,
             C!GenerateRecap, C!ProposeConduta, C!DerivativeFails
  \* Either the run begins or ends, or its record changes field by field.
  <1>5. \E r \in C!NightRun \cup {C!Idle} : run' = [run EXCEPT ![w] = r]
    <2>1. CASE C!ClaimNight(w)
      BY <2>1 DEF C!ClaimNight, C!NightRun, C!TypeOK
    <2>2. CASE C!NightFails(w) \/ C!FinishRun(w) \/ C!Crash(w)
      BY <2>2 DEF C!NightFails, C!FinishRun, C!Crash
    <2>3. CASE C!DrainQueue(w)
      <3>1. run[w] \in C!NightRun BY <2>3, RunRecord DEF C!DrainQueue
      <3>2. run' = [run EXCEPT ![w] = [run[w] EXCEPT !.at = "status", !.due = run[w].touched,
                       !.gone = C!InState("superseded") \cup C!InState("manual")]]
        BY <1>0, <2>3, <3>1 DEF C!DrainQueue
      <3>3. [run[w] EXCEPT !.at = "status", !.due = run[w].touched,
                       !.gone = C!InState("superseded") \cup C!InState("manual")] \in C!NightRun
        BY <1>1, <3>1 DEF C!NightRun
      <3>. QED BY <3>2, <3>3
    <2>4. CASE C!GenerateStatus(w)
      <3>1. run[w] \in C!NightRun BY <2>4, RunRecord DEF C!GenerateStatus
      <3>2. run' = [run EXCEPT ![w] = [run[w] EXCEPT !.pub = C!Publishable,
                       !.at = IF C!ChangedInRun(w) /\ C!Publishable # {} THEN "publish" ELSE C!AfterStatus(w)]]
        BY <1>0, <2>4, <3>1 DEF C!GenerateStatus
      <3>3. [run[w] EXCEPT !.pub = C!Publishable,
                       !.at = IF C!ChangedInRun(w) /\ C!Publishable # {} THEN "publish" ELSE C!AfterStatus(w)] \in C!NightRun
        BY <1>1, <3>1 DEF C!NightRun, C!AfterStatus
      <3>. QED BY <3>2, <3>3
    <2>5. CASE C!InsertProjectStatus(w)
      <3>1. run[w] \in C!NightRun BY <2>5, RunRecord DEF C!InsertProjectStatus
      <3>2. run' = [run EXCEPT ![w] = [run[w] EXCEPT !.at = C!AfterStatus(w)]]
        BY <1>0, <2>5, <3>1 DEF C!InsertProjectStatus
      <3>3. [run[w] EXCEPT !.at = C!AfterStatus(w)] \in C!NightRun
        BY <1>1, <3>1 DEF C!NightRun, C!AfterStatus
      <3>. QED BY <3>2, <3>3
    <2>6. CASE C!GenerateRecap(w)
      <3>1. run[w] \in C!NightRun BY <2>6, RunRecord DEF C!GenerateRecap
      <3>2. run' = [run EXCEPT ![w] = [run[w] EXCEPT !.at =
              IF run[w].date \notin recaps /\ C!InState("live") \cup C!InState("superseded") # {}
              THEN "write" ELSE "propose"]]
        BY <1>0, <2>6, <3>1 DEF C!GenerateRecap
      <3>3. [run[w] EXCEPT !.at =
              IF run[w].date \notin recaps /\ C!InState("live") \cup C!InState("superseded") # {}
              THEN "write" ELSE "propose"] \in C!NightRun
        BY <1>1, <3>1 DEF C!NightRun, C!AfterStatus
      <3>. QED BY <3>2, <3>3
    <2>7. CASE C!InsertRecap(w)
      <3>1. run[w] \in C!NightRun BY <2>7, RunRecord DEF C!InsertRecap
      <3>2. run' = [run EXCEPT ![w] = [run[w] EXCEPT !.at = "propose"]]
        BY <1>0, <2>7, <3>1 DEF C!InsertRecap
      <3>3. [run[w] EXCEPT !.at = "propose"] \in C!NightRun
        BY <1>1, <3>1 DEF C!NightRun, C!AfterStatus
      <3>. QED BY <3>2, <3>3
    <2>8. CASE C!ProposeConduta(w)
      <3>1. run[w] \in C!NightRun BY <2>8, RunRecord DEF C!ProposeConduta
      <3>2. CASE C!Eligible = {}
        <4>1. run' = [run EXCEPT ![w] = [run[w] EXCEPT !.at = "finish"]]
          BY <1>0, <2>8, <3>1, <3>2 DEF C!ProposeConduta
        <4>. QED BY <3>1, <4>1 DEF C!NightRun
      <3>3. CASE C!Eligible # {}
        <4>1. PICK cites \in SUBSET C!Eligible :
                run' = [run EXCEPT ![w].at = "persist", ![w].cites = cites]
          BY <2>8, <3>3 DEF C!ProposeConduta
        <4>2. run' = [run EXCEPT ![w] = [run[w] EXCEPT !.at = "persist", !.cites = cites]]
          BY <1>0, <3>1, <4>1
        <4>3. [run[w] EXCEPT !.at = "persist", !.cites = cites] \in C!NightRun
          BY <1>1, <3>1 DEF C!NightRun
        <4>. QED BY <4>2, <4>3
      <3>. QED BY <3>2, <3>3
    <2>9. CASE C!DerivativeFails(w)
      <3>1. run[w] \in C!NightRun BY <2>9, RunRecord DEF C!DerivativeFails
      <3>. DEFINE next == IF run[w].at = "publish" THEN C!AfterStatus(w)
                          ELSE IF run[w].at = "write" THEN "propose" ELSE "finish"
                  owed == run[w].due /\ run[w].at # "publish"
      <3>2. run' = [run EXCEPT ![w] = [run[w] EXCEPT !.due = owed, !.at = next]]
        BY <1>0, <2>9, <3>1 DEF C!DerivativeFails
      <3>3. [run[w] EXCEPT !.due = owed, !.at = next] \in C!NightRun
        BY <3>1 DEF C!NightRun, C!AfterStatus
      <3>. QED BY <3>2, <3>3
    <2>. QED BY <2>1, <2>2, <2>3, <2>4, <2>5, <2>6, <2>7, <2>8, <2>9
  <1>6. run' \in [Container -> C!NightRun \cup {C!Idle}] /\ \A v \in Container : v # w => run'[v] = run[v]
    BY <1>0, <1>5
  <1>. QED BY <1>0, <1>2, <1>3, <1>4, <1>6 DEF C!TypeOK

\* Rows never lose what they cite, nor become active by themselves.
LEMMA PersistWrites ==
  ASSUME C!TypeOK, NEW w \in Container, C!PersistProposal(w)
  PROVE  /\ C!TypeOK'
         /\ \A f \in Fact : /\ known'[f].state = known[f].state /\ known'[f].kills = known[f].kills
                            /\ known'[f].marks = known[f].marks
         /\ \A c \in DOMAIN condutas' : condutas'[c].status = "active" =>
              c \in DOMAIN condutas /\ condutas'[c] = condutas[c]
         /\ run[w] # C!Idle /\ run' = [run EXCEPT ![w] = [run[w] EXCEPT !.at = "finish"]]
         /\ UNCHANGED <<today, night, published>>
  <1>1. run[w] \in C!NightRun /\ run[w] # C!Idle BY RunRecord DEF C!PersistProposal
  <1>2. run' = [run EXCEPT ![w] = [run[w] EXCEPT !.at = "finish"]]
        /\ UNCHANGED <<today, night, published, recaps, ops, faults>>
    BY <1>1 DEF C!PersistProposal, C!TypeOK
  <1>3. run' \in [Container -> C!NightRun \cup {C!Idle}]
    <2>1. [run[w] EXCEPT !.at = "finish"] \in C!NightRun BY <1>1 DEF C!NightRun
    <2>. QED BY <1>2, <2>1 DEF C!TypeOK
  <1>4. CASE UNCHANGED <<condutas, known>>
    <2>1. C!TypeOK' BY <1>2, <1>3, <1>4 DEF C!TypeOK
    <2>. QED BY <1>1, <1>2, <1>4, <2>1
  <1>5. ASSUME condutas' = C!InsertProposed(C!RejectPending(condutas), run[w].cites),
               known' = [f \in Fact |-> [known[f] EXCEPT !.fresh = known[f].state = "unborn"]]
        PROVE  /\ C!TypeOK'
               /\ \A f \in Fact : /\ known'[f].state = known[f].state /\ known'[f].kills = known[f].kills
                                  /\ known'[f].marks = known[f].marks
               /\ \A c \in DOMAIN condutas' : condutas'[c].status = "active" =>
                    c \in DOMAIN condutas /\ condutas'[c] = condutas[c]
    <2>1. ASSUME NEW f \in Fact
          PROVE  /\ known'[f] \in C!FactRow
                 /\ known'[f].state = known[f].state /\ known'[f].kills = known[f].kills
                 /\ known'[f].marks = known[f].marks
      <3>1. known[f] \in C!FactRow BY DEF C!TypeOK
      <3>2. known'[f] = [known[f] EXCEPT !.fresh = known[f].state = "unborn"] BY <1>5
      <3>. QED BY <3>1, <3>2 DEF C!FactRow
    <2>2. known' \in [Fact -> C!FactRow] BY <1>5, <2>1
    <2>. DEFINE versions == C!RejectPending(condutas)
                new == [status |-> "proposed", cites |-> run[w].cites, flagged |-> {}, blind |-> {}]
    <2>3. Len(condutas) \in Nat /\ DOMAIN condutas = 1..Len(condutas) BY DEF C!TypeOK
    <2>4. ASSUME NEW c \in DOMAIN condutas
          PROVE  /\ versions[c] \in C!CondutaRow
                 /\ versions[c].status = "active" => versions[c] = condutas[c]
      <3>1. condutas[c] \in C!CondutaRow BY DEF C!TypeOK
      <3>2. versions[c] = IF condutas[c].status = "proposed"
                      THEN [condutas[c] EXCEPT !.status = "rejected"] ELSE condutas[c]
        BY DEF C!RejectPending
      <3>. QED BY <3>1, <3>2 DEF C!CondutaRow
    <2>5. versions \in Seq(C!CondutaRow) /\ Len(versions) = Len(condutas)
      <3>1. versions \in [1..Len(condutas) -> C!CondutaRow] BY <2>3, <2>4 DEF C!RejectPending
      <3>2. versions \in Seq(C!CondutaRow) BY <2>3, <3>1, SeqDef
      <3>. QED BY <2>3, <3>1, <3>2
    <2>6. new \in C!CondutaRow BY <1>1 DEF C!CondutaRow, C!NightRun
    <2>7. condutas' = Append(versions, new) BY <1>5 DEF C!InsertProposed
    <2>. HIDE DEF versions, new
    <2>8. /\ condutas' \in Seq(C!CondutaRow) /\ Len(condutas') = Len(condutas) + 1
          /\ \A c \in 1..Len(condutas) : condutas'[c] = versions[c]
          /\ condutas'[Len(condutas) + 1] = new
      BY <2>5, <2>6, <2>7, AppendProperties
    <2>9. ASSUME NEW c \in DOMAIN condutas', condutas'[c].status = "active"
          PROVE  c \in DOMAIN condutas /\ condutas'[c] = condutas[c]
      <3>1. c \in 1..(Len(condutas) + 1) BY <2>8
      <3>2. c # Len(condutas) + 1 BY <2>8, <2>9 DEF new
      <3>3. c \in 1..Len(condutas) BY <2>3, <3>1, <3>2
      <3>. QED BY <2>3, <2>4, <2>8, <2>9, <3>3
    <2>10. C!TypeOK' BY <1>2, <1>3, <2>2, <2>8 DEF C!TypeOK
    <2>. QED BY <2>1, <2>9, <2>10
  <1>. QED BY <1>1, <1>2, <1>4, <1>5, Zenon DEF C!PersistProposal

\* What the decisions of people write.
LEMMA ApproveWrites ==
  ASSUME C!TypeOK, NEW c \in DOMAIN condutas, C!ApproveConduta(c)
  PROVE  /\ C!TypeOK' /\ DOMAIN condutas' = DOMAIN condutas
         /\ \A d \in DOMAIN condutas : /\ condutas'[d].cites = condutas[d].cites
                                       /\ condutas'[d].flagged = condutas[d].flagged
         /\ \A d \in DOMAIN condutas : d # c /\ condutas'[d].status = "active" => condutas'[d] = condutas[d]
         /\ condutas'[c].blind = condutas[c].blind \cup (condutas[c].cites \cap C!Losing)
         /\ UNCHANGED <<known, today, night, published, run>>
  <1>. DEFINE versions == C!SupersedeActive(condutas, c)
  <1>1. Len(condutas) \in Nat /\ DOMAIN condutas = 1..Len(condutas) BY DEF C!TypeOK
  <1>2. condutas[c] \in C!CondutaRow BY DEF C!TypeOK
  <1>3. ASSUME NEW d \in DOMAIN condutas
        PROVE  /\ versions[d] \in C!CondutaRow
               /\ versions[d].cites = condutas[d].cites /\ versions[d].flagged = condutas[d].flagged
               /\ d = c => versions[d] = condutas[d]
               /\ d # c /\ versions[d].status = "active" => versions[d] = condutas[d]
    <2>1. condutas[d] \in C!CondutaRow BY DEF C!TypeOK
    <2>2. versions[d] = IF condutas[d].status = "active" /\ d # c
                    THEN [condutas[d] EXCEPT !.status = "superseded"] ELSE condutas[d]
      BY DEF C!SupersedeActive
    <2>. QED BY <2>1, <2>2 DEF C!CondutaRow
  <1>4. versions \in [1..Len(condutas) -> C!CondutaRow] BY <1>1, <1>3 DEF C!SupersedeActive
  <1>5. condutas' = [versions EXCEPT ![c].status = "active", ![c].blind = @ \cup (condutas[c].cites \cap C!Losing)]
        /\ UNCHANGED <<known, today, night, published, recaps, run, faults>> /\ ops' \in Nat
    BY DEF C!ApproveConduta, C!Act, C!TypeOK
  <1>. HIDE DEF versions
  <1>. DEFINE new == [condutas[c] EXCEPT !.status = "active", !.blind = @ \cup (condutas[c].cites \cap C!Losing)]
  <1>6. condutas' = [versions EXCEPT ![c] = new] BY <1>1, <1>2, <1>3, <1>4, <1>5
  <1>7. /\ new \in C!CondutaRow /\ new.cites = condutas[c].cites /\ new.flagged = condutas[c].flagged
        /\ new.blind = condutas[c].blind \cup (condutas[c].cites \cap C!Losing)
    BY <1>2 DEF C!CondutaRow, C!Losing
  <1>. HIDE DEF new
  <1>8. condutas' \in [1..Len(condutas) -> C!CondutaRow] BY <1>4, <1>6, <1>7
  <1>9. condutas' \in Seq(C!CondutaRow) BY <1>1, <1>8, SeqDef
  <1>10. C!TypeOK' BY <1>5, <1>9 DEF C!TypeOK
  <1>. QED BY <1>1, <1>3, <1>4, <1>5, <1>6, <1>7, <1>8, <1>10

LEMMA RejectWrites ==
  ASSUME C!TypeOK, NEW c \in DOMAIN condutas, C!RejectConduta(c)
  PROVE  /\ C!TypeOK' /\ DOMAIN condutas' = DOMAIN condutas
         /\ \A d \in DOMAIN condutas : condutas'[d].status = "active" => condutas'[d] = condutas[d]
         /\ UNCHANGED <<known, today, night, published, run>>
  <1>1. Len(condutas) \in Nat /\ DOMAIN condutas = 1..Len(condutas)
        /\ condutas \in [1..Len(condutas) -> C!CondutaRow]
    BY DEF C!TypeOK
  <1>. DEFINE new == [condutas[c] EXCEPT !.status = "rejected"]
  <1>2. condutas' = [condutas EXCEPT ![c] = new]
        /\ UNCHANGED <<known, today, night, published, recaps, run, faults>> /\ ops' \in Nat
    BY DEF C!RejectConduta, C!Act, C!TypeOK
  <1>3. new \in C!CondutaRow /\ new.status = "rejected" BY <1>1 DEF C!CondutaRow
  <1>. HIDE DEF new
  <1>4. condutas' \in [1..Len(condutas) -> C!CondutaRow] BY <1>1, <1>2, <1>3
  <1>5. condutas' \in Seq(C!CondutaRow) BY <1>1, <1>4, SeqDef
  <1>6. C!TypeOK' BY <1>2, <1>5 DEF C!TypeOK
  <1>. QED BY <1>1, <1>2, <1>3, <1>6

LEMMA ResolveWrites ==
  ASSUME C!TypeOK, NEW f \in Fact, C!ResolveFact(f)
  PROVE  /\ C!TypeOK' /\ known[f].state = "live" /\ known'[f].state \in {"live", "manual"}
         /\ \A g \in Fact : g # f => known'[g] = known[g]
         /\ UNCHANGED <<condutas, today, night, published, run>>
  <1>1. known[f] \in C!FactRow /\ known[f].state = "live"
    BY DEF C!TypeOK, C!ResolveFact, C!InForce, C!InState
  <1>2. PICK new \in {[known[f] EXCEPT !.state = "manual", !.review = FALSE],
                      [known[f] EXCEPT !.review = FALSE]} : known' = [known EXCEPT ![f] = new]
    BY <1>1 DEF C!ResolveFact, C!TypeOK
  <1>3. new \in C!FactRow /\ new.state \in {"live", "manual"} BY <1>1, <1>2 DEF C!FactRow
  <1>4. UNCHANGED <<condutas, today, night, published, recaps, run, faults>> /\ ops' \in Nat
    BY DEF C!ResolveFact, C!Act, C!TypeOK
  <1>5. C!TypeOK' BY <1>2, <1>3, <1>4 DEF C!TypeOK
  <1>. QED BY <1>1, <1>2, <1>3, <1>4, <1>5 DEF C!TypeOK

LEMMA CalendarWrites ==
  ASSUME C!TypeOK, C!NextDay \/ \E d \in recaps : C!DeleteRecap(d)
  PROVE  C!TypeOK' /\ UNCHANGED <<known, condutas, night, published, run>>
  <1>1. CASE C!NextDay BY <1>1 DEF C!TypeOK, C!NextDay
  <1>2. ASSUME NEW d \in recaps, C!DeleteRecap(d)
        PROVE  C!TypeOK' /\ UNCHANGED <<known, condutas, night, published, run>>
    <2>1. recaps' \subseteq Nat /\ ops' \in Nat BY <1>2 DEF C!TypeOK, C!DeleteRecap, C!Act
    <2>. QED BY <1>2, <2>1 DEF C!TypeOK, C!DeleteRecap
  <1>. QED BY <1>1, <1>2

-----------------------------------------------------------------------------
(* Rules follow facts. *)

LEMMA RuleInit == C!Init => RuleInv
  <1>. SUFFICES ASSUME C!Init PROVE RuleInv
    OBVIOUS
  <1>1. \A f \in Fact : known[f].state = "unborn" BY DEF C!Init
  <1>2. OpenInv BY <1>1 DEF OpenInv
  <1>3. RulesFollowFacts BY <1>1 DEF RulesFollowFacts, C!RulesFollowFacts, C!InState
  <1>. QED BY <1>2, <1>3, InitTypes DEF RuleInv

\* Steps that supersede no fact, and make no conduta active.
LEMMA RuleKept ==
  ASSUME RuleInv, C!TypeOK',
         \A f \in Fact :
           /\ known'[f].state = "superseded" => known[f].state = "superseded"
           /\ known'[f].state = "open" => /\ known[f].state = "open" /\ known'[f].kills = known[f].kills
                                          /\ known'[f].marks = known[f].marks,
         \A c \in DOMAIN condutas' : condutas'[c].status = "active" =>
           c \in DOMAIN condutas /\ condutas'[c] = condutas[c]
  PROVE  RuleInv'
  <1>1. OpenInv' BY DEF RuleInv, OpenInv
  <1>2. RulesFollowFacts' BY DEF RuleInv, RulesFollowFacts, C!RulesFollowFacts, C!InState
  <1>. QED BY <1>1, <1>2 DEF RuleInv

LEMMA RuleNext ==
  ASSUME RuleInv, [C!Next]_(C!vars)
  PROVE  RuleInv'
  <1>. C!TypeOK BY DEF RuleInv
  <1>0. CASE UNCHANGED C!vars
    <2>1. C!TypeOK' BY <1>0 DEF C!vars, C!TypeOK
    <2>. QED BY <1>0, <2>1, RuleKept DEF C!vars
  <1>1. ASSUME NEW f \in Fact, C!Extract(f) PROVE RuleInv'
    <2>1. OpenInv'
      <3>. SUFFICES ASSUME NEW g \in Fact, NEW c \in DOMAIN condutas,
                           known'[g].state = "open", condutas[c].status = "active",
                           c \notin known'[g].marks
                    PROVE  known'[g].kills \cap condutas[c].cites \subseteq condutas[c].flagged \cup condutas[c].blind
        BY <1>1, ExtractWrites DEF OpenInv
      \* A conduta in force that is not marked cites nothing of what is superseded.
      <3>1. CASE g = f
        BY <1>1, <3>1, ExtractWrites DEF C!FlagCondutaRulesCiting
      <3>2. CASE g # f BY <1>1, <3>2, ExtractWrites DEF RuleInv, OpenInv
      <3>. QED BY <3>1, <3>2
    <2>2. RulesFollowFacts'
      <3>1. \A g \in Fact : known'[g].state = "superseded" => known[g].state = "superseded"
        BY <1>1, ExtractWrites
      <3>2. UNCHANGED condutas BY <1>1, ExtractWrites
      <3>. QED BY <3>1, <3>2 DEF RuleInv, RulesFollowFacts, C!RulesFollowFacts, C!InState
    <2>. QED BY <1>1, <2>1, <2>2, ExtractWrites DEF RuleInv
  <1>2. ASSUME NEW f \in Fact, C!CommitFacts(f) PROVE RuleInv'
    <2>. DEFINE row == known[f]
    <2>1. /\ C!TypeOK' /\ row.state = "open" /\ known'[f].state = "live"
          /\ DOMAIN condutas' = DOMAIN condutas
          /\ \A g \in Fact : g # f =>
               known'[g] = IF g \in row.kills THEN [known[g] EXCEPT !.state = "superseded"] ELSE known[g]
      BY <1>2, CommitWrites
    \* Every rule that cites what f supersedes is flagged, or its conduta was approved blindly.
    <2>2. ASSUME NEW c \in DOMAIN condutas
          PROVE  /\ condutas'[c].status = condutas[c].status /\ condutas'[c].cites = condutas[c].cites
                 /\ condutas'[c].blind = condutas[c].blind /\ condutas[c].flagged \subseteq condutas'[c].flagged
                 /\ c \in row.marks => row.kills \cap condutas[c].cites \subseteq condutas'[c].flagged
      <3>1. condutas[c] \in C!CondutaRow BY DEF C!TypeOK
      <3>2. condutas'[c] = IF c \in row.marks
                           THEN [condutas[c] EXCEPT !.flagged = @ \cup (row.kills \cap condutas[c].cites)]
                           ELSE condutas[c]
        BY <1>2, CommitWrites
      <3>. QED BY <3>1, <3>2 DEF C!CondutaRow
    <2>3. \A g \in Fact : known'[g].state = "open" =>
            g # f /\ known'[g] = known[g]
      <3>. SUFFICES ASSUME NEW g \in Fact, g # f, g \in row.kills, known'[g].state = "open"
                    PROVE  FALSE
        BY <2>1
      <3>1. known[g] \in C!FactRow BY DEF C!TypeOK
      <3>. QED BY <2>1, <3>1 DEF C!FactRow
    <2>4. \A g \in Fact : known'[g].state = "superseded" => g \in row.kills \/ known[g].state = "superseded"
      BY <2>1
    <2>. HIDE DEF row
    <2>5. OpenInv' BY <2>1, <2>2, <2>3 DEF RuleInv, OpenInv
    <2>6. RulesFollowFacts'
      <3>. SUFFICES ASSUME NEW c \in DOMAIN condutas, condutas[c].status = "active",
                           NEW g \in Fact, known'[g].state = "superseded", g \in condutas[c].cites
                    PROVE  g \in condutas'[c].flagged \cup condutas'[c].blind
        BY <2>1, <2>2 DEF RulesFollowFacts, C!RulesFollowFacts, C!InState
      <3>1. CASE known[g].state = "superseded"
        BY <2>2, <3>1 DEF RuleInv, RulesFollowFacts, C!RulesFollowFacts, C!InState
      <3>2. CASE g \in row.kills
        BY <2>1, <2>2, <3>2 DEF RuleInv, OpenInv, row
      <3>. QED BY <2>4, <3>1, <3>2
    <2>. QED BY <2>1, <2>5, <2>6 DEF RuleInv
  <1>3. ASSUME NEW f \in Fact, C!ResolveFact(f) PROVE RuleInv'
    <2>1. /\ C!TypeOK' /\ UNCHANGED condutas /\ known'[f].state \in {"live", "manual"}
          /\ \A g \in Fact : g # f => known'[g] = known[g]
      BY <1>3, ResolveWrites
    <2>. QED BY <2>1, RuleKept
  <1>4. ASSUME NEW w \in Container, C!Night(w) PROVE RuleInv'
    <2>1. CASE C!PersistProposal(w) BY <2>1, PersistWrites, RuleKept
    <2>2. CASE ~C!PersistProposal(w)
      <3>1. C!TypeOK' /\ UNCHANGED <<known, condutas>> BY <1>4, <2>2, NightWrites DEF C!Night
      <3>. QED BY <3>1, RuleKept
    <2>. QED BY <2>1, <2>2
  <1>5. ASSUME NEW c \in DOMAIN condutas, C!ApproveConduta(c) PROVE RuleInv'
    <2>1. /\ C!TypeOK' /\ DOMAIN condutas' = DOMAIN condutas /\ UNCHANGED known
          /\ \A d \in DOMAIN condutas : /\ condutas'[d].cites = condutas[d].cites
                                        /\ condutas'[d].flagged = condutas[d].flagged
          /\ \A d \in DOMAIN condutas : d # c /\ condutas'[d].status = "active" => condutas'[d] = condutas[d]
          /\ condutas'[c].blind = condutas[c].blind \cup (condutas[c].cites \cap C!Losing)
      BY <1>5, ApproveWrites
    \* What has lost its force, or is losing it, is recorded as blind.
    <2>2. \A f \in Fact : /\ known[f].state = "superseded" => f \in C!Losing
                          /\ known[f].state = "open" => known[f].kills \cap Fact \subseteq C!Losing
      BY DEF C!Losing, C!InForce, C!InState, C!Dying
    <2>3. \A f \in Fact : known[f].kills \subseteq Fact BY DEF C!TypeOK, C!FactRow
    <2>4. OpenInv' BY <2>1, <2>2, <2>3 DEF RuleInv, OpenInv
    <2>5. RulesFollowFacts'
      <3>. SUFFICES ASSUME NEW d \in DOMAIN condutas, condutas'[d].status = "active",
                           NEW g \in Fact, known[g].state = "superseded", g \in condutas[d].cites
                    PROVE  g \in condutas'[d].flagged \cup condutas'[d].blind
        BY <2>1 DEF RulesFollowFacts, C!RulesFollowFacts, C!InState
      <3>1. CASE d = c BY <2>1, <2>2, <3>1
      <3>2. CASE d # c
        <4>1. condutas'[d] = condutas[d] BY <2>1, <3>2
        <4>. QED BY <4>1 DEF RuleInv, RulesFollowFacts, C!RulesFollowFacts, C!InState
      <3>. QED BY <3>1, <3>2
    <2>. QED BY <2>1, <2>4, <2>5 DEF RuleInv
  <1>6. ASSUME NEW c \in DOMAIN condutas, C!RejectConduta(c) PROVE RuleInv'
    BY <1>6, RejectWrites, RuleKept
  <1>7. CASE C!NextDay \/ \E d \in recaps : C!DeleteRecap(d)
    BY <1>7, CalendarWrites, RuleKept
  <1>. QED BY <1>0, <1>1, <1>2, <1>3, <1>4, <1>5, <1>6, <1>7 DEF C!Next

THEOREM RuleInvariance == C!Spec => []RuleInv
  BY RuleInit, RuleNext, PTL DEF C!Spec

(* Facts, condutas, nights and runs are always well formed. *)
THEOREM NightsTypeCorrect == C!Spec => []C!TypeOK
  BY RuleInvariance, PTL DEF RuleInv

(* No rule of a conduta in force rests silently on a superseded fact, however
   extractions, proposals and approvals overlap (reconcile.ts, condutas.ts). *)
THEOREM RulesFollow == C!Spec => []RulesFollowFacts
  BY RuleInvariance, PTL DEF RuleInv

-----------------------------------------------------------------------------
(* The status follows the night. *)

LEMMA NightInit == Nights \in Nat \ {0} /\ C!Init => NightInv
  BY DEF C!Init, NightInv, OneRun

\* Steps outside the nights: a fact that lost its force does not regain it.
LEMMA NightKept ==
  ASSUME C!TypeOK, NightInv, UNCHANGED <<today, night, published>>,
         \A f \in Fact : Gone(f) => Gone(f)',
         \A w \in Container :
           \/ run'[w] = run[w]
           \/ run[w] # C!Idle /\ run'[w] = [run[w] EXCEPT !.touched = TRUE]
  PROVE  NightInv'
  <1>. SUFFICES ASSUME NEW w \in Container, run'[w] # C!Idle
                PROVE  /\ run[w] # C!Idle
                       /\ StatusOwed(w)'
    BY DEF NightInv, OneRun
  <1>1. run[w] # C!Idle /\ run[w] \in C!NightRun BY RunRecord
  <1>2. /\ run'[w].at = run[w].at /\ run'[w].due = run[w].due /\ run'[w].gone = run[w].gone
        /\ run'[w].pub = run[w].pub /\ (run[w].touched => run'[w].touched)
    BY <1>1 DEF C!NightRun
  <1>3. StatusOwed(w) BY <1>1 DEF NightInv
  <1>4. run[w].gone \subseteq Fact BY <1>1 DEF C!NightRun
  <1>. QED BY <1>1, <1>2, <1>3, <1>4 DEF StatusOwed

LEMMA GoneForGood ==
  ASSUME C!TypeOK, NEW f \in Fact, C!Extract(f) \/ C!CommitFacts(f) \/ C!ResolveFact(f)
  PROVE  \A g \in Fact : Gone(g) => Gone(g)'
  <1>1. CASE C!Extract(f) BY <1>1, ExtractWrites DEF Gone
  <1>2. CASE C!CommitFacts(f)
    <2>. SUFFICES ASSUME NEW g \in Fact, Gone(g) PROVE Gone(g)'
      OBVIOUS
    <2>1. g # f BY <1>2, CommitWrites DEF Gone
    <2>2. known[g] \in C!FactRow BY DEF C!TypeOK
    <2>3. known'[g] = IF g \in known[f].kills THEN [known[g] EXCEPT !.state = "superseded"] ELSE known[g]
      BY <1>2, <2>1, CommitWrites
    <2>. QED BY <2>2, <2>3 DEF Gone, C!FactRow
  <1>3. CASE C!ResolveFact(f) BY <1>3, ResolveWrites DEF Gone
  <1>. QED BY <1>1, <1>2, <1>3

\* A step of the one run there is.
LEMMA NightStep ==
  ASSUME Nights \in Nat \ {0}, C!TypeOK, NightInv, NEW w \in Container, C!Night(w)
  PROVE  NightInv'
  <1>. DEFINE other == \A v \in Container : v # w => run'[v] = run[v]
  <1>1. /\ other /\ C!TypeOK'
        /\ \A f \in Fact : known'[f].state = known[f].state
        /\ UNCHANGED today
    <2>1. CASE C!PersistProposal(w) BY <2>1, PersistWrites DEF C!TypeOK
    <2>2. CASE ~C!PersistProposal(w)
      <3>1. UNCHANGED today
        BY <2>2 DEF C!Night, C!ClaimNight, C!DrainQueue, C!NightFails, C!FinishRun, C!Crash, C!GenerateStatus,
                    C!InsertProjectStatus, C!GenerateRecap, C!InsertRecap, C!ProposeConduta, C!DerivativeFails
      <3>. QED BY <2>2, <3>1, NightWrites DEF C!Night
    <2>. QED BY <2>1, <2>2
  \* The insertion of the night's row keeps every other run idle.
  <1>2. \A v \in Container : v # w => run[v] = C!Idle
    <2>1. CASE run[w] = C!Idle
      <3>1. night[today] = "none"
        BY <2>1, RunRecord DEF C!Night, C!ClaimNight, C!DrainQueue, C!NightFails, C!FinishRun, C!Crash, C!GenerateStatus,
             C!InsertProjectStatus, C!GenerateRecap, C!InsertRecap, C!ProposeConduta, C!PersistProposal, C!DerivativeFails, C!Idle
      <3>. QED BY <3>1 DEF NightInv, OneRun
    <2>2. CASE run[w] # C!Idle BY <2>2 DEF NightInv, OneRun
    <2>. QED BY <2>1, <2>2
  <1>3. run'[w] # C!Idle => night'[today] # "none"
    <2>1. CASE C!ClaimNight(w) BY <2>1 DEF C!ClaimNight, NightInv, OneRun, C!TypeOK
    <2>2. CASE run[w] # C!Idle
      <3>1. \/ night' = night
            \/ \E d, o : o # "none" /\ night' = [night EXCEPT ![d] = o]
        BY <2>2 DEF C!Night, C!ClaimNight, C!DrainQueue, C!NightFails, C!FinishRun, C!Crash, C!GenerateStatus,
             C!InsertProjectStatus, C!GenerateRecap, C!InsertRecap, C!ProposeConduta, C!PersistProposal, C!DerivativeFails
      <3>. QED BY <2>2, <3>1 DEF NightInv, OneRun, C!TypeOK
    <2>3. CASE run[w] = C!Idle /\ ~C!ClaimNight(w)
      BY <2>3, RunRecord DEF C!Night, C!DrainQueue, C!NightFails, C!FinishRun, C!Crash, C!GenerateStatus,
             C!InsertProjectStatus, C!GenerateRecap, C!InsertRecap, C!ProposeConduta, C!PersistProposal, C!DerivativeFails, C!Idle
    <2>. QED BY <2>1, <2>2, <2>3
  <1>4. OneRun' BY <1>1, <1>2, <1>3 DEF NightInv, OneRun
  <1>5. SUFFICES ASSUME run'[w] # C!Idle PROVE StatusOwed(w)'
    BY <1>1, <1>2, <1>4 DEF NightInv
  <1>6. CASE C!ClaimNight(w)
    <2>1. run'[w] = [at |-> "drain", date |-> today, touched |-> FALSE, due |-> FALSE,
                     gone |-> {}, pub |-> {}, cites |-> {}]
      BY <1>6 DEF C!ClaimNight, C!TypeOK
    <2>. QED BY <2>1 DEF StatusOwed
  <1>7. CASE C!NightFails(w) \/ C!FinishRun(w) \/ C!Crash(w)
    <2>1. run'[w] = C!Idle BY <1>7 DEF C!NightFails, C!FinishRun, C!Crash, C!TypeOK
    <2>. QED BY <1>5, <2>1
  <1>8. ASSUME run[w] # C!Idle
        PROVE  /\ run[w] \in C!NightRun /\ run[w].gone \subseteq Fact
               /\ StatusOwed(w) /\ \A f \in run[w].gone : Gone(f)'
    <2>1. run[w] \in C!NightRun /\ StatusOwed(w) BY <1>8, RunRecord DEF NightInv
    <2>2. run[w].gone \subseteq Fact BY <2>1 DEF C!NightRun
    <2>. QED BY <1>1, <2>1, <2>2 DEF StatusOwed, Gone
  <1>9. CASE C!DrainQueue(w)
    <2>1. run[w] \in C!NightRun BY <1>9, RunRecord DEF C!DrainQueue
    <2>2. /\ run'[w].at = "status" /\ run'[w].due = run[w].touched /\ run'[w].touched = run[w].touched
          /\ run'[w].gone = C!InState("superseded") \cup C!InState("manual")
      BY <1>9, <2>1 DEF C!DrainQueue, C!TypeOK, C!NightRun
    <2>3. \A f \in run'[w].gone : Gone(f)' BY <1>1, <2>2 DEF C!InState, Gone
    <2>. QED BY <2>2, <2>3 DEF StatusOwed
  <1>10. CASE C!GenerateStatus(w)
    <2>1. run[w] # C!Idle BY <1>10, RunRecord DEF C!GenerateStatus
    <2>2. /\ run'[w].gone = run[w].gone /\ run'[w].due = run[w].due /\ run'[w].touched = run[w].touched
          /\ run'[w].pub = C!Publishable
          /\ run'[w].at = IF C!ChangedInRun(w) /\ C!Publishable # {} THEN "publish" ELSE C!AfterStatus(w)
      BY <1>8, <1>10, <2>1 DEF C!GenerateStatus, C!TypeOK, C!NightRun
    <2>3. C!Publishable \cap run[w].gone = {}
      BY <1>8, <2>1 DEF C!Publishable, C!InForce, C!InState, StatusOwed, Gone
    <2>4. run'[w].at = "publish" \/ (run[w].due => C!Publishable = {})
      BY <1>8, <2>1, <2>2 DEF C!ChangedInRun, StatusOwed
    <2>5. run'[w].due => run'[w].touched BY <1>8, <2>1, <2>2 DEF StatusOwed
    <2>. QED BY <1>8, <2>1, <2>2, <2>3, <2>4, <2>5 DEF StatusOwed
  <1>11. CASE C!InsertProjectStatus(w)
    <2>1. run[w] # C!Idle /\ run[w].at = "publish" BY <1>11, RunRecord DEF C!InsertProjectStatus
    <2>2. /\ run'[w].gone = run[w].gone /\ run'[w].due = run[w].due /\ run'[w].touched = run[w].touched
          /\ run'[w].at # "publish" /\ published' = run[w].pub
      BY <1>8, <1>11, <2>1 DEF C!InsertProjectStatus, C!TypeOK, C!NightRun, C!AfterStatus
    <2>3. published' \cap run'[w].gone = {} BY <1>8, <2>1, <2>2 DEF StatusOwed
    <2>4. run'[w].due => run'[w].touched BY <1>8, <2>1, <2>2 DEF StatusOwed
    <2>. QED BY <1>8, <2>1, <2>2, <2>3, <2>4 DEF StatusOwed
  <1>12. CASE C!GenerateRecap(w) \/ C!InsertRecap(w) \/ C!ProposeConduta(w) \/ C!PersistProposal(w)
    <2>1. /\ run[w] # C!Idle /\ run[w].at \in {"recap", "write", "propose", "persist"}
          /\ UNCHANGED published
      BY <1>12, RunRecord DEF C!GenerateRecap, C!InsertRecap, C!ProposeConduta, C!PersistProposal
    <2>2. /\ run'[w].gone = run[w].gone /\ run'[w].due = run[w].due /\ run'[w].touched = run[w].touched
          /\ run'[w].pub = run[w].pub /\ run'[w].at # "publish"
      BY <1>8, <1>12, <2>1 DEF C!GenerateRecap, C!InsertRecap, C!ProposeConduta, C!PersistProposal, C!TypeOK, C!NightRun
    <2>. QED BY <1>8, <2>1, <2>2 DEF StatusOwed
  <1>13. CASE C!DerivativeFails(w)
    <2>1. /\ run[w] # C!Idle /\ run[w].at \in {"publish", "write", "persist"} /\ UNCHANGED published
      BY <1>13, RunRecord DEF C!DerivativeFails
    <2>2. /\ run'[w].gone = run[w].gone /\ run'[w].due = (run[w].due /\ run[w].at # "publish")
          /\ run'[w].touched = run[w].touched
          /\ run'[w].pub = run[w].pub /\ run'[w].at # "publish"
      BY <1>8, <1>13, <2>1 DEF C!DerivativeFails, C!TypeOK, C!NightRun, C!AfterStatus
    <2>. QED BY <1>8, <2>1, <2>2 DEF StatusOwed
  <1>. QED BY <1>6, <1>7, <1>9, <1>10, <1>11, <1>12, <1>13 DEF C!Night

LEMMA NightNext ==
  ASSUME Nights \in Nat \ {0}, C!TypeOK, NightInv, [C!Next]_(C!vars)
  PROVE  NightInv'
  <1>0. CASE UNCHANGED C!vars BY <1>0, NightKept DEF C!vars, Gone
  <1>1. ASSUME NEW f \in Fact, C!Extract(f) \/ C!CommitFacts(f) \/ C!ResolveFact(f) PROVE NightInv'
    <2>1. \A g \in Fact : Gone(g) => Gone(g)' BY <1>1, GoneForGood
    <2>2. UNCHANGED <<today, night, published>>
      BY <1>1 DEF C!Extract, C!CommitFacts, C!ResolveFact
    <2>3. \A w \in Container : \/ run'[w] = run[w]
                               \/ run[w] # C!Idle /\ run'[w] = [run[w] EXCEPT !.touched = TRUE]
      <3>1. CASE C!CommitFacts(f) BY <3>1, CommitWrites
      <3>2. CASE UNCHANGED run BY <3>2
      <3>. QED BY <1>1, <3>1, <3>2 DEF C!Extract, C!ResolveFact
    <2>. QED BY <2>1, <2>2, <2>3, NightKept
  <1>2. ASSUME NEW w \in Container, C!Night(w) PROVE NightInv' BY <1>2, NightStep
  <1>3. ASSUME NEW c \in DOMAIN condutas, C!ApproveConduta(c) \/ C!RejectConduta(c) PROVE NightInv'
    BY <1>3, NightKept DEF C!ApproveConduta, C!RejectConduta, Gone
  <1>4. ASSUME NEW d \in recaps, C!DeleteRecap(d) PROVE NightInv'
    BY <1>4, NightKept DEF C!DeleteRecap, Gone
  <1>5. CASE C!NextDay
    <2>1. today' \in 1..Nights BY <1>5 DEF C!NextDay, NightInv, OneRun
    <2>2. \A w \in Container : run'[w] = C!Idle BY <1>5 DEF C!NextDay
    <2>. QED BY <2>1, <2>2 DEF NightInv, OneRun
  <1>. QED BY <1>0, <1>1, <1>2, <1>3, <1>4, <1>5 DEF C!Next

(* The status published after a night cites no fact that had lost its force when
   the status was due, unless the call failed or nothing was publishable
   (scheduler.ts, narrativa.ts): of however many containers, one runs the night,
   and nobody overwrites what it published before it ends. *)
THEOREM StatusFollows ==
  ASSUME Nights \in Nat \ {0}
  PROVE  C!Spec => StatusFollowsNight
  <1>. DEFINE Follows == \A w \in Container :
         run[w].at = "finish" /\ run'[w].at = "idle" /\ night' # night /\ run[w].due =>
           published \cap run[w].gone = {} \/ run[w].pub = {}
  <1>1. C!Init => NightInv BY NightInit
  <1>2. C!TypeOK /\ NightInv /\ [C!Next]_(C!vars) => NightInv' BY NightNext
  <1>3. ASSUME C!TypeOK, NightInv PROVE Follows
    <2>. SUFFICES ASSUME NEW w \in Container, run[w].at = "finish", run[w].due
                  PROVE  published \cap run[w].gone = {} \/ run[w].pub = {}
      OBVIOUS
    <2>1. run[w] # C!Idle BY <1>3, RunRecord
    <2>. QED BY <1>3, <2>1 DEF NightInv, StatusOwed
  <1>4. C!TypeOK /\ NightInv /\ [C!Next]_(C!vars) => [Follows]_(C!vars) BY <1>3
  <1>. HIDE DEF Follows
  <1>5. C!Spec => [][Follows]_(C!vars) BY <1>1, <1>2, <1>4, NightsTypeCorrect, PTL DEF C!Spec
  <1>. QED BY <1>5 DEF StatusFollowsNight, C!StatusFollowsNight, Follows
-----------------------------------------------------------------------------
(* The facts. Everything about a task is said of its record, the committed rows
   f, the number n of ids and the number k of commits. *)

Maps(S) == UNION {[D -> S] : D \in SUBSET Int}
Neighbor == [id : Nat, valid : Nat, verdict : {"duplicate"} \cup Clashes]
TaskRow ==
  [at : {"pairs", "search", "apply", "finish"}, episode : FactEpisode, revision : Nat \ {0},
   cands : Seq(M!Candidate), pair : Nat \X Nat, pairs : SUBSET (Nat \X Nat), left : SUBSET Nat,
   id : Maps(Int), seen : SUBSET Neighbor, read : Nat, draft : Maps(M!FactRow)]

RowsOf(f, n) ==
  /\ f \in [DOMAIN f -> M!FactRow] /\ DOMAIN f \subseteq 1..n
  /\ \A i \in DOMAIN f : /\ f[i].next \in 0..n
                         /\ f[i].next # 0 \/ f[i].told => f[i].reason # "none"

\* What may become of a row.
Follows(a, b) ==
  /\ b.value = a.value /\ b.valid = a.valid /\ b.told = a.told /\ b.read = a.read /\ b.born = a.born
  /\ a.reason # "none" => b.reason # "none"
  /\ b.reason = "none" => (a.review \/ a.vetted => b.review \/ b.vetted)
Clear(a, b) == a.value # b.value => a.review \/ a.vetted \/ b.review \/ b.vetted
\* Successors are rows of f, hold from later, and are not told.
Succeeded(f, g) ==
  \A i \in DOMAIN g : g[i].reason = "superseded" /\ ~g[i].told =>
    /\ g[i].next \in DOMAIN f /\ ~f[g[i].next].told /\ f[g[i].next].valid > g[i].valid

FactsInv(f, n, k) ==
  /\ RowsOf(f, n) /\ Succeeded(f, f)
  /\ \A i \in DOMAIN f : f[i].read < f[i].born /\ f[i].born <= k
  /\ \A i, j \in M!InForce(f) :
       Clear(f[i], f[j]) \/ (f[i].read < f[j].born /\ f[j].read < f[i].born)

Over(d, f) == [i \in (DOMAIN d) \cup (DOMAIN f) |-> IF i \in DOMAIN d THEN d[i] ELSE f[i]]

TaskTypes(t, n, k) ==
  /\ t \in TaskRow /\ t.read <= k /\ RowsOf(t.draft, n)
  /\ t.left \subseteq DOMAIN t.cands /\ DOMAIN t.id \subseteq (DOMAIN t.cands) \ t.left
  /\ \A c \in DOMAIN t.id : t.id[c] = -1 \/ t.id[c] \in DOMAIN t.draft
  /\ \A m \in t.seen : m.id \in 1..n
Paired(t) ==
  /\ t.pair[1] # 0 /\ t.pair[1] < t.pair[2]
  /\ t.pairs \subseteq (DOMAIN t.cands) \X (DOMAIN t.cands)
  /\ \A p \in t.pairs : t.cands[p[1]].stale
  /\ t.at = "pairs" => DOMAIN t.id = {} /\ DOMAIN t.draft = {}
  /\ \A c \in DOMAIN t.id : t.id[c] # -1 /\ t.cands[c].stale => t.draft[t.id[c]].told
\* A draft's copy of a row, and what it may have done to it.
Copied(t, f, k) ==
  \A i \in DOMAIN t.draft :
    /\ i \in DOMAIN f => Follows(f[i], t.draft[i])
    /\ i \notin DOMAIN f => t.draft[i].read <= k
    /\ t.draft[i].reason \in {"manual", "revision_reprocessed"} =>
         (i \in DOMAIN f /\ f[i].reason # "none") \/ t.revision > 1
Searched(t, f) ==
  t.at = "apply" =>
    /\ t.left # {}
    /\ \A m \in t.seen : /\ m.id \in DOMAIN Over(t.draft, f) /\ m.valid = Over(t.draft, f)[m.id].valid
                         /\ ~Over(t.draft, f)[m.id].told
    /\ \A i \in M!InForce(Over(t.draft, f)) :
         i \in DOMAIN t.draft \/ f[i].born <= t.read => \E m \in t.seen : m.id = i
\* The rows of a draft against what its transaction sees.
Consistent(t, f) ==
  \A i \in M!InForce(t.draft), j \in M!InForce(Over(t.draft, f)) :
    i \notin DOMAIN f =>
      Clear(t.draft[i], Over(t.draft, f)[j]) \/ (j \in DOMAIN f /\ f[j].born > t.draft[i].read)

TaskInv(t, f, n, k) ==
  /\ TaskTypes(t, n, k) /\ Paired(t) /\ Copied(t, f, k)
  /\ Succeeded(Over(t.draft, f), t.draft) /\ Searched(t, f) /\ Consistent(t, f)

Busy(w) == task[w] # M!Idle
MemTypes ==
  /\ ids \in Nat /\ commits \in Nat /\ cited \subseteq DOMAIN rows
  /\ done \in [FactEpisode -> Nat] /\ attempts \in [FactEpisode -> 0..FactAttempts]
  /\ DOMAIN task = Worker
OneEach ==
  /\ \A w \in Worker : task[w] # M!Idle => /\ task[w].revision = done[task[w].episode] + 1
                                           /\ attempts[task[w].episode] < FactAttempts
  /\ \A v, w \in Worker : v # w /\ task[v] # M!Idle /\ task[w] # M!Idle =>
       /\ task[v].episode # task[w].episode
       /\ (DOMAIN task[v].draft) \cap (DOMAIN task[w].draft) = {}
MemInv ==
  /\ MemTypes /\ OneEach /\ FactsInv(rows, ids, commits)
  /\ \A w \in Worker : task[w] # M!Idle => TaskInv(task[w], rows, ids, commits)

-----------------------------------------------------------------------------
LEMMA InMaps ==
  ASSUME NEW S, NEW f
  PROVE  f \in Maps(S) <=> f \in [DOMAIN f -> S] /\ DOMAIN f \subseteq Int
  BY DEF Maps

LEMMA FollowsSelf == ASSUME NEW a PROVE Follows(a, a)
  BY DEF Follows

LEMMA FollowsOn ==
  ASSUME NEW a, NEW b, NEW c, Follows(a, b), Follows(b, c)
  PROVE  Follows(a, c)
  BY DEF Follows

LEMMA ClearOn ==
  ASSUME NEW a, NEW b, NEW c, NEW d, Clear(a, b), Follows(a, c), Follows(b, d),
         c.reason = "none", d.reason = "none"
  PROVE  Clear(c, d) /\ Clear(d, c)
  BY DEF Follows, Clear

\* What the transaction does to one row.
LEMMA FlaggedRow ==
  ASSUME NEW r \in M!FactRow
  PROVE  /\ [r EXCEPT !.review = TRUE] \in M!FactRow
         /\ Follows(r, [r EXCEPT !.review = TRUE])
         /\ [r EXCEPT !.review = TRUE].next = r.next
         /\ [r EXCEPT !.review = TRUE].reason = r.reason
         /\ [r EXCEPT !.review = TRUE].review
  BY DEF M!FactRow, M!Reason, Follows

LEMMA AssuredRow ==
  ASSUME NEW r \in M!FactRow
  PROVE  /\ [r EXCEPT !.sure = TRUE] \in M!FactRow
         /\ Follows(r, [r EXCEPT !.sure = TRUE])
         /\ [r EXCEPT !.sure = TRUE].next = r.next
         /\ [r EXCEPT !.sure = TRUE].reason = r.reason
  BY DEF M!FactRow, M!Reason, Follows

LEMMA ReprocessedRow ==
  ASSUME NEW r \in M!FactRow
  PROVE  /\ [r EXCEPT !.reason = "revision_reprocessed"] \in M!FactRow
         /\ Follows(r, [r EXCEPT !.reason = "revision_reprocessed"])
         /\ [r EXCEPT !.reason = "revision_reprocessed"].next = r.next
         /\ [r EXCEPT !.reason = "revision_reprocessed"].reason = "revision_reprocessed"
  BY DEF M!FactRow, M!Reason, Follows

LEMMA SupersededRow ==
  ASSUME NEW r \in M!FactRow, NEW x \in Nat
  PROVE  /\ [r EXCEPT !.reason = "superseded", !.next = x] \in M!FactRow
         /\ Follows(r, [r EXCEPT !.reason = "superseded", !.next = x])
         /\ [r EXCEPT !.reason = "superseded", !.next = x].next = x
         /\ [r EXCEPT !.reason = "superseded", !.next = x].reason = "superseded"
  BY DEF M!FactRow, M!Reason, Follows

LEMMA PointedRow ==
  ASSUME NEW r \in M!FactRow, NEW x \in Nat
  PROVE  /\ [r EXCEPT !.next = x] \in M!FactRow
         /\ Follows(r, [r EXCEPT !.next = x])
         /\ [r EXCEPT !.next = x].next = x
         /\ [r EXCEPT !.next = x].reason = r.reason
  BY DEF M!FactRow, M!Reason, Follows

\* What a person does to one.
LEMMA ConfirmedRow ==
  ASSUME NEW r \in M!FactRow
  PROVE  /\ [r EXCEPT !.review = FALSE, !.vetted = TRUE] \in M!FactRow
         /\ Follows(r, [r EXCEPT !.review = FALSE, !.vetted = TRUE])
         /\ [r EXCEPT !.review = FALSE, !.vetted = TRUE].next = r.next
         /\ [r EXCEPT !.review = FALSE, !.vetted = TRUE].reason = r.reason
  BY DEF M!FactRow, M!Reason, Follows

LEMMA InvalidatedRow ==
  ASSUME NEW r \in M!FactRow
  PROVE  /\ [r EXCEPT !.review = FALSE, !.reason = "manual"] \in M!FactRow
         /\ Follows(r, [r EXCEPT !.review = FALSE, !.reason = "manual"])
         /\ [r EXCEPT !.review = FALSE, !.reason = "manual"].next = r.next
         /\ [r EXCEPT !.review = FALSE, !.reason = "manual"].reason = "manual"
  BY DEF M!FactRow, M!Reason, Follows

LEMMA ReplacedRow ==
  ASSUME NEW r \in M!FactRow, NEW x \in Nat
  PROVE  /\ [r EXCEPT !.review = FALSE, !.reason = "manual", !.next = x] \in M!FactRow
         /\ Follows(r, [r EXCEPT !.review = FALSE, !.reason = "manual", !.next = x])
         /\ [r EXCEPT !.review = FALSE, !.reason = "manual", !.next = x].next = x
         /\ [r EXCEPT !.review = FALSE, !.reason = "manual", !.next = x].reason = "manual"
  BY DEF M!FactRow, M!Reason, Follows

LEMMA BirthWrites ==
  ASSUME NEW r \in M!FactRow, NEW x \in Nat
  PROVE  /\ [r EXCEPT !.born = x] \in M!FactRow /\ [r EXCEPT !.born = x].born = x
         /\ [r EXCEPT !.born = x].next = r.next /\ [r EXCEPT !.born = x].reason = r.reason
         /\ [r EXCEPT !.born = x].value = r.value /\ [r EXCEPT !.born = x].valid = r.valid
         /\ [r EXCEPT !.born = x].told = r.told /\ [r EXCEPT !.born = x].read = r.read
         /\ [r EXCEPT !.born = x].review = r.review /\ [r EXCEPT !.born = x].vetted = r.vetted
  BY DEF M!FactRow

-----------------------------------------------------------------------------
(* What others do while a transaction is open: rows change, or come to be seen. *)

LEMMA OverOthers ==
  ASSUME NEW d, NEW f, NEW g,
         DOMAIN f \subseteq DOMAIN g,
         \A i \in DOMAIN f : Follows(f[i], g[i]),
         \A i \in DOMAIN d : i \in DOMAIN g => i \in DOMAIN f /\ g[i] = f[i]
  PROVE  \A i \in DOMAIN Over(d, f) :
           i \in DOMAIN Over(d, g) /\ Follows(Over(d, f)[i], Over(d, g)[i])
  BY FollowsSelf DEF Over

LEMMA OthersMove ==
  ASSUME NEW t, NEW f, NEW g, NEW n \in Nat, NEW n2 \in Nat, NEW k \in Nat, NEW k2 \in Nat,
         n <= n2, k <= k2, TaskInv(t, f, n, k),
         DOMAIN f \subseteq DOMAIN g,
         \A i \in DOMAIN f : Follows(f[i], g[i]),
         \A i \in DOMAIN t.draft : i \in DOMAIN g => i \in DOMAIN f /\ g[i] = f[i],
         \A i \in DOMAIN g : i \notin DOMAIN f => g[i].born \in Nat /\ g[i].born > k
  PROVE  TaskInv(t, g, n2, k2)
  <1>. DEFINE a == Over(t.draft, f)  b == Over(t.draft, g)
  <1>0. /\ DOMAIN a = (DOMAIN t.draft) \cup DOMAIN f /\ DOMAIN b = (DOMAIN t.draft) \cup DOMAIN g
        /\ \A i \in DOMAIN t.draft : a[i] = t.draft[i] /\ b[i] = t.draft[i]
        /\ \A i \in DOMAIN f : i \notin DOMAIN t.draft => a[i] = f[i]
        /\ \A i \in DOMAIN g : i \notin DOMAIN t.draft => b[i] = g[i]
    BY DEF Over
  <1>1. \A i \in DOMAIN a : i \in DOMAIN b /\ Follows(a[i], b[i])
    BY OverOthers
  <1>. HIDE DEF a, b
  <1>2. TaskTypes(t, n2, k2)
    BY DEF TaskInv, TaskTypes, TaskRow, RowsOf
  <1>3. Copied(t, g, k2)
    <2>1. TaskTypes(t, n, k) /\ Copied(t, f, k) BY DEF TaskInv
    <2>. SUFFICES ASSUME NEW i \in DOMAIN t.draft
                  PROVE  /\ i \in DOMAIN g => Follows(g[i], t.draft[i])
                         /\ i \notin DOMAIN g => t.draft[i].read <= k2
                         /\ t.draft[i].reason \in {"manual", "revision_reprocessed"} =>
                              (i \in DOMAIN g /\ g[i].reason # "none") \/ t.revision > 1
      BY DEF Copied
    <2>2. t.draft[i].read \in Nat BY <2>1 DEF TaskTypes, RowsOf, M!FactRow
    <2>. QED BY <2>1, <2>2 DEF Copied
  <1>4. Succeeded(b, t.draft)
    BY <1>0, <1>1 DEF TaskInv, Succeeded, Follows, a
  <1>5. Searched(t, g)
    <2>. SUFFICES ASSUME t.at = "apply"
                  PROVE  /\ \A m \in t.seen : /\ m.id \in DOMAIN b /\ m.valid = b[m.id].valid
                                              /\ ~b[m.id].told
                         /\ \A i \in M!InForce(b) :
                              i \in DOMAIN t.draft \/ g[i].born <= t.read => \E m \in t.seen : m.id = i
      BY DEF TaskInv, Searched, b
    <2>1. /\ \A m \in t.seen : m.id \in DOMAIN a /\ m.valid = a[m.id].valid /\ ~a[m.id].told
          /\ \A i \in M!InForce(a) :
               i \in DOMAIN t.draft \/ f[i].born <= t.read => \E m \in t.seen : m.id = i
      BY DEF TaskInv, Searched, a
    <2>2. t.read \in Nat /\ t.read <= k BY DEF TaskInv, TaskTypes, TaskRow
    <2>3. ASSUME NEW i \in M!InForce(b), i \in DOMAIN t.draft \/ g[i].born <= t.read
          PROVE  \E m \in t.seen : m.id = i
      <3>1. i \in DOMAIN a BY <1>0, <2>2, <2>3 DEF M!InForce
      <3>2. i \in M!InForce(a) BY <1>1, <2>3, <3>1 DEF M!InForce, Follows
      <3>3. i \in DOMAIN t.draft \/ f[i].born <= t.read BY <1>0, <2>3, <3>1 DEF Follows
      <3>. QED BY <2>1, <3>2, <3>3
    <2>. QED BY <1>1, <2>1, <2>3 DEF Follows
  <1>6. Consistent(t, g)
    <2>. SUFFICES ASSUME NEW i \in M!InForce(t.draft), NEW j \in M!InForce(b), i \notin DOMAIN g
                  PROVE  Clear(t.draft[i], b[j]) \/ (j \in DOMAIN g /\ g[j].born > t.draft[i].read)
      BY DEF Consistent, b
    <2>1. i \in DOMAIN t.draft /\ i \notin DOMAIN f /\ t.draft[i].reason = "none" /\ b[j].reason = "none"
      BY DEF M!InForce
    <2>2. CASE j \in DOMAIN a
      <3>1. j \in M!InForce(a) BY <1>1, <2>1, <2>2 DEF M!InForce, Follows
      <3>2. Clear(t.draft[i], a[j]) \/ (j \in DOMAIN f /\ f[j].born > t.draft[i].read)
        BY <2>1, <3>1 DEF TaskInv, Consistent, a
      <3>3. CASE Clear(t.draft[i], a[j])
        BY <1>1, <2>1, <2>2, <3>3, FollowsSelf, ClearOn
      <3>4. CASE j \in DOMAIN f /\ f[j].born > t.draft[i].read
        BY <3>4 DEF Follows
      <3>. QED BY <3>2, <3>3, <3>4
    <2>3. CASE j \notin DOMAIN a
      <3>1. j \in DOMAIN g /\ g[j].born \in Nat /\ g[j].born > k BY <1>0, <2>3 DEF M!InForce
      <3>2. t.draft[i].read \in Nat /\ t.draft[i].read <= k
        BY <2>1 DEF TaskInv, Copied, TaskTypes, RowsOf, M!FactRow
      <3>. QED BY <3>1, <3>2
    <2>. QED BY <2>2, <2>3
  <1>. QED BY <1>2, <1>3, <1>4, <1>5, <1>6 DEF TaskInv, b

-----------------------------------------------------------------------------
(* What a worker does to its own task. *)

LEMMA ExtractTask ==
  ASSUME NEW f, NEW n \in Nat, NEW k \in Nat, NEW e \in FactEpisode, NEW r \in Nat \ {0},
         NEW talk \in Talks
  PROVE  TaskInv([at |-> "pairs", episode |-> e, revision |-> r, cands |-> M!Prepared(e, talk),
                  pair |-> <<1, 2>>, pairs |-> {}, left |-> {}, id |-> <<>>, seen |-> {},
                  read |-> k, draft |-> <<>>], f, n, k)
  <1>. DEFINE t == [at |-> "pairs", episode |-> e, revision |-> r, cands |-> M!Prepared(e, talk),
                    pair |-> <<1, 2>>, pairs |-> {}, left |-> {}, id |-> <<>>, seen |-> {},
                    read |-> k, draft |-> <<>>]
  <1>1. M!Prepared(e, talk) \in Seq(M!Candidate)
    <2>. DEFINE Said == [turn : Nat, value : M!Value, hint : Nat, sure : BOOLEAN]
    <2>1. talk \in Seq(Said) /\ Occurs[e] \in Nat
      BY MemoryAssumption
    <2>2. \A i \in DOMAIN talk :
            /\ talk[i].turn \in Nat /\ talk[i].value \in M!Value
            /\ talk[i].sure \in BOOLEAN /\ talk[i].hint \in Nat
      <3>. HIDE DEF Said
      <3>1. \A i \in DOMAIN talk : talk[i] \in Said BY <2>1
      <3>. USE DEF Said
      <3>. QED BY <3>1, Zenon
    <2>5. \A h \in Nat : M!ResolveValidAt(e, h) \in Nat BY <2>1 DEF M!ResolveValidAt
    <2>3. Len(talk) \in Nat /\ DOMAIN talk = 1..Len(talk) BY <2>1
    <2>4. M!Prepared(e, talk) \in [1..Len(talk) -> M!Candidate]
      BY <2>2, <2>3, <2>5, Zenon DEF M!Prepared, M!Candidate
    <2>. QED BY <2>3, <2>4, IsASeq
  <1>2. <<>> \in Maps(Int) /\ <<>> \in Maps(M!FactRow) /\ DOMAIN <<>> = {}
    <2>1. DOMAIN <<>> = {} OBVIOUS
    <2>2. <<>> \in [DOMAIN <<>> -> Int] /\ <<>> \in [DOMAIN <<>> -> M!FactRow] BY <2>1
    <2>. QED BY <2>1, <2>2, InMaps, Zenon
  <1>3. t \in TaskRow
    BY <1>1, <1>2, Zenon DEF TaskRow
  <1>4. TaskTypes(t, n, k)
    BY <1>2, <1>3 DEF TaskTypes, RowsOf
  <1>5. Paired(t)
    BY <1>2 DEF Paired
  <1>6. Copied(t, f, k) /\ Succeeded(Over(t.draft, f), t.draft) /\ Consistent(t, f) /\ Searched(t, f)
    BY <1>2 DEF Copied, Succeeded, Consistent, Searched, M!InForce
  <1>. QED BY <1>4, <1>5, <1>6 DEF TaskInv

LEMMA PairJudged ==
  ASSUME NEW c \in Seq(M!Candidate), NEW i \in DOMAIN c, NEW j \in DOMAIN c, NEW verdict,
         NEW c2, c2 = M!ReconcilePair(c, i, j, verdict)
  PROVE  /\ c2 \in Seq(M!Candidate) /\ Len(c2) = Len(c)
         /\ \A x \in DOMAIN c : c[x].stale => c2[x].stale
         /\ M!Earlier(c, i, j) \in DOMAIN c /\ M!Later(c, i, j) \in DOMAIN c
         /\ M!Wins(c, i, j, verdict) => c2[M!Earlier(c, i, j)].stale
  <1>. DEFINE e == M!Earlier(c, i, j)
  <1>1. /\ Len(c) \in Nat /\ DOMAIN c = 1..Len(c) /\ c \in [1..Len(c) -> M!Candidate]
        /\ e \in DOMAIN c /\ M!Later(c, i, j) \in DOMAIN c
    BY DEF M!Earlier, M!Later
  <1>2. CASE verdict = "duplicate"
    <2>1. c2 = [c EXCEPT ![i].turn = IF c[j].turn < @ THEN c[j].turn ELSE @,
                         ![i].sure = @ \/ c[j].sure, ![j].alive = FALSE]
      BY <1>2 DEF M!ReconcilePair
    <2>2. /\ c2 \in [1..Len(c) -> M!Candidate]
          /\ \A x \in DOMAIN c : c2[x].stale = c[x].stale
      <3>1. c[i] \in M!Candidate /\ c[j] \in M!Candidate BY <1>1
      <3>2. (IF c[j].turn < c[i].turn THEN c[j].turn ELSE c[i].turn) \in Nat
        BY <3>1 DEF M!Candidate
      <3>3. (c[i].sure \/ c[j].sure) \in BOOLEAN BY Zenon
      <3>. DEFINE a == [c[i] EXCEPT !.turn = IF c[j].turn < @ THEN c[j].turn ELSE @,
                                    !.sure = @ \/ c[j].sure]
                  b == [(IF i = j THEN a ELSE c[j]) EXCEPT !.alive = FALSE]
      <3>4. a \in M!Candidate /\ a.stale = c[i].stale BY <3>1, <3>2, <3>3, Zenon DEF M!Candidate
      <3>. HIDE DEF a
      <3>5. b \in M!Candidate /\ b.stale = c[j].stale BY <3>1, <3>4, Zenon DEF M!Candidate
      <3>. HIDE DEF b
      <3>6. c2 = [c EXCEPT ![i] = a, ![j] = b] BY <2>1, <1>1 DEF a, b
      <3>. QED BY <1>1, <3>4, <3>5, <3>6
    <2>. QED BY <1>1, <1>2, <2>2, LenProperties DEF M!Wins
  <1>3. CASE verdict # "duplicate" /\ M!Wins(c, i, j, verdict)
    <2>1. c2 = [c EXCEPT ![e].stale = TRUE]
      BY <1>3 DEF M!ReconcilePair
    <2>2. /\ c2 \in [1..Len(c) -> M!Candidate] /\ c2[e].stale
          /\ \A x \in DOMAIN c : c[x].stale => c2[x].stale
      BY <1>1, <2>1 DEF M!Candidate
    <2>. QED BY <1>1, <2>2, LenProperties
  <1>4. CASE verdict # "duplicate" /\ ~M!Wins(c, i, j, verdict)
    <2>1. c2 = [c EXCEPT ![i].review = TRUE, ![j].review = TRUE]
      BY <1>4 DEF M!ReconcilePair
    <2>2. /\ c2 \in [1..Len(c) -> M!Candidate]
          /\ \A x \in DOMAIN c : c2[x].stale = c[x].stale
      <3>1. \A x \in M!Candidate : /\ [x EXCEPT !.review = TRUE] \in M!Candidate
                                   /\ [x EXCEPT !.review = TRUE].stale = x.stale
        BY Zenon DEF M!Candidate
      <3>. DEFINE d == [c EXCEPT ![i].review = TRUE]
      <3>2. d \in [1..Len(c) -> M!Candidate] /\ \A x \in DOMAIN c : d[x].stale = c[x].stale
        BY <1>1, <3>1
      <3>3. c2 = [d EXCEPT ![j].review = TRUE] BY <1>1, <2>1
      <3>. HIDE DEF d
      <3>. QED BY <1>1, <3>1, <3>2, <3>3
    <2>. QED BY <1>1, <1>4, <2>2, LenProperties
  <1>. QED BY <1>2, <1>3, <1>4

\* A pair nobody compares changes pair alone; otherwise the candidates change as well.
LEMMA JudgeTask ==
  ASSUME NEW t, NEW f, NEW n \in Nat, NEW k \in Nat, TaskInv(t, f, n, k),
         t.at = "pairs", t.pair[2] <= Len(t.cands), NEW c2 \in Seq(M!Candidate), NEW p2,
         Len(c2) = Len(t.cands), \A x \in DOMAIN t.cands : t.cands[x].stale => c2[x].stale,
         \A p \in p2 : p \in t.pairs \/ (p \in (DOMAIN c2) \X (DOMAIN c2) /\ c2[p[1]].stale)
  PROVE  TaskInv([t EXCEPT !.pair = M!NextPair(t), !.cands = c2, !.pairs = p2], f, n, k)
  <1>. DEFINE u == [t EXCEPT !.pair = M!NextPair(t), !.cands = c2, !.pairs = p2]
  <1>1. t \in TaskRow /\ TaskTypes(t, n, k) /\ Paired(t) BY DEF TaskInv, TaskTypes
  <1>2. /\ t.pair \in Nat \X Nat /\ t.cands \in Seq(M!Candidate) /\ t.left \subseteq DOMAIN t.cands
        /\ t.pairs \subseteq (DOMAIN t.cands) \X (DOMAIN t.cands)
        /\ DOMAIN t.id = {} /\ DOMAIN t.draft = {}
    BY <1>1, Zenon DEF TaskRow, TaskTypes, Paired
  <1>3. Len(t.cands) \in Nat /\ DOMAIN t.cands = 1..Len(t.cands) /\ DOMAIN c2 = DOMAIN t.cands
    BY <1>2
  <1>4. M!NextPair(t) \in Nat \X Nat /\ M!NextPair(t)[1] # 0 /\ M!NextPair(t)[1] < M!NextPair(t)[2]
    BY <1>1, <1>2, <1>3 DEF M!NextPair, Paired
  <1>5. p2 \subseteq (DOMAIN c2) \X (DOMAIN c2) /\ \A p \in p2 : c2[p[1]].stale
    BY <1>1, <1>2, <1>3 DEF Paired
  <1>6. p2 \in SUBSET (Nat \X Nat) BY <1>3, <1>5
  <1>7. /\ u \in TaskRow /\ u.at = t.at /\ u.cands = c2 /\ u.pair = M!NextPair(t) /\ u.pairs = p2
        /\ u.left = t.left /\ u.id = t.id /\ u.seen = t.seen /\ u.read = t.read /\ u.draft = t.draft
        /\ u.revision = t.revision
    BY <1>1, <1>4, <1>6, Zenon DEF TaskRow
  <1>. HIDE DEF u
  <1>8. TaskTypes(u, n, k) BY <1>1, <1>2, <1>3, <1>7 DEF TaskTypes
  <1>9. Paired(u) BY <1>2, <1>3, <1>4, <1>5, <1>7 DEF Paired
  <1>10. Copied(u, f, k) /\ Succeeded(Over(u.draft, f), u.draft) /\ Consistent(u, f) /\ Searched(u, f)
    BY <1>2, <1>7 DEF Copied, Succeeded, Consistent, Searched, M!InForce
  <1>. QED BY <1>8, <1>9, <1>10 DEF TaskInv, u

LEMMA BeginTask ==
  ASSUME NEW t, NEW f, NEW n \in Nat, NEW k \in Nat, TaskInv(t, f, n, k), FactsInv(f, n, k),
         t.at = "pairs", NEW d, NEW l,
         \A i \in DOMAIN d :
           /\ i \in DOMAIN f /\ f[i].reason = "none" /\ f[i].revision < t.revision
           /\ d[i] \in {[f[i] EXCEPT !.review = TRUE], [f[i] EXCEPT !.reason = "revision_reprocessed"]},
         d = [i \in DOMAIN d |-> d[i]], l \subseteq DOMAIN t.cands
  PROVE  TaskInv([t EXCEPT !.at = "search", !.draft = d, !.left = l], f, n, k)
  <1>. DEFINE u == [t EXCEPT !.at = "search", !.draft = d, !.left = l]
  <1>1. t \in TaskRow /\ TaskTypes(t, n, k) /\ Paired(t) BY DEF TaskInv, TaskTypes
  <1>2. /\ t.cands \in Seq(M!Candidate) /\ DOMAIN t.id = {} /\ DOMAIN t.draft = {}
        /\ t.revision \in Nat
    BY <1>1, Zenon DEF TaskRow, TaskTypes, Paired
  <1>3. RowsOf(f, n) BY DEF FactsInv
  <1>4. ASSUME NEW i \in DOMAIN d
        PROVE  /\ d[i] \in M!FactRow /\ Follows(f[i], d[i]) /\ d[i].next = 0 /\ ~d[i].told
               /\ d[i].reason # "superseded"
               /\ d[i].reason \in {"manual", "revision_reprocessed"} => t.revision > 1
    <2>1. f[i] \in M!FactRow /\ f[i].next = 0 /\ ~f[i].told BY <1>3, <1>4 DEF RowsOf
    <2>2. f[i].revision \in Nat \ {0} BY <2>1 DEF M!FactRow
    <2>3. CASE d[i] = [f[i] EXCEPT !.review = TRUE]
      BY <1>4, <2>1, <2>3, FlaggedRow DEF Follows
    <2>4. CASE d[i] = [f[i] EXCEPT !.reason = "revision_reprocessed"]
      <3>1. t.revision > 1 BY <1>2, <1>4, <2>2
      <3>. QED BY <2>1, <2>4, <3>1, ReprocessedRow DEF Follows
    <2>. QED BY <1>4, <2>3, <2>4
  <1>5. RowsOf(d, n)
    <2>1. d \in [DOMAIN d -> M!FactRow] BY <1>4, Zenon
    <2>. QED BY <1>3, <1>4, <2>1 DEF RowsOf
  <1>6. d \in Maps(M!FactRow) BY <1>5, InMaps DEF RowsOf
  <1>7. l \in SUBSET Nat BY <1>2
  <1>8. /\ u \in TaskRow /\ u.at = "search" /\ u.cands = t.cands /\ u.pair = t.pair /\ u.pairs = t.pairs
        /\ u.left = l /\ u.id = t.id /\ u.seen = t.seen /\ u.read = t.read /\ u.draft = d
        /\ u.revision = t.revision
    BY <1>1, <1>6, <1>7, Zenon DEF TaskRow
  <1>. HIDE DEF u
  <1>9. TaskTypes(u, n, k) BY <1>1, <1>2, <1>5, <1>8 DEF TaskTypes
  <1>10. Paired(u) BY <1>1, <1>2, <1>8 DEF Paired
  <1>11. Copied(u, f, k) BY <1>4, <1>8 DEF Copied
  <1>12. Succeeded(Over(u.draft, f), u.draft) /\ Consistent(u, f) /\ Searched(u, f)
    BY <1>4, <1>8 DEF Succeeded, Consistent, Searched, M!InForce
  <1>. QED BY <1>9, <1>10, <1>11, <1>12 DEF TaskInv, u

LEMMA SearchTask ==
  ASSUME NEW t, NEW f, NEW n \in Nat, NEW k \in Nat, TaskInv(t, f, n, k), FactsInv(f, n, k),
         t.at = "search", t.left # {}, NEW s, s \subseteq Neighbor,
         \A m \in s : /\ m.id \in M!InForce(Over(t.draft, f))
                      /\ m.valid = Over(t.draft, f)[m.id].valid,
         \A i \in M!InForce(Over(t.draft, f)) : \E m \in s : m.id = i
  PROVE  TaskInv([t EXCEPT !.at = "apply", !.read = k, !.seen = s], f, n, k)
  <1>. DEFINE u == [t EXCEPT !.at = "apply", !.read = k, !.seen = s]
  <1>1. t \in TaskRow /\ TaskTypes(t, n, k) /\ Paired(t) BY DEF TaskInv, TaskTypes
  <1>2. RowsOf(f, n) /\ RowsOf(t.draft, n) BY <1>1 DEF FactsInv, TaskTypes
  <1>3. ASSUME NEW m \in s
        PROVE  /\ m.id \in DOMAIN Over(t.draft, f) /\ m.id \in 1..n /\ ~Over(t.draft, f)[m.id].told
    BY <1>2 DEF RowsOf, Over, M!InForce
  <1>4. /\ u \in TaskRow /\ u.at = "apply" /\ u.cands = t.cands /\ u.pair = t.pair /\ u.pairs = t.pairs
        /\ u.left = t.left /\ u.id = t.id /\ u.seen = s /\ u.read = k /\ u.draft = t.draft
        /\ u.revision = t.revision
    BY <1>1, Zenon DEF TaskRow
  <1>. HIDE DEF u
  <1>5. TaskTypes(u, n, k) BY <1>1, <1>3, <1>4 DEF TaskTypes
  <1>6. Paired(u) BY <1>1, <1>4 DEF Paired
  <1>7. Copied(u, f, k) /\ Succeeded(Over(u.draft, f), u.draft) /\ Consistent(u, f)
    BY <1>4 DEF TaskInv, Copied, Consistent
  <1>8. Searched(u, f) BY <1>3, <1>4 DEF Searched
  <1>. QED BY <1>5, <1>6, <1>7, <1>8 DEF TaskInv, u

LEMMA FinishTask ==
  ASSUME NEW t, NEW f, NEW n \in Nat, NEW k \in Nat, TaskInv(t, f, n, k), t.at = "search"
  PROVE  TaskInv([t EXCEPT !.at = "finish"], f, n, k)
  <1>. DEFINE u == [t EXCEPT !.at = "finish"]
  <1>1. t \in TaskRow BY DEF TaskInv, TaskTypes
  <1>2. /\ u \in TaskRow /\ u.at = "finish" /\ u.cands = t.cands /\ u.pair = t.pair /\ u.pairs = t.pairs
        /\ u.left = t.left /\ u.id = t.id /\ u.seen = t.seen /\ u.read = t.read /\ u.draft = t.draft
        /\ u.revision = t.revision
    BY <1>1, Zenon DEF TaskRow
  <1>. HIDE DEF u
  <1>. QED BY <1>2 DEF TaskInv, TaskTypes, Paired, Copied, Searched, Consistent, u

LEMMA RuleOfSeen ==
  ASSUME NEW t, NEW f, NEW n \in Nat, NEW k \in Nat, TaskInv(t, f, n, k), t.at = "apply",
         NEW cand \in M!Candidate, M!IdsOf(M!With(t, "duplicate")) = {},
         NEW rule, rule = M!TemporalRule(t, cand), NEW next \in rule.next
  PROVE  /\ \A i \in rule.old : i \in DOMAIN Over(t.draft, f) /\ Over(t.draft, f)[i].valid < cand.valid
         /\ \A i \in rule.flag : i \in DOMAIN Over(t.draft, f)
         /\ next # 0 => /\ next \in DOMAIN Over(t.draft, f) /\ ~Over(t.draft, f)[next].told
                        /\ Over(t.draft, f)[next].valid > cand.valid
         /\ next = 0 => \A m \in t.seen : m.id \in rule.old \cup rule.flag
  <1>. DEFINE a == Over(t.draft, f)
              S == M!With(t, "supersedes")  K == M!With(t, "contradicts")
  <1>1. /\ t.seen \subseteq Neighbor
        /\ \A m \in t.seen : m.id \in DOMAIN a /\ m.valid = a[m.id].valid /\ ~a[m.id].told
        /\ \A m \in t.seen : m.id \in 1..n
    BY DEF TaskInv, TaskTypes, Searched, TaskRow
  <1>. HIDE DEF a
  <1>2. \A m \in t.seen : m.valid \in Nat /\ (m \in S \/ m \in K)
    <2>. SUFFICES ASSUME NEW m \in t.seen PROVE m.valid \in Nat /\ (m \in S \/ m \in K)
      OBVIOUS
    <2>1. m.valid \in Nat /\ m.verdict \in {"duplicate"} \cup Clashes BY <1>1 DEF Neighbor
    <2>2. m.verdict # "duplicate" BY DEF M!IdsOf, M!With
    <2>3. m.verdict \in {"supersedes", "contradicts"} BY <2>1, <2>2, MemoryAssumption
    <2>. QED BY <2>1, <2>3 DEF M!With
  <1>3. S \subseteq t.seen /\ K \subseteq t.seen BY DEF M!With
  <1>4. cand.valid \in Nat /\ cand.sure \in BOOLEAN BY DEF M!Candidate
  <1>. HIDE DEF S, K
  <1>5. CASE cand.sure
    <2>1. /\ rule.old = M!IdsOf(M!Older(S, cand)) /\ rule.next = M!Successor(M!Newer(S, cand))
          /\ rule.flag = M!IdsOf(M!SameInstant(S, cand)) \cup M!IdsOf(K)
      BY <1>5 DEF M!TemporalRule, S, K
    <2>2. \A i \in rule.old : i \in DOMAIN a /\ a[i].valid < cand.valid
      BY <1>1, <1>3, <2>1 DEF M!IdsOf, M!Older
    <2>3. \A i \in rule.flag : i \in DOMAIN a
      BY <1>1, <1>3, <2>1 DEF M!IdsOf, M!SameInstant
    <2>4. next # 0 => \E m \in t.seen : m.id = next /\ m.valid > cand.valid
      BY <1>3, <2>1 DEF M!Successor, M!Newer
    <2>5. next = 0 => M!Newer(S, cand) = {}
      <3>. SUFFICES ASSUME M!Newer(S, cand) # {} PROVE next # 0
        OBVIOUS
      <3>1. PICK m \in M!Newer(S, cand) : m.id = next BY <2>1 DEF M!Successor
      <3>. QED BY <1>1, <1>3, <3>1 DEF M!Newer
    <2>6. \A m \in S : m.valid > cand.valid => m \in M!Newer(S, cand) BY DEF M!Newer
    <2>7. \A m \in S : m.valid < cand.valid => m.id \in rule.old BY <2>1 DEF M!Older, M!IdsOf
    <2>8. \A m \in S : m.valid = cand.valid => m.id \in rule.flag BY <2>1 DEF M!SameInstant, M!IdsOf
    <2>9. \A m \in K : m.id \in rule.flag BY <2>1 DEF M!IdsOf
    <2>10. next = 0 => \A m \in t.seen : m.id \in rule.old \cup rule.flag
      BY <1>2, <1>4, <2>5, <2>6, <2>7, <2>8, <2>9
    <2>. QED BY <1>1, <2>2, <2>3, <2>4, <2>10 DEF a
  <1>6. CASE ~cand.sure
    <2>1. rule.old = {} /\ rule.next = {0} /\ rule.flag = M!IdsOf(S) \cup M!IdsOf(K)
      BY <1>6 DEF M!TemporalRule, S, K
    <2>2. \A i \in rule.flag : i \in DOMAIN a BY <1>1, <1>3, <2>1 DEF M!IdsOf
    <2>3. \A m \in t.seen : m.id \in rule.flag BY <1>2, <2>1 DEF M!IdsOf
    <2>. QED BY <2>1, <2>2, <2>3 DEF a
  <1>. QED BY <1>4, <1>5, <1>6

\* A draft that writes rows the transaction sees.
LEMMA DraftWrites ==
  ASSUME NEW t, NEW f, NEW n \in Nat, NEW k \in Nat, TaskInv(t, f, n, k), FactsInv(f, n, k),
         NEW e, DOMAIN t.draft \subseteq DOMAIN e,
         \A i \in DOMAIN e : i \in DOMAIN Over(t.draft, f) =>
           /\ Follows(Over(t.draft, f)[i], e[i])
           /\ e[i].reason = "superseded"
              \/ (e[i].reason = Over(t.draft, f)[i].reason /\ e[i].next = Over(t.draft, f)[i].next)
  PROVE  /\ \A i \in DOMAIN Over(t.draft, f) :
              i \in DOMAIN Over(e, f) /\ Follows(Over(t.draft, f)[i], Over(e, f)[i])
         /\ \A i \in DOMAIN e : i \in DOMAIN Over(t.draft, f) =>
              /\ i \in DOMAIN f => Follows(f[i], e[i])
              /\ i \notin DOMAIN f => e[i].read <= k
              /\ e[i].reason \in {"manual", "revision_reprocessed"} =>
                   (i \in DOMAIN f /\ f[i].reason # "none") \/ t.revision > 1
         /\ \A i \in DOMAIN e : i \in DOMAIN Over(t.draft, f) /\ e[i].reason = "superseded"
              /\ e[i].reason = Over(t.draft, f)[i].reason /\ e[i].next = Over(t.draft, f)[i].next
              /\ ~e[i].told =>
                /\ e[i].next \in DOMAIN Over(e, f) /\ ~Over(e, f)[e[i].next].told
                /\ Over(e, f)[e[i].next].valid > e[i].valid
         /\ \A i \in M!InForce(e), j \in M!InForce(Over(e, f)) :
              i \in DOMAIN t.draft /\ i \notin DOMAIN f /\ j \in DOMAIN Over(t.draft, f) =>
                Clear(e[i], Over(e, f)[j]) \/ (j \in DOMAIN f /\ f[j].born > e[i].read)
  <1>. DEFINE a == Over(t.draft, f)  b == Over(e, f)
  <1>1. /\ DOMAIN a = (DOMAIN t.draft) \cup DOMAIN f /\ DOMAIN b = (DOMAIN e) \cup DOMAIN f
        /\ \A i \in DOMAIN t.draft : a[i] = t.draft[i]
        /\ \A i \in DOMAIN e : b[i] = e[i]
        /\ \A i \in DOMAIN f : i \notin DOMAIN t.draft => a[i] = f[i]
        /\ \A i \in DOMAIN f : i \notin DOMAIN e => b[i] = f[i]
    BY DEF Over
  <1>2. \A i \in DOMAIN e : i \in DOMAIN a =>
           /\ Follows(a[i], e[i])
           /\ e[i].reason = "superseded" \/ (e[i].reason = a[i].reason /\ e[i].next = a[i].next)
    OBVIOUS
  <1>. HIDE DEF a, b
  <1>3. \A i \in DOMAIN a : i \in DOMAIN b /\ Follows(a[i], b[i])
    BY <1>1, <1>2, FollowsSelf
  <1>4. ASSUME NEW i \in DOMAIN e, i \in DOMAIN a
        PROVE  /\ i \in DOMAIN f => Follows(f[i], e[i])
               /\ i \notin DOMAIN f => e[i].read <= k
               /\ e[i].reason \in {"manual", "revision_reprocessed"} =>
                    (i \in DOMAIN f /\ f[i].reason # "none") \/ t.revision > 1
    <2>1. Follows(a[i], e[i]) /\ (e[i].reason = "superseded" \/ e[i].reason = a[i].reason)
      BY <1>2, <1>4
    <2>2. CASE i \in DOMAIN t.draft
      <3>1. /\ i \in DOMAIN f => Follows(f[i], a[i])
            /\ i \notin DOMAIN f => a[i].read <= k
            /\ a[i].reason \in {"manual", "revision_reprocessed"} =>
                 (i \in DOMAIN f /\ f[i].reason # "none") \/ t.revision > 1
        BY <1>1, <2>2 DEF TaskInv, Copied
      <3>2. i \in DOMAIN f => Follows(f[i], e[i]) BY <2>1, <3>1, FollowsOn
      <3>3. e[i].read = a[i].read BY <2>1 DEF Follows
      <3>. QED BY <2>1, <3>1, <3>2, <3>3
    <2>3. CASE i \notin DOMAIN t.draft
      <3>1. i \in DOMAIN f /\ a[i] = f[i] BY <1>1, <1>4, <2>3
      <3>. QED BY <2>1, <3>1
    <2>. QED BY <2>2, <2>3
  <1>5. ASSUME NEW i \in DOMAIN e, i \in DOMAIN a, e[i].reason = "superseded",
               e[i].reason = a[i].reason, e[i].next = a[i].next, ~e[i].told
        PROVE  e[i].next \in DOMAIN b /\ ~b[e[i].next].told /\ b[e[i].next].valid > e[i].valid
    <2>1. Follows(a[i], e[i]) BY <1>2, <1>5
    <2>2. a[i].next \in DOMAIN a /\ ~a[a[i].next].told /\ a[a[i].next].valid > a[i].valid
      <3>1. CASE i \in DOMAIN t.draft
        <4>1. Succeeded(a, t.draft) BY DEF TaskInv, a
        <4>. QED BY <1>1, <1>5, <2>1, <3>1, <4>1 DEF Succeeded, Follows
      <3>2. CASE i \notin DOMAIN t.draft
        <4>1. i \in DOMAIN f /\ a[i] = f[i] BY <1>1, <1>5, <3>2
        <4>2. f[i].next \in DOMAIN f /\ ~f[f[i].next].told /\ f[f[i].next].valid > f[i].valid
          BY <1>5, <2>1, <4>1 DEF FactsInv, Succeeded, Follows
        <4>3. Follows(f[f[i].next], a[f[i].next])
          BY <1>1, <4>2, FollowsSelf DEF TaskInv, Copied
        <4>. QED BY <1>1, <4>1, <4>2, <4>3 DEF Follows
      <3>. QED BY <3>1, <3>2
    <2>3. a[i].next \in DOMAIN b /\ Follows(a[a[i].next], b[a[i].next]) BY <1>3, <2>2
    <2>. QED BY <1>5, <2>1, <2>2, <2>3 DEF Follows
  <1>6. ASSUME NEW i \in M!InForce(e), NEW j \in M!InForce(b),
               i \in DOMAIN t.draft, i \notin DOMAIN f, j \in DOMAIN a
        PROVE  Clear(e[i], b[j]) \/ (j \in DOMAIN f /\ f[j].born > e[i].read)
    <2>1. i \in DOMAIN e /\ e[i].reason = "none" /\ b[j].reason = "none" /\ i \in DOMAIN a
      BY <1>1, <1>6 DEF M!InForce
    <2>2. Follows(t.draft[i], e[i]) /\ Follows(a[j], b[j]) BY <1>1, <1>2, <1>3, <1>6, <2>1
    <2>3. i \in M!InForce(t.draft) /\ j \in M!InForce(a)
      BY <1>6, <2>1, <2>2 DEF M!InForce, Follows
    <2>4. Clear(t.draft[i], a[j]) \/ (j \in DOMAIN f /\ f[j].born > t.draft[i].read)
      BY <1>6, <2>3 DEF TaskInv, Consistent, a
    <2>5. CASE Clear(t.draft[i], a[j]) BY <2>1, <2>2, <2>5, ClearOn
    <2>6. CASE j \in DOMAIN f /\ f[j].born > t.draft[i].read BY <2>2, <2>6 DEF Follows
    <2>. QED BY <2>4, <2>5, <2>6
  <1>. QED BY <1>3, <1>4, <1>5, <1>6 DEF a, b

LEMMA CandidateRow ==
  ASSUME NEW t \in TaskRow, NEW cand \in M!Candidate, NEW review \in BOOLEAN, NEW next \in Nat,
         NEW row, row = M!Row(t, cand, review, next)
  PROVE  /\ row \in M!FactRow /\ row.value = cand.value /\ row.valid = cand.valid
         /\ row.told = cand.stale /\ row.next = next /\ row.read = t.read /\ row.review = review
         /\ row.reason = IF next # 0 \/ cand.stale THEN "superseded" ELSE "none"
  <1>1. (IF next # 0 \/ cand.stale THEN "superseded" ELSE "none") \in M!Reason BY DEF M!Reason
  <1>2. row \in M!FactRow BY <1>1, Zenon DEF TaskRow, M!Candidate, M!FactRow, M!Row
  <1>. QED BY <1>2 DEF M!Row

\* What the judge's verdicts may come to, and what an insertion makes of the draft.
Ruled(t, f, cand, old, flag, next) ==
  /\ cand.stale => old = {} /\ flag = {} /\ next = 0
  /\ \A i \in old : i \in DOMAIN Over(t.draft, f) /\ Over(t.draft, f)[i].valid < cand.valid
  /\ \A i \in flag : i \in DOMAIN Over(t.draft, f)
  /\ next # 0 => /\ next \in DOMAIN Over(t.draft, f) /\ ~Over(t.draft, f)[next].told
                 /\ Over(t.draft, f)[next].valid > cand.valid
  /\ next = 0 /\ ~cand.stale => \A m \in t.seen : m.id \in old \cup flag
InsertedDraft(t, a, x, cand, old, flag, next) ==
  [i \in (DOMAIN t.draft) \cup old \cup flag \cup {x} |->
     IF i = x THEN M!Row(t, cand, cand.review \/ flag # {}, next)
     ELSE IF i \in old THEN [a[i] EXCEPT !.reason = "superseded", !.next = x]
     ELSE IF i \in flag THEN [a[i] EXCEPT !.review = TRUE]
     ELSE t.draft[i]]
Inserted(t, f, x, cand, old, flag, next, e) ==
  /\ e = [i \in DOMAIN e |-> e[i]] /\ DOMAIN e = (DOMAIN t.draft) \cup old \cup flag \cup {x}
  /\ e[x] \in M!FactRow /\ e[x].valid = cand.valid /\ e[x].told = cand.stale /\ e[x].next = next
  /\ e[x].read = t.read /\ (flag # {} => e[x].review)
  /\ e[x].reason = IF next # 0 \/ cand.stale THEN "superseded" ELSE "none"
  /\ \A i \in DOMAIN e : i # x =>
       /\ i \in DOMAIN Over(t.draft, f) /\ e[i] \in M!FactRow /\ Follows(Over(t.draft, f)[i], e[i])
       /\ IF i \in old THEN e[i].reason = "superseded" /\ e[i].next = x
          ELSE e[i].reason = Over(t.draft, f)[i].reason /\ e[i].next = Over(t.draft, f)[i].next

LEMMA InsertWrites ==
  ASSUME NEW t, NEW f, NEW n \in Nat, NEW k \in Nat, TaskInv(t, f, n, k), FactsInv(f, n, k),
         NEW cand \in M!Candidate, NEW old, NEW flag, NEW next, NEW x \in Nat, x > n,
         Ruled(t, f, cand, old, flag, next),
         NEW e, e = InsertedDraft(t, Over(t.draft, f), x, cand, old, flag, next)
  PROVE  Inserted(t, f, x, cand, old, flag, next, e)
  <1>. DEFINE a == Over(t.draft, f)
  <1>1. t \in TaskRow /\ RowsOf(t.draft, n) /\ RowsOf(f, n)
    BY DEF TaskInv, TaskTypes, FactsInv
  <1>2. /\ DOMAIN a = (DOMAIN t.draft) \cup DOMAIN f
        /\ \A i \in DOMAIN t.draft : a[i] = t.draft[i]
        /\ \A i \in DOMAIN f : i \notin DOMAIN t.draft => a[i] = f[i]
    BY DEF Over
  <1>3. /\ old \subseteq DOMAIN a /\ flag \subseteq DOMAIN a
        /\ next # 0 => next \in DOMAIN a
    BY DEF Ruled
  <1>4. /\ DOMAIN e = (DOMAIN t.draft) \cup old \cup flag \cup {x} /\ e = [i \in DOMAIN e |-> e[i]]
        /\ e[x] = M!Row(t, cand, cand.review \/ flag # {}, next)
        /\ \A i \in DOMAIN e : i # x /\ i \in old =>
             e[i] = [a[i] EXCEPT !.reason = "superseded", !.next = x]
        /\ \A i \in DOMAIN e : i # x /\ i \notin old /\ i \in flag => e[i] = [a[i] EXCEPT !.review = TRUE]
        /\ \A i \in DOMAIN e : i # x /\ i \notin old /\ i \notin flag =>
             i \in DOMAIN t.draft /\ e[i] = t.draft[i]
    BY Zenon DEF InsertedDraft
  <1>. HIDE DEF a
  <1>5. /\ DOMAIN a \subseteq 1..n /\ \A i \in DOMAIN a : a[i] \in M!FactRow
    BY <1>1, <1>2 DEF RowsOf
  <1>6. next \in Nat BY <1>3, <1>5
  <1>8. /\ e[x] \in M!FactRow /\ e[x].valid = cand.valid /\ e[x].told = cand.stale /\ e[x].next = next
        /\ e[x].read = t.read /\ e[x].review = (cand.review \/ flag # {})
        /\ e[x].reason = IF next # 0 \/ cand.stale THEN "superseded" ELSE "none"
    <2>. DEFINE doubt == cand.review \/ flag # {}
    <2>1. doubt \in BOOLEAN /\ e[x] = M!Row(t, cand, doubt, next) BY <1>4, Zenon
    <2>. HIDE DEF doubt
    <2>2. /\ e[x] \in M!FactRow /\ e[x].valid = cand.valid /\ e[x].told = cand.stale
          /\ e[x].next = next /\ e[x].read = t.read /\ e[x].review = doubt
          /\ e[x].reason = IF next # 0 \/ cand.stale THEN "superseded" ELSE "none"
      BY <1>1, <1>6, <2>1, CandidateRow
    <2>. QED BY <2>2, Zenon DEF doubt
  <1>9. ASSUME NEW i \in DOMAIN e, i # x
        PROVE  /\ i \in DOMAIN a /\ e[i] \in M!FactRow /\ Follows(a[i], e[i])
               /\ IF i \in old THEN e[i].reason = "superseded" /\ e[i].next = x
                  ELSE e[i].reason = a[i].reason /\ e[i].next = a[i].next
    <2>1. i \in DOMAIN a /\ a[i] \in M!FactRow BY <1>2, <1>3, <1>4, <1>5, <1>9, Zenon
    <2>2. CASE i \in old
      <3>1. e[i] = [a[i] EXCEPT !.reason = "superseded", !.next = x] BY <1>4, <1>9, <2>2, Zenon
      <3>2. /\ e[i] \in M!FactRow /\ Follows(a[i], e[i])
            /\ e[i].reason = "superseded" /\ e[i].next = x
        <4>. DEFINE r == a[i]  r2 == [r EXCEPT !.reason = "superseded", !.next = x]
        <4>1. r \in M!FactRow /\ e[i] = r2 BY <2>1, <3>1
        <4>. HIDE DEF r
        <4>2. r2 \in M!FactRow /\ Follows(r, r2) /\ r2.reason = "superseded" /\ r2.next = x
          BY <4>1, SupersededRow, Zenon
        <4>. QED BY <4>1, <4>2 DEF r
      <3>. QED BY <2>1, <2>2, <3>2
    <2>3. CASE i \notin old /\ i \in flag
      <3>1. e[i] = [a[i] EXCEPT !.review = TRUE] BY <1>4, <1>9, <2>3, Zenon
      <3>. QED BY <2>1, <2>3, <3>1, FlaggedRow, Zenon
    <2>4. CASE i \notin old /\ i \notin flag
      <3>1. e[i] = a[i] BY <1>2, <1>4, <1>9, <2>4, Zenon
      <3>. QED BY <2>1, <2>4, <3>1, FollowsSelf, Zenon
    <2>. QED BY <2>2, <2>3, <2>4
  <1>. QED BY <1>4, <1>8, <1>9, Zenon DEF Inserted, a

SettledAs(t, c, e, id2) ==
  [t EXCEPT !.at = "search", !.left = @ \ {c}, !.draft = e, !.id = id2]
LEMMA InsertTask ==
  ASSUME NEW t, NEW f, NEW n \in Nat, NEW k \in Nat, TaskInv(t, f, n, k), FactsInv(f, n, k),
         t.at = "apply", NEW c \in t.left, NEW old, NEW flag, NEW next, NEW x \in Nat, x > n,
         Ruled(t, f, t.cands[c], old, flag, next),
         NEW e, Inserted(t, f, x, t.cands[c], old, flag, next, e),
         NEW id2, id2 \in Maps(Int), DOMAIN id2 = (DOMAIN t.id) \cup {c}, id2[c] = x,
         \A y \in DOMAIN t.id : id2[y] = t.id[y]
  PROVE  TaskInv(SettledAs(t, c, e, id2), f, x, k)
  <1>. DEFINE a == Over(t.draft, f)  b == Over(e, f)  cand == t.cands[c]
              u == SettledAs(t, c, e, id2)
  <1>1. /\ t \in TaskRow /\ TaskTypes(t, n, k) /\ Paired(t) /\ RowsOf(t.draft, n)
        /\ RowsOf(f, n) /\ Succeeded(f, f)
    BY DEF TaskInv, TaskTypes, FactsInv
  <1>2. /\ t.cands \in Seq(M!Candidate) /\ t.left \subseteq DOMAIN t.cands /\ t.read \in Nat
        /\ t.left \in SUBSET Nat /\ t.read <= k
        /\ DOMAIN t.id \subseteq (DOMAIN t.cands) \ t.left
    BY <1>1, Zenon DEF TaskRow, TaskTypes
  <1>3. /\ DOMAIN a = (DOMAIN t.draft) \cup DOMAIN f /\ DOMAIN b = (DOMAIN e) \cup DOMAIN f
        /\ \A i \in DOMAIN t.draft : a[i] = t.draft[i]
        /\ \A i \in DOMAIN f : i \notin DOMAIN t.draft => a[i] = f[i]
        /\ \A i \in DOMAIN e : b[i] = e[i]
        /\ \A i \in DOMAIN f : i \notin DOMAIN e => b[i] = f[i]
    BY DEF Over
  <1>4. /\ cand.stale => old = {} /\ flag = {} /\ next = 0
        /\ \A i \in old : i \in DOMAIN a /\ a[i].valid < cand.valid
        /\ \A i \in flag : i \in DOMAIN a
        /\ next # 0 => next \in DOMAIN a /\ ~a[next].told /\ a[next].valid > cand.valid
        /\ next = 0 /\ ~cand.stale => \A m \in t.seen : m.id \in old \cup flag
    BY DEF Ruled
  <1>5. /\ e = [i \in DOMAIN e |-> e[i]] /\ DOMAIN e = (DOMAIN t.draft) \cup old \cup flag \cup {x}
        /\ e[x] \in M!FactRow /\ e[x].valid = cand.valid /\ e[x].told = cand.stale /\ e[x].next = next
        /\ e[x].read = t.read /\ (flag # {} => e[x].review)
        /\ e[x].reason = IF next # 0 \/ cand.stale THEN "superseded" ELSE "none"
    BY DEF Inserted
  <1>6. \A i \in DOMAIN e : i # x =>
          /\ i \in DOMAIN a /\ e[i] \in M!FactRow /\ Follows(a[i], e[i])
          /\ IF i \in old THEN e[i].reason = "superseded" /\ e[i].next = x
             ELSE e[i].reason = a[i].reason /\ e[i].next = a[i].next
    BY DEF Inserted
  <1>. HIDE DEF a, b, u
  <1>7. /\ DOMAIN a \subseteq 1..n /\ x \notin DOMAIN a
        /\ \A i \in DOMAIN a : /\ a[i] \in M!FactRow /\ a[i].next \in 0..n
                               /\ a[i].next # 0 \/ a[i].told => a[i].reason # "none"
    BY <1>1, <1>3 DEF RowsOf
  <1>8. cand \in M!Candidate /\ next \in 0..n
    BY <1>2, <1>4, <1>7
  <1>. HIDE DEF cand
  <1>9. /\ \A i \in DOMAIN a : i \in DOMAIN b /\ Follows(a[i], b[i])
        /\ \A i \in DOMAIN e : i \in DOMAIN a =>
             /\ i \in DOMAIN f => Follows(f[i], e[i])
             /\ i \notin DOMAIN f => e[i].read <= k
             /\ e[i].reason \in {"manual", "revision_reprocessed"} =>
                  (i \in DOMAIN f /\ f[i].reason # "none") \/ t.revision > 1
        /\ \A i \in DOMAIN e : i \in DOMAIN a /\ e[i].reason = "superseded"
             /\ e[i].reason = a[i].reason /\ e[i].next = a[i].next /\ ~e[i].told =>
               /\ e[i].next \in DOMAIN b /\ ~b[e[i].next].told /\ b[e[i].next].valid > e[i].valid
        /\ \A i \in M!InForce(e), j \in M!InForce(b) :
             i \in DOMAIN t.draft /\ i \notin DOMAIN f /\ j \in DOMAIN a =>
               Clear(e[i], b[j]) \/ (j \in DOMAIN f /\ f[j].born > e[i].read)
    <2>1. \A i \in DOMAIN e : i \in DOMAIN a =>
            /\ Follows(a[i], e[i])
            /\ e[i].reason = "superseded" \/ (e[i].reason = a[i].reason /\ e[i].next = a[i].next)
      BY <1>6, <1>7
    <2>2. DOMAIN t.draft \subseteq DOMAIN e BY <1>5
    <2>. QED BY <2>1, <2>2, DraftWrites, Zenon DEF a, b
  <1>10. RowsOf(e, x)
    <2>1. \A i \in DOMAIN e : e[i] \in M!FactRow BY <1>5, <1>6
    <2>2. e \in [DOMAIN e -> M!FactRow] BY <1>5, <2>1, Zenon
    <2>3. ASSUME NEW i \in DOMAIN e
          PROVE  /\ e[i].next \in 0..x
                 /\ e[i].next # 0 \/ e[i].told => e[i].reason # "none"
      <3>1. CASE i = x BY <1>5, <1>8, <3>1
      <3>2. CASE i # x
        <4>1. i \in DOMAIN a /\ a[i].next \in 0..x /\ Follows(a[i], e[i]) BY <1>6, <1>7, <3>2
        <4>2. x \in 0..x OBVIOUS
        <4>. QED BY <1>6, <1>7, <3>2, <4>1, <4>2 DEF Follows
      <3>. QED BY <3>1, <3>2
    <2>4. DOMAIN e \subseteq 1..x
      <3>1. \A i \in DOMAIN a : i \in 1..x BY <1>7
      <3>2. x \in 1..x OBVIOUS
      <3>. QED BY <1>6, <3>1, <3>2
    <2>. QED BY <2>2, <2>3, <2>4 DEF RowsOf
  <1>11. e \in Maps(M!FactRow)
    <2>1. e \in [DOMAIN e -> M!FactRow] /\ DOMAIN e \subseteq Int BY <1>10 DEF RowsOf
    <2>. QED BY <2>1, InMaps
  <1>12. t.left \ {c} \in SUBSET Nat BY <1>2
  <1>13. /\ u \in TaskRow /\ u.at = "search" /\ u.cands = t.cands /\ u.pair = t.pair
         /\ u.pairs = t.pairs /\ u.left = t.left \ {c} /\ u.id = id2 /\ u.seen = t.seen
         /\ u.read = t.read /\ u.draft = e /\ u.revision = t.revision
    BY <1>1, <1>11, <1>12, Zenon DEF TaskRow, u, SettledAs
  <1>14. TaskTypes(u, x, k)
    <2>1. \A y \in DOMAIN id2 : id2[y] = -1 \/ id2[y] \in DOMAIN e
      BY <1>1, <1>5 DEF TaskTypes
    <2>2. \A m \in t.seen : m.id \in 1..x BY <1>1 DEF TaskTypes
    <2>3. DOMAIN id2 \subseteq (DOMAIN t.cands) \ (t.left \ {c}) BY <1>2
    <2>. QED BY <1>2, <1>10, <1>13, <2>1, <2>2, <2>3 DEF TaskTypes
  <1>15. Paired(u)
    <2>1. \A y \in DOMAIN id2 : id2[y] # -1 /\ t.cands[y].stale => e[id2[y]].told
      <3>. SUFFICES ASSUME NEW y \in DOMAIN id2, id2[y] # -1, t.cands[y].stale
                    PROVE  e[id2[y]].told
        OBVIOUS
      <3>1. CASE y = c BY <1>5, <3>1 DEF cand
      <3>2. CASE y # c
        <4>1. y \in DOMAIN t.id /\ id2[y] = t.id[y] BY <3>2
        <4>2. t.id[y] \in DOMAIN t.draft /\ t.draft[t.id[y]].told
          BY <1>1, <4>1 DEF TaskTypes, Paired
        <4>3. t.id[y] \in DOMAIN e /\ t.id[y] # x /\ a[t.id[y]] = t.draft[t.id[y]]
          BY <1>3, <1>5, <1>7, <4>2
        <4>4. Follows(a[t.id[y]], e[t.id[y]]) BY <1>6, <4>3
        <4>. QED BY <4>1, <4>2, <4>3, <4>4 DEF Follows
      <3>. QED BY <3>1, <3>2
    <2>. QED BY <1>1, <1>13, <2>1 DEF Paired
  <1>16. x \notin DOMAIN f BY <1>3, <1>7
  <1>17. Copied(u, f, k)
    <2>1. e[x].read <= k BY <1>2, <1>5
    <2>2. e[x].reason \notin {"manual", "revision_reprocessed"} BY <1>5
    <2>3. \A i \in DOMAIN e : i = x \/ i \in DOMAIN a BY <1>6
    <2>. QED BY <1>9, <1>13, <1>16, <2>1, <2>2, <2>3 DEF Copied
  <1>18. Succeeded(b, e)
    <2>. SUFFICES ASSUME NEW i \in DOMAIN e, e[i].reason = "superseded", ~e[i].told
                  PROVE  e[i].next \in DOMAIN b /\ ~b[e[i].next].told /\ b[e[i].next].valid > e[i].valid
      BY DEF Succeeded
    <2>1. CASE i = x
      <3>1. ~cand.stale /\ next # 0 BY <1>5, <2>1
      <3>2. next \in DOMAIN a /\ ~a[next].told /\ a[next].valid > cand.valid BY <1>4, <3>1
      <3>3. next \in DOMAIN b /\ Follows(a[next], b[next]) BY <1>9, <3>2
      <3>. QED BY <1>5, <2>1, <3>2, <3>3 DEF Follows
    <2>2. CASE i # x /\ i \in old
      <3>1. a[i].valid < cand.valid /\ ~cand.stale /\ i \in DOMAIN a BY <1>4, <2>2
      <3>2. e[i].valid = a[i].valid /\ e[i].next = x BY <1>6, <2>2 DEF Follows
      <3>3. b[x] = e[x] /\ x \in DOMAIN b BY <1>3, <1>5
      <3>4. a[i].valid \in Nat /\ cand.valid \in Nat BY <1>7, <1>8, <3>1 DEF M!FactRow, M!Candidate
      <3>. QED BY <1>5, <3>1, <3>2, <3>3, <3>4
    <2>3. CASE i # x /\ i \notin old
      <3>1. i \in DOMAIN a /\ e[i].reason = a[i].reason /\ e[i].next = a[i].next BY <1>6, <2>3
      <3>. QED BY <1>9, <3>1
    <2>. QED BY <2>1, <2>2, <2>3
  <1>19. Consistent(u, f)
    \* The new row against what the transaction sees.
    <2>1. ASSUME NEW j \in M!InForce(b), j # x, e[x].reason = "none",
                 j \in DOMAIN t.draft \/ f[j].born <= t.read
          PROVE  e[x].review
      <3>1. next = 0 /\ ~cand.stale BY <1>5, <2>1
      <3>2. j \in DOMAIN a BY <1>3, <1>6, <2>1 DEF M!InForce
      <3>3. j \in M!InForce(a) BY <1>9, <2>1, <3>2 DEF M!InForce, Follows
      <3>4. \E m \in t.seen : m.id = j BY <2>1, <3>3 DEF TaskInv, Searched, a
      <3>5. j \in old \cup flag BY <1>4, <3>1, <3>4
      <3>6. j \notin old BY <1>3, <1>5, <1>6, <2>1 DEF M!InForce
      <3>. QED BY <1>5, <3>5, <3>6
    <2>. SUFFICES ASSUME NEW i \in M!InForce(e), NEW j \in M!InForce(b), i \notin DOMAIN f
                  PROVE  Clear(e[i], b[j]) \/ (j \in DOMAIN f /\ f[j].born > e[i].read)
      BY <1>13 DEF Consistent, b
    <2>2. CASE i = x /\ j = x BY <1>3, <1>5, <2>2 DEF Clear
    <2>3. CASE i = x /\ j # x
      <3>1. e[x].reason = "none" BY <2>3 DEF M!InForce
      <3>2. CASE e[x].review BY <2>3, <3>2 DEF Clear
      <3>3. CASE ~e[x].review
        <4>1. j \notin DOMAIN t.draft /\ ~(f[j].born <= t.read) BY <2>1, <2>3, <3>1, <3>3
        <4>2. j \in DOMAIN f BY <1>3, <1>6, <2>3, <4>1 DEF M!InForce
        <4>3. f[j].born \in Nat BY <1>1, <4>2 DEF RowsOf, M!FactRow
        <4>. QED BY <1>2, <1>5, <2>3, <4>1, <4>2, <4>3
      <3>. QED BY <3>2, <3>3
    <2>4. CASE i # x /\ j = x
      <3>1. i \in DOMAIN e /\ i \in DOMAIN a /\ e[i].reason = "none" /\ b[i] = e[i]
        BY <1>3, <1>6, <2>4 DEF M!InForce
      <3>2. i \in DOMAIN t.draft /\ i \in M!InForce(b) BY <1>3, <3>1 DEF M!InForce
      <3>3. e[x].reason = "none" /\ b[j] = e[x] BY <1>3, <1>5, <2>4 DEF M!InForce
      <3>4. e[x].review BY <2>1, <2>4, <3>2, <3>3
      <3>. QED BY <3>3, <3>4 DEF Clear
    <2>5. CASE i # x /\ j # x
      <3>1. i \in DOMAIN a /\ j \in DOMAIN a BY <1>3, <1>6, <2>5 DEF M!InForce
      <3>2. i \in DOMAIN t.draft BY <1>3, <3>1
      <3>. QED BY <1>9, <3>1, <3>2
    <2>. QED BY <2>2, <2>3, <2>4, <2>5
  <1>20. Searched(u, f) BY <1>13 DEF Searched
  <1>. QED BY <1>13, <1>14, <1>15, <1>17, <1>18, <1>19, <1>20 DEF TaskInv, u, b

LEMMA CollapseTask ==
  ASSUME NEW t, NEW f, NEW n \in Nat, NEW k \in Nat, TaskInv(t, f, n, k), FactsInv(f, n, k),
         t.at = "apply", NEW c \in t.left,
         NEW e, e = [i \in DOMAIN e |-> e[i]], DOMAIN t.draft \subseteq DOMAIN e,
         \A i \in DOMAIN e : /\ i \in DOMAIN Over(t.draft, f)
                             /\ \/ e[i] = Over(t.draft, f)[i]
                                \/ e[i] = [Over(t.draft, f)[i] EXCEPT !.sure = TRUE],
         NEW id2, id2 \in Maps(Int), DOMAIN id2 = (DOMAIN t.id) \cup {c}, id2[c] = -1,
         \A y \in DOMAIN t.id : id2[y] = t.id[y]
  PROVE  TaskInv(SettledAs(t, c, e, id2), f, n, k)
  <1>. DEFINE a == Over(t.draft, f)  b == Over(e, f)
              u == SettledAs(t, c, e, id2)
  <1>1. /\ t \in TaskRow /\ TaskTypes(t, n, k) /\ Paired(t) /\ RowsOf(t.draft, n)
        /\ RowsOf(f, n) /\ Succeeded(f, f)
    BY DEF TaskInv, TaskTypes, FactsInv
  <1>2. /\ t.cands \in Seq(M!Candidate) /\ t.left \subseteq DOMAIN t.cands
        /\ t.left \in SUBSET Nat
        /\ DOMAIN t.id \subseteq (DOMAIN t.cands) \ t.left
    BY <1>1, Zenon DEF TaskRow, TaskTypes
  <1>3. /\ DOMAIN a = (DOMAIN t.draft) \cup DOMAIN f /\ DOMAIN b = (DOMAIN e) \cup DOMAIN f
        /\ \A i \in DOMAIN t.draft : a[i] = t.draft[i]
        /\ \A i \in DOMAIN f : i \notin DOMAIN t.draft => a[i] = f[i]
        /\ \A i \in DOMAIN e : b[i] = e[i]
    BY DEF Over
  <1>4. \A i \in DOMAIN e : i \in DOMAIN a /\ (e[i] = a[i] \/ e[i] = [a[i] EXCEPT !.sure = TRUE])
    OBVIOUS
  <1>. HIDE DEF a, b, u
  <1>5. /\ DOMAIN a \subseteq 1..n
        /\ \A i \in DOMAIN a : /\ a[i] \in M!FactRow /\ a[i].next \in 0..n
                               /\ a[i].next # 0 \/ a[i].told => a[i].reason # "none"
    BY <1>1, <1>3 DEF RowsOf
  <1>6. \A i \in DOMAIN e : /\ i \in DOMAIN a /\ e[i] \in M!FactRow /\ Follows(a[i], e[i])
                            /\ e[i].reason = a[i].reason /\ e[i].next = a[i].next
    <2>. SUFFICES ASSUME NEW i \in DOMAIN e
                  PROVE  /\ i \in DOMAIN a /\ e[i] \in M!FactRow /\ Follows(a[i], e[i])
                         /\ e[i].reason = a[i].reason /\ e[i].next = a[i].next
      OBVIOUS
    <2>. DEFINE r == a[i]
    <2>1. r \in M!FactRow /\ (e[i] = r \/ e[i] = [r EXCEPT !.sure = TRUE]) BY <1>4, <1>5
    <2>. HIDE DEF r
    <2>2. e[i] \in M!FactRow /\ Follows(r, e[i]) /\ e[i].reason = r.reason /\ e[i].next = r.next
      BY <2>1, FollowsSelf, AssuredRow, Zenon
    <2>. QED BY <1>4, <2>2 DEF r
  <1>7. /\ \A i \in DOMAIN a : i \in DOMAIN b /\ Follows(a[i], b[i])
        /\ \A i \in DOMAIN e : i \in DOMAIN a =>
             /\ i \in DOMAIN f => Follows(f[i], e[i])
             /\ i \notin DOMAIN f => e[i].read <= k
             /\ e[i].reason \in {"manual", "revision_reprocessed"} =>
                  (i \in DOMAIN f /\ f[i].reason # "none") \/ t.revision > 1
        /\ \A i \in DOMAIN e : i \in DOMAIN a /\ e[i].reason = "superseded"
             /\ e[i].reason = a[i].reason /\ e[i].next = a[i].next /\ ~e[i].told =>
               /\ e[i].next \in DOMAIN b /\ ~b[e[i].next].told /\ b[e[i].next].valid > e[i].valid
        /\ \A i \in M!InForce(e), j \in M!InForce(b) :
             i \in DOMAIN t.draft /\ i \notin DOMAIN f /\ j \in DOMAIN a =>
               Clear(e[i], b[j]) \/ (j \in DOMAIN f /\ f[j].born > e[i].read)
    <2>1. \A i \in DOMAIN e : i \in DOMAIN a =>
            /\ Follows(a[i], e[i])
            /\ e[i].reason = "superseded" \/ (e[i].reason = a[i].reason /\ e[i].next = a[i].next)
      BY <1>6
    <2>. QED BY <2>1, DraftWrites, Zenon DEF a, b
  <1>8. RowsOf(e, n)
    <2>1. e \in [DOMAIN e -> M!FactRow] BY <1>6, Zenon
    <2>. QED BY <1>5, <1>6, <2>1 DEF RowsOf, Follows
  <1>9. e \in Maps(M!FactRow)
    <2>1. e \in [DOMAIN e -> M!FactRow] /\ DOMAIN e \subseteq Int BY <1>8 DEF RowsOf
    <2>. QED BY <2>1, InMaps
  <1>10. t.left \ {c} \in SUBSET Nat BY <1>2
  <1>11. /\ u \in TaskRow /\ u.at = "search" /\ u.cands = t.cands /\ u.pair = t.pair
         /\ u.pairs = t.pairs /\ u.left = t.left \ {c} /\ u.id = id2 /\ u.seen = t.seen
         /\ u.read = t.read /\ u.draft = e /\ u.revision = t.revision
    BY <1>1, <1>9, <1>10, Zenon DEF TaskRow, u, SettledAs
  <1>12. TaskTypes(u, n, k)
    <2>1. \A y \in DOMAIN id2 : id2[y] = -1 \/ id2[y] \in DOMAIN e
      BY <1>1 DEF TaskTypes
    <2>2. DOMAIN id2 \subseteq (DOMAIN t.cands) \ (t.left \ {c}) BY <1>2
    <2>. QED BY <1>1, <1>2, <1>8, <1>11, <2>1, <2>2 DEF TaskTypes
  <1>13. Paired(u)
    <2>1. \A y \in DOMAIN id2 : id2[y] # -1 /\ t.cands[y].stale => e[id2[y]].told
      <3>. SUFFICES ASSUME NEW y \in DOMAIN id2, id2[y] # -1, t.cands[y].stale
                    PROVE  e[id2[y]].told
        OBVIOUS
      <3>1. y \in DOMAIN t.id /\ id2[y] = t.id[y] OBVIOUS
      <3>2. t.id[y] \in DOMAIN t.draft /\ t.draft[t.id[y]].told
        BY <1>1, <3>1 DEF TaskTypes, Paired
      <3>3. t.id[y] \in DOMAIN e /\ a[t.id[y]] = t.draft[t.id[y]] BY <1>3, <3>2
      <3>. QED BY <1>6, <3>1, <3>2, <3>3 DEF Follows
    <2>. QED BY <1>1, <1>11, <2>1 DEF Paired
  <1>14. Copied(u, f, k) BY <1>6, <1>7, <1>11 DEF Copied
  <1>15. Succeeded(b, e) BY <1>6, <1>7 DEF Succeeded
  <1>16. Consistent(u, f)
    <2>. SUFFICES ASSUME NEW i \in M!InForce(e), NEW j \in M!InForce(b), i \notin DOMAIN f
                  PROVE  Clear(e[i], b[j]) \/ (j \in DOMAIN f /\ f[j].born > e[i].read)
      BY <1>11 DEF Consistent, b
    <2>1. i \in DOMAIN a /\ j \in DOMAIN a BY <1>3, <1>6 DEF M!InForce
    <2>2. i \in DOMAIN t.draft BY <1>3, <2>1
    <2>. QED BY <1>7, <2>1, <2>2
  <1>17. Searched(u, f) BY <1>11 DEF Searched
  <1>. QED BY <1>11, <1>12, <1>13, <1>14, <1>15, <1>16, <1>17 DEF TaskInv, u, b

-----------------------------------------------------------------------------
(* What a commit makes of the facts. *)

LEMMA Smallest ==
  ASSUME NEW S, S \subseteq Nat, S # {}
  PROVE  \E m \in S : \A x \in S : m <= x
  <1>1. PICK m \in S : \A u \in S : ~(<<u, m>> \in OpToRel(<, Nat))
    BY NatLessThanWellFounded, WFMin
  <1>2. \A x \in S : m <= x
    <2>. SUFFICES ASSUME NEW x \in S, ~(m <= x) PROVE FALSE
      OBVIOUS
    <2>1. x \in Nat /\ m \in Nat /\ x < m OBVIOUS
    <2>2. <<x, m>> \in OpToRel(<, Nat) BY <2>1 DEF OpToRel
    <2>. QED BY <1>1, <2>2
  <1>. QED BY <1>2

LEMMA Largest ==
  ASSUME NEW S, S # {}, NEW n \in Nat, S \subseteq 0..n
  PROVE  \E m \in S : \A x \in S : x <= m
  <1>. DEFINE T == {n - x : x \in S}
  <1>1. T \subseteq Nat /\ T # {}
    <2>1. \A x \in S : n - x \in Nat OBVIOUS
    <2>2. PICK x \in S : TRUE OBVIOUS
    <2>3. n - x \in T BY <2>2
    <2>. QED BY <2>1, <2>3
  <1>2. \A x \in S : n - x \in T OBVIOUS
  <1>3. \A y \in T : \E x \in S : y = n - x OBVIOUS
  <1>. HIDE DEF T
  <1>4. PICK y \in T : \A z \in T : y <= z BY <1>1, Smallest
  <1>5. PICK m \in S : y = n - m BY <1>3
  <1>6. \A x \in S : x <= m
    <2>. SUFFICES ASSUME NEW x \in S PROVE x <= m
      OBVIOUS
    <2>1. n - m <= n - x BY <1>2, <1>4, <1>5
    <2>. QED BY <2>1
  <1>. QED BY <1>6

LEMMA LinkedRow ==
  ASSUME NEW t, NEW f, NEW n \in Nat, NEW k \in Nat, TaskInv(t, f, n, k), M!Linkable(t),
         NEW i \in DOMAIN t.draft
  PROVE  /\ M!Link(t)[i] \in M!FactRow /\ Follows(t.draft[i], M!Link(t)[i])
         /\ M!Link(t)[i].reason = t.draft[i].reason /\ M!Link(t)[i].next \in 0..n
         /\ M!Link(t)[i].next = t.draft[i].next \/ t.draft[i].told
  <1>. DEFINE L == M!LaterOf(t, i)  r == t.draft[i]  l == M!Link(t)[i]
              m == CHOOSE x \in L : \A y \in L : y <= x
  <1>1. TaskTypes(t, n, k) /\ Paired(t) /\ RowsOf(t.draft, n) BY DEF TaskInv, TaskTypes
  <1>2. r \in M!FactRow /\ r.next \in 0..n BY <1>1 DEF RowsOf
  <1>3. l = IF L = {} THEN r ELSE [r EXCEPT !.next = m] BY DEF M!Link
  <1>. HIDE DEF r, l, m
  <1>4. CASE L = {} BY <1>2, <1>3, <1>4, FollowsSelf DEF r, l
  <1>5. CASE L # {}
    <2>1. L \subseteq 0..n
      <3>. SUFFICES ASSUME NEW p \in M!Linked(t) PROVE t.id[p[2]] \in 0..n
        BY DEF M!LaterOf
      <3>1. p[2] \in DOMAIN t.id /\ t.id[p[2]] # -1 BY DEF M!Linked, M!Linkable
      <3>2. t.id[p[2]] \in DOMAIN t.draft BY <1>1, <3>1 DEF TaskTypes
      <3>. QED BY <1>1, <3>2 DEF RowsOf
    <2>2. r.told
      <3>1. PICK q \in M!Linked(t) : t.id[q[1]] = i BY <1>5 DEF M!LaterOf
      <3>2. q \in t.pairs /\ q[1] \in DOMAIN t.id BY <3>1 DEF M!Linked
      <3>3. t.cands[q[1]].stale BY <1>1, <3>2 DEF Paired
      <3>4. i # -1 BY <1>1 DEF RowsOf
      <3>. QED BY <1>1, <3>1, <3>2, <3>3, <3>4 DEF Paired, r
    <2>. HIDE DEF L
    <2>3. m \in L BY <1>5, <2>1, Largest DEF m
    <2>4. m \in 0..n /\ m \in Nat BY <2>1, <2>3
    <2>5. l = [r EXCEPT !.next = m] BY <1>3, <1>5
    <2>6. l \in M!FactRow /\ Follows(r, l) /\ l.next = m /\ l.reason = r.reason
      BY <1>2, <2>4, <2>5, PointedRow
    <2>. QED BY <2>2, <2>4, <2>6 DEF r, l
  <1>. QED BY <1>4, <1>5

Committed(t, f, k, g) ==
  g = [i \in (DOMAIN t.draft) \cup DOMAIN f |->
         IF i \notin DOMAIN t.draft THEN f[i]
         ELSE IF i \in DOMAIN f THEN M!Link(t)[i]
         ELSE [M!Link(t)[i] EXCEPT !.born = k + 1]]

\* What everyone else then finds.
Published(t, f, n, k, g) ==
  /\ FactsInv(g, n, k + 1)
  /\ DOMAIN f \subseteq DOMAIN g /\ DOMAIN g = (DOMAIN t.draft) \cup DOMAIN f
  /\ \A i \in DOMAIN f : Follows(f[i], g[i])
  /\ \A i \in DOMAIN f : i \notin DOMAIN t.draft => g[i] = f[i]
  /\ \A i \in DOMAIN g : i \notin DOMAIN f => g[i].born = k + 1
  /\ \A i \in DOMAIN t.draft : g[i].reason = t.draft[i].reason

LEMMA FactsCommitted ==
  ASSUME NEW t, NEW f, NEW n \in Nat, NEW k \in Nat, TaskInv(t, f, n, k), FactsInv(f, n, k),
         M!Linkable(t), NEW g, Committed(t, f, k, g)
  PROVE  Published(t, f, n, k, g)
  <1>. DEFINE a == Over(t.draft, f)
  <1>1. /\ RowsOf(t.draft, n) /\ RowsOf(f, n) /\ Succeeded(f, f) /\ Copied(t, f, k)
        /\ Succeeded(a, t.draft) /\ Consistent(t, f)
    BY DEF TaskInv, TaskTypes, FactsInv
  <1>2. /\ DOMAIN a = (DOMAIN t.draft) \cup DOMAIN f
        /\ \A i \in DOMAIN t.draft : a[i] = t.draft[i]
        /\ \A i \in DOMAIN f : i \notin DOMAIN t.draft => a[i] = f[i]
    BY DEF Over
  <1>3. /\ DOMAIN g = (DOMAIN t.draft) \cup DOMAIN f /\ g = [i \in DOMAIN g |-> g[i]]
        /\ \A i \in DOMAIN f : i \notin DOMAIN t.draft => g[i] = f[i]
        /\ \A i \in DOMAIN f : i \in DOMAIN t.draft => g[i] = M!Link(t)[i]
        /\ \A i \in DOMAIN t.draft : i \notin DOMAIN f => g[i] = [M!Link(t)[i] EXCEPT !.born = k + 1]
    BY Zenon DEF Committed
  <1>4. \A i \in DOMAIN t.draft :
          /\ M!Link(t)[i] \in M!FactRow /\ Follows(t.draft[i], M!Link(t)[i])
          /\ M!Link(t)[i].reason = t.draft[i].reason /\ M!Link(t)[i].next \in 0..n
          /\ M!Link(t)[i].next = t.draft[i].next \/ t.draft[i].told
    BY LinkedRow
  <1>. HIDE DEF a
  <1>5. \A i \in DOMAIN a : a[i] \in M!FactRow /\ i \in 1..n
    BY <1>1, <1>2 DEF RowsOf
  \* A new row keeps all but its birth.
  <1>6. ASSUME NEW i \in DOMAIN t.draft, i \notin DOMAIN f
        PROVE  /\ g[i] \in M!FactRow /\ g[i].born = k + 1
               /\ g[i].value = t.draft[i].value /\ g[i].valid = t.draft[i].valid
               /\ g[i].told = t.draft[i].told /\ g[i].read = t.draft[i].read
               /\ g[i].reason = t.draft[i].reason /\ g[i].next = M!Link(t)[i].next
               /\ g[i].reason = "none" =>
                    (t.draft[i].review \/ t.draft[i].vetted => g[i].review \/ g[i].vetted)
    <2>. DEFINE l == M!Link(t)[i]
    <2>1. g[i] = [l EXCEPT !.born = k + 1] /\ l \in M!FactRow /\ Follows(t.draft[i], l)
          /\ l.reason = t.draft[i].reason
      BY <1>3, <1>4, <1>6, Zenon
    <2>. HIDE DEF l
    <2>2. k + 1 \in Nat OBVIOUS
    <2>3. /\ g[i] \in M!FactRow /\ g[i].born = k + 1 /\ g[i].next = l.next /\ g[i].reason = l.reason
          /\ g[i].value = l.value /\ g[i].valid = l.valid /\ g[i].told = l.told /\ g[i].read = l.read
          /\ g[i].review = l.review /\ g[i].vetted = l.vetted
      BY <2>1, <2>2, BirthWrites
    <2>. QED BY <2>1, <2>3, Zenon DEF Follows, l
  <1>7. \A i \in DOMAIN f : Follows(f[i], g[i])
    <2>. SUFFICES ASSUME NEW i \in DOMAIN f PROVE Follows(f[i], g[i])
      OBVIOUS
    <2>1. CASE i \in DOMAIN t.draft
      <3>1. Follows(f[i], t.draft[i]) BY <1>1, <2>1 DEF Copied
      <3>. QED BY <1>3, <1>4, <2>1, <3>1, FollowsOn
    <2>2. CASE i \notin DOMAIN t.draft BY <1>3, <2>2, FollowsSelf
    <2>. QED BY <2>1, <2>2
  <1>8. \A i \in DOMAIN t.draft : /\ g[i].reason = t.draft[i].reason
                                  /\ g[i].told = t.draft[i].told /\ g[i].valid = t.draft[i].valid
                                  /\ g[i].next = M!Link(t)[i].next
    BY <1>3, <1>4, <1>6 DEF Follows
  <1>9. \A i \in DOMAIN g : i \notin DOMAIN f => i \in DOMAIN t.draft /\ g[i].born = k + 1
    BY <1>3, <1>6
  <1>10. RowsOf(g, n)
    <2>1. \A i \in DOMAIN g : g[i] \in M!FactRow
      <3>. SUFFICES ASSUME NEW i \in DOMAIN g PROVE g[i] \in M!FactRow
        OBVIOUS
      <3>1. CASE i \in DOMAIN f /\ i \notin DOMAIN t.draft BY <1>1, <1>3, <3>1 DEF RowsOf
      <3>2. CASE i \in DOMAIN f /\ i \in DOMAIN t.draft BY <1>3, <1>4, <3>2
      <3>3. CASE i \notin DOMAIN f BY <1>3, <1>6, <3>3
      <3>. QED BY <3>1, <3>2, <3>3
    <2>2. g \in [DOMAIN g -> M!FactRow] BY <1>3, <2>1, Zenon
    <2>3. DOMAIN g \subseteq 1..n BY <1>1, <1>3 DEF RowsOf
    <2>4. ASSUME NEW i \in DOMAIN g
          PROVE  g[i].next \in 0..n /\ (g[i].next # 0 \/ g[i].told => g[i].reason # "none")
      <3>1. CASE i \in DOMAIN t.draft
        <4>1. t.draft[i].next # 0 \/ t.draft[i].told => t.draft[i].reason # "none"
          BY <1>1, <3>1 DEF RowsOf
        <4>. QED BY <1>4, <1>8, <3>1, <4>1
      <3>2. CASE i \notin DOMAIN t.draft BY <1>1, <1>3, <2>4, <3>2 DEF RowsOf
      <3>. QED BY <3>1, <3>2
    <2>. QED BY <2>2, <2>3, <2>4 DEF RowsOf
  <1>11. Succeeded(g, g)
    <2>1. \A i \in DOMAIN a : i \in DOMAIN g /\ g[i].told = a[i].told /\ g[i].valid = a[i].valid
      BY <1>2, <1>3, <1>8
    <2>. SUFFICES ASSUME NEW i \in DOMAIN g, g[i].reason = "superseded", ~g[i].told
                  PROVE  /\ g[i].next \in DOMAIN g /\ ~g[g[i].next].told
                         /\ g[g[i].next].valid > g[i].valid
      BY DEF Succeeded
    <2>2. CASE i \in DOMAIN t.draft
      <3>1. g[i].next = t.draft[i].next BY <1>4, <1>8, <2>2
      <3>2. /\ t.draft[i].next \in DOMAIN a /\ ~a[t.draft[i].next].told
            /\ a[t.draft[i].next].valid > t.draft[i].valid
        BY <1>1, <1>8, <2>2 DEF Succeeded
      <3>. QED BY <1>8, <2>1, <2>2, <3>1, <3>2
    <2>3. CASE i \notin DOMAIN t.draft
      <3>1. i \in DOMAIN f /\ g[i] = f[i] BY <1>3, <2>3
      <3>2. f[i].next \in DOMAIN f /\ ~f[f[i].next].told /\ f[f[i].next].valid > f[i].valid
        BY <1>1, <3>1 DEF Succeeded
      <3>. QED BY <1>3, <1>7, <3>1, <3>2 DEF Follows
    <2>. QED BY <2>2, <2>3
  <1>12. ASSUME NEW i \in DOMAIN f
         PROVE  /\ f[i].read \in Nat /\ f[i].born \in Nat /\ f[i].read < f[i].born /\ f[i].born <= k
                /\ g[i].read = f[i].read /\ g[i].born = f[i].born
    BY <1>1, <1>7 DEF RowsOf, M!FactRow, FactsInv, Follows
  <1>13. ASSUME NEW i \in DOMAIN t.draft, i \notin DOMAIN f
         PROVE  g[i].read = t.draft[i].read /\ g[i].born = k + 1 /\ g[i].read \in Nat /\ g[i].read <= k
    BY <1>1, <1>6, <1>13 DEF Copied, RowsOf, M!FactRow
  <1>14. \A i \in DOMAIN g : g[i].read < g[i].born /\ g[i].born <= k + 1
    <2>. SUFFICES ASSUME NEW i \in DOMAIN g PROVE g[i].read < g[i].born /\ g[i].born <= k + 1
      OBVIOUS
    <2>1. CASE i \in DOMAIN f BY <1>12, <2>1
    <2>2. CASE i \notin DOMAIN f BY <1>3, <1>13, <2>2
    <2>. QED BY <2>1, <2>2
  \* A new row against any other.
  <1>15. ASSUME NEW i \in M!InForce(g), NEW j \in M!InForce(g), i \notin DOMAIN f
         PROVE  Clear(g[i], g[j]) \/ (g[i].read < g[j].born /\ g[j].read < g[i].born)
    <2>1. i \in DOMAIN t.draft /\ i \in M!InForce(t.draft) /\ g[i].reason = "none" /\ g[j].reason = "none"
      BY <1>3, <1>8, <1>15 DEF M!InForce
    <2>2. /\ j \in DOMAIN a /\ a[j].reason = "none" /\ g[j].value = a[j].value
          /\ a[j].review \/ a[j].vetted => g[j].review \/ g[j].vetted
      <3>1. CASE j \in DOMAIN f /\ j \notin DOMAIN t.draft BY <1>2, <1>3, <2>1, <3>1
      <3>2. CASE j \in DOMAIN f /\ j \in DOMAIN t.draft
        BY <1>2, <1>3, <1>4, <2>1, <3>2 DEF Follows
      <3>3. CASE j \notin DOMAIN f
        <4>1. j \in DOMAIN g BY DEF M!InForce
        <4>2. j \in DOMAIN t.draft BY <1>3, <3>3, <4>1
        <4>. QED BY <1>2, <1>6, <2>1, <3>3, <4>2
      <3>. QED BY <3>1, <3>2, <3>3
    <2>3. j \in M!InForce(a) BY <2>2 DEF M!InForce
    <2>4. Clear(t.draft[i], a[j]) \/ (j \in DOMAIN f /\ f[j].born > t.draft[i].read)
      BY <1>1, <1>15, <2>1, <2>3 DEF Consistent, a
    <2>5. CASE Clear(t.draft[i], a[j])
      BY <1>6, <1>15, <2>1, <2>2, <2>5 DEF Clear
    <2>6. CASE j \in DOMAIN f /\ f[j].born > t.draft[i].read
      BY <1>12, <1>13, <1>15, <2>1, <2>6
    <2>. QED BY <2>4, <2>5, <2>6
  <1>16. \A i, j \in M!InForce(g) :
           Clear(g[i], g[j]) \/ (g[i].read < g[j].born /\ g[j].read < g[i].born)
    <2>. SUFFICES ASSUME NEW i \in M!InForce(g), NEW j \in M!InForce(g)
                  PROVE  Clear(g[i], g[j]) \/ (g[i].read < g[j].born /\ g[j].read < g[i].born)
      OBVIOUS
    <2>1. CASE i \notin DOMAIN f BY <1>15, <2>1
    <2>2. CASE j \notin DOMAIN f
      <3>1. Clear(g[j], g[i]) \/ (g[j].read < g[i].born /\ g[i].read < g[j].born)
        BY <1>15, <2>2
      <3>. QED BY <3>1 DEF Clear
    <2>3. CASE i \in DOMAIN f /\ j \in DOMAIN f
      <3>1. Follows(f[i], g[i]) /\ Follows(f[j], g[j]) /\ g[i].reason = "none" /\ g[j].reason = "none"
        BY <1>7, <2>3 DEF M!InForce
      <3>2. i \in M!InForce(f) /\ j \in M!InForce(f) BY <2>3, <3>1 DEF M!InForce, Follows
      <3>3. Clear(f[i], f[j]) \/ (f[i].read < f[j].born /\ f[j].read < f[i].born)
        BY <3>2 DEF FactsInv
      <3>. QED BY <1>12, <2>3, <3>1, <3>3, ClearOn
    <2>. QED BY <2>1, <2>2, <2>3
  <1>17. FactsInv(g, n, k + 1) BY <1>10, <1>11, <1>14, <1>16, Zenon DEF FactsInv
  <1>18. DOMAIN f \subseteq DOMAIN g BY <1>3
  <1>. QED BY <1>3, <1>7, <1>8, <1>9, <1>17, <1>18 DEF Published

-----------------------------------------------------------------------------
(* The steps. *)

LEMMA MemInit == M!Init => MemInv
  <1>. SUFFICES ASSUME M!Init PROVE MemInv
    OBVIOUS
  <1>1. DOMAIN rows = {} /\ rows = <<>> BY DEF M!Init
  <1>2. FactAttempts \in Nat BY MemoryAssumption
  <1>3. MemTypes BY <1>1, <1>2 DEF M!Init, MemTypes
  <1>4. \A w \in Worker : task[w] = M!Idle BY DEF M!Init
  <1>5. FactsInv(rows, ids, commits)
    <2>1. rows \in [DOMAIN rows -> M!FactRow] BY <1>1
    <2>. QED BY <1>1, <2>1 DEF FactsInv, RowsOf, Succeeded, M!InForce
  <1>. QED BY <1>3, <1>4, <1>5 DEF MemInv, OneEach

LEMMA MoreIds ==
  ASSUME NEW t, NEW f, NEW n \in Nat, NEW n2 \in Nat, NEW k \in Nat, n <= n2, TaskInv(t, f, n, k)
  PROVE  TaskInv(t, f, n2, k)
  BY DEF TaskInv, TaskTypes, RowsOf

\* A worker's own step: only its task changes, and at most an id is handed out.
LEMMA OwnStep ==
  ASSUME MemInv, NEW w \in Worker, NEW u, task' = [task EXCEPT ![w] = u],
         rows' = rows, cited' = cited, done' = done, attempts' = attempts, commits' = commits,
         ids' \in Nat, ids <= ids', u # M!Idle, TaskInv(u, rows, ids', commits),
         u.revision = done[u.episode] + 1, attempts[u.episode] < FactAttempts,
         \A v \in Worker : v # w /\ task[v] # M!Idle =>
           task[v].episode # u.episode /\ (DOMAIN task[v].draft) \cap (DOMAIN u.draft) = {}
  PROVE  MemInv'
  <1>1. ids \in Nat /\ commits \in Nat /\ DOMAIN task = Worker /\ FactsInv(rows, ids, commits)
    BY DEF MemInv, MemTypes
  <1>2. task'[w] = u /\ \A v \in Worker : v # w => task'[v] = task[v] BY <1>1
  <1>3. MemTypes' BY <1>1 DEF MemInv, MemTypes
  <1>4. OneEach' BY <1>2 DEF MemInv, OneEach
  <1>5. FactsInv(rows, ids', commits) BY <1>1 DEF FactsInv, RowsOf
  <1>6. ASSUME NEW v \in Worker, v # w, task[v] # M!Idle
        PROVE  TaskInv(task[v], rows, ids', commits)
    <2>1. TaskInv(task[v], rows, ids, commits) BY <1>6 DEF MemInv
    <2>. QED BY <1>1, <2>1, MoreIds
  <1>7. \A v \in Worker : task'[v] # M!Idle => TaskInv(task'[v], rows, ids', commits)
    BY <1>2, <1>6
  <1>. QED BY <1>3, <1>4, <1>5, <1>7 DEF MemInv

LEMMA FailStep ==
  ASSUME MemInv, NEW w \in Worker, task[w] # M!Idle, M!Fail(w)
  PROVE  MemInv'
  <1>1. /\ DOMAIN task = Worker /\ attempts \in [FactEpisode -> 0..FactAttempts]
        /\ FactAttempts \in Nat /\ task[w].episode \in FactEpisode
        /\ attempts[task[w].episode] < FactAttempts
    BY MemoryAssumption DEF MemInv, MemTypes, OneEach, TaskInv, TaskTypes, TaskRow
  <1>2. /\ task'[w] = M!Idle /\ \A v \in Worker : v # w => task'[v] = task[v]
        /\ UNCHANGED <<rows, ids, cited, done, commits>>
        /\ attempts' = [attempts EXCEPT ![task[w].episode] = @ + 1]
    BY <1>1 DEF M!Fail
  <1>3. attempts' \in [FactEpisode -> 0..FactAttempts] BY <1>1, <1>2
  <1>4. MemTypes' BY <1>1, <1>2, <1>3 DEF MemInv, MemTypes, M!Fail
  <1>5. OneEach'
    <2>1. \A v \in Worker : task'[v] # M!Idle => v # w /\ task'[v] = task[v] /\ task[v] # M!Idle
      BY <1>2
    <2>2. \A v \in Worker : task'[v] # M!Idle => task[v].episode # task[w].episode
      BY <2>1 DEF MemInv, OneEach
    <2>3. \A v \in Worker : task'[v] # M!Idle =>
            attempts'[task[v].episode] = attempts[task[v].episode]
      BY <1>1, <1>2, <2>2
    <2>. QED BY <1>2, <2>1, <2>3 DEF MemInv, OneEach
  <1>6. FactsInv(rows, ids, commits)' BY <1>2 DEF MemInv
  <1>. QED BY <1>2, <1>4, <1>5, <1>6 DEF MemInv

LEMMA ApproveStep ==
  ASSUME MemInv, M!Approve
  PROVE  MemInv'
  <1>1. UNCHANGED <<rows, ids, done, attempts, task, commits>> /\ cited' \subseteq DOMAIN rows
    BY DEF M!Approve, M!InForce
  <1>. QED BY <1>1 DEF MemInv, MemTypes, OneEach

LEMMA Stutter ==
  ASSUME MemInv, UNCHANGED M!vars
  PROVE  MemInv'
  BY DEF M!vars, MemInv, MemTypes, OneEach

LEMMA ExtractStep ==
  ASSUME MemInv, NEW w \in Worker, NEW e \in FactEpisode, M!Extract(w, e)
  PROVE  MemInv'
  <1>1. PICK talk \in Talks :
          task' = [task EXCEPT ![w] =
            [at |-> "pairs", episode |-> e, revision |-> done[e] + 1, cands |-> M!Prepared(e, talk),
             pair |-> <<1, 2>>, pairs |-> {}, left |-> {}, id |-> <<>>, seen |-> {},
             read |-> commits, draft |-> <<>>]]
    BY DEF M!Extract
  <1>. DEFINE u == [at |-> "pairs", episode |-> e, revision |-> done[e] + 1,
                    cands |-> M!Prepared(e, talk), pair |-> <<1, 2>>, pairs |-> {}, left |-> {},
                    id |-> <<>>, seen |-> {}, read |-> commits, draft |-> <<>>]
  <1>2. /\ UNCHANGED <<rows, ids, cited, done, attempts, commits>>
        /\ attempts[e] < FactAttempts
        /\ \A v \in Worker : task[v] # M!Idle => task[v].episode # e
    BY DEF M!Extract
  <1>3. ids \in Nat /\ commits \in Nat /\ done[e] + 1 \in Nat \ {0} BY DEF MemInv, MemTypes
  <1>4. TaskInv(u, rows, ids, commits) BY <1>3, ExtractTask
  <1>5. u.episode = e /\ u.revision = done[e] + 1 /\ u.draft = <<>> /\ u.at = "pairs" OBVIOUS
  <1>6. u # M!Idle BY <1>5 DEF M!Idle
  <1>7. task' = [task EXCEPT ![w] = u] BY <1>1
  <1>. HIDE DEF u
  <1>8. \A v \in Worker : v # w /\ task[v] # M!Idle =>
          task[v].episode # u.episode /\ (DOMAIN task[v].draft) \cap (DOMAIN u.draft) = {}
    BY <1>2, <1>5
  <1>9. ids' \in Nat /\ ids <= ids' /\ TaskInv(u, rows, ids', commits) BY <1>2, <1>3, <1>4
  <1>10. u.revision = done[u.episode] + 1 /\ attempts[u.episode] < FactAttempts BY <1>2, <1>5
  <1>. QED BY <1>2, <1>6, <1>7, <1>8, <1>9, <1>10, OwnStep

\* What a worker's step finds.
LEMMA AtWork ==
  ASSUME MemInv, NEW w \in Worker, task[w].at \in {"pairs", "search", "apply", "finish"}
  PROVE  /\ task[w] # M!Idle /\ TaskInv(task[w], rows, ids, commits) /\ task[w] \in TaskRow
         /\ FactsInv(rows, ids, commits) /\ ids \in Nat /\ commits \in Nat
         /\ DOMAIN task = Worker
         /\ task[w].revision = done[task[w].episode] + 1 /\ attempts[task[w].episode] < FactAttempts
         /\ M!View(task[w]) = Over(task[w].draft, rows)
  <1>1. task[w] # M!Idle BY DEF M!Idle
  <1>. QED BY <1>1 DEF MemInv, MemTypes, OneEach, TaskInv, TaskTypes, M!View, Over

\* A step of a worker that writes no row but its own: the others' are apart.
LEMMA OwnWork ==
  ASSUME MemInv, NEW w \in Worker, task[w] # M!Idle, NEW u, task' = [task EXCEPT ![w] = u],
         rows' = rows, cited' = cited, done' = done, attempts' = attempts, commits' = commits,
         ids' \in Nat, ids <= ids', u # M!Idle, TaskInv(u, rows, ids', commits),
         u.episode = task[w].episode, u.revision = task[w].revision,
         \A v \in Worker : v # w /\ task[v] # M!Idle =>
           \A i \in DOMAIN u.draft : i \in DOMAIN task[v].draft => i \in DOMAIN task[w].draft
  PROVE  MemInv'
  <1>1. u.revision = done[u.episode] + 1 /\ attempts[u.episode] < FactAttempts
    BY DEF MemInv, OneEach
  <1>2. \A v \in Worker : v # w /\ task[v] # M!Idle =>
          task[v].episode # u.episode /\ (DOMAIN task[v].draft) \cap (DOMAIN u.draft) = {}
    BY DEF MemInv, OneEach
  <1>. QED BY <1>1, <1>2, OwnStep

Judged(t, c2, p2) == [t EXCEPT !.pair = M!NextPair(t), !.cands = c2, !.pairs = p2]
LEMMA PairStep ==
  ASSUME MemInv, NEW w \in Worker, task[w].at = "pairs", task[w].pair[2] <= Len(task[w].cands),
         UNCHANGED <<rows, ids, cited, done, attempts, commits>>,
         NEW c2 \in Seq(M!Candidate), NEW p2, NEW u, u = Judged(task[w], c2, p2),
         task' = [task EXCEPT ![w] = u], Len(c2) = Len(task[w].cands),
         \A x \in DOMAIN task[w].cands : task[w].cands[x].stale => c2[x].stale,
         \A p \in p2 : \/ p \in task[w].pairs
                       \/ p \in (DOMAIN c2) \X (DOMAIN c2) /\ c2[p[1]].stale
  PROVE  MemInv'
  <1>. DEFINE t == task[w]
  <1>1. /\ t # M!Idle /\ TaskInv(t, rows, ids, commits) /\ t \in TaskRow
        /\ ids \in Nat /\ commits \in Nat
    BY AtWork
  <1>2. TaskInv(u, rows, ids, commits) BY <1>1, JudgeTask DEF Judged
  <1>3. u.episode = t.episode /\ u.revision = t.revision /\ u.draft = t.draft /\ u.at = t.at
    BY <1>1, Zenon DEF TaskRow, Judged
  <1>4. u # M!Idle BY <1>3 DEF M!Idle
  <1>5. ids' \in Nat /\ ids <= ids' /\ TaskInv(u, rows, ids', commits) BY <1>1, <1>2
  <1>. QED BY <1>1, <1>3, <1>4, <1>5, OwnWork

LEMMA JudgeStep ==
  ASSUME MemInv, NEW w \in Worker, M!JudgePair(w)
  PROVE  MemInv'
  <1>. DEFINE t == task[w]  c == t.cands  i == t.pair[1]  j == t.pair[2]
  <1>1. t.at = "pairs" /\ j <= Len(c) /\ UNCHANGED <<rows, ids, cited, done, attempts, commits>>
    BY DEF M!JudgePair
  <1>2. TaskInv(t, rows, ids, commits) /\ t \in TaskRow /\ DOMAIN task = Worker
    BY <1>1, AtWork
  <1>3. /\ c \in Seq(M!Candidate) /\ i \in Nat /\ j \in Nat /\ i # 0 /\ i < j
        /\ t.pairs \subseteq (DOMAIN c) \X (DOMAIN c)
    BY <1>2 DEF TaskInv, Paired, TaskRow
  <1>4. i \in DOMAIN c /\ j \in DOMAIN c BY <1>1, <1>3
  <1>5. CASE c[i].alive /\ c[j].alive
    <2>1. PICK clash \in Clashes :
            LET verdict == M!Verdict(c[i], c[j], clash) IN
            task' = [task EXCEPT ![w].pair = M!NextPair(t),
              ![w].cands = M!ReconcilePair(c, i, j, verdict),
              ![w].pairs = IF M!Wins(c, i, j, verdict)
                           THEN @ \cup {<<M!Earlier(c, i, j), M!Later(c, i, j)>>} ELSE @]
      BY <1>5 DEF M!JudgePair
    <2>. DEFINE verdict == M!Verdict(c[i], c[j], clash)
                c2 == M!ReconcilePair(c, i, j, verdict)
                p2 == IF M!Wins(c, i, j, verdict)
                      THEN t.pairs \cup {<<M!Earlier(c, i, j), M!Later(c, i, j)>>} ELSE t.pairs
                u == Judged(t, c2, p2)
    <2>2. task' = [task EXCEPT ![w] = u]
      BY <1>2, <2>1, Zenon DEF TaskRow, Judged
    <2>3. /\ c2 \in Seq(M!Candidate) /\ Len(c2) = Len(c)
          /\ \A x \in DOMAIN c : c[x].stale => c2[x].stale
          /\ M!Earlier(c, i, j) \in DOMAIN c /\ M!Later(c, i, j) \in DOMAIN c
          /\ M!Wins(c, i, j, verdict) => c2[M!Earlier(c, i, j)].stale
      BY <1>3, <1>4, PairJudged
    <2>. HIDE DEF c2, verdict, u
    <2>4. DOMAIN c2 = DOMAIN c BY <1>3, <2>3
    <2>5. \A p \in p2 : p \in t.pairs \/ (p \in (DOMAIN c2) \X (DOMAIN c2) /\ c2[p[1]].stale)
      BY <2>3, <2>4
    <2>. HIDE DEF p2
    <2>6. u = Judged(t, c2, p2) BY DEF u
    <2>. QED BY <1>1, <2>2, <2>3, <2>5, <2>6, PairStep
  <1>6. CASE ~(c[i].alive /\ c[j].alive)
    <2>. DEFINE u == Judged(t, c, t.pairs)
    <2>1. task' = [task EXCEPT ![w].pair = M!NextPair(t)] BY <1>6 DEF M!JudgePair
    <2>2. u = [t EXCEPT !.pair = M!NextPair(t)]
      BY <1>2, Zenon DEF TaskRow, Judged
    <2>3. task' = [task EXCEPT ![w] = u]
      BY <1>2, <2>1, <2>2
    <2>4. \A p \in t.pairs : p \in t.pairs OBVIOUS
    <2>5. u = Judged(task[w], task[w].cands, task[w].pairs) OBVIOUS
    <2>. HIDE DEF u
    <2>. QED BY <1>1, <1>3, <2>3, <2>4, <2>5, PairStep
  <1>. QED BY <1>5, <1>6

LEMMA BeginStep ==
  ASSUME MemInv, NEW w \in Worker, M!Begin(w)
  PROVE  MemInv'
  <1>. DEFINE t == task[w]  prior == M!PriorOf(t.episode, t.revision)
              d == M!InvalidatePriorRevisionFacts(prior)
              l == {i \in DOMAIN t.cands : t.cands[i].alive}
              u == [t EXCEPT !.at = "search", !.draft = d, !.left = l]
  <1>1. /\ t.at = "pairs" /\ UNCHANGED <<rows, ids, cited, done, attempts, commits>>
        /\ M!Free(w, prior)
    BY DEF M!Begin
  <1>2. /\ t # M!Idle /\ TaskInv(t, rows, ids, commits) /\ t \in TaskRow /\ DOMAIN task = Worker
        /\ ids \in Nat /\ commits \in Nat /\ FactsInv(rows, ids, commits)
    BY <1>1, AtWork
  <1>3. task' = [task EXCEPT ![w] = u]
    BY <1>2, Zenon DEF M!Begin, TaskRow
  <1>4. \A i \in prior : i \in DOMAIN rows /\ rows[i].reason = "none" /\ rows[i].revision < t.revision
    BY DEF M!PriorOf, M!InForce
  <1>5. /\ DOMAIN d = prior /\ d = [i \in DOMAIN d |-> d[i]]
        /\ \A i \in prior : d[i] \in {[rows[i] EXCEPT !.review = TRUE],
                                      [rows[i] EXCEPT !.reason = "revision_reprocessed"]}
    BY Zenon DEF M!InvalidatePriorRevisionFacts
  <1>6. l \subseteq DOMAIN t.cands OBVIOUS
  <1>. HIDE DEF d, prior, l
  <1>7. TaskInv(u, rows, ids, commits)
    <2>1. \A i \in DOMAIN d :
            /\ i \in DOMAIN rows /\ rows[i].reason = "none" /\ rows[i].revision < t.revision
            /\ d[i] \in {[rows[i] EXCEPT !.review = TRUE],
                         [rows[i] EXCEPT !.reason = "revision_reprocessed"]}
      BY <1>4, <1>5, Zenon
    <2>. QED BY <1>1, <1>2, <1>5, <1>6, <2>1, BeginTask, Zenon
  <1>8. u.episode = t.episode /\ u.revision = t.revision /\ u.draft = d /\ u.at = "search"
    BY <1>2, Zenon DEF TaskRow
  <1>9. u # M!Idle BY <1>8 DEF M!Idle
  <1>10. \A v \in Worker : v # w /\ task[v] # M!Idle =>
           \A i \in DOMAIN u.draft : i \in DOMAIN task[v].draft => i \in DOMAIN t.draft
    BY <1>1, <1>5, <1>8 DEF M!Free, M!Writing
  <1>. HIDE DEF u
  <1>11. ids' \in Nat /\ ids <= ids' /\ TaskInv(u, rows, ids', commits) BY <1>1, <1>2, <1>7
  <1>. QED BY <1>1, <1>2, <1>3, <1>8, <1>9, <1>10, <1>11, OwnWork

\* The candidate a transaction deals with.
LEMMA CurrentLeft ==
  ASSUME NEW t \in TaskRow, t.left # {}
  PROVE  M!Current(t) \in t.left
  <1>1. t.left \subseteq Nat BY DEF TaskRow
  <1>2. \E m \in t.left : \A x \in t.left : m <= x BY <1>1, Smallest
  <1>. QED BY <1>2 DEF M!Current

LEMMA SearchStep ==
  ASSUME MemInv, NEW w \in Worker, M!SearchNeighbors(w)
  PROVE  MemInv'
  <1>. DEFINE t == task[w]  a == Over(t.draft, rows)  near == M!InForce(M!View(t))
  <1>1. t.at = "search" /\ UNCHANGED <<rows, ids, cited, done, attempts, commits>>
    BY DEF M!SearchNeighbors
  <1>2. /\ t # M!Idle /\ TaskInv(t, rows, ids, commits) /\ t \in TaskRow /\ DOMAIN task = Worker
        /\ ids \in Nat /\ commits \in Nat /\ FactsInv(rows, ids, commits) /\ M!View(t) = a
    BY <1>1, AtWork
  <1>3. CASE t.left = {}
    <2>. DEFINE u == [t EXCEPT !.at = "finish"]
    <2>1. task' = [task EXCEPT ![w] = u] BY <1>3 DEF M!SearchNeighbors
    <2>2. TaskInv(u, rows, ids, commits) BY <1>1, <1>2, FinishTask
    <2>3. u.episode = t.episode /\ u.revision = t.revision /\ u.draft = t.draft /\ u.at = "finish"
      BY <1>2, Zenon DEF TaskRow
    <2>4. u # M!Idle BY <2>3 DEF M!Idle
    <2>. HIDE DEF u
    <2>5. ids' \in Nat /\ ids <= ids' /\ TaskInv(u, rows, ids', commits) BY <1>1, <1>2, <2>2
    <2>. QED BY <1>1, <1>2, <2>1, <2>3, <2>4, <2>5, OwnWork
  <1>4. CASE t.left # {}
    <2>1. PICK clash \in [near -> Clashes] :
            task' = [task EXCEPT ![w].at = "apply", ![w].read = commits,
              ![w].seen = {[id |-> i, valid |-> M!View(t)[i].valid,
                            verdict |-> M!Verdict(t.cands[M!Current(t)], M!View(t)[i], clash[i])]
                             : i \in near}]
      BY <1>4 DEF M!SearchNeighbors
    <2>. DEFINE s == {[id |-> i, valid |-> M!View(t)[i].valid,
                       verdict |-> M!Verdict(t.cands[M!Current(t)], M!View(t)[i], clash[i])] : i \in near}
                u == [t EXCEPT !.at = "apply", !.read = commits, !.seen = s]
    <2>2. task' = [task EXCEPT ![w] = u] BY <1>2, <2>1, Zenon DEF TaskRow
    <2>3. \A i \in near : i \in M!InForce(a) /\ i \in Nat /\ M!View(t)[i].valid \in Nat
      <3>1. RowsOf(t.draft, ids) /\ RowsOf(rows, ids)
        BY <1>2 DEF TaskInv, TaskTypes, FactsInv
      <3>. QED BY <1>2, <3>1 DEF Over, RowsOf, M!InForce, M!FactRow
    <2>4. \A i \in near : M!Verdict(t.cands[M!Current(t)], M!View(t)[i], clash[i])
                            \in {"duplicate"} \cup Clashes
      BY DEF M!Verdict
    <2>. DEFINE m(i) == [id |-> i, valid |-> M!View(t)[i].valid,
                         verdict |-> M!Verdict(t.cands[M!Current(t)], M!View(t)[i], clash[i])]
    <2>5. /\ s = {m(i) : i \in near}
          /\ \A i \in near : m(i) \in Neighbor /\ m(i).id = i /\ m(i).valid = M!View(t)[i].valid
      BY <2>3, <2>4, Zenon DEF Neighbor
    <2>. HIDE DEF m, near
    <2>6. s \subseteq Neighbor BY <2>5, Zenon
    <2>7. \A x \in s : x.id \in M!InForce(a) /\ x.valid = a[x.id].valid
      <3>. SUFFICES ASSUME NEW x \in s PROVE x.id \in M!InForce(a) /\ x.valid = a[x.id].valid
        OBVIOUS
      <3>1. PICK i \in near : x = m(i) BY <2>5, Zenon
      <3>2. x.id = i /\ x.valid = M!View(t)[i].valid BY <2>5, <3>1, Zenon
      <3>. HIDE DEF a
      <3>. QED BY <1>2, <2>3, <3>2
    <2>8. near = M!InForce(a) BY <1>2 DEF near
    <2>9. \A i \in M!InForce(a) : \E x \in s : x.id = i
      BY <2>5, <2>8, Zenon
    <2>. HIDE DEF s
    <2>10. TaskInv(u, rows, ids, commits)
      BY <1>1, <1>2, <1>4, <2>6, <2>7, <2>9, SearchTask
    <2>11. u.episode = t.episode /\ u.revision = t.revision /\ u.draft = t.draft /\ u.at = "apply"
      BY <1>2, Zenon DEF TaskRow
    <2>12. u # M!Idle BY <2>11 DEF M!Idle
    <2>. HIDE DEF u
    <2>13. ids' \in Nat /\ ids <= ids' /\ TaskInv(u, rows, ids', commits) BY <1>1, <1>2, <2>10
    <2>. QED BY <1>1, <1>2, <2>2, <2>11, <2>12, <2>13, OwnWork
  <1>. QED BY <1>3, <1>4

\* The ids of the candidates dealt with.
IdsWith(t, x) ==
  [i \in (DOMAIN t.id) \cup {M!Current(t)} |-> IF i = M!Current(t) THEN x ELSE t.id[i]]
LEMMA SettledTask ==
  ASSUME NEW t \in TaskRow, t.left \subseteq DOMAIN t.cands, t.left # {},
         DOMAIN t.id \subseteq (DOMAIN t.cands) \ t.left, NEW x \in Int, NEW e
  PROVE  /\ M!Current(t) \in t.left /\ t.cands[M!Current(t)] \in M!Candidate
         /\ IdsWith(t, x) \in Maps(Int) /\ DOMAIN IdsWith(t, x) = (DOMAIN t.id) \cup {M!Current(t)}
         /\ IdsWith(t, x)[M!Current(t)] = x
         /\ \A y \in DOMAIN t.id : IdsWith(t, x)[y] = t.id[y]
         /\ M!Settled(t, x, e).episode = t.episode /\ M!Settled(t, x, e).revision = t.revision
         /\ M!Settled(t, x, e).at = "search" /\ M!Settled(t, x, e).draft = e
  <1>. DEFINE c == M!Current(t)  id2 == IdsWith(t, x)
  <1>1. /\ t.id \in Maps(Int) /\ t.cands \in Seq(M!Candidate) /\ t.left \in SUBSET Nat
    BY Zenon DEF TaskRow
  <1>2. c \in t.left BY <1>1, CurrentLeft
  <1>3. M!Settled(t, x, e) = [t EXCEPT !.at = "search", !.left = @ \ {c}, !.draft = e, !.id = id2]
    BY Zenon DEF M!Settled, IdsWith
  <1>4. /\ M!Settled(t, x, e).episode = t.episode /\ M!Settled(t, x, e).revision = t.revision
        /\ M!Settled(t, x, e).at = "search" /\ M!Settled(t, x, e).draft = e
    BY <1>1, <1>3, Zenon DEF TaskRow
  <1>. HIDE DEF c
  <1>5. t.id \in [DOMAIN t.id -> Int] /\ DOMAIN t.id \subseteq Int BY <1>1, InMaps
  <1>6. /\ id2 = [i \in (DOMAIN t.id) \cup {c} |-> IF i = c THEN x ELSE t.id[i]]
        /\ c \notin DOMAIN t.id /\ c \in Int
    BY <1>1, <1>2 DEF IdsWith, c
  <1>. HIDE DEF id2
  <1>7. /\ DOMAIN id2 = (DOMAIN t.id) \cup {c} /\ id2[c] = x
        /\ \A y \in DOMAIN t.id : id2[y] = t.id[y]
    BY <1>6
  <1>8. id2 \in [DOMAIN id2 -> Int] /\ DOMAIN id2 \subseteq Int
    BY <1>5, <1>6
  <1>9. id2 \in Maps(Int) BY <1>8, InMaps
  <1>10. t.cands[c] \in M!Candidate BY <1>1, <1>2
  <1>. QED BY <1>2, <1>3, <1>4, <1>7, <1>9, <1>10 DEF c, id2

\* The task after an insertion.
Grown(t, u, f, x, k, old, flag) ==
  /\ TaskInv(u, f, x, k) /\ u.episode = t.episode /\ u.revision = t.revision /\ u.at = "search"
  /\ DOMAIN u.draft = (DOMAIN t.draft) \cup old \cup flag \cup {x}
LEMMA SettledInsert ==
  ASSUME NEW t, NEW f, NEW n \in Nat, NEW k \in Nat, TaskInv(t, f, n, k), FactsInv(f, n, k),
         t.at = "apply", t.left # {}, NEW old, NEW flag, NEW next, NEW x \in Nat, x > n,
         Ruled(t, f, t.cands[M!Current(t)], old, flag, next),
         NEW e, e = InsertedDraft(t, Over(t.draft, f), x, t.cands[M!Current(t)], old, flag, next)
  PROVE  Grown(t, M!Settled(t, x, e), f, x, k, old, flag)
  <1>. DEFINE c == M!Current(t)  u == M!Settled(t, x, e)
  <1>1. /\ t \in TaskRow /\ t.left \subseteq DOMAIN t.cands
        /\ DOMAIN t.id \subseteq (DOMAIN t.cands) \ t.left
    BY DEF TaskInv, TaskTypes
  <1>2. x \in Int OBVIOUS
  <1>3. c \in t.left /\ t.cands[c] \in M!Candidate
    BY <1>1, <1>2, SettledTask
  <1>4. /\ IdsWith(t, x) \in Maps(Int) /\ DOMAIN IdsWith(t, x) = (DOMAIN t.id) \cup {c}
        /\ IdsWith(t, x)[c] = x /\ \A y \in DOMAIN t.id : IdsWith(t, x)[y] = t.id[y]
        /\ u.episode = t.episode /\ u.revision = t.revision /\ u.at = "search" /\ u.draft = e
    BY <1>1, <1>2, SettledTask
  <1>5. u = SettledAs(t, c, e, IdsWith(t, x)) BY Zenon DEF M!Settled, IdsWith, SettledAs
  <1>. HIDE DEF u
  <1>6. Inserted(t, f, x, t.cands[c], old, flag, next, e)
    BY <1>3, InsertWrites
  <1>7. DOMAIN e = (DOMAIN t.draft) \cup old \cup flag \cup {x}
    BY <1>6 DEF Inserted
  <1>8. TaskInv(u, f, x, k)
    BY <1>4, <1>5, <1>6, <1>3, InsertTask
  <1>. QED BY <1>4, <1>7, <1>8 DEF u, Grown

LEMMA InsertStep ==
  ASSUME MemInv, NEW w \in Worker, task[w].at = "apply", task[w].left # {},
         UNCHANGED <<rows, cited, done, attempts, commits>>, NEW rule, NEW next,
         Ruled(task[w], rows, task[w].cands[M!Current(task[w])], rule.old, rule.flag, next),
         M!Insert(w, rule, next)
  PROVE  MemInv'
  <1>. DEFINE t == task[w]  c == M!Current(t)  x == ids + 1
              e == InsertedDraft(t, Over(t.draft, rows), x, t.cands[c], rule.old, rule.flag, next)
              u == M!Settled(t, x, e)
  <1>1. /\ t # M!Idle /\ TaskInv(t, rows, ids, commits) /\ t \in TaskRow /\ DOMAIN task = Worker
        /\ ids \in Nat /\ commits \in Nat /\ FactsInv(rows, ids, commits)
        /\ M!View(t) = Over(t.draft, rows)
    BY AtWork
  <1>2. /\ ids' = x /\ M!Free(w, rule.old \cup rule.flag) /\ task' = [task EXCEPT ![w] = u]
    BY <1>1, Zenon DEF M!Insert, InsertedDraft
  <1>3. Grown(t, u, rows, x, commits, rule.old, rule.flag)
    <2>1. x \in Nat /\ x > ids BY <1>1
    <2>2. e = InsertedDraft(t, Over(t.draft, rows), x, t.cands[c], rule.old, rule.flag, next)
      OBVIOUS
    <2>. HIDE DEF x, e
    <2>. QED BY <1>1, <2>1, <2>2, SettledInsert
  <1>. HIDE DEF u, e
  <1>4. u # M!Idle BY <1>3 DEF M!Idle, Grown
  <1>5. \A v \in Worker : v # w /\ task[v] # M!Idle =>
          \A i \in DOMAIN u.draft : i \in DOMAIN task[v].draft => i \in DOMAIN t.draft
    <2>. SUFFICES ASSUME NEW v \in Worker, v # w, task[v] # M!Idle, NEW i \in DOMAIN u.draft,
                         i \in DOMAIN task[v].draft
                  PROVE  i \in DOMAIN t.draft
      OBVIOUS
    <2>1. RowsOf(task[v].draft, ids) BY DEF MemInv, TaskInv, TaskTypes
    <2>2. i # x BY <1>1, <2>1 DEF RowsOf
    <2>3. i \notin rule.old \cup rule.flag BY <1>2 DEF M!Free, M!Writing
    <2>. QED BY <1>3, <2>2, <2>3 DEF Grown
  <1>6. ids' \in Nat /\ ids <= ids' /\ TaskInv(u, rows, ids', commits) BY <1>1, <1>2, <1>3 DEF Grown
  <1>7. task' = [task EXCEPT ![w] = u] /\ u.episode = t.episode /\ u.revision = t.revision
    BY <1>2, <1>3 DEF Grown
  <1>. QED BY <1>1, <1>4, <1>5, <1>6, <1>7, OwnWork

LEMMA CollapseStep ==
  ASSUME MemInv, NEW w \in Worker, task[w].at = "apply", task[w].left # {},
         UNCHANGED <<rows, cited, done, attempts, commits>>,
         NEW dup \in DOMAIN Over(task[w].draft, rows), M!Collapse(w, dup)
  PROVE  MemInv'
  <1>. DEFINE t == task[w]  c == M!Current(t)  a == Over(t.draft, rows)
              d == [i \in (DOMAIN t.draft) \cup {dup} |->
                      IF i = dup THEN [a[dup] EXCEPT !.sure = TRUE] ELSE t.draft[i]]
  <1>1. /\ t # M!Idle /\ TaskInv(t, rows, ids, commits) /\ t \in TaskRow /\ DOMAIN task = Worker
        /\ ids \in Nat /\ commits \in Nat /\ FactsInv(rows, ids, commits)
        /\ M!View(t) = a
    BY AtWork
  <1>2. t.left \subseteq DOMAIN t.cands /\ DOMAIN t.id \subseteq (DOMAIN t.cands) \ t.left
    BY <1>1 DEF TaskInv, TaskTypes
  <1>3. PICK e : /\ task' = [task EXCEPT ![w] = M!Settled(t, -1, e)] /\ ids' = ids
                 /\ \/ e = t.draft
                    \/ e = d /\ M!Free(w, {dup})
    BY <1>1, Zenon DEF M!Collapse
  <1>4. /\ DOMAIN a = (DOMAIN t.draft) \cup DOMAIN rows
        /\ \A i \in DOMAIN t.draft : a[i] = t.draft[i]
    BY DEF Over
  <1>. HIDE DEF a
  <1>5. /\ e = [i \in DOMAIN e |-> e[i]] /\ DOMAIN t.draft \subseteq DOMAIN e
        /\ \A i \in DOMAIN e : /\ i \in DOMAIN a
                               /\ e[i] = a[i] \/ e[i] = [a[i] EXCEPT !.sure = TRUE]
        /\ \A i \in DOMAIN e : i \in DOMAIN t.draft \/ (i = dup /\ M!Free(w, {dup}))
    <2>1. CASE e = t.draft
      <3>1. t.draft \in [DOMAIN t.draft -> M!FactRow] BY <1>1 DEF TaskInv, TaskTypes, RowsOf
      <3>. QED BY <1>4, <2>1, <3>1
    <2>2. CASE e = d /\ M!Free(w, {dup})
      <3>1. dup \in DOMAIN a BY DEF a
      <3>2. /\ DOMAIN e = (DOMAIN t.draft) \cup {dup} /\ e[dup] = [a[dup] EXCEPT !.sure = TRUE]
            /\ \A i \in DOMAIN t.draft : i # dup => e[i] = t.draft[i]
            /\ e = [i \in DOMAIN e |-> e[i]]
        BY <2>2, Zenon
      <3>. QED BY <1>4, <2>2, <3>1, <3>2, Zenon
    <2>. QED BY <1>3, <2>1, <2>2
  <1>. DEFINE u == M!Settled(t, -1, e)
  <1>. HIDE DEF d
  <1>6. u = SettledAs(t, c, e, IdsWith(t, -1))
    BY Zenon DEF M!Settled, IdsWith, SettledAs
  <1>7. /\ c \in t.left
        /\ IdsWith(t, -1) \in Maps(Int) /\ DOMAIN IdsWith(t, -1) = (DOMAIN t.id) \cup {c}
        /\ IdsWith(t, -1)[c] = -1 /\ \A y \in DOMAIN t.id : IdsWith(t, -1)[y] = t.id[y]
        /\ u.episode = t.episode /\ u.revision = t.revision /\ u.at = "search" /\ u.draft = e
    <2>1. -1 \in Int OBVIOUS
    <2>. QED BY <1>1, <1>2, <2>1, SettledTask
  <1>8. task' = [task EXCEPT ![w] = u] BY <1>3
  <1>. HIDE DEF u
  <1>9. TaskInv(u, rows, ids, commits)
    BY <1>1, <1>5, <1>7, <1>6, CollapseTask DEF a
  <1>10. u # M!Idle BY <1>7 DEF M!Idle
  <1>11. \A v \in Worker : v # w /\ task[v] # M!Idle =>
          \A i \in DOMAIN u.draft : i \in DOMAIN task[v].draft => i \in DOMAIN t.draft
    BY <1>5, <1>7 DEF M!Free, M!Writing
  <1>12. ids' \in Nat /\ ids <= ids' /\ TaskInv(u, rows, ids', commits) BY <1>1, <1>3, <1>9
  <1>13. u.episode = t.episode /\ u.revision = t.revision BY <1>7
  <1>. QED BY <1>1, <1>8, <1>10, <1>11, <1>12, <1>13, OwnWork

LEMMA ApplyStep ==
  ASSUME MemInv, NEW w \in Worker, M!ApplyNeighborVerdicts(w)
  PROVE  MemInv'
  <1>. DEFINE t == task[w]  cand == t.cands[M!Current(t)]
              dups == M!IdsOf(M!With(t, "duplicate"))  rule == M!TemporalRule(t, cand)
  <1>1. t.at = "apply" /\ UNCHANGED <<rows, cited, done, attempts, commits>>
    BY DEF M!ApplyNeighborVerdicts
  <1>2. /\ TaskInv(t, rows, ids, commits) /\ t \in TaskRow /\ ids \in Nat /\ commits \in Nat
    BY <1>1, AtWork
  <1>3. /\ t.left # {} /\ \A m \in t.seen : m.id \in DOMAIN Over(t.draft, rows)
    BY <1>1, <1>2 DEF TaskInv, Searched
  <1>4. cand \in M!Candidate
    <2>1. t.left \subseteq DOMAIN t.cands /\ t.cands \in Seq(M!Candidate)
      BY <1>2 DEF TaskInv, TaskTypes, TaskRow
    <2>. QED BY <1>2, <1>3, <2>1, CurrentLeft
  <1>5. CASE cand.stale
    <2>1. M!Insert(w, M!NoRule, 0) BY <1>5 DEF M!ApplyNeighborVerdicts
    <2>2. M!NoRule.old = {} /\ M!NoRule.flag = {} BY DEF M!NoRule
    <2>3. Ruled(t, rows, cand, M!NoRule.old, M!NoRule.flag, 0) BY <1>5, <2>2 DEF Ruled
    <2>. QED BY <1>1, <1>3, <2>1, <2>3, InsertStep
  <1>6. CASE ~cand.stale /\ dups # {}
    <2>1. PICK dup \in dups : M!Collapse(w, dup) BY <1>6 DEF M!ApplyNeighborVerdicts
    <2>2. dup \in DOMAIN Over(t.draft, rows) BY <1>3 DEF M!IdsOf, M!With
    <2>. QED BY <1>1, <1>3, <2>1, <2>2, CollapseStep
  <1>7. CASE ~cand.stale /\ dups = {}
    <2>1. PICK next \in rule.next : M!Insert(w, rule, next)
      BY <1>7 DEF M!ApplyNeighborVerdicts
    <2>. HIDE DEF rule
    <2>2. rule = M!TemporalRule(t, cand) BY DEF rule
    <2>. HIDE DEF cand
    <2>3. Ruled(t, rows, cand, rule.old, rule.flag, next)
      BY <1>1, <1>2, <1>4, <1>7, <2>2, RuleOfSeen DEF Ruled
    <2>. QED BY <1>1, <1>3, <2>1, <2>3, InsertStep DEF cand
  <1>. QED BY <1>5, <1>6, <1>7

LEMMA CommitStep ==
  ASSUME MemInv, NEW w \in Worker, M!Commit(w)
  PROVE  MemInv' /\ Published(task[w], rows, ids, commits, rows')
  <1>. DEFINE t == task[w]
  <1>1. /\ t.at = "finish" /\ M!Linkable(t) /\ task' = [task EXCEPT ![w] = M!Idle]
        /\ done' = [done EXCEPT ![t.episode] = t.revision]
        /\ attempts' = [attempts EXCEPT ![t.episode] = 0]
        /\ commits' = commits + 1 /\ UNCHANGED <<ids, cited>>
    BY DEF M!Commit
  <1>2. /\ t # M!Idle /\ TaskInv(t, rows, ids, commits) /\ t \in TaskRow /\ DOMAIN task = Worker
        /\ ids \in Nat /\ commits \in Nat /\ FactsInv(rows, ids, commits)
    BY <1>1, AtWork
  <1>3. Committed(t, rows, commits, rows') BY DEF M!Commit, Committed
  <1>. DEFINE g == rows'
  <1>4. Published(t, rows, ids, commits, g)
    <2>1. Committed(t, rows, commits, g) BY <1>3
    <2>. HIDE DEF g
    <2>. QED BY <1>1, <1>2, <2>1, FactsCommitted
  <1>. HIDE DEF g
  <1>5. task'[w] = M!Idle /\ \A v \in Worker : v # w => task'[v] = task[v] BY <1>1, <1>2
  <1>6. /\ t.episode \in FactEpisode /\ t.revision \in Nat
    BY <1>2 DEF TaskRow
  <1>7. MemTypes'
    <2>1. 0 \in 0..FactAttempts BY MemoryAssumption
    <2>2. /\ cited \subseteq DOMAIN rows /\ done \in [FactEpisode -> Nat]
          /\ attempts \in [FactEpisode -> 0..FactAttempts]
      BY DEF MemInv, MemTypes
    <2>3. done' \in [FactEpisode -> Nat] /\ attempts' \in [FactEpisode -> 0..FactAttempts]
      BY <1>1, <1>6, <2>1, <2>2
    <2>4. cited' \subseteq DOMAIN rows' BY <1>1, <1>4, <2>2 DEF g, Published
    <2>5. ids' \in Nat /\ commits' \in Nat /\ DOMAIN task' = Worker BY <1>1, <1>2
    <2>. QED BY <2>3, <2>4, <2>5 DEF MemTypes
  <1>8. OneEach'
    <2>1. \A v \in Worker : task'[v] # M!Idle => v # w /\ task'[v] = task[v] /\ task[v] # M!Idle
      BY <1>5
    <2>2. \A v \in Worker : task'[v] # M!Idle => task[v].episode # t.episode
      BY <1>2, <2>1 DEF MemInv, OneEach
    <2>3. \A v \in Worker : task'[v] # M!Idle =>
            attempts'[task[v].episode] = attempts[task[v].episode]
            /\ done'[task[v].episode] = done[task[v].episode]
      BY <1>1, <2>2 DEF MemInv, MemTypes
    <2>. QED BY <2>1, <2>3 DEF MemInv, OneEach
  <1>9. ASSUME NEW v \in Worker, v # w, task[v] # M!Idle
        PROVE  TaskInv(task[v], g, ids, commits + 1)
    <2>1. TaskInv(task[v], rows, ids, commits) BY <1>9 DEF MemInv
    <2>2. \A i \in DOMAIN task[v].draft : i \notin DOMAIN t.draft
      BY <1>2, <1>9 DEF MemInv, OneEach
    <2>3. \A i \in DOMAIN task[v].draft : i \in DOMAIN g => i \in DOMAIN rows /\ g[i] = rows[i]
      BY <1>4, <2>2 DEF Published
    <2>4. \A i \in DOMAIN g : i \notin DOMAIN rows => g[i].born \in Nat /\ g[i].born > commits
      BY <1>2, <1>4 DEF Published
    <2>5. commits + 1 \in Nat /\ commits <= commits + 1 /\ ids <= ids BY <1>2
    <2>. QED BY <1>2, <1>4, <2>1, <2>3, <2>4, <2>5, OthersMove DEF Published
  <1>10. FactsInv(rows', ids', commits') BY <1>1, <1>4 DEF g, Published
  <1>11. \A v \in Worker : task'[v] # M!Idle => TaskInv(task'[v], rows', ids', commits')
    BY <1>1, <1>5, <1>9 DEF g
  <1>. QED BY <1>4, <1>7, <1>8, <1>10, <1>11 DEF MemInv, g

\* A person's word on a fact.
LEMMA Resolved ==
  ASSUME NEW f, NEW n \in Nat, NEW k \in Nat, FactsInv(f, n, k), NEW i \in DOMAIN f,
         NEW r, NEW g, g = [f EXCEPT ![i] = r], r \in M!FactRow, Follows(f[i], r), r.next \in 0..n,
         r.reason = "manual" \/ (r.reason = f[i].reason /\ r.next = f[i].next)
  PROVE  FactsInv(g, n, k)
  <1>1. /\ RowsOf(f, n) /\ Succeeded(f, f) BY DEF FactsInv
  <1>2. /\ DOMAIN g = DOMAIN f /\ g[i] = r /\ \A j \in DOMAIN f : j # i => g[j] = f[j]
        /\ g \in [DOMAIN g -> M!FactRow]
    BY <1>1 DEF RowsOf
  <1>3. \A j \in DOMAIN f : Follows(f[j], g[j]) BY <1>2, FollowsSelf
  <1>4. RowsOf(g, n)
    <2>1. r.next # 0 \/ r.told => r.reason # "none" BY <1>1 DEF RowsOf, Follows
    <2>. QED BY <1>1, <1>2, <2>1 DEF RowsOf
  <1>5. Succeeded(g, g)
    <2>. SUFFICES ASSUME NEW j \in DOMAIN g, g[j].reason = "superseded", ~g[j].told
                  PROVE  /\ g[j].next \in DOMAIN g /\ ~g[g[j].next].told
                         /\ g[g[j].next].valid > g[j].valid
      BY DEF Succeeded
    <2>1. f[j].reason = "superseded" /\ ~f[j].told /\ g[j].next = f[j].next /\ g[j].valid = f[j].valid
      BY <1>2, <1>3 DEF Follows
    <2>2. f[j].next \in DOMAIN f /\ ~f[f[j].next].told /\ f[f[j].next].valid > f[j].valid
      BY <1>1, <1>2, <2>1 DEF Succeeded
    <2>. QED BY <1>2, <1>3, <2>1, <2>2 DEF Follows
  <1>6. \A j \in DOMAIN g : g[j].read < g[j].born /\ g[j].born <= k
    BY <1>2, <1>3 DEF FactsInv, Follows
  <1>7. \A x, y \in M!InForce(g) :
          Clear(g[x], g[y]) \/ (g[x].read < g[y].born /\ g[y].read < g[x].born)
    <2>. SUFFICES ASSUME NEW x \in M!InForce(g), NEW y \in M!InForce(g)
                  PROVE  Clear(g[x], g[y]) \/ (g[x].read < g[y].born /\ g[y].read < g[x].born)
      OBVIOUS
    <2>1. /\ Follows(f[x], g[x]) /\ Follows(f[y], g[y]) /\ g[x].reason = "none" /\ g[y].reason = "none"
          /\ x \in DOMAIN f /\ y \in DOMAIN f
      BY <1>2, <1>3 DEF M!InForce
    <2>2. x \in M!InForce(f) /\ y \in M!InForce(f) BY <2>1 DEF M!InForce, Follows
    <2>3. Clear(f[x], f[y]) \/ (f[x].read < f[y].born /\ f[y].read < f[x].born)
      BY <2>2 DEF FactsInv
    <2>4. CASE Clear(f[x], f[y]) BY <2>1, <2>4, ClearOn
    <2>5. CASE f[x].read < f[y].born /\ f[y].read < f[x].born BY <2>1, <2>5 DEF Follows
    <2>. QED BY <2>3, <2>4, <2>5
  <1>. QED BY <1>4, <1>5, <1>6, <1>7 DEF FactsInv

LEMMA ResolveStep ==
  ASSUME MemInv, NEW i \in DOMAIN rows, M!ResolveFact(i)
  PROVE  /\ MemInv'
         /\ rows'[i].reason = "manual" \/ rows'[i].reason = rows[i].reason
         /\ DOMAIN rows' = DOMAIN rows /\ \A j \in DOMAIN rows : j # i => rows'[j] = rows[j]
  <1>1. UNCHANGED <<ids, cited, done, attempts, task, commits>> BY DEF M!ResolveFact
  <1>2. FactsInv(rows, ids, commits) /\ ids \in Nat /\ commits \in Nat BY DEF MemInv, MemTypes
  <1>3. \A j \in DOMAIN rows : /\ rows[j] \in M!FactRow /\ rows[j].next \in 0..ids /\ j \in 0..ids
                               /\ j \in Nat
    BY <1>2 DEF FactsInv, RowsOf
  <1>4. PICK r : /\ rows' = [rows EXCEPT ![i] = r] /\ r \in M!FactRow /\ Follows(rows[i], r)
                 /\ r.next \in 0..ids
                 /\ r.reason = "manual" \/ (r.reason = rows[i].reason /\ r.next = rows[i].next)
    <2>1. CASE M!Confirm(i)
      <3>. DEFINE r == [rows[i] EXCEPT !.review = FALSE, !.vetted = TRUE]
      <3>1. rows' = [rows EXCEPT ![i] = r] BY <1>3, <2>1, Zenon DEF M!Confirm, M!FactRow
      <3>2. r \in M!FactRow /\ Follows(rows[i], r) /\ r.next = rows[i].next /\ r.reason = rows[i].reason
        BY <1>3, ConfirmedRow, Zenon
      <3>. HIDE DEF r
      <3>. QED BY <1>3, <3>1, <3>2
    <2>2. CASE M!Invalidate(i)
      <3>. DEFINE r == [rows[i] EXCEPT !.review = FALSE, !.reason = "manual"]
      <3>1. rows' = [rows EXCEPT ![i] = r] BY <1>3, <2>2, Zenon DEF M!Invalidate, M!FactRow
      <3>2. r \in M!FactRow /\ Follows(rows[i], r) /\ r.next = rows[i].next /\ r.reason = "manual"
        BY <1>3, InvalidatedRow, Zenon
      <3>. HIDE DEF r
      <3>. QED BY <1>3, <3>1, <3>2
    <2>3. ASSUME NEW j \in DOMAIN rows, M!SupersedeBy(i, j)
          PROVE  \E r : /\ rows' = [rows EXCEPT ![i] = r] /\ r \in M!FactRow /\ Follows(rows[i], r)
                        /\ r.next \in 0..ids
                        /\ r.reason = "manual"
                           \/ (r.reason = rows[i].reason /\ r.next = rows[i].next)
      <3>. DEFINE r == [rows[i] EXCEPT !.review = FALSE, !.reason = "manual", !.next = j]
      <3>1. rows' = [rows EXCEPT ![i] = r] BY <1>3, <2>3, Zenon DEF M!SupersedeBy, M!FactRow
      <3>2. r \in M!FactRow /\ Follows(rows[i], r) /\ r.next = j /\ r.reason = "manual"
        BY <1>3, ReplacedRow, Zenon
      <3>. HIDE DEF r
      <3>. QED BY <1>3, <2>3, <3>1, <3>2
    <2>. QED BY <2>1, <2>2, <2>3 DEF M!ResolveFact
  <1>5. /\ DOMAIN rows' = DOMAIN rows /\ rows'[i] = r
        /\ \A j \in DOMAIN rows : j # i => rows'[j] = rows[j]
    BY <1>4
  <1>. DEFINE g == rows'
  <1>6. g = [rows EXCEPT ![i] = r] BY <1>4
  <1>. HIDE DEF g
  <1>7. FactsInv(g, ids, commits)
    BY <1>2, <1>4, <1>6, Resolved
  <1>8. ASSUME NEW w \in Worker, task[w] # M!Idle
        PROVE  TaskInv(task[w], g, ids, commits)
    <2>1. TaskInv(task[w], rows, ids, commits) BY <1>8 DEF MemInv
    <2>2. i \notin DOMAIN task[w].draft BY <1>8 DEF M!ResolveFact, M!Writing
    <2>3. DOMAIN g = DOMAIN rows /\ \A j \in DOMAIN task[w].draft : j \in DOMAIN g => g[j] = rows[j]
      BY <1>5, <2>2 DEF g
    <2>4. \A j \in DOMAIN rows : Follows(rows[j], g[j]) BY <1>4, <1>5, FollowsSelf DEF g
    <2>. QED BY <1>2, <2>1, <2>3, <2>4, OthersMove
  <1>9. FactsInv(rows', ids', commits') BY <1>1, <1>7 DEF g
  <1>10. \A w \in Worker : task'[w] # M!Idle => TaskInv(task'[w], rows', ids', commits')
    BY <1>1, <1>8 DEF g
  <1>11. MemTypes' BY <1>1, <1>5 DEF MemInv, MemTypes
  <1>12. OneEach' BY <1>1 DEF MemInv, OneEach
  <1>. QED BY <1>4, <1>5, <1>9, <1>10, <1>11, <1>12 DEF MemInv

LEMMA MemNext ==
  ASSUME MemInv, [M!Next]_M!vars
  PROVE  MemInv'
  <1>1. CASE UNCHANGED M!vars BY <1>1, Stutter
  <1>2. ASSUME NEW w \in Worker, M!Step(w) PROVE MemInv'
    <2>1. ASSUME NEW e \in FactEpisode, M!Extract(w, e) PROVE MemInv' BY <2>1, ExtractStep
    <2>2. CASE M!JudgePair(w) BY <2>2, JudgeStep
    <2>3. CASE M!Begin(w) BY <2>3, BeginStep
    <2>4. CASE M!SearchNeighbors(w) BY <2>4, SearchStep
    <2>5. CASE M!ApplyNeighborVerdicts(w) BY <2>5, ApplyStep
    <2>6. CASE M!Commit(w) BY <2>6, CommitStep
    <2>7. CASE M!LinkFails(w)
      <3>1. task[w].at = "finish" /\ M!Fail(w) BY <2>7 DEF M!LinkFails
      <3>2. task[w] # M!Idle BY <3>1, AtWork
      <3>. QED BY <3>1, <3>2, FailStep
    <2>. QED BY <1>2, <2>1, <2>2, <2>3, <2>4, <2>5, <2>6, <2>7 DEF M!Step
  <1>3. ASSUME NEW w \in Worker, M!TransactionFails(w) PROVE MemInv'
    <2>1. task[w] # M!Idle /\ M!Fail(w) BY <1>3 DEF M!TransactionFails
    <2>. QED BY <2>1, FailStep
  <1>4. ASSUME NEW i \in DOMAIN rows, M!ResolveFact(i) PROVE MemInv' BY <1>4, ResolveStep
  <1>5. CASE M!Approve BY <1>5, ApproveStep
  <1>. QED BY <1>1, <1>2, <1>3, <1>4, <1>5 DEF M!Next

-----------------------------------------------------------------------------
(* The invariant of the facts: what is committed is well-formed, its successors
   are newer and what clashes is flagged; and the task of each worker relates
   what its transaction wrote to what is committed meanwhile. *)
THEOREM MemoryInvariance == M!Spec => []MemInv
  <1>1. M!Init => MemInv BY MemInit
  <1>2. MemInv /\ [M!Next]_M!vars => MemInv' BY MemNext
  <1>. QED BY <1>1, <1>2, PTL DEF M!Spec

(* The rows, their ids and the tasks have their types. *)
THEOREM FactsTypeCorrect == M!Spec => []M!TypeOK
  <1>1. MemInv => M!TypeOK
    <2>. SUFFICES ASSUME MemInv PROVE M!TypeOK
      OBVIOUS
    <2>1. MemTypes /\ FactsInv(rows, ids, commits) BY DEF MemInv
    <2>2. M!Rows(rows) BY <2>1 DEF FactsInv, RowsOf, M!Rows
    <2>3. \A i \in DOMAIN rows : rows[i].read < rows[i].born /\ rows[i].born <= commits
      BY <2>1 DEF FactsInv
    <2>4. ASSUME NEW w \in Worker, task[w] # M!Idle
          PROVE  LET t == task[w] IN
                 /\ t.at \in {"pairs", "search", "apply", "finish"}
                 /\ t.episode \in FactEpisode /\ t.revision \in Nat \ {0} /\ t.read \in 0..commits
                 /\ t.cands \in Seq(M!Candidate) /\ t.pair \in (Nat \ {0}) \X (Nat \ {0})
                 /\ t.pairs \subseteq (DOMAIN t.cands) \X (DOMAIN t.cands)
                 /\ t.left \subseteq DOMAIN t.cands
                 /\ DOMAIN t.id \subseteq (DOMAIN t.cands) \ t.left
                 /\ t.id \in [DOMAIN t.id -> {-1} \cup DOMAIN t.draft]
                 /\ t.seen \subseteq [id : 1..ids, valid : Nat, verdict : {"duplicate"} \cup Clashes]
                 /\ M!Rows(t.draft)
      <3>. DEFINE t == task[w]
      <3>1. TaskTypes(t, ids, commits) /\ Paired(t) /\ t \in TaskRow
        BY <2>4 DEF MemInv, TaskInv, TaskTypes
      <3>2. /\ t.at \in {"pairs", "search", "apply", "finish"}
            /\ t.episode \in FactEpisode /\ t.revision \in Nat \ {0} /\ t.read \in Nat
            /\ t.cands \in Seq(M!Candidate) /\ t.pair \in Nat \X Nat /\ t.id \in Maps(Int)
            /\ t.seen \in SUBSET Neighbor
        BY <3>1, Zenon DEF TaskRow
      <3>3. t.read \in 0..commits BY <2>1, <3>1, <3>2 DEF TaskTypes, MemTypes
      <3>4. t.pair \in (Nat \ {0}) \X (Nat \ {0}) BY <3>1, <3>2 DEF Paired
      <3>5. t.id \in [DOMAIN t.id -> {-1} \cup DOMAIN t.draft]
        <4>1. t.id \in [DOMAIN t.id -> Int] BY <3>2, InMaps
        <4>. QED BY <3>1, <4>1 DEF TaskTypes
      <3>6. t.seen \subseteq [id : 1..ids, valid : Nat, verdict : {"duplicate"} \cup Clashes]
        <4>. SUFFICES ASSUME NEW m \in t.seen
                      PROVE  m \in [id : 1..ids, valid : Nat, verdict : {"duplicate"} \cup Clashes]
          OBVIOUS
        <4>1. m \in Neighbor /\ m.id \in 1..ids BY <3>1, <3>2 DEF TaskTypes
        <4>. QED BY <4>1, Zenon DEF Neighbor
      <3>7. M!Rows(t.draft) BY <3>1 DEF TaskTypes, RowsOf, M!Rows
      <3>. QED BY <3>1, <3>2, <3>3, <3>4, <3>5, <3>6, <3>7 DEF TaskTypes, Paired
    <2>. QED BY <2>1, <2>2, <2>3, <2>4 DEF M!TypeOK, MemTypes
  <1>. QED BY <1>1, MemoryInvariance, PTL

(* Supersession follows time, whichever episode was extracted or committed first. *)
THEOREM SuccessorsAreNewer == M!Spec => []SupersededByNewer
  <1>1. MemInv => SupersededByNewer
    BY DEF MemInv, FactsInv, Succeeded, SupersededByNewer, M!SupersededByNewer
  <1>. QED BY <1>1, MemoryInvariance, PTL

(* Two facts in force that clash are flagged or vetted, unless neither of their
   transactions could see the other's fact. *)
THEOREM NothingClashesSilently == M!Spec => []Coherent
  <1>1. MemInv => Coherent
    <2>. SUFFICES ASSUME MemInv, NEW i \in M!InForce(rows), NEW j \in M!InForce(rows),
                         rows[i].value # rows[j].value
                  PROVE  \/ \E k \in {i, j} : rows[k].review \/ rows[k].vetted
                         \/ rows[i].read < rows[j].born /\ rows[j].read < rows[i].born
      BY DEF Coherent, M!Coherent
    <2>1. Clear(rows[i], rows[j]) \/ (rows[i].read < rows[j].born /\ rows[j].read < rows[i].born)
      BY DEF MemInv, FactsInv
    <2>. QED BY <2>1 DEF Clear
  <1>. QED BY <1>1, MemoryInvariance, PTL

-----------------------------------------------------------------------------
(* The voice of the memory. *)

\* A set that holds the successors of its facts holds one that was not superseded.
LEMMA LastSuccessor ==
  ASSUME NEW f, NEW n \in Nat, RowsOf(f, n), Succeeded(f, f),
         NEW S \in SUBSET DOMAIN f, \A j \in S : f[j].reason = "superseded" => f[j].next \in S,
         NEW i0 \in S, ~f[i0].told
  PROVE  \E j \in S : f[j].reason # "superseded"
  <1>. DEFINE X == {i \in S : f[i].reason = "superseded" /\ ~f[i].told}
              Since(i) == {j \in X : f[i].valid <= f[j].valid}
              T == {Since(i) : i \in X}
  <1>. SUFFICES ASSUME f[i0].reason = "superseded"
                PROVE  \E j \in S : f[j].reason # "superseded"
    OBVIOUS
  <1>1. IsFiniteSet(X)
    <2>1. IsFiniteSet(1..n) BY FS_Interval
    <2>2. X \in SUBSET (1..n) BY DEF RowsOf
    <2>. HIDE DEF X
    <2>. QED BY <2>1, <2>2, FS_Subset
  <1>2. IsWellFoundedOn(StrictSubsetOrdering(X), SUBSET X)
    BY <1>1, FS_StrictSubsetOrderingWellFounded, FS_FiniteSubsetsOfFinite
  <1>3. T \subseteq SUBSET X /\ T # {}
    <2>1. Since(i0) \in T OBVIOUS
    <2>2. T \subseteq SUBSET X OBVIOUS
    <2>. HIDE DEF T
    <2>. QED BY <2>1, <2>2
  <1>4. \E A \in T : \A B \in T : ~ (<<B, A>> \in StrictSubsetOrdering(X))
    <2>. HIDE DEF T
    <2>. QED BY <1>2, <1>3, WFMin
  <1>5. PICK i \in X : \A B \in T : ~ (<<B, Since(i)>> \in StrictSubsetOrdering(X)) BY <1>4
  <1>. DEFINE s == f[i].next
  <1>6. s \in S /\ ~f[s].told /\ f[s].valid > f[i].valid
    BY <1>5 DEF Succeeded
  <1>7. \A j \in DOMAIN f : f[j].valid \in Nat BY DEF RowsOf, M!FactRow
  <1>8. s \notin X
    <2>. SUFFICES ASSUME s \in X PROVE FALSE
      OBVIOUS
    <2>1. Since(s) \in T /\ Since(s) \subseteq X /\ Since(i) \subseteq X OBVIOUS
    <2>2. \A j \in Since(s) : j \in Since(i) BY <1>6, <1>7
    <2>3. i \in Since(i) /\ i \notin Since(s) BY <1>6, <1>7
    <2>4. <<Since(s), Since(i)>> \in StrictSubsetOrdering(X)
      <3>. HIDE DEF Since, X, T, s
      <3>. QED BY <2>1, <2>2, <2>3 DEF StrictSubsetOrdering
    <2>. QED BY <1>5, <2>1, <2>4
  <1>. QED BY <1>5, <1>6, <1>8

\* When a commit leaves no fact in force.
LEMMA SilentCommit ==
  ASSUME MemInv, NEW w \in Worker, M!Commit(w), M!InForce(rows') = {}
  PROVE  \/ \E e \in FactEpisode : done[e] > 0 /\ done'[e] > done[e]
         \/ \A i \in M!InForce(rows) : M!LeadsToRetired(i)'
  <1>. DEFINE t == task[w]  g == rows'
  <1>1. /\ TaskInv(t, rows, ids, commits) /\ t \in TaskRow /\ ids \in Nat /\ commits \in Nat
        /\ t.revision = done[t.episode] + 1 /\ done' = [done EXCEPT ![t.episode] = t.revision]
        /\ FactsInv(rows, ids, commits)
    BY AtWork DEF M!Commit
  <1>2. Published(t, rows, ids, commits, g) BY CommitStep
  <1>3. /\ FactsInv(g, ids, commits + 1) /\ RowsOf(g, ids) /\ Succeeded(g, g)
        /\ \A i \in DOMAIN rows :
             /\ i \in DOMAIN g /\ Follows(rows[i], g[i])
             /\ i \notin DOMAIN t.draft => g[i] = rows[i]
             /\ i \in DOMAIN t.draft => g[i].reason = t.draft[i].reason
    BY <1>2 DEF Published, FactsInv
  <1>4. \A i \in DOMAIN g : g[i].reason # "none" /\ g[i].reason \in M!Reason
    BY <1>3 DEF M!InForce, RowsOf, M!FactRow
  <1>. HIDE DEF g
  <1>5. CASE t.revision > 1
    <2>1. t.episode \in FactEpisode /\ done \in [FactEpisode -> Nat]
      BY <1>1 DEF TaskRow, MemInv, MemTypes
    <2>2. done[t.episode] > 0 /\ done'[t.episode] > done[t.episode] BY <1>1, <1>5, <2>1
    <2>. QED BY <2>1, <2>2
  <1>6. CASE ~(t.revision > 1)
    <2>. SUFFICES ASSUME NEW i \in M!InForce(rows) PROVE M!LeadsToRetired(i)'
      OBVIOUS
    <2>1. i \in DOMAIN rows /\ rows[i].reason = "none" /\ ~rows[i].told
      BY <1>1 DEF M!InForce, FactsInv, RowsOf
    <2>2. i \in DOMAIN t.draft BY <1>3, <1>4, <2>1
    <2>3. t.draft[i].reason \notin {"manual", "revision_reprocessed"}
      BY <1>1, <1>6, <2>1, <2>2 DEF TaskInv, Copied
    <2>4. i \in DOMAIN g /\ ~g[i].told /\ g[i].reason = "superseded"
      BY <1>3, <1>4, <2>1, <2>2, <2>3 DEF M!Reason, Follows
    <2>5. ASSUME NEW S \in SUBSET DOMAIN g, i \in S,
                 \A j \in S : g[j].reason = "superseded" => g[j].next \in S
          PROVE  \E j \in S : g[j].reason \in {"manual", "revision_reprocessed"}
      <3>1. PICK j \in S : g[j].reason # "superseded"
        BY <1>1, <1>3, <2>4, <2>5, LastSuccessor
      <3>. QED BY <1>4, <3>1 DEF M!Reason
    <2>. QED BY <2>5 DEF M!LeadsToRetired, M!Retired, g
  <1>. QED BY <1>5, <1>6

(* The memory never falls silent by itself: only a person or a new import leaves
   no fact in force, or a commit whose supersessions lead to facts retired so. *)
THEOREM VoiceIsKept == M!Spec => VoiceKept
  <1>. DEFINE Excused ==
         \/ \E i \in M!InForce(rows) : rows'[i].reason = "manual"
         \/ \E e \in FactEpisode : done[e] > 0 /\ done'[e] > done[e]
         \/ \A i \in M!InForce(rows) : M!LeadsToRetired(i)'
  <1>1. ASSUME MemInv, [M!Next]_M!vars, M!InForce(rows) # {}, M!InForce(rows)' = {}
        PROVE  Excused
    <2>1. rows' # rows BY <1>1 DEF M!InForce
    <2>2. ASSUME NEW w \in Worker, M!Commit(w) PROVE Excused
      BY <1>1, <2>2, SilentCommit DEF M!InForce
    <2>3. ASSUME NEW i \in DOMAIN rows, M!ResolveFact(i) PROVE Excused
      <3>1. /\ rows'[i].reason = "manual" \/ rows'[i].reason = rows[i].reason
            /\ DOMAIN rows' = DOMAIN rows /\ \A j \in DOMAIN rows : j # i => rows'[j] = rows[j]
        BY <1>1, <2>3, ResolveStep
      <3>2. PICK x \in DOMAIN rows : rows[x].reason = "none" BY <1>1 DEF M!InForce
      <3>3. rows'[x].reason # "none" BY <1>1, <3>1, <3>2 DEF M!InForce
      <3>4. x = i /\ rows'[i].reason = "manual" BY <3>1, <3>2, <3>3
      <3>. QED BY <3>2, <3>4 DEF M!InForce
    <2>4. \/ \E w \in Worker : M!Commit(w)
          \/ \E i \in DOMAIN rows : M!ResolveFact(i)
      BY <1>1, <2>1 DEF M!Next, M!Step, M!vars, M!Extract, M!JudgePair, M!Begin, M!SearchNeighbors,
         M!ApplyNeighborVerdicts, M!LinkFails, M!TransactionFails, M!Fail, M!Approve
    <2>. QED BY <2>2, <2>3, <2>4
  <1>2. MemInv /\ [M!Next]_M!vars =>
          [M!InForce(rows) # {} /\ M!InForce(rows)' = {} => Excused]_M!vars
    BY <1>1
  <1>. QED BY <1>2, MemoryInvariance, PTL DEF M!Spec, VoiceKept, M!VoiceKept
=============================================================================
