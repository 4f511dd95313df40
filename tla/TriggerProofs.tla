---------------------------- MODULE TriggerProofs ----------------------------
(***************************************************************************)
(* The trigger queue, for every set of messages, reconcile rows and        *)
(* workers, whatever the redeliveries, crashes and outlived leases. The    *)
(* argument for UnreadIsCovered follows a fire from its claim: a message   *)
(* that is in the row by then is in the agent's inbox when the POST wakes  *)
(* the agent, so once the answer is "ok" it has been read or is about to   *)
(* be; one that joins the row later is an absorbed one.                    *)
(***************************************************************************)
EXTENDS TriggerQueue, FiniteSetTheorems, TLAPS

\* A request that has not enqueued yet has left no trace in the queue, and
\* nobody fires a row that does not exist.
FreshInv ==
  /\ \A m \in Msg : inbox[m] = "none" => hook[m] = "none"
  /\ \A m \in Msg : hook[m] # "done" => rowOf[m] = {} /\ status[m] = "absent"
  /\ \A r \in Row : status[r] = "absent" => ~BeingFired(r)

\* While an accepted fire waits for its mark, what its row announced before the
\* claim has been read or the agent is awake, and a reconcile event was told.
AnswerInv ==
  \A w \in Worker, r \in Row : fire[w][r] = "ok" =>
    /\ r \in Reconcile => r \in told
    /\ \A m \in Msg : r \in rowOf[m] /\ inbox[m] = "unread" /\ m \notin absorbed => woken

Inv == TypeOK /\ FreshInv /\ AnswerInv /\ UnreadIsCovered /\ ReconcileToldOnce

LEMMA InitInv == Init => Inv
  <1>. SUFFICES ASSUME Init PROVE Inv
    OBVIOUS
  <1>1. \A w \in Worker, r \in Row : fire[w][r] = "none" BY DEF Init, Idle
  <1>2. TypeOK BY DEF Init, TypeOK, Idle, Zero
  <1>3. FreshInv BY <1>1 DEF Init, FreshInv, BeingFired, Row
  <1>4. AnswerInv BY <1>1 DEF AnswerInv
  <1>5. UnreadIsCovered /\ ReconcileToldOnce BY DEF Init, UnreadIsCovered, ReconcileToldOnce, Row
  <1>. QED BY <1>2, <1>3, <1>4, <1>5 DEF Inv

-----------------------------------------------------------------------------
(* Types. *)

LEMMA HookTypes ==
  ASSUME TypeOK, NEW m \in Msg,
         LogWebhook(m) \/ Redelivery(m) \/ EnqueuePendingTrigger(m) \/ EnqueueLost(m)
  PROVE  TypeOK'
  <1>1. CASE LogWebhook(m)
    BY <1>1 DEF TypeOK, LogWebhook, rowVars, workVars
  <1>3. CASE Redelivery(m)
    BY <1>3 DEF TypeOK, Redelivery, rowVars, workVars
  <1>4. CASE EnqueueLost(m)
    BY <1>4 DEF TypeOK, EnqueueLost, rowVars, workVars
  <1>2. CASE EnqueuePendingTrigger(m)
    <2>1. /\ hook' = [hook EXCEPT ![m] = "done"]
          /\ UNCHANGED <<inbox, skipped, workVars, woken, told, faults>>
      BY <1>2 DEF EnqueuePendingTrigger
    <2>2. CASE \E r \in OpenInboxRows :
                 /\ due' = [due EXCEPT ![r] = FALSE]
                 /\ rowOf' = [rowOf EXCEPT ![m] = {r}]
                 /\ absorbed' = IF BeingFired(r) THEN absorbed \union {m} ELSE absorbed
                 /\ UNCHANGED <<status, attempt>>
      <3>1. PICK r \in Msg : /\ due' = [due EXCEPT ![r] = FALSE]
                             /\ rowOf' = [rowOf EXCEPT ![m] = {r}]
                             /\ UNCHANGED <<status, attempt>>
        BY <2>2 DEF OpenInboxRows
      <3>2. absorbed' \subseteq Msg BY <2>2 DEF TypeOK
      <3>. QED BY <2>1, <3>1, <3>2 DEF TypeOK, Row, workVars
    <2>3. CASE /\ status' = [status EXCEPT ![m] = "pending"]
               /\ rowOf' = [rowOf EXCEPT ![m] = {m}]
               /\ UNCHANGED <<attempt, due, absorbed>>
      BY <2>1, <2>3 DEF TypeOK, Row, workVars
    <2>. QED BY <1>2, <2>2, <2>3, Zenon DEF EnqueuePendingTrigger
  <1>. QED BY <1>1, <1>2, <1>3, <1>4

LEMMA OutsideTypes ==
  ASSUME TypeOK,
         \/ AgentReads
         \/ \E r \in Reconcile : EnqueueReconcileTrigger(r)
         \/ \E r \in Row : BecomeDue(r)
  PROVE  TypeOK'
  <1>1. CASE AgentReads BY <1>1 DEF TypeOK, AgentReads, rowVars, workVars
  <1>2. ASSUME NEW r \in Reconcile, EnqueueReconcileTrigger(r) PROVE TypeOK'
    BY <1>2 DEF TypeOK, EnqueueReconcileTrigger, msgVars, workVars
  <1>3. ASSUME NEW r \in Row, BecomeDue(r) PROVE TypeOK'
    BY <1>3 DEF TypeOK, BecomeDue, msgVars, workVars
  <1>. QED BY <1>1, <1>2, <1>3

LEMMA CycleTypes ==
  ASSUME TypeOK, NEW w \in Worker,
         Boot(w) \/ Crash(w) \/ ClaimDuePendingTriggers(w) \/ EndCycle(w)
  PROVE  TypeOK'
  <1>1. CASE Boot(w) \/ EndCycle(w)
    BY <1>1 DEF TypeOK, Boot, EndCycle, rowVars, msgVars
  <1>2. CASE Crash(w)
    BY <1>2 DEF TypeOK, Crash, Idle, Zero, rowVars, msgVars
  <1>3. CASE ClaimDuePendingTriggers(w)
    <2>1. PICK C : /\ phase' = [phase EXCEPT ![w] = "running"]
                   /\ attempt' = [r \in Row |-> IF r \in C THEN attempt[r] + 1 ELSE attempt[r]]
                   /\ due' = [r \in Row |-> IF r \in C THEN FALSE ELSE due[r]]
                   /\ fire' = [fire EXCEPT ![w] = [r \in Row |-> IF r \in C THEN "post" ELSE fire[w][r]]]
                   /\ seen' = [seen EXCEPT ![w] =
                                 [r \in Row |-> IF r \in C THEN attempt[r] + 1 ELSE seen[w][r]]]
      BY <1>3 DEF ClaimDuePendingTriggers
    <2>2. due' \in [Row -> BOOLEAN]
      <3>1. \A r \in Row : (IF r \in C THEN FALSE ELSE due[r]) \in BOOLEAN BY Zenon DEF TypeOK
      <3>. QED BY <2>1, <3>1, Zenon
    <2>3. attempt' \in [Row -> Nat] BY <2>1 DEF TypeOK
    <2>4. fire' \in [Worker -> [Row -> {"none", "post", "ok", "bad"}]] BY <2>1 DEF TypeOK
    <2>5. seen' \in [Worker -> [Row -> Nat]]
      <3>1. [r \in Row |-> IF r \in C THEN attempt[r] + 1 ELSE seen[w][r]] \in [Row -> Nat]
        BY DEF TypeOK
      <3>. QED BY <2>1, <3>1 DEF TypeOK
    <2>. QED BY <1>3, <2>1, <2>2, <2>3, <2>4, <2>5 DEF TypeOK, ClaimDuePendingTriggers, msgVars
  <1>. QED BY <1>1, <1>2, <1>3

LEMMA FinishTypes ==
  ASSUME TypeOK, NEW w \in Worker, NEW r \in Row, Finish(w, r)
  PROVE  /\ fire' \in [Worker -> [Row -> {"none", "post", "ok", "bad"}]]
         /\ seen' \in [Worker -> [Row -> Nat]]
  BY DEF TypeOK, Finish

LEMMA RetryTypes ==
  ASSUME TypeOK, NEW r \in Row, NEW n, RetryOrFail(r, n)
  PROVE  /\ status' \in [Row -> {"absent", "pending", "fired", "failed"}]
         /\ due' \in [Row -> BOOLEAN]
  BY DEF TypeOK, RetryOrFail

LEMMA FireTypes ==
  ASSUME TypeOK, NEW w \in Worker, NEW r \in Row,
         Settle(w, r) \/ MarkFiredFails(w, r) \/ MarkFails(w, r)
  PROVE  TypeOK'
  <1>1. CASE Post(w, r)
    <2>1. fire' \in [Worker -> [Row -> {"none", "post", "ok", "bad"}]]
      <3>1. PICK a \in {"ok", "bad"} : fire' = [fire EXCEPT ![w][r] = a] BY <1>1 DEF Post
      <3>. QED BY <3>1 DEF TypeOK
    <2>2. woken' \in BOOLEAN /\ told' \subseteq Reconcile BY <1>1 DEF TypeOK, Post
    <2>. QED BY <1>1, <2>1, <2>2 DEF TypeOK, Post, rowVars, msgVars
  <1>2. CASE MarkTriggerFired(w, r)
    BY <1>2, FinishTypes DEF TypeOK, MarkTriggerFired, msgVars
  <1>3. CASE MarkTriggerRetryOrFail(w, r)
    <2>1. status' \in [Row -> {"absent", "pending", "fired", "failed"}] /\ due' \in [Row -> BOOLEAN]
      BY <1>3, RetryTypes DEF MarkTriggerRetryOrFail
    <2>. QED BY <1>3, <2>1, FinishTypes DEF TypeOK, MarkTriggerRetryOrFail, msgVars
  <1>4. CASE MarkConflicts(w, r)
    BY <1>4, FinishTypes DEF TypeOK, MarkConflicts, rowVars, msgVars
  <1>5. CASE MarkFiredFails(w, r)
    BY <1>5 DEF TypeOK, MarkFiredFails, rowVars, msgVars
  <1>6. CASE MarkFails(w, r)
    BY <1>6, FinishTypes DEF TypeOK, MarkFails, rowVars, msgVars
  <1>. QED BY <1>1, <1>2, <1>3, <1>4, <1>5, <1>6 DEF Settle

LEMMA NextTypes ==
  ASSUME TypeOK, Next
  PROVE  TypeOK'
  BY HookTypes, OutsideTypes, CycleTypes, FireTypes DEF Next

-----------------------------------------------------------------------------
(* The invariant, one lemma per kind of step. *)

Good == FreshInv /\ AnswerInv /\ UnreadIsCovered /\ ReconcileToldOnce

\* Steps of the queue's clock and of fires that end or fail: no row is written,
\* no fire starts, none is answered "ok".
LEMMA QuietStep ==
  ASSUME Inv, UNCHANGED <<inbox, hook, rowOf, absorbed, status, woken, told>>,
         \A w \in Worker, r \in Row :
           /\ fire'[w][r] = "ok" => fire[w][r] = "ok"
           /\ fire'[w][r] # "none" => fire[w][r] # "none" \/ status[r] = "pending"
  PROVE  Good'
  <1>1. FreshInv' BY DEF Inv, FreshInv, BeingFired
  <1>2. AnswerInv' BY DEF Inv, AnswerInv
  <1>3. UnreadIsCovered' BY DEF Inv, UnreadIsCovered, Queued, FailedFor
  <1>4. ReconcileToldOnce' BY DEF Inv, ReconcileToldOnce
  <1>. QED BY <1>1, <1>2, <1>3, <1>4 DEF Good

LEMMA LogWebhookStep ==
  ASSUME Inv, NEW m \in Msg, LogWebhook(m)
  PROVE  Good'
  <1>1. /\ inbox' = [inbox EXCEPT ![m] = "unread"] /\ hook' = [hook EXCEPT ![m] = "enqueue"]
        /\ UNCHANGED <<rowOf, absorbed, status, fire, woken, told>>
    BY DEF LogWebhook, rowVars, workVars
  <1>2. rowOf[m] = {} /\ status[m] = "absent" BY DEF LogWebhook, Inv, FreshInv
  <1>3. FreshInv' BY <1>1, <1>2 DEF Inv, TypeOK, FreshInv, BeingFired
  <1>4. AnswerInv' BY <1>1, <1>2 DEF Inv, TypeOK, AnswerInv
  <1>5. UnreadIsCovered' BY <1>1, <1>2 DEF Inv, TypeOK, UnreadIsCovered, Queued, FailedFor
  <1>6. ReconcileToldOnce' BY <1>1 DEF Inv, ReconcileToldOnce
  <1>. QED BY <1>3, <1>4, <1>5, <1>6 DEF Good

LEMMA EnqueueLostStep ==
  ASSUME Inv, NEW m \in Msg, EnqueueLost(m)
  PROVE  Good'
  <1>1. /\ hook[m] = "enqueue" /\ hook' = [hook EXCEPT ![m] = "lost"]
        /\ UNCHANGED <<inbox, rowOf, absorbed, status, fire, woken, told>>
    BY DEF EnqueueLost, rowVars, workVars
  <1>2. FreshInv' BY <1>1 DEF Inv, TypeOK, FreshInv, BeingFired
  <1>3. AnswerInv' BY <1>1 DEF Inv, AnswerInv
  <1>4. UnreadIsCovered' BY <1>1 DEF Inv, UnreadIsCovered, Queued, FailedFor
  <1>5. ReconcileToldOnce' BY <1>1 DEF Inv, ReconcileToldOnce
  <1>. QED BY <1>2, <1>3, <1>4, <1>5 DEF Good

LEMMA EnqueueStep ==
  ASSUME Inv, NEW m \in Msg, EnqueuePendingTrigger(m)
  PROVE  Good'
  <1>1. /\ hook[m] = "enqueue" /\ hook' = [hook EXCEPT ![m] = "done"]
        /\ UNCHANGED <<inbox, fire, woken, told>>
    BY DEF EnqueuePendingTrigger, workVars
  <1>2. rowOf[m] = {} /\ status[m] = "absent" /\ ~BeingFired(m)
    BY <1>1 DEF Inv, FreshInv, Row
  \* The message joins a pending row; if that row is being fired it is absorbed.
  <1>3. ASSUME NEW r \in OpenInboxRows, rowOf' = [rowOf EXCEPT ![m] = {r}],
               absorbed' = (IF BeingFired(r) THEN absorbed \union {m} ELSE absorbed),
               UNCHANGED status
        PROVE  Good'
    <2>1. r \in Msg /\ status[r] = "pending" BY DEF OpenInboxRows
    <2>2. absorbed \subseteq absorbed' /\ (BeingFired(r) => m \in absorbed') BY <1>3
    <2>3. FreshInv' BY <1>1, <1>3 DEF Inv, TypeOK, FreshInv, BeingFired
    <2>4. AnswerInv'
      <3>. SUFFICES ASSUME NEW w \in Worker, NEW q \in Row, fire'[w][q] = "ok"
                    PROVE  /\ q \in Reconcile => q \in told'
                           /\ \A n \in Msg : q \in rowOf'[n] /\ inbox'[n] = "unread" /\ n \notin absorbed' => woken'
        BY DEF AnswerInv
      <3>1. q = r => BeingFired(r) BY <1>1 DEF BeingFired
      <3>2. \A n \in Msg : q \in rowOf'[n] /\ n # m => q \in rowOf[n] BY <1>3 DEF Inv, TypeOK
      <3>3. q \in rowOf'[m] => q = r BY <1>3 DEF Inv, TypeOK
      <3>. QED BY <1>1, <2>2, <3>1, <3>2, <3>3 DEF Inv, AnswerInv
    <2>5. UnreadIsCovered'
      BY <1>1, <1>3, <2>1, <2>2 DEF Inv, TypeOK, UnreadIsCovered, Queued, FailedFor
    <2>6. ReconcileToldOnce' BY <1>1, <1>3 DEF Inv, ReconcileToldOnce
    <2>. QED BY <2>3, <2>4, <2>5, <2>6 DEF Good
  \* Or it opens a row of its own, which nobody fires yet.
  <1>4. ASSUME status' = [status EXCEPT ![m] = "pending"], rowOf' = [rowOf EXCEPT ![m] = {m}],
               UNCHANGED absorbed
        PROVE  Good'
    <2>1. \A w \in Worker : fire[w][m] = "none" BY <1>2 DEF BeingFired
    <2>2. FreshInv' BY <1>1, <1>4 DEF Inv, TypeOK, FreshInv, BeingFired, Row
    <2>3. AnswerInv' BY <1>1, <1>4, <2>1 DEF Inv, TypeOK, AnswerInv
    <2>4. UnreadIsCovered'
      <3>. SUFFICES ASSUME NEW n \in Msg, inbox[n] = "unread", rowOf'[n] # {}, n \notin absorbed
                    PROVE  \/ woken \/ \E r \in rowOf'[n] : status'[r] \in {"failed", "pending"}
        BY <1>1, <1>4 DEF UnreadIsCovered, Queued, FailedFor
      <3>1. CASE n = m BY <1>4, <3>1 DEF Inv, TypeOK, Row
      <3>2. CASE n # m
        <4>1. rowOf'[n] = rowOf[n] BY <1>4, <3>2 DEF Inv, TypeOK
        <4>2. woken \/ \E r \in rowOf[n] : status[r] \in {"failed", "pending"}
          BY <4>1 DEF Inv, UnreadIsCovered, Queued, FailedFor
        <4>3. \A r \in rowOf[n] : status[r] \in {"failed", "pending"} => status'[r] = status[r]
          BY <1>2, <1>4 DEF Inv, TypeOK, Row
        <4>. QED BY <4>1, <4>2, <4>3
      <3>. QED BY <3>1, <3>2
    <2>5. ReconcileToldOnce' BY <1>1, <1>4 DEF Inv, TypeOK, ReconcileToldOnce, Row
    <2>. QED BY <2>2, <2>3, <2>4, <2>5 DEF Good
  <1>. QED BY <1>3, <1>4 DEF EnqueuePendingTrigger

LEMMA EnqueueReconcileStep ==
  ASSUME Inv, NEW r \in Reconcile, EnqueueReconcileTrigger(r)
  PROVE  Good'
  <1>1. /\ status[r] = "absent" /\ status' = [status EXCEPT ![r] = "pending"]
        /\ UNCHANGED <<inbox, hook, rowOf, absorbed, fire, woken, told>>
    BY DEF EnqueueReconcileTrigger, msgVars, workVars
  <1>2. FreshInv' BY <1>1, TriggerAssumption DEF Inv, TypeOK, FreshInv, BeingFired, Row
  <1>3. AnswerInv' BY <1>1 DEF Inv, AnswerInv
  <1>4. UnreadIsCovered' BY <1>1 DEF Inv, TypeOK, UnreadIsCovered, Queued, FailedFor, Row
  <1>5. ReconcileToldOnce' BY <1>1 DEF Inv, TypeOK, ReconcileToldOnce, Row
  <1>. QED BY <1>2, <1>3, <1>4, <1>5 DEF Good

LEMMA AgentReadsStep ==
  ASSUME Inv, AgentReads
  PROVE  Good'
  <1>1. /\ inbox' = [m \in Msg |-> IF inbox[m] = "unread" THEN "read" ELSE inbox[m]]
        /\ UNCHANGED <<hook, rowOf, absorbed, status, fire, told>>
    BY DEF AgentReads, rowVars, workVars
  <1>2. \A m \in Msg : inbox'[m] # "unread" /\ (inbox'[m] = "none" => inbox[m] = "none") BY <1>1
  <1>3. FreshInv' BY <1>1, <1>2 DEF Inv, FreshInv, BeingFired
  <1>4. AnswerInv' /\ UnreadIsCovered' BY <1>1, <1>2 DEF Inv, AnswerInv, UnreadIsCovered
  <1>5. ReconcileToldOnce' BY <1>1 DEF Inv, ReconcileToldOnce
  <1>. QED BY <1>3, <1>4, <1>5 DEF Good

LEMMA ClaimStep ==
  ASSUME Inv, NEW w \in Worker, ClaimDuePendingTriggers(w)
  PROVE  Good'
  <1>1. PICK C \in SUBSET DueRows :
          fire' = [fire EXCEPT ![w] = [r \in Row |-> IF r \in C THEN "post" ELSE fire[w][r]]]
    BY DEF ClaimDuePendingTriggers
  <1>2. \A v \in Worker, q \in Row :
          fire'[v][q] = IF v = w /\ q \in C THEN "post" ELSE fire[v][q]
    BY <1>1 DEF Inv, TypeOK
  <1>3. \A q \in C : status[q] = "pending" BY DEF DueRows
  <1>. QED BY <1>2, <1>3, QuietStep DEF ClaimDuePendingTriggers, msgVars

LEMMA PostStep ==
  ASSUME Inv, NEW w \in Worker, NEW r \in Row, Post(w, r)
  PROVE  Good'
  <1>1. UNCHANGED <<inbox, hook, rowOf, absorbed, status>> BY DEF Post, rowVars, msgVars
  <1>2. ASSUME NEW a \in {"ok", "bad"}, fire' = [fire EXCEPT ![w][r] = a],
               woken' = TRUE, told' = told \union ({r} \cap Reconcile)
        PROVE  Good'
    <2>1. \A v \in Worker, q \in Row : fire'[v][q] = IF v = w /\ q = r THEN a ELSE fire[v][q]
      BY <1>2 DEF Inv, TypeOK
    <2>2. fire[w][r] # "none" BY DEF Post
    <2>3. FreshInv' BY <1>1, <2>1, <2>2 DEF Inv, FreshInv, BeingFired
    <2>4. AnswerInv' BY <1>2, <2>1 DEF Inv, AnswerInv
    <2>5. UnreadIsCovered' /\ ReconcileToldOnce'
      BY <1>1, <1>2 DEF Inv, UnreadIsCovered, ReconcileToldOnce
    <2>. QED BY <2>3, <2>4, <2>5 DEF Good
  <1>3. ASSUME fire' = [fire EXCEPT ![w][r] = "bad"], UNCHANGED <<woken, told>>
        PROVE  Good'
    <2>1. \A v \in Worker, q \in Row : fire'[v][q] = IF v = w /\ q = r THEN "bad" ELSE fire[v][q]
      BY <1>3 DEF Inv, TypeOK
    <2>2. fire[w][r] # "none" BY DEF Post
    <2>. QED BY <1>1, <1>3, <2>1, <2>2, QuietStep
  <1>. QED BY <1>2, <1>3 DEF Post

\* The mark of an accepted fire: AnswerInv is what makes it safe.
LEMMA MarkFiredStep ==
  ASSUME Inv, NEW w \in Worker, NEW r \in Row, MarkTriggerFired(w, r)
  PROVE  Good'
  <1>1. /\ fire[w][r] = "ok" /\ status' = [status EXCEPT ![r] = "fired"]
        /\ fire' = [fire EXCEPT ![w][r] = "none"]
        /\ UNCHANGED <<inbox, hook, rowOf, absorbed, woken, told>>
    BY DEF MarkTriggerFired, Finish, msgVars
  <1>2. \A v \in Worker, q \in Row : fire'[v][q] = IF v = w /\ q = r THEN "none" ELSE fire[v][q]
    BY <1>1 DEF Inv, TypeOK
  <1>3. status[r] # "absent" BY <1>1 DEF Inv, FreshInv, BeingFired
  <1>4. FreshInv' BY <1>1, <1>2, <1>3 DEF Inv, TypeOK, FreshInv, BeingFired, Row
  <1>5. AnswerInv' BY <1>1, <1>2 DEF Inv, AnswerInv
  <1>6. UnreadIsCovered'
    <2>. SUFFICES ASSUME NEW m \in Msg, inbox[m] = "unread", Queued(m), m \notin absorbed, ~woken
                  PROVE  \E q \in rowOf[m] : status'[q] \in {"failed", "pending"}
      BY <1>1 DEF UnreadIsCovered, Queued, FailedFor
    <2>1. PICK q \in rowOf[m] : status[q] \in {"failed", "pending"}
      BY DEF Inv, UnreadIsCovered, FailedFor
    <2>2. q # r BY <1>1 DEF Inv, AnswerInv
    <2>. QED BY <1>1, <2>1, <2>2 DEF Inv, TypeOK, Row
  <1>7. ReconcileToldOnce' BY <1>1 DEF Inv, TypeOK, ReconcileToldOnce, AnswerInv, Row
  <1>. QED BY <1>4, <1>5, <1>6, <1>7 DEF Good

LEMMA RetryStep ==
  ASSUME Inv, NEW w \in Worker, NEW r \in Row, MarkTriggerRetryOrFail(w, r)
  PROVE  Good'
  <1>1. PICK s \in {"pending", "failed"} : status' = [status EXCEPT ![r] = s]
    BY DEF MarkTriggerRetryOrFail, RetryOrFail
  <1>2. /\ fire[w][r] # "none" /\ fire' = [fire EXCEPT ![w][r] = "none"]
        /\ UNCHANGED <<inbox, hook, rowOf, absorbed, woken, told>>
    BY DEF MarkTriggerRetryOrFail, Finish, msgVars
  <1>3. \A v \in Worker, q \in Row : fire'[v][q] = IF v = w /\ q = r THEN "none" ELSE fire[v][q]
    BY <1>2 DEF Inv, TypeOK
  <1>4. status[r] # "absent" BY <1>2 DEF Inv, FreshInv, BeingFired
  <1>5. FreshInv' BY <1>1, <1>2, <1>3, <1>4 DEF Inv, TypeOK, FreshInv, BeingFired, Row
  <1>6. AnswerInv' BY <1>2, <1>3 DEF Inv, AnswerInv
  <1>7. UnreadIsCovered'
    <2>. SUFFICES ASSUME NEW m \in Msg, inbox[m] = "unread", Queued(m), m \notin absorbed, ~woken
                  PROVE  \E q \in rowOf[m] : status'[q] \in {"failed", "pending"}
      BY <1>2 DEF UnreadIsCovered, Queued, FailedFor
    <2>1. PICK q \in rowOf[m] : status[q] \in {"failed", "pending"}
      BY DEF Inv, UnreadIsCovered, FailedFor
    <2>. QED BY <1>1, <2>1 DEF Inv, TypeOK, Row
  <1>8. ReconcileToldOnce' BY <1>1, <1>2 DEF Inv, TypeOK, ReconcileToldOnce, Row
  <1>. QED BY <1>5, <1>6, <1>7, <1>8 DEF Good

LEMMA NextInv ==
  ASSUME Inv, [Next]_vars
  PROVE  Inv'
  <1>. SUFFICES TypeOK' /\ Good'
    BY DEF Inv, Good
  <1>0. CASE UNCHANGED vars
    <2>1. TypeOK' BY <1>0 DEF vars, Inv, TypeOK
    <2>. QED BY <1>0, <2>1, QuietStep DEF vars
  <1>. SUFFICES ASSUME Next PROVE TypeOK' /\ Good'
    BY <1>0
  <1>1. TypeOK' BY NextTypes DEF Inv
  <1>2. ASSUME NEW m \in Msg, Redelivery(m) PROVE Good'
    BY <1>2, QuietStep DEF Redelivery, rowVars, workVars
  <1>3. ASSUME NEW r \in Row, BecomeDue(r) PROVE Good'
    BY <1>3, QuietStep DEF BecomeDue, msgVars, workVars
  <1>4. ASSUME NEW w \in Worker, Boot(w) \/ EndCycle(w) PROVE Good'
    BY <1>4, QuietStep DEF Boot, EndCycle, rowVars, msgVars
  <1>5. ASSUME NEW w \in Worker, Crash(w) PROVE Good'
    <2>1. \A v \in Worker, q \in Row : fire'[v][q] = IF v = w THEN "none" ELSE fire[v][q]
      BY <1>5 DEF Crash, Idle, Inv, TypeOK
    <2>. QED BY <1>5, <2>1, QuietStep DEF Crash, rowVars, msgVars
  <1>6. ASSUME NEW w \in Worker, NEW r \in Row,
               MarkConflicts(w, r) \/ MarkFails(w, r) \/ MarkFiredFails(w, r)
        PROVE  Good'
    <2>1. PICK a \in {"none", "bad"} : fire' = [fire EXCEPT ![w][r] = a]
      BY <1>6 DEF MarkConflicts, MarkFails, MarkFiredFails, Finish
    <2>2. \A v \in Worker, q \in Row : fire'[v][q] = IF v = w /\ q = r THEN a ELSE fire[v][q]
      BY <2>1 DEF Inv, TypeOK
    <2>3. fire[w][r] # "none" BY <1>6 DEF MarkConflicts, MarkFails, MarkFiredFails
    <2>4. UNCHANGED <<inbox, hook, rowOf, absorbed, status, woken, told>>
      BY <1>6 DEF MarkConflicts, MarkFails, MarkFiredFails, rowVars, msgVars
    <2>. QED BY <2>2, <2>3, <2>4, QuietStep
  <1>. QED
    BY <1>1, <1>2, <1>3, <1>4, <1>5, <1>6, LogWebhookStep, EnqueueLostStep, EnqueueStep,
       EnqueueReconcileStep, AgentReadsStep, ClaimStep, PostStep, MarkFiredStep, RetryStep
    DEF Next, Settle

THEOREM Invariance == Spec => []Inv
  BY InitInv, NextInv, PTL DEF Spec

(* The tables and the poller's bookkeeping are always well formed. *)
THEOREM TypeCorrect == Spec => []TypeOK
  BY Invariance, PTL DEF Inv

(* A queued unread message has a trigger coming, has exhausted its attempts, or
   slipped into a row that was being fired: whatever leases are outlived. *)
THEOREM UnreadCovered == Spec => []UnreadIsCovered
  BY Invariance, PTL DEF Inv

(* No reconcile row is closed as fired before the agent was sent its payload. *)
THEOREM ReconcileTold == Spec => []ReconcileToldOnce
  BY Invariance, PTL DEF Inv

-----------------------------------------------------------------------------
(* The lease. While fires are marked in time, a row that is being fired is   *)
(* not due, whoever pushes or reopens it, and so cannot be claimed.          *)

LeaseInv ==
  \A r \in Row :
    /\ BeingFired(r) => ~due[r]
    /\ \A v, w \in Worker : fire[v][r] # "none" /\ fire[w][r] # "none" => v = w

LEMMA LeaseInit == Init => LeaseInv
  BY DEF Init, LeaseInv, BeingFired, Idle

\* Steps that start no fire, and make no row due that is being fired.
LEMMA LeaseKept ==
  ASSUME LeaseInv,
         \A w \in Worker, r \in Row : fire'[w][r] # "none" => fire[w][r] # "none",
         \A r \in Row : BeingFired(r) => due'[r] = due[r] \/ due'[r] = FALSE
  PROVE  LeaseInv'
  BY DEF LeaseInv, BeingFired

LEMMA LeaseStep ==
  ASSUME Inv, LeaseInv, ~MayStall, [Next]_vars
  PROVE  LeaseInv'
  <1>0. CASE UNCHANGED vars BY <1>0, LeaseKept DEF vars
  <1>. SUFFICES ASSUME Next PROVE LeaseInv'
    BY <1>0
  <1>1. CASE AgentReads BY <1>1, LeaseKept DEF AgentReads, rowVars, workVars
  <1>2. ASSUME NEW m \in Msg, LogWebhook(m) \/ Redelivery(m) \/ EnqueueLost(m) PROVE LeaseInv'
    BY <1>2, LeaseKept DEF LogWebhook, Redelivery, EnqueueLost, rowVars, workVars
  <1>3. ASSUME NEW m \in Msg, EnqueuePendingTrigger(m) PROVE LeaseInv'
    <2>1. UNCHANGED fire BY <1>3 DEF EnqueuePendingTrigger, workVars
    <2>2. \A r \in Row : due'[r] = due[r] \/ due'[r] = FALSE
      BY <1>3 DEF EnqueuePendingTrigger, OpenInboxRows, Inv, TypeOK, Row
    <2>. QED BY <2>1, <2>2, LeaseKept
  <1>4. ASSUME NEW r \in Reconcile, EnqueueReconcileTrigger(r) PROVE LeaseInv'
    <2>1. ~BeingFired(r) BY <1>4 DEF EnqueueReconcileTrigger, Inv, FreshInv, Row
    <2>2. UNCHANGED fire /\ \A q \in Row : q # r => due'[q] = due[q]
      BY <1>4 DEF EnqueueReconcileTrigger, workVars, Inv, TypeOK, Row
    <2>. QED BY <2>1, <2>2, LeaseKept
  <1>5. ASSUME NEW r \in Row, BecomeDue(r) PROVE LeaseInv'
    <2>1. ~BeingFired(r) BY <1>5 DEF BecomeDue
    <2>2. UNCHANGED fire /\ \A q \in Row : q # r => due'[q] = due[q]
      BY <1>5 DEF BecomeDue, workVars, Inv, TypeOK
    <2>. QED BY <2>1, <2>2, LeaseKept
  <1>6. ASSUME NEW w \in Worker, Boot(w) \/ EndCycle(w) PROVE LeaseInv'
    BY <1>6, LeaseKept DEF Boot, EndCycle, rowVars
  <1>7. ASSUME NEW w \in Worker, Crash(w) PROVE LeaseInv'
    <2>1. \A v \in Worker, q \in Row : fire'[v][q] = IF v = w THEN "none" ELSE fire[v][q]
      BY <1>7 DEF Crash, Idle, Inv, TypeOK
    <2>. QED BY <1>7, <2>1, LeaseKept DEF Crash, rowVars
  <1>8. ASSUME NEW w \in Worker, ClaimDuePendingTriggers(w) PROVE LeaseInv'
    <2>1. PICK C \in SUBSET DueRows :
            /\ fire' = [fire EXCEPT ![w] = [r \in Row |-> IF r \in C THEN "post" ELSE fire[w][r]]]
            /\ due' = [r \in Row |-> IF r \in C THEN FALSE ELSE due[r]]
      BY <1>8 DEF ClaimDuePendingTriggers
    <2>2. \A v \in Worker, q \in Row :
            fire'[v][q] = IF v = w /\ q \in C THEN "post" ELSE fire[v][q]
      BY <2>1 DEF Inv, TypeOK
    \* A claimed row was due, so nobody fired it.
    <2>3. \A q \in C : q \in Row /\ ~BeingFired(q) BY DEF DueRows, LeaseInv
    <2>4. \A q \in Row : q \in C => due'[q] = FALSE /\ \A v \in Worker : fire'[v][q] # "none" => v = w
      BY <2>1, <2>2, <2>3 DEF BeingFired
    <2>5. \A q \in Row : q \notin C => due'[q] = due[q] /\ \A v \in Worker : fire'[v][q] = fire[v][q]
      BY <2>1, <2>2
    <2>. QED BY <2>4, <2>5 DEF LeaseInv, BeingFired
  <1>9. ASSUME NEW w \in Worker, NEW r \in Row,
               Settle(w, r) \/ MarkFails(w, r) \/ MarkFiredFails(w, r)
        PROVE  LeaseInv'
    <2>1. /\ fire[w][r] # "none"
          /\ \E a : fire' = [fire EXCEPT ![w][r] = a]
      BY <1>9 DEF Settle, Post, MarkTriggerFired, MarkTriggerRetryOrFail, MarkConflicts, MarkFails,
                  MarkFiredFails, Finish
    <2>2. \A v \in Worker, q \in Row : fire'[v][q] # "none" => fire[v][q] # "none"
      BY <2>1 DEF Inv, TypeOK
    <2>3. due' = due \/ due' = [due EXCEPT ![r] = FALSE]
      BY <1>9 DEF Settle, Post, MarkTriggerFired, MarkTriggerRetryOrFail, RetryOrFail, MarkConflicts,
                  MarkFails, MarkFiredFails, rowVars
    <2>4. \A q \in Row : due'[q] = due[q] \/ due'[q] = FALSE BY <2>3 DEF Inv, TypeOK
    <2>. QED BY <2>2, <2>4, LeaseKept
  <1>. QED BY <1>1, <1>2, <1>3, <1>4, <1>5, <1>6, <1>7, <1>8, <1>9 DEF Next

(* While fires are marked within their lease, no two workers fire the same row at
   once: the 60 s that the claim adds to scheduled_at (db.ts), or a message that
   pushes it, keep the row from the others. *)
THEOREM FiredByOne == Spec => [](~MayStall => OneFirePerRow)
  <1>1. LeaseInv => OneFirePerRow
    <2>. SUFFICES ASSUME LeaseInv, NEW r \in Row
                  PROVE  Cardinality({w \in Worker : fire[w][r] # "none"}) <= 1
      BY DEF OneFirePerRow
    <2>1. CASE {w \in Worker : fire[w][r] # "none"} = {} BY <2>1, FS_EmptySet
    <2>2. CASE {w \in Worker : fire[w][r] # "none"} # {}
      <3>1. PICK v \in Worker : fire[v][r] # "none" BY <2>2
      <3>2. {w \in Worker : fire[w][r] # "none"} = {v} BY <3>1 DEF LeaseInv
      <3>3. Cardinality({v}) = 1 BY FS_Singleton, Zenon
      <3>. QED BY <3>2, <3>3
    <2>. QED BY <2>1, <2>2
  <1>2. Init => (~MayStall => LeaseInv) BY LeaseInit
  <1>3. Inv /\ (~MayStall => LeaseInv) /\ [Next]_vars => (~MayStall => LeaseInv)' BY LeaseStep
  <1>. QED BY <1>1, <1>2, <1>3, Invariance, PTL DEF Spec
=============================================================================
