------------------------------- MODULE Probes -------------------------------
(***************************************************************************)
(* Connection probes of one WhatsApp number (connection-probe*.ts). The    *)
(* Evolution may report a session "open" that no longer receives anything  *)
(* (a zombie): each tick of the probe loop sends the number a message with *)
(* a code and waits for it in the store or by webhook, twice, before the   *)
(* number is declared down by an outage of source "probe". Receipts,       *)
(* delivery statuses and connection.update events arrive late, in any      *)
(* order, twice or never, and a deploy runs two loops at once.             *)
(***************************************************************************)
EXTENDS Integers, Sequences, SequencesExt, FiniteSets, FiniteSetsExt

CONSTANTS Loop,
          MaxProbes,    \* bound: rows of connection_probes
          MaxTurns,     \* bound: times the session dies, drops or flaps
          MaxMessages,  \* bound: real messages the session receives
          MaxFaults     \* bound: crashes, failed calls, refused or unanswered sends

ASSUME ProbesAssumption == MaxProbes \in Nat \ {0} /\ MaxMessages \in Nat

VARIABLES
  session,    \* in the Evolution: [state, alive]; alive: it receives messages
  last,       \* the newest real message of its store, as its ordinal
  number,     \* [status, outage]: the row and its open instance_outages row
  probes,     \* connection_probes
  loop,       \* what each probe loop is at
  receipt,    \* per probe, what the handler of its receipt has still to do
  events,     \* connection.update events on their way, as the status they carry
  panel,      \* the reconnect route: idle, or between its logout and its UPDATE
  abandoned,  \* history: a fault cut short a worker about to close an episode
  turns, faults

vars == <<session, last, number, probes, loop, receipt, events, panel, abandoned, turns, faults>>

NoOutage == [source |-> "none", start |-> 0, by |-> 0]
Idle == [at |-> "idle"]

(* connecting is recorded as such; no condition tells it from disconnected. *)
TypeOK ==
  /\ session \in [state : {"open", "connecting", "close"}, alive : BOOLEAN]
  /\ session.alive => session.state = "open"
  /\ number \in [status : {"connected", "disconnected"},
                 outage : [source : {"none", "webhook", "probe"}, start : 0..MaxMessages, by : 0..MaxProbes]]
  /\ \A i \in DOMAIN probes : probes[i] \in
       [parent : 0..(i - 1), mark : 0..MaxMessages, sent : {"no", "yes", "failed"}, out : BOOLEAN, stored : BOOLEAN,
        cloud : {"none", "delivered", "failed"}, age : {"young", "waited", "late"}, received : BOOLEAN,
        verdict : {"none", "alive", "repeated", "pipeline_broken", "down", "send_failed", "inconclusive"}]
  /\ receipt \in [1..MaxProbes -> {"none", "children", "close"}]
  /\ events \subseteq {"connected", "disconnected"} /\ panel \in {"idle", "logged_out"}

Init ==
  /\ session = [state |-> "open", alive |-> TRUE] /\ last = 0
  /\ number = [status |-> "connected", outage |-> NoOutage]
  /\ probes = <<>> /\ receipt = [i \in 1..MaxProbes |-> "none"]
  /\ loop = [p \in Loop |-> Idle]
  /\ events = {} /\ panel = "idle" /\ abandoned = FALSE
  /\ turns = 0 /\ faults = 0

world == <<session, last, events, panel, turns>>
Goto(p, j) == loop' = [loop EXCEPT ![p] = j]
At(p, step) == loop[p].at = step
Open == {i \in DOMAIN probes : probes[i].verdict = "none"}
FirstOf(i) == IF probes[i].parent = 0 THEN i ELSE probes[i].parent

(* updateNumberStatus: leaving "connected" opens an outage unless one is open,
   reaching it closes whichever is open, a probe's included. *)
UpdateNumberStatus(status) ==
  number' = [status |-> status,
             outage |-> CASE status = "connected" /\ number.status # "connected" -> NoOutage
                          [] status # "connected" /\ number.status = "connected" /\ number.outage = NoOutage ->
                               [source |-> "webhook", start |-> last, by |-> 0]
                          [] OTHER -> number.outage]

CloseProbeEpisode ==
  number' = IF number.outage.source = "probe" THEN [number EXCEPT !.outage = NoOutage] ELSE number

\* A closed probe forgets its age and delivery status, which nothing reads.
Closed(row, v) ==
  IF row.verdict # "none" \/ v = "none" THEN row ELSE [row EXCEPT !.verdict = v, !.age = "young", !.cloud = "none"]
SetVerdict(i, v) == probes' = [probes EXCEPT ![i] = Closed(@, v)]

-----------------------------------------------------------------------------
(* One tick of the probe loop (runProbeTick): the verdict of the open probe. *)

DecideVerdict(row, seen) ==
  IF row.received THEN "alive"
  ELSE IF row.age = "young" THEN "wait"
  ELSE IF row.cloud = "failed" THEN "send_failed"
  ELSE IF seen THEN IF row.parent # 0 THEN "pipeline_broken" ELSE "repeated"
  ELSE IF row.cloud = "delivered" THEN IF row.parent # 0 THEN "down" ELSE "repeated"
  ELSE IF row.age = "late" THEN "inconclusive"
  ELSE "wait"

NextStage(p) == [at |-> "state", was |-> loop[p].was]
Return(p) == IF loop[p].then = "state" THEN NextStage(p) ELSE [at |-> loop[p].then]

(* The targets with their status, the open probe, and the store if it is needed. *)
Look(p) ==
  /\ At(p, "idle")
  /\ LET i == Min(Open)
         v == DecideVerdict(probes[i], probes[i].sent # "no" /\ probes[i].stored)
     IN Goto(p, IF Open = {} \/ v = "wait" THEN [at |-> "state", was |-> number.status]
                ELSE [at |-> "judge", was |-> number.status, probe |-> i, verdict |-> v])
  /\ UNCHANGED <<world, number, probes, receipt, abandoned, faults>>

(* The verdict that setVerdict leaves: a negative one yields to a receipt. *)
Materialised(i, v) == IF probes[i].received THEN "alive" ELSE v

(* What follows a verdict this tick wrote; "repeated" goes on only in the window. *)
After(p, i, v) ==
  CASE v = "alive" -> {[at |-> "close", was |-> loop[p].was, probe |-> i, then |-> "state"]}
    [] v = "repeated" -> {[at |-> "create", was |-> loop[p].was, parent |-> i, then |-> "state"], NextStage(p)}
    [] v = "down" -> {[at |-> "store", was |-> loop[p].was, probe |-> i]}
    [] OTHER -> {NextStage(p)}

Judge(p) ==
  /\ At(p, "judge")
  /\ LET i == loop[p].probe
         v == Materialised(i, loop[p].verdict)
     IN /\ SetVerdict(i, v)
        /\ IF probes[i].verdict = "none" \/ loop[p].verdict = "alive"
           THEN \E next \in After(p, i, v) : Goto(p, next)
           ELSE Goto(p, NextStage(p))
  /\ UNCHANGED <<world, number, receipt, abandoned, faults>>

(* Real traffic after the first probe was sent contradicts "down"; a store that
   cannot be read does not. *)
Store(p) ==
  /\ At(p, "store")
  /\ LET i == loop[p].probe
         mark == probes[FirstOf(i)].mark
         opening(start) == [at |-> "open", was |-> loop[p].was, probe |-> i, start |-> start]
     IN \/ Goto(p, IF last > mark THEN NextStage(p) ELSE opening(last)) /\ UNCHANGED faults
        \/ faults < MaxFaults /\ Goto(p, opening(mark)) /\ faults' = faults + 1
  /\ UNCHANGED <<world, number, probes, receipt, abandoned>>

OpenNumberProbeEpisode(p) ==
  /\ At(p, "open")
  /\ number' = IF number.outage # NoOutage THEN number
               ELSE [number EXCEPT !.outage = [source |-> "probe", start |-> loop[p].start, by |-> loop[p].probe]]
  /\ Goto(p, [at |-> "recheck", was |-> loop[p].was, probe |-> loop[p].probe])
  /\ UNCHANGED <<world, probes, receipt, abandoned, faults>>

Received(i) == probes[i].received \/ probes[FirstOf(i)].received

\* Mutant: only the second probe of the pair is looked at again.
RecheckSecond(p) ==
  /\ At(p, "recheck")
  /\ Goto(p, IF probes[loop[p].probe].received
             THEN [at |-> "close", was |-> loop[p].was, probe |-> loop[p].probe, then |-> "state"]
             ELSE NextStage(p))
  /\ UNCHANGED <<world, number, probes, receipt, abandoned, faults>>

(* A receipt may have found no episode to close: it is looked for again. *)
Recheck(p) ==
  /\ At(p, "recheck")
  /\ Goto(p, IF Received(loop[p].probe)
             THEN [at |-> "close", was |-> loop[p].was, probe |-> loop[p].probe, then |-> "state"]
             ELSE NextStage(p))
  /\ UNCHANGED <<world, number, probes, receipt, abandoned, faults>>

Close(p) ==
  /\ At(p, "close")
  /\ CloseProbeEpisode
  /\ Goto(p, Return(p))
  /\ UNCHANGED <<world, probes, receipt, abandoned, faults>>

-----------------------------------------------------------------------------
(* createAndSend: a first probe, or the repetition of a probe. *)

Create(p) ==
  /\ At(p, "create")
  /\ IF Open # {} \/ Len(probes) = MaxProbes  \* uq_connection_probes_open, or the bound
     THEN UNCHANGED probes /\ Goto(p, Return(p))
     ELSE /\ probes' = Append(probes, [parent |-> loop[p].parent, mark |-> last, sent |-> "no", out |-> FALSE,
                                       stored |-> FALSE, cloud |-> "none", age |-> "young", received |-> FALSE,
                                       verdict |-> "none"])
          /\ Goto(p, [at |-> "send", was |-> loop[p].was, probe |-> Len(probes) + 1, then |-> loop[p].then])
  /\ UNCHANGED <<world, number, receipt, abandoned, faults>>

(* The Cloud accepts, refuses, or accepts with its answer lost. *)
SendProbe(p) ==
  /\ At(p, "send")
  /\ \E out \in BOOLEAN, ok \in BOOLEAN :
       /\ ok => out
       /\ ~ok => faults < MaxFaults
       /\ probes' = [probes EXCEPT ![loop[p].probe].out = out]
       /\ faults' = IF ok THEN faults ELSE faults + 1
       /\ Goto(p, [loop[p] EXCEPT !.at = IF ok THEN "mark_sent" ELSE "mark_failed"])
  /\ UNCHANGED <<world, number, receipt, abandoned>>

\* Mutant: a failed send overrides what the receipt said.
SentUnread(row, failed) ==
  Closed([row EXCEPT !.sent = IF failed THEN "failed" ELSE "yes", !.mark = last, !.age = "young"],
         IF failed THEN "send_failed" ELSE "none")

(* sent_at = NOW() also restarts the age; a failure is a verdict of its own. *)
Sent(row, failed) ==
  Closed([row EXCEPT !.sent = IF failed THEN "failed" ELSE "yes", !.mark = last, !.age = "young"],
         IF failed /\ ~row.received THEN "send_failed" ELSE "none")

MarkProbeSent(p) ==
  /\ loop[p].at \in {"mark_sent", "mark_failed"}
  /\ probes' = [probes EXCEPT ![loop[p].probe] = Sent(@, At(p, "mark_failed"))]
  /\ Goto(p, Return(p))
  /\ UNCHANGED <<world, number, receipt, abandoned, faults>>

-----------------------------------------------------------------------------
(* The rest of the tick: reconcile the status read when it began, close the
   episode by traffic, and probe again if something is amiss. *)

\* Mutant: a lost "connected" event is not made up for.
ReconcileLost(was) == IF session.state = "close" /\ was = "connected" THEN "disconnected" ELSE "none"

ReconcileStatus(was) ==
  CASE session.state = "open" /\ was # "connected" -> "connected"
    [] session.state = "close" /\ was = "connected" -> "disconnected"
    [] OTHER -> "none"

State(p) ==
  /\ At(p, "state")
  /\ LET to == ReconcileStatus(loop[p].was)
         then == IF session.state = "open" THEN "traffic" ELSE "idle"
     IN Goto(p, IF to # "none" THEN [at |-> "status", to |-> to, then |-> then]
                ELSE IF then = "idle" THEN Idle ELSE [at |-> "traffic"])
  /\ UNCHANGED <<world, number, probes, receipt, abandoned, faults>>

Status(p) ==
  /\ At(p, "status")
  /\ UpdateNumberStatus(loop[p].to)
  /\ Goto(p, [at |-> loop[p].then])
  /\ UNCHANGED <<world, probes, receipt, abandoned, faults>>

Heard == number.outage.source = "probe" /\ number.outage.start < last

Traffic(p) ==
  /\ At(p, "traffic")
  /\ Goto(p, IF Heard THEN [at |-> "close", was |-> "connected", probe |-> 0, then |-> "trigger"]
             ELSE [at |-> "trigger"])
  /\ UNCHANGED <<world, number, probes, receipt, abandoned, faults>>

(* decideTrigger: whether the store is stale or quiet, and whether the verdicts
   of the day allow a probe, is left open. *)
Trigger(p) ==
  /\ At(p, "trigger")
  /\ \/ Goto(p, Idle)
     \/ /\ number.outage = NoOutage /\ Open = {} /\ Len(probes) < MaxProbes
        /\ Goto(p, [at |-> "create", was |-> "connected", parent |-> 0, then |-> "idle"])
  /\ UNCHANGED <<world, number, probes, receipt, abandoned, faults>>

(* A call that throws ends its probe's evaluation or its target's turn; a crash
   ends the tick. *)
StepFails(p) ==
  /\ ~At(p, "idle") /\ faults < MaxFaults
  /\ \/ Goto(p, Idle)
     \/ loop[p].at \in {"judge", "store", "open", "recheck"} /\ Goto(p, NextStage(p))
  /\ abandoned' = (abandoned \/ loop[p].at \in {"recheck", "close"})
  /\ faults' = faults + 1
  /\ UNCHANGED <<world, number, probes, receipt>>

Tick(p) ==
  \/ Look(p) \/ Judge(p) \/ Store(p) \/ OpenNumberProbeEpisode(p) \/ Recheck(p) \/ Close(p)
  \/ Create(p) \/ SendProbe(p) \/ MarkProbeSent(p) \/ State(p) \/ Status(p) \/ Traffic(p) \/ Trigger(p)

-----------------------------------------------------------------------------
(* Webhooks. handleProbeReceipt works through receipt[i]; the Evolution
   calls it once. *)

RecordProbeReceipt(i) ==
  /\ probes[i].stored /\ ~probes[i].received
  /\ probes' = [probes EXCEPT ![i].received = TRUE]
  /\ receipt' = [receipt EXCEPT ![i] = CASE probes[i].verdict = "repeated" -> "children"
                                         [] probes[i].verdict \in {"none", "alive"} -> "none"
                                         [] OTHER -> "close"]
  /\ UNCHANGED <<world, number, loop, abandoned, faults>>

ReviveChildren(i) ==
  /\ receipt[i] = "children"
  /\ probes' = [j \in DOMAIN probes |-> IF probes[j].parent = i THEN Closed(probes[j], "alive") ELSE probes[j]]
  /\ receipt' = [receipt EXCEPT ![i] = "close"]
  /\ UNCHANGED <<world, number, loop, abandoned, faults>>

CloseLate(i) ==
  /\ receipt[i] = "close"
  /\ CloseProbeEpisode
  /\ receipt' = [receipt EXCEPT ![i] = "none"]
  /\ UNCHANGED <<world, probes, loop, abandoned, faults>>

ReceiptFails(i) ==
  /\ receipt[i] # "none" /\ faults < MaxFaults
  /\ receipt' = [receipt EXCEPT ![i] = "none"]
  /\ abandoned' = TRUE /\ faults' = faults + 1
  /\ UNCHANGED <<world, number, probes, loop>>

(* recordCloudStatuses matches by wamid, which only an answered send has, and
   never lowers the rank; after the verdict nothing reads it. *)
Rank == [none |-> 0, delivered |-> 2, failed |-> 4]

RecordCloudStatus(i) ==
  /\ probes[i].out /\ probes[i].sent = "yes" /\ probes[i].verdict = "none"
  /\ \E s \in {"delivered", "failed"} :
       /\ Rank[s] > Rank[probes[i].cloud]
       /\ probes' = [probes EXCEPT ![i].cloud = s]
  /\ UNCHANGED <<world, number, receipt, loop, abandoned, faults>>

HandleConnectionEvent ==
  \E e \in events :
    /\ UpdateNumberStatus(e)
    /\ events' = events \ {e}
    /\ UNCHANGED <<session, last, panel, turns, probes, loop, receipt, abandoned, faults>>

(* The reconnect route drops a session that a probe proved dead. *)
ReconnectLink ==
  /\ panel = "idle" /\ session.state = "open" /\ number.outage.source = "probe"
  /\ session' = [state |-> "close", alive |-> FALSE]
  /\ events' = events \union {"disconnected"} /\ panel' = "logged_out"
  /\ UNCHANGED <<last, turns, number, probes, loop, receipt, abandoned, faults>>

MarkLoggedOut ==
  /\ panel = "logged_out" /\ panel' = "idle"
  /\ \/ UpdateNumberStatus("disconnected") /\ UNCHANGED faults
     \/ faults < MaxFaults /\ faults' = faults + 1 /\ UNCHANGED number
  /\ UNCHANGED <<session, last, events, turns, probes, loop, receipt, abandoned>>

-----------------------------------------------------------------------------
(* The session, the store and the clock. *)

Turn(s, sent) ==
  /\ session' = s /\ events' = events \union sent
  /\ UNCHANGED <<last, panel, number, probes, loop, receipt, abandoned, faults>>

SessionFails ==
  /\ turns < MaxTurns /\ turns' = turns + 1 /\ session.state = "open"
  /\ \/ session.alive /\ Turn([session EXCEPT !.alive = FALSE], {})
     \/ Turn([state |-> "connecting", alive |-> FALSE], {"disconnected"})
     \/ Turn([state |-> "close", alive |-> FALSE], {"disconnected"})

SessionOpens ==
  /\ session.state # "open" /\ UNCHANGED turns
  /\ \E a \in (IF session.state = "close" THEN {TRUE} ELSE BOOLEAN) : Turn([state |-> "open", alive |-> a], {"connected"})

MessageArrives ==
  /\ session.alive /\ last < MaxMessages
  /\ last' = last + 1
  /\ UNCHANGED <<session, events, panel, turns, number, probes, loop, receipt, abandoned, faults>>

ProbeArrives(i) ==
  /\ session.alive /\ probes[i].out /\ ~probes[i].stored
  /\ probes' = [probes EXCEPT ![i].stored = TRUE]
  /\ UNCHANGED <<world, number, loop, receipt, abandoned, faults>>

TimePasses(i) ==
  /\ probes[i].verdict = "none" /\ probes[i].age # "late"
  /\ probes' = [probes EXCEPT ![i].age = IF @ = "young" THEN "waited" ELSE "late"]
  /\ UNCHANGED <<world, number, loop, receipt, abandoned, faults>>

Next ==
  \/ \E p \in Loop : Tick(p) \/ StepFails(p)
  \/ \E i \in DOMAIN probes : \/ RecordProbeReceipt(i) \/ ReviveChildren(i) \/ CloseLate(i) \/ ReceiptFails(i)
                              \/ RecordCloudStatus(i) \/ ProbeArrives(i) \/ TimePasses(i)
  \/ HandleConnectionEvent \/ ReconnectLink \/ MarkLoggedOut
  \/ SessionFails \/ SessionOpens \/ MessageArrives

Spec == Init /\ [][Next]_vars

(* Loops run every few minutes, a webhook that was accepted runs to its end and
   time passes; nothing makes a status, a receipt or an event arrive. *)
Fairness ==
  /\ \A p \in Loop : WF_vars(Tick(p))
  /\ \A i \in 1..MaxProbes : /\ WF_vars(i \in DOMAIN probes /\ (ReviveChildren(i) \/ CloseLate(i)))
                             /\ WF_vars(i \in DOMAIN probes /\ TimePasses(i))
  /\ WF_vars(MarkLoggedOut)

FairSpec == Spec /\ Fairness

-----------------------------------------------------------------------------
(* A number whose probe, or the first probe of whose pair, was received is not
   left down by that pair, in whatever order receipt, verdict and opening of the
   episode come (handleProbeReceipt, evaluateProbe): unless a fault cut the work
   short, someone is about to close the episode. *)
ReceivedIsNotDown ==
  LET i == number.outage.by IN
  number.outage.source = "probe" /\ Received(i) =>
    \/ \E p \in Loop : loop[p].at \in {"recheck", "close"} /\ loop[p].probe = i
    \/ receipt[i] # "none" \/ receipt[FirstOf(i)] # "none"
    \/ abandoned

(* A verdict stands once given, and no negative one is given to a probe that was
   received, though the send that carried it may fail after it arrived
   (markProbeSent, setVerdict). *)
VerdictStands ==
  [][\A i \in DOMAIN probes :
       /\ probes[i].verdict # "none" => probes'[i].verdict = probes[i].verdict
       /\ probes[i].received /\ probes[i].verdict = "none" => probes'[i].verdict \in {"none", "alive"}]_vars

(* Whatever events were lost or came late, a session that stays alive ends up
   connected, with no probe episode older than its last message, and one that
   stays closed ends up not connected (reconcileStatus, runProbeTick). *)
Reconciled ==
  /\ <>[](session.alive) => <>[](number.status = "connected" /\ ~Heard)
  /\ <>[](session.state = "close") => <>[](number.status = "disconnected")
=============================================================================
