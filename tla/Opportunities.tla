--------------------------- MODULE Opportunities ---------------------------
(***************************************************************************)
(* The CRM of one WhatsApp conversation: its triage (is_lead) and its      *)
(* opportunities, written by people through the routes, by the creation    *)
(* and auto-loss sweeps, and by the daily AI judgment. Every writer takes  *)
(* the conversation's advisory lock for one transaction, but a sweep picks *)
(* its candidates, and a judgment reads what it shows the model, before    *)
(* it has the lock: much may happen in between.                            *)
(***************************************************************************)
EXTENDS Integers, Sequences, FiniteSets, FiniteSetsExt

CONSTANTS Judge,        \* containers that run the daily judgment
          MaxOpps,      \* bound: opportunities ever created
          MaxMessages,  \* bound: messages of the conversation
          MaxWrites,    \* bound: requests of people
          MaxFaults     \* bound: crashes, failed calls of the model

ASSUME CrmAssumption ==
  /\ MaxOpps \in Nat /\ MaxMessages \in Nat \ {0}
  /\ MaxWrites \in Nat /\ MaxFaults \in Nat

VARIABLES
  crm,     \* [opps, lead, ruled]: whatsapp_opportunities in order of creation,
           \* is_lead, and whether a person has set it (whatsapp_thread_meta_log)
  idle,    \* opportunities without activity for auto_loss_days
  last,    \* ordinal of the conversation's newest message
  judged,  \* newest input_last_message_at of whatsapp_ai_judgments
  job,     \* what each judge has of the conversation: nothing, its name, what it read
  creating, closing,  \* candidates of the two sweeps
  writes, faults

vars == <<crm, idle, last, judged, job, creating, closing, writes, faults>>

Status == {"open", "won", "lost", "deleted"}
Ternary == {"unknown", "yes", "no"}
Idle == [at |-> "idle"]
Picked == [at |-> "picked"]
Id == 1..MaxOpps

(* set: the dimensions a person has set, as whatsapp_opportunity_events tells. *)
Opp == [status : Status, qualified : Ternary, set : SUBSET {"status", "qualified"}]

(* What a judge read, and whether a row it read has been updated since. *)
Snapshot == [last : 1..last, open : 0..MaxOpps, closed : 0..MaxOpps, touched : BOOLEAN]

TypeOK ==
  /\ crm \in [opps : Seq(Opp), lead : Ternary, ruled : BOOLEAN] /\ Len(crm.opps) <= MaxOpps
  /\ idle \subseteq DOMAIN crm.opps /\ last \in 1..MaxMessages /\ judged \in 0..last
  /\ job \in [Judge -> Snapshot \cup {Idle, Picked}]
  /\ creating \in BOOLEAN /\ closing \subseteq DOMAIN crm.opps
  /\ writes \in 0..MaxWrites /\ faults \in 0..MaxFaults

Init ==
  /\ crm = [opps |-> <<>>, lead |-> "unknown", ruled |-> FALSE]
  /\ idle = {} /\ last = 1 /\ judged = 0
  /\ job = [j \in Judge |-> Idle] /\ creating = FALSE /\ closing = {}
  /\ writes = 0 /\ faults = 0

WithStatus(c, wanted) == {i \in DOMAIN c.opps : c.opps[i].status \in wanted}
OpenOf(c) == WithStatus(c, {"open"})
Latest(ids) == IF ids = {} THEN 0 ELSE Max(ids)
OpenOpp(c) == Latest(OpenOf(c))
LastClosedOpp(c) == Latest(WithStatus(c, {"won", "lost"}))

-----------------------------------------------------------------------------
(* The kernel (applyOppPatchV3) and what is written with it. "keep" is an
   absent key of the patch. *)

Refused(opp, patch) ==
  patch.qualified = "no" /\ (patch.status \notin {"keep", "lost"} \/ opp.status = "won")

Next_(opp, patch) ==
  LET status == IF patch.status # "keep" THEN patch.status
                ELSE IF patch.qualified = "no" THEN "lost" ELSE opp.status
      qualified == IF status = "won" THEN "yes"
                   ELSE IF patch.qualified # "keep" THEN patch.qualified
                   ELSE IF opp.status = "lost" /\ status = "open" /\ opp.qualified = "no" THEN "unknown"
                   ELSE opp.qualified
  IN [opp EXCEPT !.status = status, !.qualified = qualified]

(* Only a change is logged, and only a person's log entry counts later. *)
Logged(old, new, person) ==
  [new EXCEPT !.set = @ \cup IF ~person THEN {} ELSE
                {d \in {"status", "qualified"} : old[d] # new[d]}]

ApplyThreadLead(c, value, person) ==
  [c EXCEPT !.lead = value, !.ruled = @ \/ (person /\ c.lead # value)]

ApplyOppPatch(c, i, patch, person) ==
  LET next == Next_(c.opps[i], patch)
      patched == [c EXCEPT !.opps[i] = Logged(@, next, person)]
  IN IF next.status = "won" \/ patch.qualified \in {"yes", "no"}
     THEN ApplyThreadLead(patched, "yes", person) ELSE patched

InsertOpportunity(c, qualified) ==
  [c EXCEPT !.opps = Append(@, [status |-> "open", qualified |-> qualified, set |-> {}])]

(* cascadeNotLead closes what is open; applyLeadUpdate is refused after a sale. *)
CascadeNotLead(c) ==
  [c EXCEPT !.opps = [i \in DOMAIN @ |-> IF @[i].status = "open" THEN [@[i] EXCEPT !.status = "lost"] ELSE @[i]]]
Sold(c) == WithStatus(c, {"won"}) # {}

ApplyLeadUpdate(c, value, person) ==
  ApplyThreadLead(IF value = "no" THEN CascadeNotLead(c) ELSE c, value, person)

HasRead(j) == job[j] \notin {Idle, Picked}

(* A committed transaction; the judges' snapshots of the rows it updated are old. *)
Updated(new) ==
  {i \in DOMAIN crm.opps : \/ new.opps[i].status # crm.opps[i].status
                           \/ new.opps[i].qualified # crm.opps[i].qualified}
Aging(new) == [j \in Judge |->
  IF HasRead(j) /\ {job[j].open, job[j].closed} \cap Updated(new) # {}
  THEN [job[j] EXCEPT !.touched = TRUE] ELSE job[j]]
Commit(new) == crm' = new /\ job' = Aging(new)

-----------------------------------------------------------------------------
(* People, through the routes. The unique index idx_opp_open_pair refuses what
   would leave two open. *)

Person == writes < MaxWrites /\ writes' = writes + 1
Allowed(new) == Cardinality(OpenOf(new)) <= 1

CreateOpportunity ==
  /\ Person /\ Len(crm.opps) < MaxOpps
  /\ OpenOf(crm) = {}
  /\ \E qualified \in {"unknown", "yes"} :
       LET new == InsertOpportunity(crm, qualified)
       IN Commit(IF qualified = "yes" THEN ApplyThreadLead(new, "yes", TRUE) ELSE new)
  /\ UNCHANGED <<idle, last, judged, creating, closing, faults>>

Patches == [status : {"keep", "open", "won", "lost"}, qualified : Ternary \cup {"keep"}]

PatchOpportunity ==
  /\ Person
  /\ \E i \in WithStatus(crm, {"open", "won", "lost"}), patch \in Patches :
       /\ ~Refused(crm.opps[i], patch)
       /\ LET new == ApplyOppPatch(crm, i, patch, TRUE)
          IN Allowed(new) /\ new # crm /\ Commit(new)
  /\ UNCHANGED <<idle, last, judged, creating, closing, faults>>

(* A column of the board: the patch that leads to it and its triage. *)
Columns ==
  [novas_conversas |-> [status |-> "open", qualified |-> "unknown", lead |-> "unknown"],
   interessados |-> [status |-> "open", qualified |-> "unknown", lead |-> "yes"],
   negociacoes |-> [status |-> "open", qualified |-> "yes", lead |-> "yes"],
   ganhos |-> [status |-> "won", qualified |-> "keep", lead |-> "yes"]]

MoveOpportunity ==
  /\ Person
  /\ \E i \in WithStatus(crm, {"open", "won", "lost"}), column \in DOMAIN Columns :
       LET to == Columns[column]
           new == ApplyThreadLead(ApplyOppPatch(crm, i, [status |-> to.status, qualified |-> to.qualified], TRUE), to.lead, TRUE)
       IN Allowed(new) /\ new # crm /\ Commit(new)
  /\ UNCHANGED <<idle, last, judged, creating, closing, faults>>

DeleteOpportunity ==
  /\ Person
  /\ \E i \in WithStatus(crm, {"open", "won", "lost"}) : Commit([crm EXCEPT !.opps[i].status = "deleted"])
  /\ UNCHANGED <<idle, last, judged, creating, closing, faults>>

SetLeadStatus ==
  /\ Person
  /\ \E value \in Ternary :
       LET new == ApplyLeadUpdate(crm, value, TRUE)
       IN (value = "no" => ~Sold(crm)) /\ new # crm /\ Commit(new)
  /\ UNCHANGED <<idle, last, judged, creating, closing, faults>>

-----------------------------------------------------------------------------
(* The creation sweep: conversations that never had an opportunity. *)

Rows(c) == WithStatus(c, Status \ {"deleted"})

FindUnopened ==
  /\ ~creating /\ crm.lead # "no" /\ Rows(crm) = {} /\ Len(crm.opps) < MaxOpps
  /\ creating' = TRUE
  /\ UNCHANGED <<crm, idle, last, judged, job, closing, writes, faults>>

\* Mutant: the count is not repeated under the lock.
OpensBlind == TRUE

Opens == Rows(crm) = {}

CreateFromSweep ==
  /\ creating /\ creating' = FALSE
  /\ IF Opens /\ Len(crm.opps) < MaxOpps THEN Commit(InsertOpportunity(crm, "unknown")) ELSE UNCHANGED <<crm, job>>
  /\ UNCHANGED <<idle, last, judged, closing, writes, faults>>

(* The auto-loss sweep: open, idle, and triaged, for the workspace has the AI on. *)
FindIdle ==
  /\ closing = {} /\ crm.lead = "yes"
  /\ closing' = OpenOf(crm) \cap idle /\ closing' # {}
  /\ UNCHANGED <<crm, idle, last, judged, job, creating, writes, faults>>

\* Mutant: only the silence is looked at again.
GuardSilence(i) == i \in idle

(* autoLossGuard, under the lock. *)
Guard(i) == crm.opps[i].status = "open" /\ i \in idle

AutoLoss ==
  /\ closing # {}
  /\ LET i == Min(closing)
     IN /\ closing' = closing \ {i}
        /\ IF Guard(i) THEN Commit(ApplyOppPatch(crm, i, [status |-> "lost", qualified |-> "keep"], FALSE))
           ELSE UNCHANGED <<crm, job>>
  /\ UNCHANGED <<idle, last, judged, creating, writes, faults>>

-----------------------------------------------------------------------------
(* The daily judgment: list what is pending, and then for one conversation after
   the other read, ask the model, apply under the lock. Whether the conversation
   is a lead, and whether it has been judged, is asked of the list alone. *)

PickPending(j) ==
  /\ job[j] = Idle /\ judged < last /\ crm.lead # "no"
  /\ job' = [job EXCEPT ![j] = Picked]
  /\ UNCHANGED <<crm, idle, last, judged, creating, closing, writes, faults>>

BuildJudgmentContext(j) ==
  /\ job[j] = Picked
  /\ job' = [job EXCEPT ![j] = [last |-> last, open |-> OpenOpp(crm), closed |-> LastClosedOpp(crm), touched |-> FALSE]]
  /\ UNCHANGED <<crm, idle, last, judged, creating, closing, writes, faults>>

(* A newer message, or either opportunity is another or was updated. *)
Stale(s) ==
  \/ s.last < last
  \/ s.open # OpenOpp(crm) \/ s.closed # LastClosedOpp(crm)
  \/ s.touched

(* What the model may answer, and what parseJudgmentDecision lets through of it. *)
Decision == [triage : {"none", "lead", "not_lead"}, status : {"keep", "won", "lost"},
             qualified : {"keep", "yes", "no"}, closed : {"none", "reabrir", "criar_nova"}]

ParseJudgmentDecision(d, s) ==
  /\ s.open = 0 => d.status = "keep" /\ d.qualified = "keep"
  /\ d.closed # "none" => s.open = 0 /\ s.closed # 0

\* Mutant: the locks are those of an opportunity nobody has written to.
NoSticky(s) == [lead |-> FALSE, set |-> {}]

(* computeSticky of the open opportunity, or else of the last closed one. *)
Sticky(s) ==
  LET i == IF s.open # 0 THEN s.open ELSE s.closed
  IN [lead |-> crm.ruled, set |-> IF i = 0 THEN {} ELSE crm.opps[i].set]

ApplyTriage(c, d, sticky) ==
  IF sticky.lead \/ d.triage = "none" \/ (d.triage = "not_lead" /\ Sold(c)) THEN c
  ELSE ApplyLeadUpdate(c, IF d.triage = "lead" THEN "yes" ELSE "no", FALSE)

PatchOpen(c, d, sticky) ==
  LET i == OpenOpp(c)
      patch == [status |-> IF "status" \in sticky.set THEN "keep" ELSE d.status,
                qualified |-> IF "qualified" \in sticky.set THEN "keep" ELSE d.qualified]
  IN IF i = 0 \/ Refused(c.opps[i], patch) THEN c ELSE ApplyOppPatch(c, i, patch, FALSE)

\* Mutant: a sale is reopened too.
ReopensAny(c, i, sticky) == "status" \notin sticky.set

Reopens(c, i, sticky) == c.opps[i].status = "lost" /\ "status" \notin sticky.set

ClosedAction(c, d, sticky) ==
  LET i == LastClosedOpp(c) IN
  IF OpenOf(c) # {} THEN c
  ELSE IF d.closed = "reabrir" /\ i # 0 /\ Reopens(c, i, sticky)
  THEN ApplyOppPatch(c, i, [status |-> "open", qualified |-> "keep"], FALSE)
  ELSE IF d.closed = "criar_nova" /\ Len(c.opps) < MaxOpps THEN InsertOpportunity(c, "unknown")
  ELSE c

(* What a judgment with snapshot s may leave. *)
Applied(s) ==
  LET sticky == Sticky(s)
  IN {ClosedAction(PatchOpen(ApplyTriage(crm, d, sticky), d, sticky), d, sticky) :
        d \in {d \in Decision : ParseJudgmentDecision(d, s)}}

ApplyJudgment(j) ==
  /\ HasRead(j)
  /\ \/ /\ Stale(job[j]) \/ judged = last
        /\ job' = [job EXCEPT ![j] = Idle] /\ UNCHANGED <<crm, judged>>
     \/ /\ ~Stale(job[j]) /\ judged < last /\ judged' = last
        /\ crm' \in Applied(job[j]) /\ job' = [Aging(crm') EXCEPT ![j] = Idle]
  /\ UNCHANGED <<idle, last, creating, closing, writes, faults>>

(* An answer that cannot be parsed is recorded without effect, unless a message
   has come since. *)
RecordUnapplied(j) ==
  /\ HasRead(j) /\ faults < MaxFaults /\ faults' = faults + 1
  /\ judged' = IF job[j].last < last THEN judged ELSE last
  /\ job' = [job EXCEPT ![j] = Idle]
  /\ UNCHANGED <<crm, idle, last, creating, closing, writes>>

(* The call fails or the container stops. *)
JudgmentLost(j) ==
  /\ job[j] # Idle /\ faults < MaxFaults /\ faults' = faults + 1
  /\ job' = [job EXCEPT ![j] = Idle]
  /\ UNCHANGED <<crm, idle, last, judged, creating, closing, writes>>

-----------------------------------------------------------------------------
(* The conversation and the clock. *)

MessageArrives ==
  /\ last < MaxMessages /\ last' = last + 1 /\ idle' = {}
  /\ UNCHANGED <<crm, judged, job, creating, closing, writes, faults>>

DaysPass ==
  /\ idle # DOMAIN crm.opps /\ idle' = DOMAIN crm.opps
  /\ UNCHANGED <<crm, last, judged, job, creating, closing, writes, faults>>

Next ==
  \/ CreateOpportunity \/ PatchOpportunity \/ MoveOpportunity \/ DeleteOpportunity \/ SetLeadStatus
  \/ FindUnopened \/ CreateFromSweep \/ FindIdle \/ AutoLoss
  \/ \E j \in Judge : PickPending(j) \/ BuildJudgmentContext(j) \/ ApplyJudgment(j) \/ RecordUnapplied(j) \/ JudgmentLost(j)
  \/ MessageArrives \/ DaysPass

Spec == Init /\ [][Next]_vars

-----------------------------------------------------------------------------
\* What a step tells of its author: only a request counts as one, and only a
\* judgment moves the watermark.
HumanActs == writes' # writes
AiActs == judged' # judged

(* A conversation has one open opportunity at most, whoever of sweep, judgment and
   people creates or reopens one, each after what it read may be old
   (createOpportunityV3, applyJudgment, idx_opp_open_pair as the people's net). *)
OneOpen == Cardinality(OpenOf(crm)) <= 1

(* A sale stands until a person says otherwise: neither the sweep that read the
   opportunity while it was open nor a judgment reopens, loses or replaces it
   (autoLossGuard, reabrir_ganho, LeadCascadeGanhoError). *)
SaleStands ==
  [][\A i \in DOMAIN crm.opps : crm.opps[i].status = "won" /\ crm'.opps[i].status # "won" => HumanActs]_vars

\* What no person ruled out is ruled out once more: the sweep listed it before.
RuledOutAgain == crm.lead = "no" /\ crm'.lead = "no" /\ ~crm.ruled

(* Where a person has written, the judgment writes only in the wake of something no
   person has decided: a status follows a disqualification or the triage, also the
   triage of a judgment that rules out what another has ruled out since the first
   listed it (and so closes what a person reopened between the two); a
   qualification follows a sale, the triage follows a judged opportunity, never
   rules the conversation out (computeSticky, applyOppPatchV3, PENDING_SQL). *)
CascadesOnly ==
  [][AiActs =>
       /\ \A i \in DOMAIN crm.opps :
            LET old == crm.opps[i]
                new == crm'.opps[i]
            IN /\ "status" \in old.set /\ new.status # old.status =>
                    \/ new.qualified # old.qualified \/ crm'.lead # crm.lead
                    \/ RuledOutAgain /\ old.status = "open" /\ new.status = "lost"
               /\ "qualified" \in old.set /\ new.qualified # old.qualified => new.status # old.status
       /\ crm.ruled /\ crm'.lead # crm.lead =>
            crm'.lead = "yes" /\ \E i \in OpenOf(crm) : crm'.opps[i].qualified # "unknown"]_vars

(* ai-sticky.ts:4-5, "A IA nunca escreve uma dimensao que um humano ja escreveu
   naquela opp/thread". *)
HumanPrevails ==
  [][AiActs =>
       /\ \A i \in DOMAIN crm.opps : \A d \in crm.opps[i].set : crm'.opps[i][d] = crm.opps[i][d]
       /\ crm.ruled => crm'.lead = crm.lead]_vars

(* No opportunity stays open out of sight: the board hides a conversation that is
   not a lead, and neither the auto-loss sweep nor the judgment looks at it again. *)
NoHiddenOpen == crm.lead = "no" => OpenOf(crm) = {}
=============================================================================
