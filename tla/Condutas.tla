------------------------------ MODULE Condutas ------------------------------
(***************************************************************************)
(* The nights of the memory and what it publishes, for one workspace: the  *)
(* status, the weekly recap, and the conduta, the one document injected    *)
(* into agents, whose rules cite facts and which a person must approve.    *)
(* Extractions change facts at any time, for a bootstrap runs beside the   *)
(* night; how they do it is the subject of Memory. An extraction here      *)
(* inserts one fact and supersedes any that are in force.                  *)
(***************************************************************************)
EXTENDS Integers, Sequences, FiniteSets

CONSTANTS Container,     \* processes that run the scheduler: two in a deploy
          Fact,          \* facts that extractions may insert
          Nights,        \* bound: local dates
          Mondays,       \* nights from Sunday to Monday
          MaxOps,        \* bound: decisions of people
          MaxFaults      \* bound: crashes and failed calls

VARIABLES
  facts,     \* rows of facts, committed or not
  condutas,  \* rows of condutas, in order of their versions
  today,     \* the local date
  night,     \* lua_runs of kind nightly, by date
  status,    \* facts cited by the latest project_status
  recaps,    \* Mondays whose week has a recap
  run,       \* what the scheduler of each container does
  ops, faults

vars == <<facts, condutas, today, night, status, recaps, run, ops, faults>>

Idle == [at |-> "idle"]

(* kills are the facts that an open transaction supersedes, marks the condutas
   whose rules it flags for them; fresh is created_at > created_at of the last conduta.
   blind holds the cited facts that had lost their force, or were losing it, when
   the conduta was approved. *)
FactRow == [state : {"unborn", "open", "live", "superseded", "manual"}, kills : SUBSET Fact,
            marks : SUBSET Nat, review : BOOLEAN, fresh : BOOLEAN]
CondutaRow == [status : {"proposed", "active", "rejected", "superseded"}, cites : SUBSET Fact,
               flagged : SUBSET Fact, blind : SUBSET Fact]
NightRun == [at : {"drain", "status", "publish", "recap", "write", "propose", "persist", "finish"},
             date : Nat, touched : BOOLEAN, due : BOOLEAN,
             gone : SUBSET Fact, pub : SUBSET Fact, cites : SUBSET Fact]

TypeOK ==
  /\ facts \in [Fact -> FactRow] /\ condutas \in Seq(CondutaRow)
  /\ today \in Nat /\ night \in [1..Nights -> {"none", "running", "done", "failed"}]
  /\ status \subseteq Fact /\ recaps \subseteq Nat
  /\ run \in [Container -> NightRun \cup {Idle}]
  /\ ops \in Nat /\ faults \in Nat

Init ==
  /\ facts = [f \in Fact |-> [state |-> "unborn", kills |-> {}, marks |-> {},
                              review |-> FALSE, fresh |-> TRUE]]
  /\ condutas = <<>> /\ today = 1 /\ night = [d \in 1..Nights |-> "none"]
  /\ status = {} /\ recaps = {} /\ run = [w \in Container |-> Idle] /\ ops = 0 /\ faults = 0

InState(s) == {f \in Fact : facts[f].state = s}
InForce == InState("live")
Dying == UNION {facts[f].kills : f \in InState("open")}

-----------------------------------------------------------------------------
(* Extractions. The rules of the conduta in force that cite the superseded   *)
(* fact are flagged in the same transaction, as it sees them then.           *)

\* Mutant: the newest version is taken for the one in force.
FlagNewestRulesCiting(kills) ==
  {c \in DOMAIN condutas : c = Len(condutas) /\ kills \cap condutas[c].cites # {}}
FlagCondutaRulesCiting(kills) ==
  {c \in DOMAIN condutas : condutas[c].status = "active" /\ kills \cap condutas[c].cites # {}}

Extract(f) ==
  /\ facts[f].state = "unborn"
  /\ \E kills \in SUBSET (InForce \ Dying) :
       facts' = [facts EXCEPT ![f].state = "open", ![f].kills = kills,
                              ![f].marks = FlagCondutaRulesCiting(kills)]
  /\ UNCHANGED <<condutas, today, night, status, recaps, run, ops, faults>>

\* The commit makes the episode done, after the start of every open run.
CommitFacts(f) ==
  LET row == facts[f] IN
  /\ row.state = "open"
  /\ \E review \in BOOLEAN :
       facts' = [g \in Fact |->
         IF g = f THEN [row EXCEPT !.state = "live", !.kills = {}, !.marks = {}, !.review = review]
         ELSE IF g \in row.kills THEN [facts[g] EXCEPT !.state = "superseded"] ELSE facts[g]]
  /\ condutas' = [c \in DOMAIN condutas |->
       IF c \in row.marks THEN [condutas[c] EXCEPT !.flagged = @ \cup (row.kills \cap condutas[c].cites)] ELSE condutas[c]]
  /\ run' = [w \in Container |-> IF run[w] = Idle THEN Idle ELSE [run[w] EXCEPT !.touched = TRUE]]
  /\ UNCHANGED <<today, night, status, recaps, ops, faults>>

-----------------------------------------------------------------------------
(* The night. due and gone are its ghosts: an episode was done before the    *)
(* derivatives, and the facts that had lost their force by then.             *)

\* The insertion is the claim.
ClaimNight(w) ==
  /\ run[w] = Idle /\ night[today] = "none"
  /\ night' = [night EXCEPT ![today] = "running"]
  /\ run' = [run EXCEPT ![w] = [at |-> "drain", date |-> today, touched |-> FALSE, due |-> FALSE,
                                gone |-> {}, pub |-> {}, cites |-> {}]]
  /\ UNCHANGED <<facts, condutas, today, status, recaps, ops, faults>>

DrainQueue(w) ==
  /\ run[w].at = "drain"
  /\ run' = [run EXCEPT ![w].at = "status", ![w].due = run[w].touched,
                        ![w].gone = InState("superseded") \cup InState("manual")]
  /\ UNCHANGED <<facts, condutas, today, night, status, recaps, ops, faults>>

\* Only what comes before the derivatives can fail the night.
NightFails(w) ==
  /\ run[w].at = "drain" /\ faults < MaxFaults /\ faults' = faults + 1
  /\ night' = [night EXCEPT ![run[w].date] = "failed"] /\ run' = [run EXCEPT ![w] = Idle]
  /\ UNCHANGED <<facts, condutas, today, status, recaps, ops>>

FinishRun(w) ==
  /\ run[w].at = "finish"
  /\ \E outcome \in {"done", "failed"} : night' = [night EXCEPT ![run[w].date] = outcome]
  /\ run' = [run EXCEPT ![w] = Idle]
  /\ UNCHANGED <<facts, condutas, today, status, recaps, ops, faults>>

\* The night stays "running".
Crash(w) ==
  /\ run[w] # Idle /\ faults < MaxFaults /\ faults' = faults + 1 /\ run' = [run EXCEPT ![w] = Idle]
  /\ UNCHANGED <<facts, condutas, today, night, status, recaps, ops>>

-----------------------------------------------------------------------------
(* Stage C: the status every night, recap and proposal on Mondays. What     *)
(* throws there is logged, and the rest goes on.                            *)

\* Mutant: only facts that name the run count, and the pipeline names none.
ChangedByRunId(w) == FALSE
\* An episode was done since the run started.
ChangedInRun(w) == run[w].touched

AfterStatus(w) == IF run[w].date \in Mondays THEN "recap" ELSE "finish"
Publishable == {f \in InForce : ~facts[f].review}

GenerateStatus(w) ==
  /\ run[w].at = "status"
  /\ run' = [run EXCEPT ![w].pub = Publishable,
       ![w].at = IF ChangedInRun(w) /\ Publishable # {} THEN "publish" ELSE AfterStatus(w)]
  /\ UNCHANGED <<facts, condutas, today, night, status, recaps, ops, faults>>

InsertProjectStatus(w) ==
  /\ run[w].at = "publish"
  /\ status' = run[w].pub /\ run' = [run EXCEPT ![w].at = AfterStatus(w)]
  /\ UNCHANGED <<facts, condutas, today, night, recaps, ops, faults>>

\* The week had an episode or a fact, and has no recap yet.
GenerateRecap(w) ==
  /\ run[w].at = "recap"
  /\ run' = [run EXCEPT ![w].at =
       IF run[w].date \notin recaps /\ InState("live") \cup InState("superseded") # {}
       THEN "write" ELSE "propose"]
  /\ UNCHANGED <<facts, condutas, today, night, status, recaps, ops, faults>>

InsertRecap(w) ==
  /\ run[w].at = "write"
  /\ recaps' = recaps \cup {run[w].date} /\ run' = [run EXCEPT ![w].at = "propose"]
  /\ UNCHANGED <<facts, condutas, today, night, status, ops, faults>>

Eligible == {f \in InForce : facts[f].fresh}

\* Silence without news; otherwise the proposal cites facts it was shown.
ProposeConduta(w) ==
  /\ run[w].at = "propose"
  /\ IF Eligible = {} THEN run' = [run EXCEPT ![w].at = "finish"]
     ELSE \E cites \in SUBSET Eligible :
            run' = [run EXCEPT ![w].at = "persist", ![w].cites = cites]
  /\ UNCHANGED <<facts, condutas, today, night, status, recaps, ops, faults>>

ValidateCitations(w) == run[w].cites \subseteq InForce
\* The pending proposal is rejected before the new one is inserted.
RejectPending(rows) ==
  [c \in DOMAIN rows |-> IF rows[c].status = "proposed" THEN [rows[c] EXCEPT !.status = "rejected"] ELSE rows[c]]
InsertProposed(rows, cites) ==
  Append(rows, [status |-> "proposed", cites |-> cites, flagged |-> {}, blind |-> {}])

\* A fact that lost its force in the meantime discards the whole proposal.
PersistProposal(w) ==
  /\ run[w].at = "persist" /\ run' = [run EXCEPT ![w].at = "finish"]
  /\ IF ValidateCitations(w)
     THEN /\ condutas' = InsertProposed(RejectPending(condutas), run[w].cites)
          /\ facts' = [f \in Fact |-> [facts[f] EXCEPT !.fresh = facts[f].state = "unborn"]]
     ELSE UNCHANGED <<condutas, facts>>
  /\ UNCHANGED <<today, night, status, recaps, ops, faults>>

DerivativeFails(w) ==
  /\ run[w].at \in {"publish", "write", "persist"} /\ faults < MaxFaults /\ faults' = faults + 1
  /\ run' = [run EXCEPT ![w].due = @ /\ run[w].at # "publish",
       ![w].at = CASE @ = "publish" -> AfterStatus(w) [] @ = "write" -> "propose" [] OTHER -> "finish"]
  /\ UNCHANGED <<facts, condutas, today, night, status, recaps, ops>>

-----------------------------------------------------------------------------
(* People. *)

Act == ops < MaxOps /\ ops' = ops + 1
Losing == Fact \ (InForce \ Dying)

\* Nothing is asked of the status of the conduta: only that it exists.
SupersedeActive(rows, except) ==
  [c \in DOMAIN rows |-> IF rows[c].status = "active" /\ c # except
                         THEN [rows[c] EXCEPT !.status = "superseded"] ELSE rows[c]]
ApproveConduta(c) ==
  /\ Act
  /\ condutas' = [SupersedeActive(condutas, c) EXCEPT
       ![c].status = "active", ![c].blind = @ \cup (condutas[c].cites \cap Losing)]
  /\ UNCHANGED <<facts, today, night, status, recaps, run, faults>>

RejectConduta(c) ==
  /\ Act /\ condutas' = [condutas EXCEPT ![c].status = "rejected"]
  /\ UNCHANGED <<facts, today, night, status, recaps, run, faults>>

DeleteRecap(d) ==
  /\ Act /\ recaps' = recaps \ {d}
  /\ UNCHANGED <<facts, condutas, today, night, status, run, faults>>

ResolveFact(f) ==
  /\ Act /\ f \in InForce \ Dying
  /\ \/ facts' = [facts EXCEPT ![f].state = "manual", ![f].review = FALSE]
     \/ facts' = [facts EXCEPT ![f].review = FALSE]
  /\ UNCHANGED <<condutas, today, night, status, recaps, run, faults>>

\* A night is over before the next one: the window closes, and the calls to the
\* model time out.
NextDay ==
  /\ today < Nights /\ \A w \in Container : run[w] = Idle
  /\ today' = today + 1
  /\ UNCHANGED <<facts, condutas, night, status, recaps, run, ops, faults>>

Night(w) ==
  \/ ClaimNight(w) \/ DrainQueue(w) \/ NightFails(w) \/ FinishRun(w) \/ Crash(w)
  \/ GenerateStatus(w) \/ InsertProjectStatus(w) \/ GenerateRecap(w) \/ InsertRecap(w)
  \/ ProposeConduta(w) \/ PersistProposal(w) \/ DerivativeFails(w)
Next ==
  \/ \E f \in Fact : Extract(f) \/ CommitFacts(f) \/ ResolveFact(f)
  \/ \E w \in Container : Night(w)
  \/ \E c \in DOMAIN condutas : ApproveConduta(c) \/ RejectConduta(c)
  \/ \E d \in recaps : DeleteRecap(d)
  \/ NextDay
Spec == Init /\ [][Next]_vars

-----------------------------------------------------------------------------
(* Properties. *)

(* A rule of the conduta in force never rests silently on a fact that the memory
   has superseded: it is flagged for review, unless the fact had lost its force,
   or was losing it, when a person approved the conduta. Facts that a person
   retired are not counted: that person knew (reconcile.ts, flagCondutaRulesCiting;
   condutas.ts). *)
RulesFollowFacts ==
  \A c \in DOMAIN condutas : condutas[c].status = "active" =>
    InState("superseded") \cap condutas[c].cites \subseteq condutas[c].flagged \cup condutas[c].blind

(* After a night in which an episode was done, the published status cites no fact
   that had lost its force before the status was due, unless the call failed or
   there was nothing to publish (scheduler.ts, narrativa.ts): in that last case
   the old status stays. *)
StatusFollowsNight ==
  [][\A w \in Container :
       run[w].at = "finish" /\ run'[w].at = "idle" /\ night' # night /\ run[w].due =>
         status \cap run[w].gone = {} \/ run[w].pub = {}]_vars
=============================================================================
