------------------------------ MODULE Notices ------------------------------
(***************************************************************************)
(* Outage episodes of one WhatsApp instance and the notices they cause     *)
(* (down-notify*.ts). A watcher of a SYSTEM instance opens an episode on   *)
(* its second sight of a fallen state (planEpisode); a NUMBER's episodes   *)
(* follow its connection events (updateNumberStatus); a probe may prove    *)
(* either down while the Evolution calls it open. Watchers, two during a   *)
(* deploy, claim each notice by its number, send it and give the number    *)
(* back when the send fails.                                               *)
(***************************************************************************)
EXTENDS Integers, FiniteSets, FiniteSetsExt

CONSTANTS Watcher,
          MaxNotices,   \* cadence.maxNotifies
          MaxTurns,     \* bound: state changes and confirmed probes
          MaxMessages,  \* bound: real messages in the store
          MaxFaults     \* bound: crashes, failed or unanswered sends, repeated events

VARIABLES
  kind,     \* "system" or "number"
  state,    \* of the session in the Evolution
  store,    \* ordinal of the newest real message
  row,      \* system_instance_health, or the columns of whatsapp_numbers
  outage,   \* source of the open instance_outages row, or "none"
  watch,    \* what each watcher is at
  probe,    \* the probe loop, before it opens the episode it has confirmed
  late,     \* history: watchers whose claim is of an earlier episode
  said,     \* history: times each notice of the episode was accepted
  lost,     \* history: accepted sends of the episode whose answer was lost
  undone,   \* history: times a count of the episode went back that a watcher of it had raised
  turns, faults

vars == <<kind, state, store, row, outage, watch, probe, late, said, lost, undone, turns, faults>>
world == <<kind, state, store, turns>>
history == <<late, said, lost, undone>>

Idle == [at |-> "idle"]
Notice == 1..MaxNotices

\* What a watcher is at: the state it read, the episode it listed, the notice it claims.
Recording == [at : {"record"}, state : {"open", "connecting", "close"}, store : 0..MaxMessages]
Deciding == [at : {"decide"}, count : 0..MaxNotices, due : BOOLEAN]
Calling == [at : {"claim", "send", "release"}, count : 0..(MaxNotices - 1)]

(* off: status <> 'connected' (numbers); down: what keeps the episode open;
   suspect: last_reason and the age of checked_at; due: no notice was sent
   within renotifyMs; aged: down for debounceMs. *)
TypeOK ==
  /\ kind \in {"system", "number"} /\ state \in {"open", "connecting", "close"}
  /\ row \in [down : {"none", "state", "probe"}, off : BOOLEAN, suspect : {"no", "fresh", "due", "stale"},
              start : 0..MaxMessages, own : 0..MaxMessages, count : 0..MaxNotices, due : BOOLEAN, aged : BOOLEAN]
  /\ outage \in {"none", "webhook", "watch", "probe"}
  /\ watch \in [Watcher -> {Idle, [at |-> "down"]} \cup Recording \cup Deciding \cup Calling]
  /\ probe \in {Idle} \cup [at : {"open"}, start : 0..MaxMessages]
  /\ late \subseteq Watcher /\ said \in [Notice -> Nat] /\ lost \in Nat /\ undone \in Nat
  /\ store \in 0..MaxMessages /\ turns \in Nat /\ faults \in Nat

Healthy == [down |-> "none", off |-> FALSE, suspect |-> "no", start |-> 0, own |-> 0, count |-> 0, due |-> TRUE, aged |-> FALSE]
Unsaid == [n \in Notice |-> 0]

Init ==
  /\ kind \in {"system", "number"} /\ state = "open" /\ store = 0
  /\ row = Healthy /\ outage = "none"
  /\ watch = [w \in Watcher |-> Idle] /\ probe = Idle
  /\ late = {} /\ said = Unsaid /\ lost = 0 /\ undone = 0 /\ turns = 0 /\ faults = 0

Goto(w, j) == watch' = [watch EXCEPT ![w] = j]
At(w, step) == watch[w].at = step

\* The end of an episode: the next one starts its notices afresh.
Ended(r) == [r EXCEPT !.down = "none", !.start = 0, !.count = 0, !.due = TRUE, !.aged = FALSE]
Forget ==
  /\ said' = Unsaid /\ lost' = 0 /\ undone' = 0
  /\ late' = {w \in Watcher : watch[w].at \in {"send", "release"}}
Remember == UNCHANGED history

-----------------------------------------------------------------------------
(* System instances: a watcher reads state and store, then records them. *)

Observe(w) ==
  /\ kind = "system" /\ At(w, "idle")
  /\ Goto(w, [at |-> "record", state |-> state, store |-> store])
  /\ UNCHANGED <<world, row, outage, probe, history, faults>>

PlanEpisode(down, traffic) ==
  IF row.down = "probe" THEN IF traffic THEN "close" ELSE "keep"
  ELSE IF ~down THEN IF row.down # "none" THEN "close" ELSE "healthy"
  ELSE IF row.down # "none" THEN "keep"
  ELSE IF row.suspect \in {"no", "stale"} THEN "suspect"
  ELSE IF row.suspect = "fresh" THEN "hold"
  ELSE "open"

NextDownSource(plan, seen) ==
  CASE plan = "open" -> "state"
    [] plan = "keep" -> IF row.down = "probe" /\ seen = "close" THEN "state" ELSE row.down
    [] OTHER -> "none"

(* recordSystemHealth: the episode opens at its estimated start, which may lie
   further back than the debounce. *)
Record(w) ==
  /\ At(w, "record")
  /\ LET seen == watch[w]
         down == seen.state # "open"
         traffic == row.down # "none" /\ seen.store > row.start /\ seen.store > row.own
         plan == PlanEpisode(down, traffic)
         read == [row EXCEPT !.suspect = IF down THEN "fresh" ELSE "no", !.own = seen.store]
     IN /\ \E aged \in BOOLEAN :
             row' = CASE plan = "hold" -> row
                      [] plan = "keep" -> [read EXCEPT !.down = NextDownSource(plan, seen.state)]
                      [] plan = "open" -> [Ended(read) EXCEPT !.down = "state", !.start = seen.store, !.aged = aged]
                      [] OTHER -> Ended(read)
        /\ outage' = CASE plan = "open" /\ outage = "none" -> "watch"
                       [] plan = "close" -> "none"
                       [] OTHER -> outage
        /\ IF plan \in {"hold", "keep"} THEN Remember ELSE Forget
  /\ Goto(w, IF row'.down = "none" THEN Idle ELSE [at |-> "decide", count |-> row'.count, due |-> row'.due /\ row'.aged])
  /\ UNCHANGED <<world, probe, faults>>

-----------------------------------------------------------------------------
(* Numbers: a watcher lists them; the episode follows the connection events. *)

ListDownNumbers(w) ==
  /\ kind = "number" /\ At(w, "idle") /\ row.down # "none"
  /\ Goto(w, [at |-> "decide", count |-> row.count, due |-> row.due /\ row.aged])
  /\ UNCHANGED <<world, row, outage, probe, history, faults>>

ConnectionEvent ==
  /\ kind = "number" /\ row.off = (state = "open")
  /\ IF state = "open"
     THEN row' = [Ended(row) EXCEPT !.off = FALSE] /\ outage' = "none" /\ Forget
     ELSE /\ row' = [row EXCEPT !.off = TRUE, !.down = IF @ = "none" THEN "state" ELSE @]
          /\ outage' = IF outage = "none" THEN "webhook" ELSE outage
          /\ IF row.down = "none" THEN Forget ELSE Remember
  /\ UNCHANGED <<world, watch, probe, faults>>

\* "open" of a number that is connected: its notices start afresh, its outage stays.
RepeatedOpen ==
  /\ kind = "number" /\ ~row.off /\ state = "open"
  /\ row.count > 0 /\ faults < MaxFaults /\ faults' = faults + 1
  /\ row' = [row EXCEPT !.count = 0, !.due = TRUE] /\ undone' = undone + 1
  /\ UNCHANGED <<world, outage, watch, probe, late, said, lost>>

-----------------------------------------------------------------------------
(* The probe's side of an episode. *)

ProbeConfirms ==
  /\ probe.at = "idle" /\ state = "open" /\ row.down = "none"
  /\ turns < MaxTurns /\ turns' = turns + 1
  /\ probe' = [at |-> "open", start |-> store]
  /\ UNCHANGED <<kind, state, store, row, outage, watch, history, faults>>

(* openSystemProbeEpisode, openNumberProbeEpisode: one that is open stays. *)
OpenProbeEpisode ==
  /\ probe.at = "open" /\ probe' = Idle
  /\ row' = IF row.down # "none" THEN row
            ELSE IF kind = "number" THEN [row EXCEPT !.down = "probe", !.start = probe.start, !.aged = TRUE]
            ELSE [Ended(row) EXCEPT !.down = "probe", !.start = probe.start, !.aged = TRUE]
  /\ outage' = IF outage = "none" THEN "probe" ELSE outage
  /\ IF row.down = "none" THEN Forget ELSE Remember
  /\ UNCHANGED <<world, watch, faults>>

\* Mutant: the system's health row is not healed.
CloseProbeOutage ==
  /\ row.down = "probe" \/ outage = "probe"
  /\ outage' = IF outage = "probe" THEN "none" ELSE outage
  /\ row' = IF kind = "number"
            THEN IF outage = "probe" THEN [Ended(row) EXCEPT !.down = IF row.off THEN "state" ELSE "none"] ELSE row
            ELSE row
  /\ Forget
  /\ UNCHANGED <<world, watch, probe, faults>>

(* closeProbeEpisode: the outage of a probe, and the health it shows in. *)
CloseProbeEpisode ==
  /\ row.down = "probe" \/ outage = "probe"
  /\ outage' = IF outage = "probe" THEN "none" ELSE outage
  /\ row' = IF kind = "number"
            THEN IF outage = "probe" THEN [Ended(row) EXCEPT !.down = IF row.off THEN "state" ELSE "none"] ELSE row
            ELSE Ended(row)
  /\ Forget
  /\ UNCHANGED <<world, watch, probe, faults>>

(* The reconnect route drops the zombie, then says so in whichever table the
   instance has (markSystemProbeEpisodeStateDriven, updateNumberStatus). *)
Reconnect ==
  /\ state = "open" /\ outage = "probe"
  /\ state' = "close"
  /\ row' = IF kind = "number" THEN [row EXCEPT !.off = TRUE]
            ELSE [row EXCEPT !.down = IF @ = "probe" THEN "state" ELSE @]
  /\ UNCHANGED <<kind, store, turns, outage, watch, probe, history, faults>>

-----------------------------------------------------------------------------
(* notifyOne: claim the notice, send it, give it back if it may succeed later. *)

\* Mutant: the cap is off by one.
ShouldNotifyLess(call) == call.due /\ call.count < MaxNotices - 1

ShouldNotify(call) == call.due /\ call.count < MaxNotices

Decide(w) ==
  /\ At(w, "decide")
  /\ Goto(w, IF ShouldNotify(watch[w]) THEN [at |-> "claim", count |-> watch[w].count] ELSE Idle)
  /\ UNCHANGED <<world, row, outage, probe, history, faults>>

\* Mutant: the claim does not compare the count it was decided on.
ClaimableBlind(count) == IF kind = "number" THEN row.off \/ outage = "probe" ELSE row.down # "none"

Claimable(count) ==
  /\ row.count = count
  /\ IF kind = "number" THEN row.off \/ outage = "probe" ELSE row.down # "none"

ClaimNotification(w) ==
  /\ At(w, "claim")
  /\ IF Claimable(watch[w].count)
     THEN /\ row' = [row EXCEPT !.count = @ + 1, !.due = FALSE]
          /\ Goto(w, [at |-> "send", count |-> watch[w].count])
     ELSE UNCHANGED row /\ Goto(w, Idle)
  /\ UNCHANGED <<world, outage, probe, history, faults>>

(* The template is followed by the text unless it was answered well: accepted
   says how many of the two arrived, unanswered that the template did unseen. *)
Outcome ==
  {[accepted |-> 1, unanswered |-> 0, then |-> "idle"], [accepted |-> 0, unanswered |-> 0, then |-> "idle"],
   [accepted |-> 0, unanswered |-> 0, then |-> "release"], [accepted |-> 1, unanswered |-> 1, then |-> "release"],
   [accepted |-> 2, unanswered |-> 1, then |-> "idle"]}

Send(w) ==
  /\ At(w, "send")
  /\ \E o \in Outcome :
       /\ o.then = "release" \/ o.unanswered = 1 => faults < MaxFaults
       /\ faults' = IF o.then = "release" \/ o.unanswered = 1 THEN faults + 1 ELSE faults
       /\ IF w \in late THEN UNCHANGED <<said, lost>>
          ELSE /\ said' = [said EXCEPT ![watch[w].count + 1] = @ + o.accepted]
               /\ lost' = lost + o.unanswered
       /\ IF o.then = "idle" THEN Goto(w, Idle) /\ late' = late \ {w}
          ELSE Goto(w, [watch[w] EXCEPT !.at = "release"]) /\ UNCHANGED late
  /\ UNCHANGED <<world, row, outage, probe, undone>>

Release(w) ==
  /\ At(w, "release")
  /\ IF row.count = watch[w].count + 1
     THEN /\ row' = [row EXCEPT !.count = watch[w].count, !.due = TRUE]
          /\ undone' = IF w \in late THEN undone + 1 ELSE undone
     ELSE UNCHANGED <<row, undone>>
  /\ Goto(w, Idle) /\ late' = late \ {w}
  /\ UNCHANGED <<world, outage, probe, said, lost, faults>>

Crash(w) ==
  /\ ~At(w, "idle") /\ faults < MaxFaults
  /\ Goto(w, Idle) /\ late' = late \ {w} /\ faults' = faults + 1
  /\ UNCHANGED <<world, row, outage, probe, said, lost, undone>>

Step(w) == Observe(w) \/ Record(w) \/ ListDownNumbers(w) \/ Decide(w) \/ ClaimNotification(w) \/ Send(w) \/ Release(w)

-----------------------------------------------------------------------------
(* The session, its store and the clock. *)

StateChanges ==
  /\ turns < MaxTurns /\ turns' = turns + 1
  /\ state' \in {"open", "connecting", "close"} \ {state}
  /\ UNCHANGED <<kind, store, row, outage, watch, probe, history, faults>>

MessageArrives ==
  /\ state = "open" /\ store < MaxMessages /\ store' = store + 1
  /\ UNCHANGED <<kind, state, turns, row, outage, watch, probe, history, faults>>

Older == [fresh |-> "due", due |-> "stale"]

SuspicionAges ==
  /\ row.suspect \in DOMAIN Older /\ row.down = "none"
  /\ row' = [row EXCEPT !.suspect = Older[@]]
  /\ UNCHANGED <<world, outage, watch, probe, history, faults>>

DebouncePasses ==
  /\ row.down # "none" /\ ~row.aged
  /\ row' = [row EXCEPT !.aged = TRUE]
  /\ UNCHANGED <<world, outage, watch, probe, history, faults>>

NoticeDue ==
  /\ ~row.due
  /\ row' = [row EXCEPT !.due = TRUE]
  /\ UNCHANGED <<world, outage, watch, probe, history, faults>>

Next ==
  \/ \E w \in Watcher : Step(w) \/ Crash(w)
  \/ ConnectionEvent \/ RepeatedOpen \/ ProbeConfirms \/ OpenProbeEpisode \/ CloseProbeEpisode \/ Reconnect
  \/ StateChanges \/ MessageArrives \/ SuspicionAges \/ DebouncePasses \/ NoticeDue

Spec == Init /\ [][Next]_vars

(* Watchers tick for ever, calls end, events are reconciled by the probe loop if
   they were lost, and the clock runs. *)
Fairness ==
  /\ \A w \in Watcher : WF_vars(Step(w))
  /\ WF_vars(ConnectionEvent) /\ WF_vars(OpenProbeEpisode) /\ WF_vars(DebouncePasses) /\ WF_vars(NoticeDue)

FairSpec == Spec /\ Fairness

-----------------------------------------------------------------------------
(* Each notice of an episode reaches the person once, whichever watcher claims,
   fails and gives back (claimNumberNotification, releaseNumberNotification). Three
   things repeat it, each once: an answer lost after the Cloud took the message; a
   watcher of an earlier episode that gives back what is not its own, for the
   count it compares starts afresh with each episode (down-notify-store.ts:8-12
   takes it for an exact version); and an "open" of a number that is connected
   while a probe holds it down, which starts the count afresh and leaves the
   outage open (updateNumberStatus, numbers.ts:108-109 and 127-131). *)
OneNoticeEach == \A n \in Notice : said[n] <= 1 + lost + undone

(* The health row and the outages table tell the same story of a system instance,
   and a number keeps no outage of which its row knows nothing, whoever of watcher,
   probe, receipt and reconnect route wrote last. (A number may be off without an
   outage: a late receipt closes the probe's when the route has dropped the zombie.) *)
EpisodesAgree ==
  /\ outage # "none" => row.down # "none"
  /\ kind = "system" /\ row.down # "none" => outage # "none"

(* An outage that lasts is announced until the cap: claims, failures, give-backs
   and crashes do not mute it. *)
Announced == <>[](row.down # "none") => <>[](row.count = MaxNotices)

(* down-notify-store.ts:142-144, a probe's episode "fecha por trafego real no store
   depois do inicio": a message newer than its start does end it. *)
TrafficCloses ==
  (kind = "system" /\ row.down = "probe" /\ row.start < store) ~> (row.down # "probe" \/ row.start >= store)
=============================================================================
