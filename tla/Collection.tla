----------------------------- MODULE Collection -----------------------------
(***************************************************************************)
(* Collecting meetings with bots (meetings-collect): requests queue a room *)
(* (db.ts, routes.ts); requests and poller ticks promote the queue under   *)
(* VEXA_MAX_CONCURRENT, and ticks watch each bot's transcript until the    *)
(* meeting is imported, given up or handed to the recovery from the        *)
(* recording (service.ts). The poller has no "running" flag, so ticks      *)
(* overlap. What silence means depends on the state of the OpenAI account. *)
(***************************************************************************)
EXTENDS Integers, Sequences, FiniteSets, SequencesExt, FiniteSetsExt

CONSTANTS Room, Request, Tick,
          MaxConcurrent,
          MaxRows,      \* bound: rows of collected_meetings
          MaxUpsets     \* bound: work begun beside other work, failed or lost calls,
                        \* crashes, outages, bots that die

VARIABLES
  rows,       \* collected_meetings: [room, status, late, quiet, hit, missed, again]
  bot,        \* per room, the newest bot in Vexa: [status, heard]
  recovery,   \* per row, the reason its recovery job carries, or "none"
  health,     \* openai_health.state, "unknown" counting as "ok"; taken to be what Vexa meets
  job,        \* what each request and tick is at
  overlapped, \* history: two of them worked on the collections at once
  excused,    \* history: rooms a crash or a failed call left as they were
  upsets

vars == <<rows, bot, recovery, health, job, overlapped, excused, upsets>>
history == <<overlapped, excused, upsets>>

Worker == Request \union Tick
Idle == [at |-> "idle"]
Active == {"collecting", "stopping"}
NoBot == [status |-> "none", heard |-> 0]

\* heard: 0 no segment, 1 less than the floor of episodeHasEnoughContent, 2 enough.
\* hit: a probe saw the account down since started_at (last_down_at >= started_at).
\* missed (history): somebody spoke while nothing was transcribed, and started_at
\* still stands before the last probe that saw the account down ("missed") or not.
TypeOK ==
  /\ rows \in Seq([room : Room, late : BOOLEAN, quiet : {"no", "quiet", "ceiling"}, hit : BOOLEAN, again : BOOLEAN,
                   missed : {"no", "missed", "forgotten"},
                   status : Active \union {"queued", "imported", "silent", "failed", "canceled"}])
  /\ bot \in [Room -> [status : {"none", "active", "completed", "failed"}, heard : 0..2]]
  /\ Len(recovery) = Len(rows) /\ Range(recovery) \subseteq {"none", "silent_room", "partial"}
  /\ health \in {"ok", "down"}
  /\ DOMAIN job = Worker /\ excused \subseteq Room

Init ==
  /\ rows = <<>> /\ recovery = <<>>
  /\ bot = [r \in Room |-> NoBot]
  /\ health = "ok"
  /\ job = [p \in Worker |-> Idle]
  /\ overlapped = FALSE /\ excused = {} /\ upsets = 0

Goto(p, j) == job' = [job EXCEPT ![p] = j]
At(p, step) == job[p].at = step
RowOf(p) == Min(job[p].todo)
RoomOf(p) == rows[RowOf(p)].room
WithStatus(S) == {i \in DOMAIN rows : rows[i].status \in S}
\* sttAffectedSince, of the row's started_at.
Affected(row) == health = "down" \/ row.hit

\* A row that ended forgets what nothing will ask of it again.
Moved(row, status) ==
  IF status \in Active THEN [row EXCEPT !.status = status]
  ELSE [row EXCEPT !.status = status, !.quiet = "no", !.late = FALSE, !.again = FALSE]

SetStatus(i, status) == rows' = [rows EXCEPT ![i] = Moved(@, status)]

Upset(rooms) ==
  /\ upsets < MaxUpsets /\ upsets' = upsets + 1
  /\ excused' = excused \union rooms /\ UNCHANGED overlapped

Start(p, j) ==
  LET beside == \E q \in Worker \ {p} : ~At(q, "idle")
  IN /\ At(p, "idle") /\ Goto(p, j)
     /\ beside => upsets < MaxUpsets
     /\ upsets' = IF beside THEN upsets + 1 ELSE upsets
     /\ overlapped' = (overlapped \/ beside)
     /\ UNCHANGED <<bot, health, excused>>

-----------------------------------------------------------------------------
(* POST /meetings-collect: one transaction creates the row or reuses the    *)
(* active one of the room, whose limits it pushes; then the queue is        *)
(* promoted.                                                                *)

Reusable(r) == {i \in WithStatus(Active \union {"queued"}) : rows[i].room = r}

\* What was missed before started_at moved is asked of no one, unless the account is down still.
Forgotten(row) == [row EXCEPT !.missed = IF @ = "missed" THEN "forgotten" ELSE @]

\* planCollectReuse: of a queued row the limit moves, of a bot at work started_at
\* does, from which admission, the ceiling and the outages are counted; the
\* silence of a room that has spoken is counted from its last segment.
\* Bound: a row is asked for again once, for each time pushes its limits.
Reused(row) ==
  LET anchored == [row EXCEPT !.again = TRUE, !.hit = FALSE,
                              !.quiet = IF @ = "no" \/ bot[row.room].heard = 0 THEN "no" ELSE "quiet"]
  IN IF row.status # "collecting" THEN [row EXCEPT !.again = TRUE, !.late = FALSE]
     ELSE IF health = "down" THEN anchored ELSE Forgotten(anchored)

Collect(q, r) ==
  /\ q \in Request /\ Start(q, [at |-> "promote"])
  /\ IF Reusable(r) # {}
     THEN /\ ~rows[Min(Reusable(r))].again
          /\ rows' = [rows EXCEPT ![Min(Reusable(r))] = Reused(@)]
          /\ UNCHANGED recovery
     ELSE /\ Len(rows) < MaxRows
          /\ rows' = Append(rows, [room |-> r, status |-> "queued", late |-> FALSE,
                                   quiet |-> "no", hit |-> FALSE, missed |-> "no", again |-> FALSE])
          /\ recovery' = Append(recovery, "none")

StartTick(t) ==
  /\ t \in Tick /\ rows # <<>> /\ Start(t, [at |-> "promote"])
  /\ UNCHANGED <<rows, recovery>>

-----------------------------------------------------------------------------
(* promoteQueuedMeetings *)

\* The rows past their limit, as first listed, are failed one by one whatever
\* became of them since; then the queue is listed again.
ListQueued(p) ==
  /\ At(p, "promote")
  /\ Goto(p, [at |-> "expire", todo |-> {i \in WithStatus({"queued"}) : rows[i].late}])
  /\ UNCHANGED <<rows, bot, recovery, health, history>>

Expire(p) ==
  /\ At(p, "expire") /\ job[p].todo # {}
  /\ SetStatus(RowOf(p), "failed")
  /\ Goto(p, [job[p] EXCEPT !.todo = @ \ {RowOf(p)}])
  /\ UNCHANGED <<bot, recovery, health, history>>

ListAgain(p) ==
  /\ At(p, "expire") /\ job[p].todo = {}
  /\ Goto(p, [at |-> "count", todo |-> WithStatus({"queued"})])
  /\ UNCHANGED <<rows, bot, recovery, health, history>>

\* A request answers; a tick reads the active rows and goes through them.
Promoted(p) ==
  LET active == WithStatus(Active)
  IN Goto(p, IF p \in Tick /\ active # {} THEN [at |-> "look", todo |-> active] ELSE Idle)

\* Mutant: the cap is compared one too late.
FreePlaceLate == Cardinality(WithStatus(Active)) <= MaxConcurrent

FreePlace == Cardinality(WithStatus(Active)) < MaxConcurrent

Count(p) ==
  /\ At(p, "count")
  /\ IF job[p].todo # {} /\ FreePlace
     THEN Goto(p, [job[p] EXCEPT !.at = "send"])
     ELSE Promoted(p)
  /\ UNCHANGED <<rows, bot, recovery, health, history>>

\* Vexa holds one bot per room and refuses a second. A call may fail, and its
\* answer may be lost (30 s), or the row refuse it, after the bot went in: all
\* of these read as refused.
SendBot(p) ==
  LET entered == [bot EXCEPT ![RoomOf(p)] = [NoBot EXCEPT !.status = "active"]]
  IN /\ At(p, "send")
     /\ IF bot[RoomOf(p)].status = "active"
        THEN Goto(p, [job[p] EXCEPT !.at = "refused"]) /\ UNCHANGED <<bot, history>>
        ELSE \/ bot' = entered /\ Goto(p, [job[p] EXCEPT !.at = "sent"]) /\ UNCHANGED history
             \/ Upset({}) /\ Goto(p, [job[p] EXCEPT !.at = "refused"]) /\ UNCHANGED bot
             \/ bot' = entered /\ Upset({RoomOf(p)}) /\ Goto(p, [job[p] EXCEPT !.at = "refused"])
     /\ UNCHANGED <<rows, recovery, health>>

\* started_at is now: an outage that no later probe sees is before it.
Recorded(row) == [row EXCEPT !.status = "collecting", !.late = FALSE, !.quiet = "no",
                             !.hit = FALSE, !.missed = "no"]

RecordBot(p) ==
  /\ \/ At(p, "refused") /\ SetStatus(RowOf(p), "failed")
     \/ At(p, "sent") /\ rows' = [rows EXCEPT ![RowOf(p)] = Recorded(@)]
  /\ Goto(p, [at |-> "count", todo |-> job[p].todo \ {RowOf(p)}])
  /\ UNCHANGED <<bot, recovery, health, history>>

-----------------------------------------------------------------------------
(* processCollectedMeeting: the row as listed, the transcript as read now. *)

NextRow(p) ==
  LET left == job[p].todo \ {RowOf(p)}
  IN Goto(p, IF left = {} THEN Idle ELSE [at |-> "look", todo |-> left])

\* Silence is believed only of an account that was up, or past the ceiling.
Believed(row, affected) == row.quiet = "ceiling" \/ (row.quiet = "quiet" /\ ~affected)

Verdict(row, b, affected) ==
  IF b.status = "failed" THEN "fail"
  ELSE IF b.status = "completed" THEN "import"
  ELSE IF Believed(row, affected) THEN "stop"
  ELSE "wait"

Judged(p, affected) ==
  LET b == bot[RoomOf(p)]
      verdict == Verdict(rows[RowOf(p)], b, affected)
  IN IF verdict = "wait" THEN NextRow(p)
     ELSE Goto(p, [at |-> verdict, todo |-> job[p].todo, heard |-> b.heard])

\* getTranscript and recordVexaStatus; a transcript that cannot be read waits, an
\* account whose state cannot be read counts as up.
Look(p) ==
  /\ At(p, "look")
  /\ \/ Judged(p, Affected(rows[RowOf(p)])) /\ UNCHANGED history
     \/ Upset({}) /\ (NextRow(p) \/ Judged(p, FALSE))
  /\ UNCHANGED <<rows, bot, recovery, health>>

\* Mutant: the row is ended without taking the bot out.
NotStopped(p, next) ==
  /\ Goto(p, [job[p] EXCEPT !.at = next])
  /\ UNCHANGED <<rows, bot, recovery, health, history>>

\* stopBot, whose failure is swallowed.
Stopped(p, next) ==
  /\ \/ /\ bot' = [bot EXCEPT ![RoomOf(p)].status = IF @ = "active" THEN "completed" ELSE @]
        /\ UNCHANGED history
     \/ Upset({RoomOf(p)}) /\ UNCHANGED bot
  /\ Goto(p, [job[p] EXCEPT !.at = next])
  /\ UNCHANGED <<rows, recovery, health>>

StopBot(p) ==
  \/ At(p, "stop") /\ Stopped(p, IF job[p].heard = 0 THEN "silence" ELSE "import")
  \/ At(p, "fail") /\ Stopped(p, "failed")

\* The room that failed: no import and no recovery.
FailRow(p) ==
  /\ At(p, "failed")
  /\ SetStatus(RowOf(p), "failed") /\ NextRow(p)
  /\ UNCHANGED <<bot, recovery, health, history>>

Hand(p, reason) == Goto(p, [at |-> "recover", todo |-> job[p].todo, reason |-> reason])

\* importCollectedMeeting below the floor, and a room where nobody spoke.
Silence(p) ==
  /\ At(p, "silence") \/ (At(p, "import") /\ job[p].heard < 2)
  /\ SetStatus(RowOf(p), "silent") /\ Hand(p, "silent_room")
  /\ UNCHANGED <<bot, recovery, health, history>>

\* Mutant: an incomplete transcript is imported and left at that.
ImportAsIs(p) ==
  /\ At(p, "import") /\ job[p].heard = 2
  /\ SetStatus(RowOf(p), "imported") /\ NextRow(p)
  /\ UNCHANGED <<bot, recovery, health, history>>

\* The episode goes in; if it cannot, the row waits for another tick. An account
\* whose state cannot be read counts as up.
Import(p) ==
  /\ At(p, "import") /\ job[p].heard = 2
  /\ \/ /\ SetStatus(RowOf(p), "imported") /\ UNCHANGED history
        /\ IF Affected(rows[RowOf(p)]) THEN Hand(p, "partial") ELSE NextRow(p)
     \/ Upset({}) /\ NextRow(p) /\ UNCHANGED rows
     \/ Upset({RoomOf(p)}) /\ NextRow(p) /\ SetStatus(RowOf(p), "imported")
  /\ UNCHANGED <<bot, recovery, health>>

\* enqueueRecovery: ON CONFLICT DO NOTHING; its failure is swallowed.
EnqueueRecovery(p) ==
  /\ At(p, "recover")
  /\ \/ /\ recovery' = [recovery EXCEPT ![RowOf(p)] = IF @ = "none" THEN job[p].reason ELSE @]
        /\ UNCHANGED history
     \/ Upset({RoomOf(p)}) /\ UNCHANGED recovery
  /\ NextRow(p)
  /\ UNCHANGED <<rows, bot, health>>

-----------------------------------------------------------------------------
(* POST /meetings-collect/:id/stop *)

RequestStop(q, i) ==
  /\ q \in Request /\ rows[i].status \in Active
  /\ Start(q, [at |-> "stopping", todo |-> {i}])
  /\ UNCHANGED <<rows, recovery>>

MarkStopping(q) ==
  /\ At(q, "stopping")
  /\ SetStatus(RowOf(q), "stopping") /\ Goto(q, [job[q] EXCEPT !.at = "stopBot"])
  /\ UNCHANGED <<bot, recovery, health, history>>

StopForRequest(q) == At(q, "stopBot") /\ Stopped(q, "read")

\* A transcript that cannot be read counts as empty.
ReadForRequest(q) ==
  /\ At(q, "read")
  /\ \/ /\ Goto(q, IF bot[RoomOf(q)].heard > 0
                   THEN [at |-> "import", todo |-> job[q].todo, heard |-> bot[RoomOf(q)].heard]
                   ELSE [job[q] EXCEPT !.at = "cancel"])
        /\ UNCHANGED history
     \/ bot[RoomOf(q)].heard > 0 /\ Upset({}) /\ Goto(q, [job[q] EXCEPT !.at = "cancel"])
  /\ UNCHANGED <<rows, bot, recovery, health>>

CancelRow(q) ==
  /\ At(q, "cancel")
  /\ SetStatus(RowOf(q), "canceled") /\ Hand(q, "silent_room")
  /\ UNCHANGED <<bot, recovery, health, history>>

-----------------------------------------------------------------------------
(* The meeting, the clock, the account and the process. *)

AtWorkIn(r) == {i \in WithStatus(Active) : rows[i].room = r}

\* Silence is counted from the last segment. Bound: two segments, as heard counts.
Speak(r) ==
  /\ bot[r].status = "active" /\ health = "ok" /\ bot[r].heard < 2
  /\ bot' = [bot EXCEPT ![r].heard = @ + 1]
  /\ rows' = [i \in DOMAIN rows |-> IF i \in AtWorkIn(r) THEN [rows[i] EXCEPT !.quiet = "no"] ELSE rows[i]]
  /\ UNCHANGED <<recovery, health, job, history>>

\* Nothing is transcribed while the account is down.
SpeakInVain(r) ==
  /\ bot[r].status = "active" /\ health = "down"
  /\ rows' = [i \in DOMAIN rows |-> IF i \in AtWorkIn(r) THEN [rows[i] EXCEPT !.missed = "missed"] ELSE rows[i]]
  /\ UNCHANGED <<bot, recovery, health, job, history>>

MeetingEnds(r) ==
  /\ bot[r].status = "active"
  /\ bot' = [bot EXCEPT ![r].status = "completed"]
  /\ UNCHANGED <<rows, recovery, health, job, history>>

BotDies(r) ==
  /\ bot[r].status = "active" /\ Upset({})
  /\ bot' = [bot EXCEPT ![r].status = "failed"]
  /\ UNCHANGED <<rows, recovery, health, job>>

TimePasses(i) ==
  /\ \/ /\ rows[i].status = "queued" /\ ~rows[i].late
        /\ rows' = [rows EXCEPT ![i].late = TRUE]
     \/ /\ rows[i].status \in Active /\ rows[i].quiet \in (IF Affected(rows[i]) THEN {"no", "quiet"} ELSE {"no"})
        /\ rows' = [rows EXCEPT ![i].quiet = IF @ = "no" THEN "quiet" ELSE "ceiling"]
  /\ UNCHANGED <<bot, recovery, health, job, history>>

\* runHealthTick: a probe that finds the account down moves last_down_at to now,
\* after the started_at of every meeting begun; one that finds it up leaves it.
SeenDown ==
  rows' = [i \in DOMAIN rows |-> [rows[i] EXCEPT !.hit = @ \/ rows[i].status # "queued"]]

AccountFalls ==
  /\ health = "ok" /\ health' = "down" /\ Upset({})
  /\ SeenDown /\ UNCHANGED <<bot, recovery, job>>

AccountStaysDown ==
  /\ health = "down" /\ SeenDown
  /\ UNCHANGED <<bot, recovery, health, job, history>>

AccountReturns ==
  /\ health = "down" /\ health' = "ok"
  /\ rows' = [i \in DOMAIN rows |->
               IF rows[i].hit \/ rows[i].status = "imported" THEN rows[i] ELSE Forgotten(rows[i])]
  /\ UNCHANGED <<bot, recovery, job, history>>

\* What is not in a row yet is lost: a bot gone in, a room on its way to the recovery.
Crash(p) ==
  /\ p \in Worker /\ ~At(p, "idle")
  /\ Upset(IF job[p].at \in {"sent", "recover"} THEN {RoomOf(p)} ELSE {})
  /\ Goto(p, Idle)
  /\ UNCHANGED <<rows, bot, recovery, health>>

WorkerStep(p) ==
  \/ ListQueued(p) \/ Expire(p) \/ ListAgain(p) \/ Count(p) \/ SendBot(p) \/ RecordBot(p)
  \/ Look(p) \/ StopBot(p) \/ FailRow(p) \/ Silence(p) \/ Import(p) \/ EnqueueRecovery(p)
  \/ MarkStopping(p) \/ StopForRequest(p) \/ ReadForRequest(p) \/ CancelRow(p)

Next ==
  \/ \E q \in Request : \/ \E r \in Room : Collect(q, r)
                        \/ \E i \in DOMAIN rows : RequestStop(q, i)
  \/ \E t \in Tick : StartTick(t)
  \/ \E p \in Worker : WorkerStep(p) \/ Crash(p)
  \/ AccountFalls \/ AccountStaysDown \/ AccountReturns
  \/ \E r \in Room : Speak(r) \/ SpeakInVain(r) \/ MeetingEnds(r) \/ BotDies(r)
  \/ \E i \in DOMAIN rows : TimePasses(i)

Spec == Init /\ [][Next]_vars

\* The interval fires, calls return, and clocks run; a meeting need not end.
Fairness ==
  /\ \A t \in Tick : WF_vars(StartTick(t)) /\ WF_vars(WorkerStep(t))
  /\ \A q \in Request : WF_vars(WorkerStep(q))
  /\ \A i \in 1..MaxRows : WF_vars(i \in DOMAIN rows /\ TimePasses(i))

FairSpec == Spec /\ Fairness

-----------------------------------------------------------------------------
(* Properties. *)

(* VEXA_MAX_CONCURRENT: unless two callers promoted side by side, there are
   never more bots at work for us than places. *)
CapKept == overlapped \/ Cardinality(WithStatus(Active)) <= MaxConcurrent

(* A bot that sits in a room is known to a row that will take it out again,
   unless a crash, a swallowed failure, a lost answer of Vexa (the row failed,
   the bot inside: promoteQueuedMeetings) or overlapping work lost it. *)
NoOrphanBot ==
  \A r \in Room :
    bot[r].status = "active" =>
      \/ overlapped \/ r \in excused
      \/ \E i \in WithStatus(Active) : rows[i].room = r
      \/ \E p \in Worker : job[p].at \in {"sent", "silence", "import"} /\ RoomOf(p) = r

(* A room written off as silent or cancelled, and a meeting imported though
   somebody spoke while the account was down, is handed to the recovery. Not
   covered, for the code does not: speech of an outage that started_at has left
   behind (the room was asked for again after it, or the bot went in during it
   and no later probe saw it), and rooms whose bot failed. *)
SpeechIsNotLost ==
  \A i \in DOMAIN rows :
    rows[i].status \in {"silent", "canceled"} \/ (rows[i].status = "imported" /\ rows[i].missed = "missed") =>
      \/ recovery[i] # "none" \/ rows[i].room \in excused
      \/ \E p \in Worker : At(p, "recover") /\ RowOf(p) = i

(* Every request for a bot ends: imported, given up, cancelled or expired. *)
EventuallySettled == []<>(WithStatus(Active \union {"queued"}) = {})
=============================================================================
