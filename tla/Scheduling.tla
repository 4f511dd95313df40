----------------------------- MODULE Scheduling -----------------------------
(***************************************************************************)
(* Meetings of one lead (goals/scheduling): slots offered under tentative  *)
(* holds, booking, cancelling and moving by the agent's requests           *)
(* (schedule-service.ts), the sweep of expired holds (holds-cleanup.ts)    *)
(* and the hourly reconciliation with the organizer's calendar             *)
(* (reconcile.ts). The rows and the calendar are two stores that no        *)
(* transaction spans: each call of either is a step of its own.            *)
(***************************************************************************)
EXTENDS Integers, Sequences, FiniteSets, SequencesExt, FiniteSetsExt, Functions

CONSTANTS Caller,       \* requests that may run side by side
          Loop,         \* "cleaner", "reconciler": the two cron jobs
          Days,         \* the days of the horizon, numbered from today
          Ranges,       \* working hours of a day: a set of <<from, to>>
          Duration, MinAdvance, MaxResults,
          Instants,     \* bound: the hours the clock may show
          MaxEvents,    \* bound: events created in the calendar
          MaxUpsets     \* bound: refused or lost calls, crashes, disconnections,
                        \* deletions and moves by the organizer

ASSUME SchedulingAssumption ==
  /\ Days \subseteq Nat \ {0} /\ Ranges \subseteq (0..24) \X (0..24)
  /\ Duration \in Nat \ {0} /\ MinAdvance \in Nat /\ MaxResults \in Nat
  /\ Instants \subseteq Nat
  /\ MaxEvents \in Nat /\ MaxUpsets \in Nat
  /\ Caller \cap Loop = {}

VARIABLES
  calendar,   \* the events ever created: [slot, status]; the organizer's deletion is "removed"
  holds,      \* slot_holds of the lead not yet consumed: [event, slot, expired]
  meetings,   \* meetings of the lead, in order of creation: [slot, event, status]
  ready,      \* an active agenda and a connection whose token works
  now,        \* the clock, in hours
  job,        \* what each caller and each cron job is at
  excused,    \* history: events a failed or skipped call left as they were
  overlapped, \* history: two requests of the lead ran at once
  upsets      \* what went wrong so far

vars == <<calendar, holds, meetings, ready, now, job, excused, overlapped, upsets>>
rows == <<holds, meetings>>
world == <<ready, now>>
history == <<excused, overlapped>>

Idle == [at |-> "idle"]
Proc == Caller \union Loop
Goto(p, j) == job' = [job EXCEPT ![p] = j]
At(p, step) == job[p].at = step
Becomes(p, step) == Goto(p, [job[p] EXCEPT !.at = step])
Live(e) == calendar[e].status \in {"tentative", "confirmed"}

-----------------------------------------------------------------------------
(* slot-generator.ts: the slots of the working hours that nothing overlaps. *)

Starts(d, range) ==
  {t \in (24 * d + range[1])..(24 * d + range[2] - Duration) :
     (t - 24 * d - range[1]) % Duration = 0}

OverlapsBusy(t, busy) == \E b \in busy : t < b + Duration /\ t + Duration > b

FreeOn(d, period, busy) ==
  {t \in UNION {Starts(d, r) : r \in
                  {x \in Ranges : period = "any" \/ (period = "morning") = (x[1] < 12)}} :
     t >= now + MinAdvance /\ ~OverlapsBusy(t, busy)}

\* One slot a day, unless a day was asked for (0 is any); MaxResults in all.
GenerateSlots(day, period, busy) ==
  LET of(d) == IF day = 0 THEN {t \in FreeOn(d, period, busy) :
                                      \A u \in FreeOn(d, period, busy) : t <= u}
                              ELSE FreeOn(d, period, busy)
      all == UNION {of(d) : d \in {x \in Days : day \in {0, x}}}
  IN {t \in all : Cardinality({u \in all : u < t}) < MaxResults}

Slot == UNION {Starts(d, r) : d \in Days, r \in Ranges}

Event == 1..Len(calendar)
MeetingRow == 1..Len(meetings)
Some(S) == (SUBSET S) \ {{}}

\* What a request is at, and what it has read or created so far; 0 is none.
CallerJob ==
  {Idle} \union
  [at : {"hold"}, slots : Some(Slot)] \union
  [at : {"holdRow"}, slots : Some(Slot), event : Event] \union
  [at : {"dropOld", "markOld"}, slot : Slot, row : MeetingRow] \union
  [at : {"lookup"}, slot : Slot, row : MeetingRow \union {0}] \union
  [at : {"create"}, slot : Slot, event : {0}] \union
  [at : {"confirm", "consume", "others"}, slot : Slot, event : Event] \union
  [at : {"purge", "purgeRow"}, slot : Slot, event : Event, todo : Some(Event)] \union
  [at : {"insert"}, slot : Slot, event : Event, todo : SUBSET Event] \union
  [at : {"cancel", "cancelRow"}, row : MeetingRow] \union
  [at : {"move", "moveRow"}, row : MeetingRow, slot : Slot]

\* What a cron job is at: a hold to release, or the rows of a scan still to look up.
Batch == UNION {[scanned -> Slot] : scanned \in Some(MeetingRow)}
CronJob ==
  {Idle} \union
  [at : {"purge", "purgeRow"}, todo : Some(Event)] \union
  [at : {"get"}, slots : Batch] \union
  [at : {"cancelled", "moved"}, slots : Batch, slot : Slot]

TypeOK ==
  /\ calendar \in Seq([slot : Slot, status : {"tentative", "confirmed", "deleted", "removed"}])
  /\ holds \subseteq [event : Event, slot : Slot, expired : BOOLEAN]
  /\ meetings \in Seq([slot : Slot, event : Event,
                       status : {"scheduled", "rescheduled", "cancelled",
                                 "cancelled_by_organizer", "rescheduled_by_organizer"}])
  /\ ready \in BOOLEAN /\ now \in Instants /\ overlapped \in BOOLEAN /\ upsets \in 0..MaxUpsets
  /\ DOMAIN job = Proc
  /\ \A c \in Caller : job[c] \in CallerJob
  /\ \A p \in Loop : job[p] \in CronJob
  /\ excused \subseteq Event

Init ==
  /\ calendar = <<>> /\ holds = {} /\ meetings = <<>>
  /\ ready = TRUE /\ now \in Instants /\ (\A t \in Instants : now <= t)
  /\ job = [p \in Proc |-> Idle]
  /\ excused = {} /\ overlapped = FALSE /\ upsets = 0

-----------------------------------------------------------------------------
(* The calendar: calendar-write.ts against Google. *)

Insert(s, status) ==
  /\ Len(calendar) < MaxEvents
  /\ calendar' = Append(calendar, [slot |-> s, status |-> status])

Patch(e, s, status) == calendar' = [calendar EXCEPT ![e] = [slot |-> s, status |-> status]]

\* Deleting what is gone already is no error; what cannot be deleted stays.
DeleteEvent(e) ==
  \/ /\ ready
     /\ IF Live(e) THEN Patch(e, calendar[e].slot, "deleted") ELSE UNCHANGED calendar
     /\ UNCHANGED <<excused, upsets>>
  \/ /\ ~ready \/ upsets < MaxUpsets
     /\ upsets' = IF ready THEN upsets + 1 ELSE upsets
     /\ excused' = excused \union {e}
     /\ UNCHANGED calendar

OrganizerDeletes(e) ==
  /\ calendar[e].status = "confirmed" /\ upsets < MaxUpsets
  /\ Patch(e, calendar[e].slot, "removed") /\ upsets' = upsets + 1
  /\ UNCHANGED <<rows, world, job, history>>

OrganizerMoves(e, s) ==
  /\ calendar[e].status = "confirmed" /\ s # calendar[e].slot /\ upsets < MaxUpsets
  /\ Patch(e, s, "confirmed") /\ upsets' = upsets + 1
  /\ UNCHANGED <<rows, world, job, history>>

\* The token is revoked or the agenda switched off, and set right again.
Disconnect ==
  /\ ready /\ upsets < MaxUpsets
  /\ ready' = FALSE /\ upsets' = upsets + 1
  /\ UNCHANGED <<calendar, rows, now, job, history>>

Connect ==
  /\ ~ready /\ ready' = TRUE
  /\ UNCHANGED <<calendar, rows, now, job, history, upsets>>

TimePasses ==
  /\ \E t \in Instants : t > now /\ now' = t
  /\ UNCHANGED <<calendar, rows, ready, job, history, upsets>>

-----------------------------------------------------------------------------
(* A request begins. *)

Begin(c, j) ==
  /\ At(c, "idle")
  /\ Goto(c, j)
  /\ overlapped' = (overlapped \/ (j # Idle /\ \E d \in Caller \ {c} : ~At(d, "idle")))
  /\ UNCHANGED <<calendar, rows, world, excused, upsets>>

\* suggestSlots: freebusy, then the slots to be held, one after the other.
SuggestSlots(c, day, period) ==
  LET free == GenerateSlots(day, period, {calendar[e].slot : e \in {x \in 1..Len(calendar) : Live(x)}})
  IN /\ ready /\ free # {}
     /\ Begin(c, [at |-> "hold", slots |-> free])

NextHold(c) ==
  LET left == job[c].slots \ {Min(job[c].slots)}
  IN Goto(c, IF left = {} THEN Idle ELSE [at |-> "hold", slots |-> left])

CreateHold(c) ==
  /\ At(c, "hold")
  /\ Insert(Min(job[c].slots), "tentative")
  /\ Goto(c, [at |-> "holdRow", slots |-> job[c].slots, event |-> Len(calendar) + 1])
  /\ UNCHANGED <<rows, world, history, upsets>>

InsertSlotHold(c) ==
  /\ At(c, "holdRow")
  /\ holds' = holds \union {[event |-> job[c].event, slot |-> Min(job[c].slots), expired |-> FALSE]}
  /\ NextHold(c)
  /\ UNCHANGED <<calendar, meetings, world, history, upsets>>

\* Either call throws: the slot is left out, with its event if there is one.
HoldFails(c) ==
  /\ job[c].at \in {"hold", "holdRow"} /\ (upsets < MaxUpsets \/ Len(calendar) = MaxEvents)
  /\ upsets' = IF upsets < MaxUpsets THEN upsets + 1 ELSE upsets
  /\ At(c, "holdRow") => upsets < MaxUpsets
  /\ excused' = IF At(c, "holdRow") THEN excused \union {job[c].event} ELSE excused
  /\ NextHold(c)
  /\ UNCHANGED <<calendar, rows, world, overlapped>>

-----------------------------------------------------------------------------
(* scheduleMeeting. *)

Active == {"scheduled", "rescheduled"}
ActiveMeetings == {i \in 1..Len(meetings) : meetings[i].status \in Active}

\* Mutant: a meeting that was moved is not looked for.
FindScheduled ==
  LET found == {i \in ActiveMeetings : meetings[i].status = "scheduled"}
  IN IF found = {} THEN 0 ELSE Max(found)

\* findActiveMeetingForLead: the newest one, 0 if there is none.
FindActive == IF ActiveMeetings = {} THEN 0 ELSE Max(ActiveMeetings)

\* The same slot is answered "already scheduled": nothing changes. Another slot
\* drops the event of the meeting found, then its row.
Schedule(c, s) ==
  /\ FindActive # 0 => meetings[FindActive].slot # s
  /\ Begin(c, [at |-> IF FindActive = 0 THEN "lookup" ELSE "dropOld", slot |-> s, row |-> FindActive])

DropOld(c) ==
  /\ At(c, "dropOld")
  /\ DeleteEvent(meetings[job[c].row].event)
  /\ Becomes(c, "markOld")
  /\ UNCHANGED <<rows, world, overlapped>>

SetStatus(i, status) == meetings' = [meetings EXCEPT ![i].status = status]

MarkOld(c) ==
  /\ At(c, "markOld")
  /\ SetStatus(job[c].row, "rescheduled")
  /\ Becomes(c, "lookup")
  /\ UNCHANGED <<calendar, holds, world, history, upsets>>

HoldsFor(s) == {h \in holds : h.slot = s}

\* fallbackToSimulated: the lead is answered from simulated_meetings, a table
\* that nothing here reads again.
Simulate(c) == Goto(c, Idle)

\* The agenda, the connection and its token, then findHold.
Lookup(c) ==
  LET found == {h.event : h \in HoldsFor(job[c].slot)}
  IN /\ At(c, "lookup")
     /\ IF ~ready THEN Simulate(c)
        ELSE Goto(c, [at |-> IF found = {} THEN "create" ELSE "confirm", slot |-> job[c].slot,
                      event |-> IF found = {} THEN 0 ELSE Max(found)])
     /\ UNCHANGED <<calendar, rows, world, history, upsets>>

\* The patch keeps the event where it is; one that is gone may come back.
ConfirmHold(c) ==
  /\ At(c, "confirm")
  /\ Patch(job[c].event, calendar[job[c].event].slot, "confirmed")
  /\ Becomes(c, "consume")
  /\ UNCHANGED <<rows, world, history, upsets>>

\* Mutant: the id Google answers is not kept.
CreateEventUnnamed(c) ==
  /\ At(c, "create")
  /\ Insert(job[c].slot, "confirmed")
  /\ Becomes(c, "others")
  /\ UNCHANGED <<rows, world, history, upsets>>

CreateEventDirect(c) ==
  /\ At(c, "create")
  /\ Insert(job[c].slot, "confirmed")
  /\ Goto(c, [job[c] EXCEPT !.at = "others", !.event = Len(calendar) + 1])
  /\ UNCHANGED <<rows, world, history, upsets>>

\* The calendar refuses: the event was deleted, or some fault.
BookingRefused(c) ==
  /\ job[c].at \in {"confirm", "create"}
  /\ \/ At(c, "confirm") /\ ~Live(job[c].event) /\ UNCHANGED upsets
     \/ At(c, "create") /\ Len(calendar) = MaxEvents /\ UNCHANGED upsets
     \/ upsets < MaxUpsets /\ upsets' = upsets + 1
  /\ Simulate(c)
  /\ UNCHANGED <<calendar, rows, world, history>>

\* The calendar has done it, but the call throws.
BookingAnswerLost(c) ==
  /\ job[c].at \in {"confirm", "create"} /\ upsets < MaxUpsets
  /\ \/ /\ At(c, "confirm")
        /\ Patch(job[c].event, calendar[job[c].event].slot, "confirmed")
        /\ excused' = excused \union {job[c].event}
     \/ /\ At(c, "create")
        /\ Insert(job[c].slot, "confirmed")
        /\ excused' = excused \union {Len(calendar) + 1}
  /\ Simulate(c)
  /\ upsets' = upsets + 1
  /\ UNCHANGED <<rows, world, overlapped>>

\* A consumed row is never selected again, whatever it is selected for.
MarkHoldConsumed(c) ==
  /\ At(c, "consume")
  /\ holds' = {h \in holds : h.event # job[c].event}
  /\ Becomes(c, "others")
  /\ UNCHANGED <<calendar, meetings, world, history, upsets>>

\* listOtherHoldsForLead
OtherHolds(c) ==
  LET others == {h.event : h \in holds} \ {job[c].event}
  IN /\ At(c, "others")
     /\ Goto(c, [at |-> IF others = {} THEN "insert" ELSE "purge", slot |-> job[c].slot,
                 event |-> job[c].event, todo |-> others])
     /\ UNCHANGED <<calendar, rows, world, history, upsets>>

InsertMeeting(c) ==
  /\ At(c, "insert")
  /\ meetings' = Append(meetings, [slot |-> job[c].slot, event |-> job[c].event, status |-> "scheduled"])
  /\ Goto(c, Idle)
  /\ UNCHANGED <<calendar, holds, world, history, upsets>>

-----------------------------------------------------------------------------
(* Deleting a list of holds: the rest of a booking, and the cleanup. *)

ExpiredHolds == {h \in holds : h.expired}

\* One row of the cleanup's batch, which other rows only delay.
SweepExpired(p) ==
  \E h \in ExpiredHolds :
    /\ p = "cleaner" /\ At(p, "idle")
    /\ Goto(p, [at |-> "purge", todo |-> {h.event}])
    /\ UNCHANGED <<calendar, rows, world, history, upsets>>

\* Mutant: the row of a hold goes before its event does.
PurgeRowFirst(p) ==
  /\ At(p, "purge")
  /\ holds' = {h \in holds : h.event # Min(job[p].todo)}
  /\ Becomes(p, "purgeRow")
  /\ UNCHANGED <<calendar, meetings, world, history, upsets>>

PurgeEvent(p) ==
  /\ At(p, "purge")
  /\ DeleteEvent(Min(job[p].todo))
  /\ Becomes(p, "purgeRow")
  /\ UNCHANGED <<rows, world, overlapped>>

PurgeRow(p) ==
  LET left == job[p].todo \ {Min(job[p].todo)}
  IN /\ At(p, "purgeRow")
     /\ holds' = {h \in holds : h.event # Min(job[p].todo)}
     /\ Goto(p, IF left # {} THEN [job[p] EXCEPT !.at = "purge", !.todo = left]
                ELSE IF p \in Caller THEN [job[p] EXCEPT !.at = "insert", !.todo = {}]
                ELSE Idle)
     /\ UNCHANGED <<calendar, meetings, world, history, upsets>>

HoldExpires(h) ==
  /\ ~h.expired
  /\ holds' = (holds \ {h}) \union {[h EXCEPT !.expired = TRUE]}
  /\ UNCHANGED <<calendar, meetings, world, job, history, upsets>>

-----------------------------------------------------------------------------
(* cancelMeeting and rescheduleMeeting. *)

Cancel(c, i) ==
  /\ meetings[i].status = "scheduled"
  /\ Begin(c, [at |-> "cancel", row |-> i])

CancelEvent(c) ==
  /\ At(c, "cancel")
  /\ DeleteEvent(meetings[job[c].row].event)
  /\ Becomes(c, "cancelRow")
  /\ UNCHANGED <<rows, world, overlapped>>

CancelRow(c) ==
  /\ At(c, "cancelRow")
  /\ SetStatus(job[c].row, "cancelled") /\ Goto(c, Idle)
  /\ UNCHANGED <<calendar, holds, world, history, upsets>>

Reschedule(c, i, s) ==
  /\ meetings[i].status = "scheduled" /\ ready /\ s # meetings[i].slot
  /\ Begin(c, [at |-> "move", row |-> i, slot |-> s])

\* A refusal ends the request with ok = false.
MoveEvent(c) ==
  LET e == meetings[job[c].row].event
  IN /\ At(c, "move")
     /\ \/ /\ Live(e)
           /\ Patch(e, job[c].slot, calendar[e].status)
           /\ Becomes(c, "moveRow") /\ UNCHANGED upsets
        \/ /\ ~Live(e) \/ upsets < MaxUpsets
           /\ Goto(c, Idle)
           /\ upsets' = IF Live(e) THEN upsets + 1 ELSE upsets
           /\ UNCHANGED calendar
     /\ UNCHANGED <<rows, world, history>>

MoveRow(c) ==
  /\ At(c, "moveRow")
  /\ meetings' = [meetings EXCEPT ![job[c].row].slot = job[c].slot,
                                  ![job[c].row].status = "rescheduled"]
  /\ Goto(c, Idle)
  /\ UNCHANGED <<calendar, holds, world, history, upsets>>

-----------------------------------------------------------------------------
(* reconcileMeetings: the rows are read once, the event of each on its turn. *)

\* WINDOW_HOURS: the meetings of the next two days.
InWindow(i) == now <= meetings[i].slot /\ meetings[i].slot <= now + 48

\* Mutant: the query asks for "scheduled" only.
ScannedScheduled == {i \in 1..Len(meetings) : meetings[i].status = "scheduled" /\ InWindow(i)}

Scanned == {i \in ActiveMeetings : InWindow(i)}

Scan(p) ==
  /\ p = "reconciler" /\ At(p, "idle") /\ Scanned # {}
  /\ Goto(p, [at |-> "get", slots |-> [i \in Scanned |-> meetings[i].slot]])
  /\ UNCHANGED <<calendar, rows, world, history, upsets>>

Row(p) == Min(DOMAIN job[p].slots)

NextRow(p) ==
  LET left == DOMAIN job[p].slots \ {Row(p)}
  IN Goto(p, IF left = {} THEN Idle ELSE [at |-> "get", slots |-> Restrict(job[p].slots, left)])

GetEvent(p) ==
  LET event == calendar[meetings[Row(p)].event]
      tell(kind) == Goto(p, [at |-> kind, slots |-> job[p].slots, slot |-> event.slot])
  IN /\ At(p, "get")
     /\ \/ ready /\ event.status \in {"deleted", "removed"} /\ tell("cancelled")
        \/ ready /\ Live(meetings[Row(p)].event) /\ event.slot # job[p].slots[Row(p)] /\ tell("moved")
        \/ (~ready \/ (Live(meetings[Row(p)].event) /\ event.slot = job[p].slots[Row(p)])) /\ NextRow(p)
     /\ UNCHANGED <<calendar, rows, world, history, upsets>>

\* The row and the trigger in one transaction, whatever the row says by now.
TellAgent(p) ==
  /\ job[p].at \in {"cancelled", "moved"}
  /\ meetings' = IF At(p, "cancelled")
                 THEN [meetings EXCEPT ![Row(p)].status = "cancelled_by_organizer"]
                 ELSE [meetings EXCEPT ![Row(p)].status = "rescheduled_by_organizer",
                                       ![Row(p)].slot = job[p].slot]
  /\ NextRow(p)
  /\ UNCHANGED <<calendar, holds, world, history, upsets>>

\* getEvent throws: this row is skipped. The transaction throws: the cycle ends.
ReconcileFails(p) ==
  /\ p = "reconciler" /\ ~At(p, "idle") /\ upsets < MaxUpsets
  /\ IF At(p, "get") THEN NextRow(p) ELSE Goto(p, Idle)
  /\ upsets' = upsets + 1
  /\ UNCHANGED <<calendar, rows, world, history>>

\* The process dies, with what the request had created.
Crash(p) ==
  /\ ~At(p, "idle") /\ upsets < MaxUpsets
  /\ excused' = excused \union (IF "event" \in DOMAIN job[p] THEN {job[p].event} \ {0} ELSE {})
  /\ Goto(p, Idle) /\ upsets' = upsets + 1
  /\ UNCHANGED <<calendar, rows, world, overlapped>>

-----------------------------------------------------------------------------

CallerStep(c) ==
  \/ CreateHold(c) \/ InsertSlotHold(c) \/ DropOld(c) \/ MarkOld(c) \/ Lookup(c)
  \/ ConfirmHold(c) \/ CreateEventDirect(c) \/ BookingRefused(c) \/ MarkHoldConsumed(c)
  \/ OtherHolds(c) \/ InsertMeeting(c)
  \/ CancelEvent(c) \/ CancelRow(c) \/ MoveEvent(c) \/ MoveRow(c)

LoopStep(p) == SweepExpired(p) \/ PurgeEvent(p) \/ PurgeRow(p) \/ Scan(p) \/ GetEvent(p) \/ TellAgent(p)

Next ==
  \/ \E e \in 1..Len(calendar) : OrganizerDeletes(e) \/ \E s \in Slot : OrganizerMoves(e, s)
  \/ \E h \in holds : HoldExpires(h)
  \/ Disconnect \/ Connect \/ TimePasses
  \/ \E c \in Caller :
       \/ \E d \in Days \union {0}, period \in {"any", "morning", "afternoon"} : SuggestSlots(c, d, period)
       \/ \E s \in Slot : Schedule(c, s) \/ \E i \in 1..Len(meetings) : Reschedule(c, i, s)
       \/ \E i \in 1..Len(meetings) : Cancel(c, i)
       \/ HoldFails(c) \/ BookingAnswerLost(c) \/ CallerStep(c)
  \/ \E p \in Proc : PurgeEvent(p) \/ PurgeRow(p) \/ Crash(p)
  \/ \E p \in Loop : Scan(p) \/ SweepExpired(p) \/ GetEvent(p) \/ TellAgent(p) \/ ReconcileFails(p)

Spec == Init /\ [][Next]_vars

\* The cron jobs tick, their calls return, and somebody reconnects the calendar.
\* A request may hang, a hold need not expire, and the clock may stand still.
Fairness == WF_vars(Connect) /\ \A p \in Loop : WF_vars(LoopStep(p))
FairSpec == Spec /\ Fairness

-----------------------------------------------------------------------------
(* Properties. *)

InHand(e) == \E c \in Caller : "event" \in DOMAIN job[c] /\ job[c].event = e

Referenced(e) ==
  \/ \E h \in holds : h.event = e
  \/ \E i \in 1..Len(meetings) : /\ meetings[i].event = e
                                 /\ meetings[i].status \notin {"cancelled", "cancelled_by_organizer"}

(* holds-cleanup.ts and schedule-service.ts together: an event the worker put
   into the organizer's calendar stays there only while a hold, a meeting or a
   running request knows of it, unless a call failed or was skipped. *)
NoStrayEvent == \A e \in 1..Len(calendar) : Live(e) => e \in excused \/ InHand(e) \/ Referenced(e)

(* scheduleMeeting drops the meeting it replaces: unless two of its requests
   ran at once, a lead has at most one active meeting whose event stands. *)
OneLiveMeeting ==
  overlapped \/ Cardinality({i \in ActiveMeetings : Live(meetings[i].event) /\ meetings[i].event \notin excused}) <= 1

(* reconcile.ts: an active meeting of the next 48 hours whose event is gone does
   not stay active, while its hour is ahead. What is gone when the hour has
   come, and was not noticed by then, the scan never sees. *)
CancellationIsNoticed == []<>(\A i \in ActiveMeetings : InWindow(i) => Live(meetings[i].event))

(* holds-cleanup.ts: a hold that expired unconsumed does not stay. *)
HoldsAreReleased == []<>(\A h \in holds : ~h.expired)

(* index.ts:310, "detecta cancel/move pelo closer": the agent is told of a
   cancellation only if the organizer deleted the event. *)
NoFalseAlarm ==
  [][\A p \in Loop : TellAgent(p) /\ At(p, "cancelled") =>
       calendar[meetings[Row(p)].event].status = "removed"]_vars
=============================================================================
