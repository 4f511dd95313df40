-------------------------- MODULE SchedulingProofs --------------------------
(***************************************************************************)
(* What the calendar may be left with.                                     *)
(***************************************************************************)
EXTENDS Scheduling, SequenceTheorems, FiniteSetTheorems, WellFoundedInduction, TLAPS

USE DEF world

-----------------------------------------------------------------------------
(* Numbers: the least and the greatest of a set are in it, and a slot is one. *)

LEMMA MinIn ==
  ASSUME NEW S \in SUBSET Nat, S # {}
  PROVE  Min(S) \in S
  <1>1. PICK x \in S : \A y \in S : ~(<<y, x>> \in OpToRel(<, Nat))
    BY NatLessThanWellFounded, WFMin
  <1>2. \A y \in S : x =< y
    <2>. SUFFICES ASSUME NEW y \in S, ~(x =< y) PROVE FALSE
      OBVIOUS
    <2>1. y < x /\ y \in Nat /\ x \in Nat OBVIOUS
    <2>. QED BY <1>1, <2>1 DEF OpToRel
  <1>. QED BY <1>2 DEF Min

LEMMA MaxIn ==
  ASSUME NEW n \in Nat, NEW S \in SUBSET (1..n), S # {}
  PROVE  Max(S) \in S /\ \A y \in S : y <= Max(S)
  <1>. DEFINE T == {n - x : x \in S}
  <1>1. T \subseteq Nat /\ T # {}
    <2>1. \A x \in S : n - x \in Nat OBVIOUS
    <2>2. PICK x \in S : TRUE OBVIOUS
    <2>3. n - x \in T BY <2>2
    <2>. QED BY <2>1, <2>3
  <1>. HIDE DEF T
  <1>2. PICK t \in T : \A u \in T : ~(<<u, t>> \in OpToRel(<, Nat))
    BY <1>1, NatLessThanWellFounded, WFMin
  <1>3. PICK x \in S : t = n - x BY DEF T
  <1>4. \A y \in S : x >= y
    <2>. SUFFICES ASSUME NEW y \in S, ~(x >= y) PROVE FALSE
      OBVIOUS
    <2>1. n - y \in T /\ n - y < t BY <1>3 DEF T
    <2>. QED BY <1>1, <1>2, <2>1 DEF OpToRel
  <1>5. Max(S) \in S /\ \A y \in S : Max(S) >= y BY <1>4 DEF Max
  <1>. QED BY <1>5

LEMMA SlotIsNat == Slot \subseteq Nat
  <1>. SUFFICES ASSUME NEW d \in Days, NEW r \in Ranges, NEW t \in Starts(d, r) PROVE t \in Nat
    BY DEF Slot
  <1>1. d \in Nat /\ r[1] \in Nat /\ r[2] \in Nat /\ Duration \in Nat BY SchedulingAssumption
  <1>2. t \in (24 * d + r[1])..(24 * d + r[2] - Duration) BY DEF Starts
  <1>. QED BY <1>1, <1>2

LEMMA GeneratedAreSlots ==
  ASSUME NEW day, NEW period, NEW busy
  PROVE  GenerateSlots(day, period, busy) \subseteq Slot
  <1>1. \A d \in Days : FreeOn(d, period, busy) \subseteq Slot BY DEF FreeOn, Slot
  <1>. QED BY <1>1 DEF GenerateSlots

-----------------------------------------------------------------------------
(* Types. *)

LEMMA Rows_ ==
  ASSUME TypeOK
  PROVE  /\ Len(calendar) \in Nat /\ DOMAIN calendar = Event
         /\ \A e \in Event : calendar[e] \in [slot : Slot, status : {"tentative", "confirmed", "deleted", "removed"}]
         /\ Len(meetings) \in Nat /\ DOMAIN meetings = MeetingRow
         /\ \A i \in MeetingRow : /\ meetings[i].slot \in Slot /\ meetings[i].event \in Event
                                  /\ meetings[i].status \in {"scheduled", "rescheduled", "cancelled", "cancelled_by_organizer", "rescheduled_by_organizer"}
  <1>. DEFINE M == [slot : Slot, event : Event,
                    status : {"scheduled", "rescheduled", "cancelled", "cancelled_by_organizer", "rescheduled_by_organizer"}]
              E == [slot : Slot, status : {"tentative", "confirmed", "deleted", "removed"}]
  <1>1. meetings \in Seq(M) /\ calendar \in Seq(E) BY DEF TypeOK
  <1>. HIDE DEF M, E
  <1>2. Len(meetings) \in Nat /\ DOMAIN meetings = MeetingRow /\ \A i \in MeetingRow : meetings[i] \in M
    BY <1>1, LenProperties, ElementOfSeq DEF MeetingRow
  <1>3. Len(calendar) \in Nat /\ DOMAIN calendar = Event /\ \A e \in Event : calendar[e] \in E
    BY <1>1, LenProperties, ElementOfSeq DEF Event
  <1>. QED BY <1>2, <1>3 DEF M, E

LEMMA RowShape ==
  ASSUME TypeOK, NEW i \in MeetingRow
  PROVE  meetings[i] \in [slot : Slot, event : Event,
            status : {"scheduled", "rescheduled", "cancelled", "cancelled_by_organizer", "rescheduled_by_organizer"}]
  <1>. DEFINE M == [slot : Slot, event : Event,
                    status : {"scheduled", "rescheduled", "cancelled", "cancelled_by_organizer", "rescheduled_by_organizer"}]
  <1>1. meetings \in Seq(M) BY DEF TypeOK
  <1>. HIDE DEF M
  <1>2. meetings[i] \in M BY <1>1, LenProperties, ElementOfSeq DEF MeetingRow
  <1>. QED BY <1>2 DEF M

\* Where a request is tells what its record holds.
LEMMA Shapes ==
  ASSUME TypeOK, NEW c \in Caller
  PROVE  /\ At(c, "idle") => job[c] = Idle
         /\ At(c, "hold") => job[c] \in [at : {"hold"}, slots : Some(Slot)]
         /\ At(c, "holdRow") => job[c] \in [at : {"holdRow"}, slots : Some(Slot), event : Event]
         /\ job[c].at \in {"dropOld", "markOld"} => job[c] \in [at : {"dropOld", "markOld"}, slot : Slot, row : MeetingRow]
         /\ At(c, "lookup") => job[c] \in [at : {"lookup"}, slot : Slot, row : MeetingRow \union {0}]
         /\ At(c, "create") => job[c] \in [at : {"create"}, slot : Slot, event : {0}]
         /\ job[c].at \in {"confirm", "consume", "others"} => job[c] \in [at : {"confirm", "consume", "others"}, slot : Slot, event : Event]
         /\ job[c].at \in {"purge", "purgeRow"} => job[c] \in [at : {"purge", "purgeRow"}, slot : Slot, event : Event, todo : Some(Event)]
         /\ At(c, "insert") => job[c] \in [at : {"insert"}, slot : Slot, event : Event, todo : SUBSET Event]
         /\ job[c].at \in {"cancel", "cancelRow"} => job[c] \in [at : {"cancel", "cancelRow"}, row : MeetingRow]
         /\ job[c].at \in {"move", "moveRow"} => job[c] \in [at : {"move", "moveRow"}, row : MeetingRow, slot : Slot]
  <1>1. job[c] \in CallerJob BY DEF TypeOK
  <1>. QED BY <1>1 DEF CallerJob, At, Idle

LEMMA CronShapes ==
  ASSUME TypeOK, NEW p \in Loop
  PROVE  /\ At(p, "idle") => job[p] = Idle
         /\ job[p].at \in {"purge", "purgeRow"} => job[p] \in [at : {"purge", "purgeRow"}, todo : Some(Event)]
         /\ At(p, "get") => job[p] \in [at : {"get"}, slots : Batch]
         /\ job[p].at \in {"cancelled", "moved"} => job[p] \in [at : {"cancelled", "moved"}, slots : Batch, slot : Slot]
  <1>1. job[p] \in CronJob BY DEF TypeOK
  <1>. QED BY <1>1 DEF CronJob, At, Idle

LEMMA ScanRow ==
  ASSUME TypeOK, NEW p \in Loop, job[p].at \in {"get", "cancelled", "moved"}
  PROVE  Row(p) \in MeetingRow /\ Row(p) \in DOMAIN job[p].slots /\ job[p].slots \in Batch
  <1>1. job[p].slots \in Batch BY CronShapes DEF At
  <1>2. PICK rows_ \in Some(MeetingRow) : job[p].slots \in [rows_ -> Slot] BY <1>1 DEF Batch, Some
  <1>3. DOMAIN job[p].slots = rows_ /\ rows_ \in SUBSET Nat BY <1>2 DEF MeetingRow, Some
  <1>4. Min(rows_) \in rows_ BY <1>2, <1>3, MinIn DEF Some
  <1>5. Row(p) \in rows_ BY <1>3, <1>4 DEF Row
  <1>. QED BY <1>1, <1>2, <1>3, <1>5 DEF Some

\* A job as it was keeps its type while the calendar and the meetings grow.
LEMMA JobsKeepType ==
  ASSUME Len(calendar) \in Nat, Len(meetings) \in Nat, Len(calendar') \in Nat, Len(meetings') \in Nat,
         Len(calendar) <= Len(calendar'), Len(meetings) <= Len(meetings')
  PROVE  CallerJob \subseteq CallerJob' /\ CronJob \subseteq CronJob' /\ Event \subseteq Event' /\ MeetingRow \subseteq MeetingRow'
  <1>1. Event \subseteq Event' /\ MeetingRow \subseteq MeetingRow' BY DEF Event, MeetingRow
  <1>2. Batch \subseteq Batch' BY <1>1 DEF Batch, Some
  <1>3. CallerJob \subseteq CallerJob' BY <1>1 DEF CallerJob, Some
  <1>4. CronJob \subseteq CronJob' BY <1>1, <1>2 DEF CronJob, Some
  <1>. QED BY <1>1, <1>3, <1>4

\* One job moves on, and the stores grow at most.
LEMMA JobMoves ==
  ASSUME TypeOK, NEW p \in Proc, NEW j, job' = [job EXCEPT ![p] = j],
         calendar' \in Seq([slot : Slot, status : {"tentative", "confirmed", "deleted", "removed"}]),
         Len(calendar) <= Len(calendar'),
         meetings' \in Seq([slot : Slot, event : Event',
                            status : {"scheduled", "rescheduled", "cancelled",
                                      "cancelled_by_organizer", "rescheduled_by_organizer"}]),
         Len(meetings) <= Len(meetings'),
         holds' \subseteq [event : Event', slot : Slot, expired : BOOLEAN],
         world' = world, overlapped' \in BOOLEAN, upsets' \in 0..MaxUpsets, excused' \subseteq Event',
         p \in Caller => j \in CallerJob', p \in Loop => j \in CronJob'
  PROVE  /\ TypeOK' /\ job'[p] = j /\ \A q \in Proc : q # p => job'[q] = job[q]
  <1>1. Len(calendar) \in Nat /\ Len(meetings) \in Nat BY Rows_
  <1>2. Len(calendar') \in Nat /\ Len(meetings') \in Nat BY LenProperties
  <1>3. CallerJob \subseteq CallerJob' /\ CronJob \subseteq CronJob' BY <1>1, <1>2, JobsKeepType
  <1>4. job'[p] = j /\ (\A q \in Proc : q # p => job'[q] = job[q]) /\ DOMAIN job' = Proc BY DEF TypeOK
  <1>5. \A c \in Caller : job'[c] \in CallerJob' BY <1>3, <1>4 DEF TypeOK, Proc
  <1>6. \A l \in Loop : job'[l] \in CronJob' BY <1>3, <1>4 DEF TypeOK, Proc
  <1>. QED BY <1>4, <1>5, <1>6 DEF TypeOK

-----------------------------------------------------------------------------
(* Who keeps an event. A hold does not once its row is about to go, nor does a
   meeting that is about to be marked as cancelled; a request does when nobody
   else may know the event yet. *)

Strong == {"holdRow", "consume", "others", "purge", "purgeRow", "insert"}
Off == {"cancelled", "cancelled_by_organizer"}

InStrongHand(e) == \E c \in Caller : job[c].at \in Strong /\ job[c].event = e
Held(e) ==
  /\ \E h \in holds : h.event = e
  /\ \A p \in Proc : At(p, "purgeRow") => Min(job[p].todo) # e
Met(e) ==
  \E i \in MeetingRow :
    /\ meetings[i].event = e /\ meetings[i].status \notin Off
    /\ \A c \in Caller : At(c, "cancelRow") => job[c].row # i
    /\ \A p \in Loop : At(p, "cancelled") => Row(p) # i
Kept(e) == e \in excused \/ InStrongHand(e) \/ Held(e) \/ Met(e)
Safe(e) == Live(e) => Kept(e)

Solid == \A e \in Event : Safe(e)

\* An event whose hold has no row yet is nobody else's business.
Fresh ==
  \A c \in Caller : At(c, "holdRow") =>
    /\ \A h \in holds : h.event # job[c].event
    /\ \A p \in Proc : job[p].at \in {"purge", "purgeRow"} => job[c].event \notin job[p].todo
    /\ \A d \in Caller : At(d, "holdRow") /\ job[d].event = job[c].event => d = c

EventInv == TypeOK /\ Solid /\ Fresh

\* What a step has to show of the events it touches.
LEMMA SolidStep ==
  ASSUME Solid,
         \A e \in Event' : Live(e)' => (e \in Event /\ Live(e)) \/ Kept(e)',
         excused \subseteq excused',
         \A c \in Caller : job[c].at \in Strong =>
           \/ job'[c].at \in Strong /\ job'[c].event = job[c].event
           \/ \A e \in Event' : job[c].event = e => Safe(e)',
         \A h \in holds : (\E g \in holds' : g.event = h.event) \/ ~Held(h.event) \/ Safe(h.event)',
         \A p \in Proc : At(p, "purgeRow")' =>
           \/ At(p, "purgeRow") /\ job'[p].todo = job[p].todo
           \/ (Live(Min(job[p].todo)) => Min(job[p].todo) \in excused)',
         \A i \in MeetingRow :
           /\ i \in MeetingRow' /\ meetings'[i].event = meetings[i].event
           /\ \/ meetings[i].status \in Off \/ meetings'[i].status \notin Off
              \/ \E c \in Caller : At(c, "cancelRow") /\ job[c].row = i
              \/ \E p \in Loop : At(p, "cancelled") /\ Row(p) = i,
         \A c \in Caller : At(c, "cancelRow")' =>
           \/ At(c, "cancelRow") /\ job'[c].row = job[c].row
           \/ (Live(meetings[job[c].row].event) => meetings[job[c].row].event \in excused)',
         \A p \in Loop : At(p, "cancelled")' =>
           (At(p, "cancelled") /\ job'[p].slots = job[p].slots) \/ ~Live(meetings[Row(p)].event)'
  PROVE  Solid'
  <1>. SUFFICES ASSUME NEW e \in Event', Live(e)', ~Kept(e)' PROVE FALSE
    BY DEF Solid, Safe
  <1>1. e \in Event /\ Live(e) /\ Kept(e) BY DEF Solid, Safe
  <1>2. e \notin excused /\ e \notin excused' BY DEF Kept
  <1>3. ~Safe(e)' BY DEF Safe
  <1>4. ~InStrongHand(e)
    <2>1. \A c \in Caller : ~(job'[c].at \in Strong /\ job'[c].event = e) BY DEF Kept, InStrongHand
    <2>2. \A c \in Caller : job[c].at \in Strong /\ job[c].event = e => Safe(e)'
      BY <2>1
    <2>. QED BY <1>3, <2>2 DEF InStrongHand
  <1>5. ~Held(e)
    <2>. SUFFICES ASSUME Held(e) PROVE FALSE
      OBVIOUS
    <2>1. \E g \in holds' : g.event = e BY <1>3 DEF Held
    <2>2. ASSUME NEW p \in Proc, At(p, "purgeRow")' PROVE Min(job'[p].todo) # e
      <3>1. CASE At(p, "purgeRow") /\ job'[p].todo = job[p].todo BY <3>1 DEF Held
      <3>2. CASE ~(At(p, "purgeRow") /\ job'[p].todo = job[p].todo) BY <1>2, <2>2, <3>2
      <3>. QED BY <3>1, <3>2
    <2>3. Held(e)' BY <2>1, <2>2 DEF Held
    <2>. QED BY <2>3 DEF Kept
  <1>6. ~Met(e)
    <2>. SUFFICES ASSUME Met(e) PROVE FALSE
      OBVIOUS
    <2>1. PICK i \in MeetingRow :
            /\ meetings[i].event = e /\ meetings[i].status \notin Off
            /\ \A c \in Caller : At(c, "cancelRow") => job[c].row # i
            /\ \A p \in Loop : At(p, "cancelled") => Row(p) # i
      BY DEF Met
    <2>2. i \in MeetingRow' /\ meetings'[i].event = e /\ meetings'[i].status \notin Off BY <2>1
    <2>3. \A c \in Caller : At(c, "cancelRow")' => job'[c].row # i BY <1>2, <2>1, <2>2
    <2>4. \A p \in Loop : At(p, "cancelled")' => Row(p)' # i BY <2>1, <2>2 DEF Row
    <2>5. Met(e)' BY <2>2, <2>3, <2>4 DEF Met
    <2>. QED BY <2>5 DEF Kept
  <1>. QED BY <1>1, <1>2, <1>4, <1>5, <1>6 DEF Kept

-----------------------------------------------------------------------------
(* What a call of the calendar leaves. *)

CalendarType == Seq([slot : Slot, status : {"tentative", "confirmed", "deleted", "removed"}])
MeetingsType(events) ==
  Seq([slot : Slot, event : events,
       status : {"scheduled", "rescheduled", "cancelled", "cancelled_by_organizer", "rescheduled_by_organizer"}])

LEMMA Patches ==
  ASSUME TypeOK, NEW e \in Event, NEW s \in Slot,
         NEW status \in {"tentative", "confirmed", "deleted", "removed"}, Patch(e, s, status)
  PROVE  /\ calendar' \in CalendarType /\ Len(calendar') = Len(calendar) /\ Event' = Event
         /\ calendar'[e].slot = s /\ calendar'[e].status = status
         /\ \A x \in Event : x # e => calendar'[x] = calendar[x]
  <1>. DEFINE E == [slot : Slot, status : {"tentative", "confirmed", "deleted", "removed"}]
              r == [slot |-> s, status |-> status]
  <1>1. calendar \in Seq(E) /\ r \in E BY DEF TypeOK
  <1>2. calendar' = [calendar EXCEPT ![e] = r] BY DEF Patch
  <1>3. r.slot = s /\ r.status = status OBVIOUS
  <1>. HIDE DEF E, r
  <1>4. calendar' \in Seq(E) /\ Len(calendar') = Len(calendar) BY <1>1, <1>2, ExceptSeq DEF Event
  <1>5. DOMAIN calendar = Event BY Rows_
  <1>6. calendar'[e] = r /\ \A x \in Event : x # e => calendar'[x] = calendar[x] BY <1>2, <1>5
  <1>7. Event' = Event BY <1>4 DEF Event
  <1>. QED BY <1>3, <1>4, <1>6, <1>7 DEF E, CalendarType

LEMMA Inserts ==
  ASSUME TypeOK, NEW s \in Slot, NEW status \in {"tentative", "confirmed"}, Insert(s, status)
  PROVE  /\ calendar' \in CalendarType /\ Len(calendar') = Len(calendar) + 1
         /\ Event' = Event \union {Len(calendar) + 1} /\ Len(calendar) + 1 \notin Event
         /\ \A x \in Event : calendar'[x] = calendar[x]
  <1>. DEFINE E == [slot : Slot, status : {"tentative", "confirmed", "deleted", "removed"}]
              r == [slot |-> s, status |-> status]
  <1>1. calendar \in Seq(E) /\ r \in E BY DEF TypeOK
  <1>2. calendar' = Append(calendar, r) BY DEF Insert
  <1>. HIDE DEF E, r
  <1>3. /\ calendar' \in Seq(E) /\ Len(calendar') = Len(calendar) + 1
        /\ \A x \in 1..Len(calendar) : calendar'[x] = calendar[x]
    BY <1>1, <1>2, AppendProperties
  <1>4. Len(calendar) \in Nat BY <1>1, LenProperties
  <1>. QED BY <1>3, <1>4 DEF Event, E, CalendarType

LEMMA Deletes ==
  ASSUME TypeOK, NEW e \in Event, DeleteEvent(e)
  PROVE  /\ calendar' \in CalendarType /\ Len(calendar') = Len(calendar) /\ Event' = Event
         /\ \A x \in Event : Live(x)' => Live(x)
         /\ Live(e)' => e \in excused'
         /\ excused \subseteq excused' /\ excused' \subseteq Event
         /\ upsets' \in 0..MaxUpsets
         /\ \A x \in Event : calendar'[x].slot = calendar[x].slot
  <1>1. upsets \in 0..MaxUpsets /\ excused \subseteq Event /\ calendar \in CalendarType BY DEF TypeOK, CalendarType
  <1>2. CASE ready /\ Live(e) /\ Patch(e, calendar[e].slot, "deleted") /\ UNCHANGED <<excused, upsets>>
    <2>1. calendar[e].slot \in Slot BY Rows_
    <2>2. /\ calendar' \in CalendarType /\ Len(calendar') = Len(calendar) /\ Event' = Event
          /\ calendar'[e].slot = calendar[e].slot /\ calendar'[e].status = "deleted"
          /\ \A x \in Event : x # e => calendar'[x] = calendar[x]
      BY <1>2, <2>1, Patches
    <2>. QED BY <1>1, <1>2, <2>2 DEF Live
  <1>3. CASE UNCHANGED <<calendar, excused, upsets>> /\ ~Live(e)
    BY <1>1, <1>3 DEF Live, Event
  <1>4. CASE /\ ~ready \/ upsets < MaxUpsets
             /\ upsets' = IF ready THEN upsets + 1 ELSE upsets
             /\ excused' = excused \union {e}
             /\ UNCHANGED calendar
    BY <1>1, <1>4, SchedulingAssumption DEF Live, Event
  <1>. QED BY <1>2, <1>3, <1>4 DEF DeleteEvent

-----------------------------------------------------------------------------
(* Two ways a step keeps the events safe: a job moves on, or the rows change. *)

\* One process moves on; the calendar loses live events at most.
LEMMA SafeMove ==
  ASSUME TypeOK, Solid, NEW p \in Proc,
         \A q \in Proc : q # p => job'[q] = job[q],
         \A e \in Event : Live(e)' => Live(e), Event' = Event, excused \subseteq excused',
         holds' = holds, meetings' = meetings,
         p \in Caller /\ job[p].at \in Strong =>
           \/ job'[p].at \in Strong /\ job'[p].event = job[p].event
           \/ job[p].event \in excused',
         At(p, "purgeRow")' => \A e \in Event : e = Min(job'[p].todo) /\ Live(e)' => e \in excused',
         p \in Caller /\ At(p, "cancelRow")' =>
           \A e \in Event : e = meetings[job'[p].row].event /\ Live(e)' => e \in excused',
         p \in Loop /\ At(p, "cancelled")' =>
           \A e \in Event : e = meetings[Min(DOMAIN job'[p].slots)].event => ~Live(e)',
         TypeOK'
  PROVE  Solid'
  <1>1. \A c \in Caller : job[c].at \in Strong =>
           \/ job'[c].at \in Strong /\ job'[c].event = job[c].event
           \/ \A e \in Event' : job[c].event = e => Safe(e)'
    BY DEF Safe, Kept, Proc
  <1>2. MeetingRow' = MeetingRow BY DEF MeetingRow
  <1>3. ASSUME NEW q \in Proc, At(q, "purgeRow")'
        PROVE  \/ At(q, "purgeRow") /\ job'[q].todo = job[q].todo
               \/ (Live(Min(job[q].todo)) => Min(job[q].todo) \in excused)'
    <2>1. CASE q # p BY <1>3, <2>1 DEF At
    <2>2. CASE q = p
      <3>0. job'[p].at = "purgeRow" /\ (job'[p] \in CallerJob' \/ job'[p] \in CronJob')
        BY <1>3, <2>2 DEF At, TypeOK, Proc
      <3>1. job'[p].todo \in Some(Event') BY <3>0 DEF CallerJob, CronJob, Idle
      <3>2. Min(job'[p].todo) \in Event BY <3>1, MinIn DEF Event, Some
      <3>. QED BY <1>3, <2>2, <3>2
    <2>. QED BY <2>1, <2>2
  <1>4. ASSUME NEW c \in Caller, At(c, "cancelRow")'
        PROVE  \/ At(c, "cancelRow") /\ job'[c].row = job[c].row
               \/ (Live(meetings[job[c].row].event) => meetings[job[c].row].event \in excused)'
    <2>1. CASE c # p BY <1>4, <2>1 DEF At, Proc
    <2>2. CASE c = p
      <3>0. job'[c].at = "cancelRow" /\ job'[c] \in CallerJob' BY <1>4 DEF At, TypeOK
      <3>1. job'[c].row \in MeetingRow BY <1>2, <3>0 DEF CallerJob, Idle
      <3>2. meetings[job'[c].row].event \in Event BY <3>1, Rows_
      <3>. QED BY <1>4, <2>2, <3>2
    <2>. QED BY <2>1, <2>2
  <1>5. ASSUME NEW q \in Loop, At(q, "cancelled")'
        PROVE  \/ At(q, "cancelled") /\ job'[q].slots = job[q].slots
               \/ ~Live(meetings[Row(q)].event)'
    <2>1. CASE q # p BY <1>5, <2>1 DEF At, Proc
    <2>2. CASE q = p
      <3>0. job'[q].at = "cancelled" /\ job'[q] \in CronJob' BY <1>5 DEF At, TypeOK
      <3>1. job'[q].slots \in Batch' BY <3>0 DEF CronJob, Idle
      <3>a. PICK s \in Some(MeetingRow) : job'[q].slots \in [s -> Slot] BY <1>2, <3>1 DEF Batch
      <3>2. s \in SUBSET Nat /\ s # {} /\ s \subseteq MeetingRow BY DEF MeetingRow, Some
      <3>3. Min(s) \in MeetingRow BY <3>2, MinIn
      <3>b. DOMAIN job'[q].slots = s BY <3>a
      <3>c. Min(DOMAIN job'[q].slots) \in MeetingRow BY <3>3, <3>b
      <3>4. meetings[Min(DOMAIN job'[q].slots)].event \in Event BY <3>c, Rows_
      <3>. QED BY <1>5, <2>2, <3>4 DEF Row
    <2>. QED BY <2>1, <2>2
  <1>6. \A i \in MeetingRow :
           /\ i \in MeetingRow' /\ meetings'[i].event = meetings[i].event
           /\ \/ meetings[i].status \in Off \/ meetings'[i].status \notin Off
              \/ \E c \in Caller : At(c, "cancelRow") /\ job[c].row = i
              \/ \E q \in Loop : At(q, "cancelled") /\ Row(q) = i
    BY <1>2
  <1>. HIDE DEF Safe, Kept
  <1>. QED BY <1>1, <1>3, <1>4, <1>5, <1>6, SolidStep

\* What the calendar and the rows do, the jobs being as they were.
LEMMA FreshStep ==
  ASSUME Fresh,
         \A c \in Caller : At(c, "holdRow")' => job'[c] = job[c],
         \A h \in holds' : (\E g \in holds : g.event = h.event)
                             \/ \E c \in Caller : At(c, "holdRow") /\ ~At(c, "holdRow")' /\ job[c].event = h.event,
         \A q \in Proc : job'[q].at \in {"purge", "purgeRow"} =>
           \A e \in job'[q].todo : (job[q].at \in {"purge", "purgeRow"} /\ e \in job[q].todo)
                                    \/ \E g \in holds : g.event = e
  PROVE  Fresh'
  <1>. SUFFICES ASSUME NEW c \in Caller, At(c, "holdRow")'
                PROVE  (/\ \A h \in holds : h.event # job[c].event
                        /\ \A p \in Proc : job[p].at \in {"purge", "purgeRow"} => job[c].event \notin job[p].todo
                        /\ \A d \in Caller : At(d, "holdRow") /\ job[d].event = job[c].event => d = c)'
    BY DEF Fresh
  <1>1. job'[c] = job[c] /\ At(c, "holdRow") BY DEF At
  <1>2. /\ \A h \in holds : h.event # job[c].event
        /\ \A p \in Proc : job[p].at \in {"purge", "purgeRow"} => job[c].event \notin job[p].todo
        /\ \A d \in Caller : At(d, "holdRow") /\ job[d].event = job[c].event => d = c
    BY <1>1 DEF Fresh
  <1>3. \A h \in holds' : h.event # job'[c].event BY <1>1, <1>2
  <1>4. \A p \in Proc : job'[p].at \in {"purge", "purgeRow"} => job'[c].event \notin job'[p].todo BY <1>1, <1>2
  <1>5. \A d \in Caller : At(d, "holdRow")' /\ job'[d].event = job'[c].event => d = c
    BY <1>1, <1>2 DEF At
  <1>. QED BY <1>3, <1>4, <1>5

\* A process moves on and the calendar loses live events at most.
LEMMA Moves ==
  ASSUME EventInv, NEW p \in Proc, NEW j, Goto(p, j),
         calendar' \in CalendarType, Len(calendar') = Len(calendar), \A e \in Event : Live(e)' => Live(e),
         holds' = holds, meetings' = meetings, world' = world,
         overlapped' \in BOOLEAN, upsets' \in 0..MaxUpsets,
         excused \subseteq excused', excused' \subseteq Event,
         p \in Caller => j \in CallerJob, p \in Loop => j \in CronJob,
         p \in Caller /\ job[p].at \in Strong =>
           \/ j.at \in Strong /\ j.event = job[p].event
           \/ job[p].event \in excused',
         j.at # "holdRow",
         j.at \in {"purge", "purgeRow"} =>
           \A e \in j.todo : (job[p].at \in {"purge", "purgeRow"} /\ e \in job[p].todo) \/ \E h \in holds : h.event = e,
         j.at = "purgeRow" => \A e \in Event : e = Min(j.todo) /\ Live(e)' => e \in excused',
         p \in Caller /\ j.at = "cancelRow" =>
           \A e \in Event : e = meetings[j.row].event /\ Live(e)' => e \in excused',
         p \in Loop /\ j.at = "cancelled" =>
           \A e \in Event : e = meetings[Min(DOMAIN j.slots)].event => ~Live(e)'
  PROVE  EventInv'
  <1>0. TypeOK /\ Solid /\ Fresh BY DEF EventInv
  <1>1. Event' = Event /\ MeetingRow' = MeetingRow BY DEF Event, MeetingRow
  <1>2. CallerJob \subseteq CallerJob' /\ CronJob \subseteq CronJob' BY <1>0, <1>1, Rows_, JobsKeepType
  <1>3. meetings' \in MeetingsType(Event') /\ holds' \subseteq [event : Event', slot : Slot, expired : BOOLEAN]
    BY <1>0, <1>1 DEF TypeOK, MeetingsType
  <1>4. TypeOK' /\ job'[p] = j /\ \A q \in Proc : q # p => job'[q] = job[q]
    <2>1. job' = [job EXCEPT ![p] = j] BY DEF Goto
    <2>2. p \in Caller => j \in CallerJob' BY <1>2
    <2>3. p \in Loop => j \in CronJob' BY <1>2
    <2>4. Len(calendar) <= Len(calendar') /\ Len(meetings) <= Len(meetings') BY <1>0, Rows_
    <2>. QED BY <1>0, <1>1, <1>3, <2>1, <2>2, <2>3, <2>4, JobMoves DEF CalendarType, MeetingsType
  <1>5. Solid' BY <1>0, <1>1, <1>4, SafeMove DEF At
  <1>6. Fresh'
    <2>1. \A c \in Caller : At(c, "holdRow")' => job'[c] = job[c] BY <1>4 DEF At, Proc
    <2>2. \A h \in holds' : (\E g \in holds : g.event = h.event) OBVIOUS
    <2>3. \A q \in Proc : job'[q].at \in {"purge", "purgeRow"} =>
           \A e \in job'[q].todo : (job[q].at \in {"purge", "purgeRow"} /\ e \in job[q].todo)
                                    \/ \E g \in holds : g.event = e
      BY <1>4
    <2>. QED BY <1>0, <2>1, <2>2, <2>3, FreshStep
  <1>. QED BY <1>4, <1>5, <1>6 DEF EventInv

\* A process moves on, and nothing else changes but what is excused.
LEMMA JobOnly ==
  ASSUME EventInv, NEW p \in Proc, NEW j, Goto(p, j),
         UNCHANGED <<calendar, rows, world>>, overlapped' \in BOOLEAN, upsets' \in 0..MaxUpsets,
         excused \subseteq excused', excused' \subseteq Event,
         p \in Caller => j \in CallerJob, p \in Loop => j \in CronJob,
         p \in Caller /\ job[p].at \in Strong =>
           \/ j.at \in Strong /\ j.event = job[p].event
           \/ job[p].event \in excused',
         j.at \notin {"holdRow", "purgeRow", "cancelRow", "cancelled"},
         j.at = "purge" => \A e \in j.todo : \E h \in holds : h.event = e
  PROVE  EventInv'
  <1>1. calendar' \in CalendarType /\ calendar' = calendar /\ holds' = holds /\ meetings' = meetings /\ world' = world
    BY DEF EventInv, TypeOK, CalendarType, rows
  <1>2. \A e \in Event : Live(e)' => Live(e) BY <1>1 DEF Live
  <1>. QED BY <1>1, <1>2, Moves

\* A process writes one meeting, of which it keeps the event, and moves on.
LEMMA RowIsWritten ==
  ASSUME EventInv, NEW p \in Proc, NEW j, Goto(p, j), NEW i \in MeetingRow, NEW r,
         meetings' = [meetings EXCEPT ![i] = r],
         r \in [slot : Slot, event : Event,
                status : {"scheduled", "rescheduled", "cancelled", "cancelled_by_organizer", "rescheduled_by_organizer"}],
         r.event = meetings[i].event,
         r.status \in Off => \/ p \in Caller /\ At(p, "cancelRow") /\ job[p].row = i
                             \/ p \in Loop /\ At(p, "cancelled") /\ Row(p) = i,
         UNCHANGED <<calendar, holds, world, history, upsets>>,
         p \in Caller => j \in CallerJob, p \in Loop => j \in CronJob,
         p \in Caller => job[p].at \notin Strong,
         j.at \in {"idle", "lookup", "get"}
  PROVE  EventInv'
  <1>0. TypeOK /\ Solid /\ Fresh BY DEF EventInv
  <1>. DEFINE M == [slot : Slot, event : Event,
                    status : {"scheduled", "rescheduled", "cancelled", "cancelled_by_organizer", "rescheduled_by_organizer"}]
  <1>1. meetings \in Seq(M) /\ r \in M BY <1>0 DEF TypeOK
  <1>2. meetings' \in Seq(M) /\ Len(meetings') = Len(meetings)
    <2>. HIDE DEF M
    <2>. QED BY <1>1, ExceptSeq DEF MeetingRow
  <1>3. MeetingRow' = MeetingRow /\ Event' = Event BY <1>2 DEF MeetingRow, Event, history
  <1>4. meetings'[i] = r /\ \A k \in MeetingRow : k # i => meetings'[k] = meetings[k]
    <2>1. DOMAIN meetings = MeetingRow BY <1>0, Rows_
    <2>. QED BY <2>1
  <1>5. CallerJob \subseteq CallerJob' /\ CronJob \subseteq CronJob' BY <1>0, <1>2, <1>3, Rows_, JobsKeepType
  <1>6. TypeOK' /\ job'[p] = j /\ \A q \in Proc : q # p => job'[q] = job[q]
    <2>1. job' = [job EXCEPT ![p] = j] BY DEF Goto
    <2>2. (p \in Caller => j \in CallerJob') /\ (p \in Loop => j \in CronJob') BY <1>5
    <2>3. Len(calendar) <= Len(calendar') /\ Len(meetings) <= Len(meetings') BY <1>0, <1>2, Rows_
    <2>4. /\ calendar' \in Seq([slot : Slot, status : {"tentative", "confirmed", "deleted", "removed"}])
          /\ holds' \subseteq [event : Event', slot : Slot, expired : BOOLEAN]
          /\ world' = world /\ overlapped' \in BOOLEAN /\ upsets' \in 0..MaxUpsets /\ excused' \subseteq Event'
      BY <1>0, <1>3 DEF TypeOK, history
    <2>. QED BY <1>0, <1>2, <1>3, <2>1, <2>2, <2>3, <2>4, JobMoves
  <1>7. Solid'
    <2>1. \A e \in Event' : Live(e)' => e \in Event /\ Live(e) BY <1>3 DEF Live
    <2>2. \A c \in Caller : job[c].at \in Strong => job'[c].at \in Strong /\ job'[c].event = job[c].event
      BY <1>6 DEF Proc
    <2>3. \A q \in Proc : At(q, "purgeRow")' => At(q, "purgeRow") /\ job'[q].todo = job[q].todo
      BY <1>6 DEF At
    <2>4. \A c \in Caller : At(c, "cancelRow")' => At(c, "cancelRow") /\ job'[c].row = job[c].row
      BY <1>6 DEF At, Proc
    <2>5. \A q \in Loop : At(q, "cancelled")' => At(q, "cancelled") /\ job'[q].slots = job[q].slots
      BY <1>6 DEF At, Proc
    <2>6. \A k \in MeetingRow :
           /\ k \in MeetingRow' /\ meetings'[k].event = meetings[k].event
           /\ \/ meetings[k].status \in Off \/ meetings'[k].status \notin Off
              \/ \E c \in Caller : At(c, "cancelRow") /\ job[c].row = k
              \/ \E q \in Loop : At(q, "cancelled") /\ Row(q) = k
      BY <1>3, <1>4
    <2>7. excused \subseteq excused' /\ \A h \in holds : \E g \in holds' : g.event = h.event BY DEF history
    <2>. QED BY <1>0, <2>1, <2>2, <2>3, <2>4, <2>5, <2>6, <2>7, SolidStep
  <1>8. Fresh'
    <2>1. \A c \in Caller : At(c, "holdRow")' => job'[c] = job[c] BY <1>6 DEF At, Proc
    <2>2. \A h \in holds' : (\E g \in holds : g.event = h.event) OBVIOUS
    <2>3. \A q \in Proc : job'[q].at \in {"purge", "purgeRow"} =>
           \A e \in job'[q].todo : job[q].at \in {"purge", "purgeRow"} /\ e \in job[q].todo
      BY <1>6
    <2>. QED BY <1>0, <2>1, <2>2, <2>3, FreshStep
  <1>. QED BY <1>6, <1>7, <1>8 DEF EventInv

\* A request creates or confirms the event x, and keeps it or leaves it excused.
LEMMA EventIsWritten ==
  ASSUME EventInv, NEW c \in Caller, NEW j, Goto(c, j), NEW x,
         calendar' \in CalendarType, Len(calendar) <= Len(calendar'),
         \A e \in Event' : Live(e)' => (e \in Event /\ Live(e)) \/ e = x,
         (j.at \in Strong /\ j.event = x) \/ x \in excused',
         UNCHANGED <<rows, world>>, overlapped' \in BOOLEAN, upsets' \in 0..MaxUpsets,
         excused \subseteq excused', excused' \subseteq Event',
         job[c].at \notin Strong, j \in CallerJob',
         j.at \in {"idle", "consume", "others", "holdRow"}, j.at = "holdRow" => j.event \notin Event
  PROVE  EventInv'
  <1>0. TypeOK /\ Solid /\ Fresh /\ c \in Proc /\ c \notin Loop BY SchedulingAssumption DEF EventInv, Proc
  <1>1. Len(calendar') \in Nat BY LenProperties DEF CalendarType
  <1>2. Event \subseteq Event' /\ MeetingRow' = MeetingRow /\ holds' = holds /\ meetings' = meetings
    BY <1>0, <1>1, Rows_ DEF Event, MeetingRow, rows
  <1>3. TypeOK' /\ job'[c] = j /\ \A q \in Proc : q # c => job'[q] = job[q]
    <2>1. job' = [job EXCEPT ![c] = j] BY DEF Goto
    <2>2. Len(meetings) <= Len(meetings') BY <1>0, <1>2, Rows_
    <2>3. meetings' \in MeetingsType(Event') /\ holds' \subseteq [event : Event', slot : Slot, expired : BOOLEAN]
      <3>1. meetings \in MeetingsType(Event) /\ holds \subseteq [event : Event, slot : Slot, expired : BOOLEAN]
        BY <1>0 DEF TypeOK, MeetingsType
      <3>2. MeetingsType(Event) \subseteq MeetingsType(Event')
        <4>. DEFINE M(events) == [slot : Slot, event : events,
               status : {"scheduled", "rescheduled", "cancelled", "cancelled_by_organizer", "rescheduled_by_organizer"}]
        <4>1. M(Event) \subseteq M(Event') BY <1>2
        <4>. HIDE DEF M
        <4>2. Seq(M(Event)) \subseteq Seq(M(Event')) BY <4>1
        <4>. QED BY <4>2 DEF M, MeetingsType
      <3>. QED BY <1>2, <3>1, <3>2
    <2>4. world' = world OBVIOUS
    <2>. QED BY <1>0, <2>1, <2>2, <2>3, <2>4, JobMoves DEF CalendarType, MeetingsType
  <1>4. Solid'
    <2>1. \A e \in Event' : Live(e)' => (e \in Event /\ Live(e)) \/ Kept(e)'
      BY <1>3 DEF Kept, InStrongHand
    <2>2. \A d \in Caller : job[d].at \in Strong => job'[d].at \in Strong /\ job'[d].event = job[d].event
      BY <1>3 DEF Proc
    <2>3. \A q \in Proc : At(q, "purgeRow")' => At(q, "purgeRow") /\ job'[q].todo = job[q].todo
      BY <1>3 DEF At
    <2>4. \A d \in Caller : At(d, "cancelRow")' => At(d, "cancelRow") /\ job'[d].row = job[d].row
      BY <1>3 DEF At, Proc
    <2>5. \A q \in Loop : At(q, "cancelled")' => At(q, "cancelled") /\ job'[q].slots = job[q].slots
      BY <1>0, <1>3 DEF At, Proc
    <2>6. \A k \in MeetingRow : k \in MeetingRow' /\ meetings'[k].event = meetings[k].event
                                /\ (meetings[k].status \in Off \/ meetings'[k].status \notin Off)
      BY <1>2
    <2>7. \A h \in holds : \E g \in holds' : g.event = h.event BY <1>2
    <2>. QED BY <1>0, <2>1, <2>2, <2>3, <2>4, <2>5, <2>6, <2>7, SolidStep
  <1>5. Fresh'
    <2>1. CASE j.at # "holdRow"
      <3>1. \A d \in Caller : At(d, "holdRow")' => job'[d] = job[d] BY <1>3, <2>1 DEF At, Proc
      <3>2. \A h \in holds' : (\E g \in holds : g.event = h.event) BY <1>2
      <3>3. \A q \in Proc : job'[q].at \in {"purge", "purgeRow"} =>
              \A e \in job'[q].todo : job[q].at \in {"purge", "purgeRow"} /\ e \in job[q].todo
        BY <1>3
      <3>. QED BY <1>0, <3>1, <3>2, <3>3, FreshStep
    <2>2. CASE j.at = "holdRow"
      <3>1. \A h \in holds' : h.event \in Event BY <1>0, <1>2 DEF TypeOK
      <3>2. ASSUME NEW q \in Proc, job'[q].at \in {"purge", "purgeRow"}
            PROVE  q # c /\ job'[q] = job[q] /\ job[q].todo \subseteq Event
        <4>1. q # c /\ job'[q] = job[q] BY <1>3, <2>2, <3>2
        <4>2. job[q].todo \in Some(Event) BY <1>0, <3>2, <4>1, Shapes, CronShapes DEF Proc
        <4>. QED BY <4>1, <4>2 DEF Some
      <3>3. ASSUME NEW d \in Caller, At(d, "holdRow")', d # c
            PROVE  job'[d] = job[d] /\ At(d, "holdRow") /\ job[d].event \in Event
        <4>1. job'[d] = job[d] /\ At(d, "holdRow") BY <1>3, <3>3 DEF At, Proc
        <4>. QED BY <1>0, <4>1, Shapes
      <3>4. j.event \notin Event BY <2>2
      <3>5. ASSUME NEW d \in Caller, At(d, "holdRow")'
            PROVE  /\ \A h \in holds' : h.event # job'[d].event
                   /\ \A p \in Proc : job'[p].at \in {"purge", "purgeRow"} => job'[d].event \notin job'[p].todo
                   /\ \A b \in Caller : At(b, "holdRow")' /\ job'[b].event = job'[d].event => b = d
        <4>1. CASE d = c BY <1>3, <3>1, <3>2, <3>3, <3>4, <4>1
        <4>2. CASE d # c
          <5>1. job'[d] = job[d] /\ At(d, "holdRow") /\ job[d].event \in Event BY <3>3, <3>5, <4>2
          <5>2. /\ \A h \in holds : h.event # job[d].event
                /\ \A p \in Proc : job[p].at \in {"purge", "purgeRow"} => job[d].event \notin job[p].todo
                /\ \A b \in Caller : At(b, "holdRow") /\ job[b].event = job[d].event => b = d
            BY <1>0, <5>1 DEF Fresh
          <5>. QED BY <1>2, <1>3, <3>2, <3>3, <3>4, <5>1, <5>2
        <4>. QED BY <4>1, <4>2
      <3>. QED BY <3>5 DEF Fresh
    <2>. QED BY <2>1, <2>2
  <1>. QED BY <1>3, <1>4, <1>5 DEF EventInv

LEMMA Begins ==
  ASSUME EventInv, NEW c \in Caller, NEW j \in CallerJob, Begin(c, j),
         j.at \in {"idle", "hold", "lookup", "dropOld", "cancel", "move"}
  PROVE  EventInv'
  <1>1. overlapped' \in BOOLEAN BY DEF Begin, EventInv, TypeOK
  <1>2. excused' = excused /\ excused \subseteq Event /\ upsets' \in 0..MaxUpsets BY DEF Begin, EventInv, TypeOK
  <1>3. job[c].at \notin Strong BY DEF Begin, At, Strong
  <1>4. c \notin Loop /\ c \in Proc BY SchedulingAssumption DEF Proc
  <1>5. Goto(c, j) /\ UNCHANGED <<calendar, rows, world>> BY DEF Begin
  <1>. QED BY <1>1, <1>2, <1>3, <1>4, <1>5, JobOnly

LEMMA ActiveRow ==
  ASSUME TypeOK
  PROVE  FindActive \in ActiveMeetings \union {0} /\ ActiveMeetings \subseteq MeetingRow
  <1>1. ActiveMeetings \subseteq MeetingRow BY DEF ActiveMeetings, MeetingRow
  <1>2. ActiveMeetings # {} => Max(ActiveMeetings) \in ActiveMeetings
    BY <1>1, Rows_, MaxIn DEF MeetingRow
  <1>. QED BY <1>1, <1>2 DEF FindActive

LEMMA RequestBegins ==
  ASSUME EventInv, NEW c \in Caller,
         \/ \E d \in Days \union {0}, period \in {"any", "morning", "afternoon"} : SuggestSlots(c, d, period)
         \/ \E s \in Slot : Schedule(c, s) \/ \E i \in 1..Len(meetings) : Reschedule(c, i, s)
         \/ \E i \in 1..Len(meetings) : Cancel(c, i)
  PROVE  EventInv'
  <1>0. TypeOK BY DEF EventInv
  <1>1. ASSUME NEW d, NEW period, SuggestSlots(c, d, period) PROVE EventInv'
    <2>1. PICK free \in SUBSET Slot : free # {} /\ Begin(c, [at |-> "hold", slots |-> free])
      BY <1>1, GeneratedAreSlots DEF SuggestSlots
    <2>2. [at |-> "hold", slots |-> free] \in CallerJob BY <2>1 DEF CallerJob, Some
    <2>. QED BY <2>1, <2>2, Begins
  <1>2. ASSUME NEW s \in Slot, Schedule(c, s) PROVE EventInv'
    <2>. DEFINE j == [at |-> IF FindActive = 0 THEN "lookup" ELSE "dropOld", slot |-> s, row |-> FindActive]
    <2>1. FindActive \in MeetingRow \union {0} BY <1>0, ActiveRow
    <2>2. j \in CallerJob /\ j.at \in {"lookup", "dropOld"} BY <2>1 DEF CallerJob
    <2>3. Begin(c, j) BY <1>2 DEF Schedule
    <2>. HIDE DEF j
    <2>. QED BY <2>2, <2>3, Begins
  <1>3. ASSUME NEW s \in Slot, NEW i \in MeetingRow, Reschedule(c, i, s) PROVE EventInv'
    <2>1. [at |-> "move", row |-> i, slot |-> s] \in CallerJob BY DEF CallerJob
    <2>. QED BY <1>3, <2>1, Begins DEF Reschedule
  <1>4. ASSUME NEW i \in MeetingRow, Cancel(c, i) PROVE EventInv'
    <2>1. [at |-> "cancel", row |-> i] \in CallerJob BY DEF CallerJob
    <2>. QED BY <1>4, <2>1, Begins DEF Cancel
  <1>. QED BY <1>1, <1>2, <1>3, <1>4 DEF MeetingRow

-----------------------------------------------------------------------------
(* A request, step by step. *)

LEMMA NextHoldJob ==
  ASSUME TypeOK, NEW c \in Caller, job[c].at \in {"hold", "holdRow"}
  PROVE  /\ Min(job[c].slots) \in Slot
         /\ \A left : left = job[c].slots \ {Min(job[c].slots)} =>
              (IF left = {} THEN Idle ELSE [at |-> "hold", slots |-> left]) \in CallerJob
  <1>1. job[c].slots \in Some(Slot) BY Shapes DEF At
  <1>2. Min(job[c].slots) \in job[c].slots BY <1>1, SlotIsNat, MinIn DEF Some
  <1>. QED BY <1>1, <1>2 DEF CallerJob, Some

LEMMA HoldIsSkipped ==
  ASSUME EventInv, NEW c \in Caller, HoldFails(c)
  PROVE  EventInv'
  <1>0. TypeOK /\ c \in Proc /\ c \notin Loop BY SchedulingAssumption DEF EventInv, Proc
  <1>. DEFINE left == job[c].slots \ {Min(job[c].slots)}
              j == IF left = {} THEN Idle ELSE [at |-> "hold", slots |-> left]
  <1>1. j \in CallerJob BY <1>0, NextHoldJob DEF HoldFails
  <1>2. Goto(c, j) BY DEF HoldFails, NextHold
  <1>3. j.at \in {"idle", "hold"} BY DEF Idle
  <1>4. upsets' \in 0..MaxUpsets BY <1>0, SchedulingAssumption DEF HoldFails, TypeOK
  <1>5. At(c, "holdRow") => job[c].event \in Event BY <1>0, Shapes
  <1>6. excused \subseteq excused' /\ excused' \subseteq Event BY <1>0, <1>5 DEF HoldFails, TypeOK
  <1>7. overlapped' \in BOOLEAN /\ UNCHANGED <<calendar, rows, world>> BY <1>0 DEF HoldFails, TypeOK
  <1>8. job[c].at \in Strong => job[c].event \in excused' BY DEF HoldFails, At, Strong
  <1>. HIDE DEF j
  <1>. QED BY <1>0, <1>1, <1>2, <1>3, <1>4, <1>6, <1>7, <1>8, JobOnly

LEMMA MeetingIsLookedUp ==
  ASSUME EventInv, NEW c \in Caller, DropOld(c) \/ MarkOld(c) \/ Lookup(c)
  PROVE  EventInv'
  <1>0. TypeOK /\ Solid /\ Fresh /\ c \in Proc /\ c \notin Loop BY SchedulingAssumption DEF EventInv, Proc
  <1>1. CASE DropOld(c)
    <2>1. job[c] \in [at : {"dropOld", "markOld"}, slot : Slot, row : MeetingRow] BY <1>0, <1>1, Shapes DEF DropOld, At
    <2>. DEFINE j == [job[c] EXCEPT !.at = "markOld"]
    <2>2. j \in CallerJob /\ j.at = "markOld" BY <2>1 DEF CallerJob
    <2>3. meetings[job[c].row].event \in Event BY <1>0, <2>1, Rows_
    <2>4. Goto(c, j) BY <1>1 DEF DropOld, Becomes
    <2>5. job[c].at \notin Strong BY <1>1 DEF DropOld, At, Strong
    <2>6. holds' = holds /\ meetings' = meetings /\ world' = world /\ overlapped' \in BOOLEAN
      BY <1>0, <1>1 DEF DropOld, rows, TypeOK
    <2>7. DeleteEvent(meetings[job[c].row].event) BY <1>1 DEF DropOld
    <2>. HIDE DEF j
    <2>. QED BY <1>0, <2>2, <2>3, <2>4, <2>5, <2>6, <2>7, Deletes, Moves
  <1>2. CASE MarkOld(c)
    <2>1. job[c] \in [at : {"dropOld", "markOld"}, slot : Slot, row : MeetingRow] BY <1>0, <1>2, Shapes DEF MarkOld, At
    <2>. DEFINE j == [job[c] EXCEPT !.at = "lookup"]
                r == [meetings[job[c].row] EXCEPT !.status = "rescheduled"]
    <2>2. j \in CallerJob /\ j.at = "lookup" BY <2>1 DEF CallerJob
    <2>3. Goto(c, j) BY <1>2 DEF MarkOld, Becomes
    <2>4. job[c].at \notin Strong BY <1>2 DEF MarkOld, At, Strong
    <2>5. job[c].row \in MeetingRow BY <2>1
    <2>6. meetings' = [meetings EXCEPT ![job[c].row] = r] BY <1>2 DEF MarkOld, SetStatus
    <2>7. r \in [slot : Slot, event : Event,
                status : {"scheduled", "rescheduled", "cancelled", "cancelled_by_organizer", "rescheduled_by_organizer"}]
          /\ r.event = meetings[job[c].row].event /\ r.status \notin Off
      BY <1>0, <2>5, RowShape DEF Off
    <2>8. UNCHANGED <<calendar, holds, world, history, upsets>> BY <1>2 DEF MarkOld
    <2>. HIDE DEF j, r
    <2>. QED BY <1>0, <2>2, <2>3, <2>4, <2>5, <2>6, <2>7, <2>8, RowIsWritten
  <1>3. CASE Lookup(c)
    <2>1. job[c] \in [at : {"lookup"}, slot : Slot, row : MeetingRow \union {0}] BY <1>0, <1>3, Shapes DEF Lookup
    <2>. DEFINE found == {h.event : h \in HoldsFor(job[c].slot)}
                j == IF ~ready THEN Idle
                     ELSE [at |-> IF found = {} THEN "create" ELSE "confirm", slot |-> job[c].slot,
                           event |-> IF found = {} THEN 0 ELSE Max(found)]
    <2>2. found \subseteq Event BY <1>0 DEF HoldsFor, TypeOK
    <2>3. found # {} => Max(found) \in Event BY <1>0, <2>2, Rows_, MaxIn DEF Event
    <2>4. j \in CallerJob /\ j.at \in {"idle", "create", "confirm"}
      <3>1. CASE ~ready BY <3>1 DEF CallerJob, Idle
      <3>2. CASE ready /\ found = {} BY <2>1, <3>2 DEF CallerJob
      <3>3. CASE ready /\ found # {} BY <2>1, <2>3, <3>3 DEF CallerJob
      <3>. QED BY <1>0, <3>1, <3>2, <3>3 DEF TypeOK
    <2>5. Goto(c, j) BY <1>3 DEF Lookup, Simulate
    <2>6. job[c].at \notin Strong BY <1>3 DEF Lookup, At, Strong
    <2>7. UNCHANGED <<calendar, rows, world>> /\ overlapped' \in BOOLEAN /\ upsets' \in 0..MaxUpsets
          /\ excused' = excused /\ excused \subseteq Event
      BY <1>0, <1>3 DEF Lookup, rows, history, TypeOK
    <2>. HIDE DEF j
    <2>. QED BY <1>0, <2>4, <2>5, <2>6, <2>7, JobOnly
  <1>. QED BY <1>1, <1>2, <1>3

LEMMA HoldIsCreated ==
  ASSUME EventInv, NEW c \in Caller, CreateHold(c)
  PROVE  EventInv'
  <1>0. TypeOK BY DEF EventInv
  <1>. DEFINE x == Len(calendar) + 1
              j == [at |-> "holdRow", slots |-> job[c].slots, event |-> x]
  <1>1. job[c].slots \in Some(Slot) /\ Min(job[c].slots) \in Slot BY <1>0, Shapes, NextHoldJob DEF CreateHold, At
  <1>2. /\ calendar' \in CalendarType /\ Len(calendar') = Len(calendar) + 1
        /\ Event' = Event \union {x} /\ x \notin Event
        /\ \A e \in Event : calendar'[e] = calendar[e]
    BY <1>0, <1>1, Inserts DEF CreateHold
  <1>3. Len(calendar) <= Len(calendar') BY <1>0, <1>2, Rows_
  <1>4. j \in CallerJob' BY <1>1, <1>2 DEF CallerJob
  <1>5. j.at = "holdRow" /\ j.event = x /\ Goto(c, j) BY DEF CreateHold
  <1>6. UNCHANGED <<rows, world>> /\ overlapped' \in BOOLEAN /\ upsets' \in 0..MaxUpsets
        /\ excused' = excused /\ excused \subseteq Event'
    BY <1>0, <1>2 DEF CreateHold, history, TypeOK
  <1>7. \A e \in Event' : Live(e)' => (e \in Event /\ Live(e)) \/ e = x BY <1>2 DEF Live
  <1>8. job[c].at \notin Strong /\ "holdRow" \in Strong BY DEF CreateHold, At, Strong
  <1>. HIDE DEF x, j
  <1>. QED BY <1>2, <1>3, <1>4, <1>5, <1>6, <1>7, <1>8, EventIsWritten

LEMMA EventIsBooked ==
  ASSUME EventInv, NEW c \in Caller, ConfirmHold(c) \/ CreateEventDirect(c)
  PROVE  EventInv'
  <1>0. TypeOK BY DEF EventInv
  <1>9. "consume" \in Strong /\ "others" \in Strong BY DEF Strong
  <1>1. CASE ConfirmHold(c)
    <2>1. job[c] \in [at : {"confirm", "consume", "others"}, slot : Slot, event : Event]
      BY <1>0, <1>1, Shapes DEF ConfirmHold, At
    <2>. DEFINE x == job[c].event
                j == [job[c] EXCEPT !.at = "consume"]
    <2>2. x \in Event /\ calendar[x].slot \in Slot BY <1>0, <2>1, Rows_
    <2>3. /\ calendar' \in CalendarType /\ Len(calendar') = Len(calendar) /\ Event' = Event
          /\ \A e \in Event : e # x => calendar'[e] = calendar[e]
      BY <1>0, <1>1, <2>2, Patches DEF ConfirmHold
    <2>4. j \in CallerJob' BY <2>1, <2>3 DEF CallerJob
    <2>5. j.at = "consume" /\ j.event = x /\ Goto(c, j) BY <1>1, <2>1 DEF ConfirmHold, Becomes
    <2>6. UNCHANGED <<rows, world>> /\ overlapped' \in BOOLEAN /\ upsets' \in 0..MaxUpsets
          /\ excused' = excused /\ excused \subseteq Event'
      BY <1>0, <1>1, <2>3 DEF ConfirmHold, history, TypeOK
    <2>7. \A e \in Event' : Live(e)' => (e \in Event /\ Live(e)) \/ e = x BY <2>3 DEF Live
    <2>8. job[c].at \notin Strong BY <1>1 DEF ConfirmHold, At, Strong
    <2>9. Len(calendar) <= Len(calendar') BY <1>0, <2>3, Rows_
    <2>. HIDE DEF x, j
    <2>. QED BY <1>9, <2>3, <2>4, <2>5, <2>6, <2>7, <2>8, <2>9, EventIsWritten
  <1>2. CASE CreateEventDirect(c)
    <2>1. job[c] \in [at : {"create"}, slot : Slot, event : {0}]
      BY <1>0, <1>2, Shapes DEF CreateEventDirect
    <2>. DEFINE x == Len(calendar) + 1
                j == [job[c] EXCEPT !.at = "others", !.event = Len(calendar) + 1]
    <2>2. job[c].slot \in Slot BY <2>1
    <2>3. /\ calendar' \in CalendarType /\ Len(calendar') = Len(calendar) + 1
          /\ Event' = Event \union {x} /\ x \notin Event
          /\ \A e \in Event : calendar'[e] = calendar[e]
      BY <1>0, <1>2, <2>2, Inserts DEF CreateEventDirect
    <2>4. j \in CallerJob' BY <2>1, <2>3 DEF CallerJob
    <2>5. j.at = "others" /\ j.event = x /\ Goto(c, j) BY <1>2, <2>1 DEF CreateEventDirect
    <2>6. UNCHANGED <<rows, world>> /\ overlapped' \in BOOLEAN /\ upsets' \in 0..MaxUpsets
          /\ excused' = excused /\ excused \subseteq Event'
      BY <1>0, <1>2, <2>3 DEF CreateEventDirect, history, TypeOK
    <2>7. \A e \in Event' : Live(e)' => (e \in Event /\ Live(e)) \/ e = x BY <2>3 DEF Live
    <2>8. job[c].at \notin Strong BY <1>2 DEF CreateEventDirect, At, Strong
    <2>9. Len(calendar) <= Len(calendar') BY <1>0, <2>3, Rows_
    <2>. HIDE DEF x, j
    <2>. QED BY <1>9, <2>3, <2>4, <2>5, <2>6, <2>7, <2>8, <2>9, EventIsWritten
  <1>. QED BY <1>1, <1>2

LEMMA BookingFails ==
  ASSUME EventInv, NEW c \in Caller, BookingRefused(c) \/ BookingAnswerLost(c)
  PROVE  EventInv'
  <1>0. TypeOK /\ c \in Proc /\ c \notin Loop BY SchedulingAssumption DEF EventInv, Proc
  <1>1. Idle \in CallerJob /\ Idle \in CallerJob' /\ Idle.at = "idle" BY DEF CallerJob, Idle
  <1>2. Goto(c, Idle) /\ job[c].at \notin Strong BY DEF BookingRefused, BookingAnswerLost, Simulate, Strong
  <1>3. upsets' \in 0..MaxUpsets
    BY <1>0, SchedulingAssumption DEF BookingRefused, BookingAnswerLost, TypeOK
  <1>4. CASE BookingRefused(c)
    <2>1. UNCHANGED <<calendar, rows, world>> /\ overlapped' \in BOOLEAN /\ excused' = excused /\ excused \subseteq Event
      BY <1>0, <1>4 DEF BookingRefused, history, TypeOK
    <2>. QED BY <1>0, <1>1, <1>2, <1>3, <2>1, JobOnly
  <1>5. CASE BookingAnswerLost(c)
    <2>0. UNCHANGED <<rows, world>> /\ overlapped' \in BOOLEAN /\ excused \subseteq Event
      BY <1>0, <1>5 DEF BookingAnswerLost, TypeOK
    <2>1. CASE /\ At(c, "confirm") /\ Patch(job[c].event, calendar[job[c].event].slot, "confirmed")
               /\ excused' = excused \union {job[c].event}
      <3>1. job[c].event \in Event BY <1>0, <2>1, Shapes DEF At
      <3>2. calendar[job[c].event].slot \in Slot BY <1>0, <3>1, Rows_
      <3>3. /\ calendar' \in CalendarType /\ Len(calendar') = Len(calendar) /\ Event' = Event
            /\ \A e \in Event : e # job[c].event => calendar'[e] = calendar[e]
        BY <1>0, <2>1, <3>1, <3>2, Patches
      <3>4. \A e \in Event' : Live(e)' => (e \in Event /\ Live(e)) \/ e = job[c].event BY <3>3 DEF Live
      <3>5. Len(calendar) <= Len(calendar') BY <1>0, <3>3, Rows_
      <3>6. excused \subseteq excused' /\ excused' \subseteq Event' /\ job[c].event \in excused'
        BY <2>0, <2>1, <3>1, <3>3
      <3>. QED BY <1>1, <1>2, <1>3, <2>0, <3>3, <3>4, <3>5, <3>6, EventIsWritten
    <2>2. CASE /\ At(c, "create") /\ Insert(job[c].slot, "confirmed")
               /\ excused' = excused \union {Len(calendar) + 1}
      <3>1. job[c].slot \in Slot BY <1>0, <2>2, Shapes
      <3>3. /\ calendar' \in CalendarType /\ Len(calendar') = Len(calendar) + 1
            /\ Event' = Event \union {Len(calendar) + 1}
            /\ \A e \in Event : calendar'[e] = calendar[e]
        BY <1>0, <2>2, <3>1, Inserts
      <3>4. \A e \in Event' : Live(e)' => (e \in Event /\ Live(e)) \/ e = Len(calendar) + 1 BY <3>3 DEF Live
      <3>5. Len(calendar) <= Len(calendar') BY <1>0, <3>3, Rows_
      <3>6. excused \subseteq excused' /\ excused' \subseteq Event' /\ Len(calendar) + 1 \in excused'
        BY <2>0, <2>2, <3>3
      <3>. QED BY <1>1, <1>2, <1>3, <2>0, <3>3, <3>4, <3>5, <3>6, EventIsWritten
    <2>. QED BY <1>5, <2>1, <2>2 DEF BookingAnswerLost
  <1>. QED BY <1>4, <1>5

LEMMA OthersAreListed ==
  ASSUME EventInv, NEW c \in Caller, OtherHolds(c)
  PROVE  EventInv'
  <1>0. TypeOK /\ c \in Proc /\ c \notin Loop BY SchedulingAssumption DEF EventInv, Proc
  <1>. DEFINE others == {h.event : h \in holds} \ {job[c].event}
              j == [at |-> IF others = {} THEN "insert" ELSE "purge", slot |-> job[c].slot,
                    event |-> job[c].event, todo |-> others]
  <1>1. job[c] \in [at : {"confirm", "consume", "others"}, slot : Slot, event : Event]
    BY <1>0, Shapes DEF OtherHolds, At
  <1>2. others \subseteq Event BY <1>0 DEF TypeOK
  <1>3. j \in CallerJob
    <2>1. CASE others = {} BY <1>1, <1>2, <2>1 DEF CallerJob
    <2>2. CASE others # {} BY <1>1, <1>2, <2>2 DEF CallerJob, Some
    <2>. QED BY <2>1, <2>2
  <1>4. j.at \in {"insert", "purge"} /\ j.event = job[c].event /\ j.at \in Strong BY DEF Strong
  <1>5. \A e \in j.todo : \E h \in holds : h.event = e OBVIOUS
  <1>6. Goto(c, j) /\ UNCHANGED <<calendar, rows, world>> /\ overlapped' \in BOOLEAN
        /\ upsets' \in 0..MaxUpsets /\ excused' = excused /\ excused \subseteq Event
    BY <1>0 DEF OtherHolds, history, TypeOK
  <1>. HIDE DEF j
  <1>. QED BY <1>0, <1>3, <1>4, <1>5, <1>6, JobOnly

LEMMA MeetingIsMoved ==
  ASSUME EventInv, NEW c \in Caller, CancelEvent(c) \/ CancelRow(c) \/ MoveEvent(c) \/ MoveRow(c)
  PROVE  EventInv'
  <1>0. TypeOK /\ c \in Proc /\ c \notin Loop BY SchedulingAssumption DEF EventInv, Proc
  <1>9. Idle \in CallerJob /\ Idle.at = "idle" BY DEF CallerJob, Idle
  <1>1. CASE CancelEvent(c)
    <2>1. job[c] \in [at : {"cancel", "cancelRow"}, row : MeetingRow] BY <1>0, <1>1, Shapes DEF CancelEvent, At
    <2>. DEFINE j == [job[c] EXCEPT !.at = "cancelRow"]
    <2>2. j \in CallerJob /\ j.at = "cancelRow" /\ j.row = job[c].row BY <2>1 DEF CallerJob
    <2>3. meetings[job[c].row].event \in Event BY <1>0, <2>1, Rows_
    <2>4. Goto(c, j) BY <1>1 DEF CancelEvent, Becomes
    <2>5. job[c].at \notin Strong BY <1>1 DEF CancelEvent, At, Strong
    <2>6. holds' = holds /\ meetings' = meetings /\ world' = world /\ overlapped' \in BOOLEAN
      BY <1>0, <1>1 DEF CancelEvent, rows, TypeOK
    <2>7. DeleteEvent(meetings[job[c].row].event) BY <1>1 DEF CancelEvent
    <2>. HIDE DEF j
    <2>. QED BY <1>0, <2>2, <2>3, <2>4, <2>5, <2>6, <2>7, Deletes, Moves
  <1>2. CASE CancelRow(c)
    <2>1. job[c] \in [at : {"cancel", "cancelRow"}, row : MeetingRow] BY <1>0, <1>2, Shapes DEF CancelRow, At
    <2>. DEFINE r == [meetings[job[c].row] EXCEPT !.status = "cancelled"]
    <2>2. meetings' = [meetings EXCEPT ![job[c].row] = r] /\ Goto(c, Idle) BY <1>2 DEF CancelRow, SetStatus
    <2>3. r \in [slot : Slot, event : Event,
                status : {"scheduled", "rescheduled", "cancelled", "cancelled_by_organizer", "rescheduled_by_organizer"}]
          /\ r.event = meetings[job[c].row].event
      BY <1>0, <2>1, RowShape
    <2>4. UNCHANGED <<calendar, holds, world, history, upsets>> /\ job[c].at \notin Strong /\ At(c, "cancelRow")
      BY <1>2 DEF CancelRow, At, Strong
    <2>5. job[c].row \in MeetingRow BY <2>1
    <2>. HIDE DEF r
    <2>. QED BY <1>0, <1>9, <2>2, <2>3, <2>4, <2>5, RowIsWritten
  <1>3. CASE MoveEvent(c)
    <2>1. job[c] \in [at : {"move", "moveRow"}, row : MeetingRow, slot : Slot] BY <1>0, <1>3, Shapes DEF MoveEvent, At
    <2>. DEFINE e == meetings[job[c].row].event
                j == [job[c] EXCEPT !.at = "moveRow"]
    <2>2. e \in Event BY <1>0, <2>1, Rows_
    <2>3. j \in CallerJob /\ j.at = "moveRow" BY <2>1 DEF CallerJob
    <2>4. holds' = holds /\ meetings' = meetings /\ world' = world /\ overlapped' \in BOOLEAN
          /\ excused' = excused /\ excused \subseteq Event
      BY <1>0, <1>3 DEF MoveEvent, rows, history, TypeOK
    <2>5. job[c].at \notin Strong BY <1>3 DEF MoveEvent, At, Strong
    <2>6. CASE Live(e) /\ Patch(e, job[c].slot, calendar[e].status) /\ Goto(c, j) /\ UNCHANGED upsets
      <3>1. calendar[e].status \in {"tentative", "confirmed", "deleted", "removed"} /\ job[c].slot \in Slot
        BY <1>0, <2>1, <2>2, Rows_
      <3>2. Patch(e, job[c].slot, calendar[e].status) BY <2>6
      <3>3. /\ calendar' \in CalendarType /\ Len(calendar') = Len(calendar) /\ Event' = Event
            /\ \A x \in Event : x # e => calendar'[x] = calendar[x]
        BY <1>0, <2>2, <3>1, <3>2, Patches
      <3>4. \A x \in Event : Live(x)' => Live(x) BY <2>6, <3>3 DEF Live
      <3>5. upsets' \in 0..MaxUpsets /\ Goto(c, j) BY <1>0, <2>6 DEF TypeOK
      <3>. HIDE DEF j, e
      <3>. QED BY <1>0, <2>3, <2>4, <2>5, <3>3, <3>4, <3>5, Moves
    <2>7. CASE /\ ~Live(e) \/ upsets < MaxUpsets
               /\ Goto(c, Idle)
               /\ upsets' = IF Live(e) THEN upsets + 1 ELSE upsets
               /\ UNCHANGED calendar
      <3>1. upsets' \in 0..MaxUpsets BY <1>0, <2>7, SchedulingAssumption DEF TypeOK
      <3>2. UNCHANGED <<calendar, rows, world>> BY <2>4, <2>7 DEF rows
      <3>. QED BY <1>0, <1>9, <2>4, <2>5, <2>7, <3>1, <3>2, JobOnly
    <2>. QED BY <1>3, <2>6, <2>7 DEF MoveEvent, Becomes
  <1>4. CASE MoveRow(c)
    <2>1. job[c] \in [at : {"move", "moveRow"}, row : MeetingRow, slot : Slot] BY <1>0, <1>4, Shapes DEF MoveRow, At
    <2>. DEFINE r == [meetings[job[c].row] EXCEPT !.slot = job[c].slot, !.status = "rescheduled"]
    <2>5. job[c].row \in MeetingRow /\ job[c].slot \in Slot BY <2>1
    <2>2. meetings' = [meetings EXCEPT ![job[c].row] = r] /\ Goto(c, Idle)
      <3>1. DOMAIN meetings = MeetingRow BY <1>0, Rows_
      <3>. QED BY <1>4, <2>5, <3>1 DEF MoveRow
    <2>3. r \in [slot : Slot, event : Event,
                status : {"scheduled", "rescheduled", "cancelled", "cancelled_by_organizer", "rescheduled_by_organizer"}]
          /\ r.event = meetings[job[c].row].event /\ r.status \notin Off
      BY <1>0, <2>5, RowShape DEF Off
    <2>4. UNCHANGED <<calendar, holds, world, history, upsets>> /\ job[c].at \notin Strong
      BY <1>4 DEF MoveRow, At, Strong
    <2>. HIDE DEF r
    <2>. QED BY <1>0, <1>9, <2>2, <2>3, <2>4, <2>5, RowIsWritten
  <1>. QED BY <1>1, <1>2, <1>3, <1>4

-----------------------------------------------------------------------------
(* The rows of the holds. *)

LEMMA HoldsAreWritten ==
  ASSUME EventInv, NEW p \in Proc, NEW j, Goto(p, j),
         UNCHANGED <<calendar, meetings, world, history, upsets>>,
         holds' \subseteq [event : Event, slot : Slot, expired : BOOLEAN],
         p \in Caller => j \in CallerJob, p \in Loop => j \in CronJob,
         j.at \notin {"holdRow", "purgeRow", "cancelRow", "cancelled"},
         p \in Caller /\ job[p].at \in Strong =>
           \/ j.at \in Strong /\ j.event = job[p].event
           \/ /\ \E g \in holds' : g.event = job[p].event
              /\ \A q \in Proc : q # p /\ At(q, "purgeRow") => Min(job[q].todo) # job[p].event,
         \A h \in holds : \/ \E g \in holds' : g.event = h.event
                          \/ ~Held(h.event)
                          \/ p \in Caller /\ j.at \in Strong /\ j.event = h.event,
         \A h \in holds' : \/ \E g \in holds : g.event = h.event
                           \/ p \in Caller /\ At(p, "holdRow") /\ job[p].event = h.event,
         j.at = "purge" => job[p].at \in {"purge", "purgeRow"} /\ j.todo \subseteq job[p].todo
  PROVE  EventInv'
  <1>0. TypeOK /\ Solid /\ Fresh BY DEF EventInv
  <1>1. Event' = Event /\ MeetingRow' = MeetingRow BY DEF Event, MeetingRow
  <1>2. CallerJob \subseteq CallerJob' /\ CronJob \subseteq CronJob' BY <1>0, <1>1, Rows_, JobsKeepType
  <1>3. TypeOK' /\ job'[p] = j /\ \A q \in Proc : q # p => job'[q] = job[q]
    <2>1. job' = [job EXCEPT ![p] = j] BY DEF Goto
    <2>2. (p \in Caller => j \in CallerJob') /\ (p \in Loop => j \in CronJob') BY <1>2
    <2>3. Len(calendar) <= Len(calendar') /\ Len(meetings) <= Len(meetings') BY <1>0, Rows_
    <2>4. /\ calendar' \in CalendarType /\ meetings' \in MeetingsType(Event')
          /\ holds' \subseteq [event : Event', slot : Slot, expired : BOOLEAN]
          /\ world' = world /\ overlapped' \in BOOLEAN /\ upsets' \in 0..MaxUpsets /\ excused' \subseteq Event'
      BY <1>0, <1>1 DEF TypeOK, history, CalendarType, MeetingsType
    <2>. QED BY <1>0, <2>1, <2>2, <2>3, <2>4, JobMoves DEF CalendarType, MeetingsType
  <1>4. \A q \in Proc : At(q, "purgeRow")' => q # p /\ At(q, "purgeRow") /\ job'[q].todo = job[q].todo
    BY <1>3 DEF At
  <1>5. Solid'
    <2>1. \A e \in Event' : Live(e)' => e \in Event /\ Live(e) BY <1>1 DEF Live
    <2>2. \A c \in Caller : job[c].at \in Strong =>
            \/ job'[c].at \in Strong /\ job'[c].event = job[c].event
            \/ \A e \in Event' : job[c].event = e => Safe(e)'
      <3>. SUFFICES ASSUME NEW c \in Caller, job[c].at \in Strong,
                           ~(job'[c].at \in Strong /\ job'[c].event = job[c].event)
                    PROVE  \A e \in Event' : job[c].event = e => Held(e)'
        BY DEF Safe, Kept
      <3>1. c = p BY <1>3 DEF Proc
      <3>. QED BY <1>3, <1>4, <3>1 DEF Held
    <2>3. \A h \in holds : (\E g \in holds' : g.event = h.event) \/ ~Held(h.event) \/ Safe(h.event)'
      BY <1>3 DEF Safe, Kept, InStrongHand
    <2>4. \A c \in Caller : At(c, "cancelRow")' => At(c, "cancelRow") /\ job'[c].row = job[c].row
      BY <1>3 DEF At, Proc
    <2>5. \A q \in Loop : At(q, "cancelled")' => At(q, "cancelled") /\ job'[q].slots = job[q].slots
      BY <1>3 DEF At, Proc
    <2>6. \A k \in MeetingRow : k \in MeetingRow' /\ meetings'[k].event = meetings[k].event
                                /\ (meetings[k].status \in Off \/ meetings'[k].status \notin Off)
      BY <1>1
    <2>7. excused \subseteq excused' BY DEF history
    <2>. QED BY <1>0, <1>4, <2>1, <2>2, <2>3, <2>4, <2>5, <2>6, <2>7, SolidStep
  <1>6. Fresh'
    <2>1. \A c \in Caller : At(c, "holdRow")' => job'[c] = job[c] BY <1>3 DEF At, Proc
    <2>2. \A h \in holds' : (\E g \in holds : g.event = h.event)
                            \/ \E c \in Caller : At(c, "holdRow") /\ ~At(c, "holdRow")' /\ job[c].event = h.event
      BY <1>3 DEF At
    <2>3. \A q \in Proc : job'[q].at \in {"purge", "purgeRow"} =>
           \A e \in job'[q].todo : job[q].at \in {"purge", "purgeRow"} /\ e \in job[q].todo
      BY <1>3
    <2>. QED BY <1>0, <2>1, <2>2, <2>3, FreshStep
  <1>. QED BY <1>3, <1>5, <1>6 DEF EventInv

LEMMA HoldIsStored ==
  ASSUME EventInv, NEW c \in Caller, InsertSlotHold(c)
  PROVE  EventInv'
  <1>0. TypeOK /\ Fresh /\ c \in Proc /\ c \notin Loop BY SchedulingAssumption DEF EventInv, Proc
  <1>. DEFINE left == job[c].slots \ {Min(job[c].slots)}
              j == IF left = {} THEN Idle ELSE [at |-> "hold", slots |-> left]
              h == [event |-> job[c].event, slot |-> Min(job[c].slots), expired |-> FALSE]
  <1>1. j \in CallerJob /\ Min(job[c].slots) \in Slot BY <1>0, NextHoldJob DEF InsertSlotHold, At
  <1>2. Goto(c, j) /\ j.at \in {"idle", "hold"} BY DEF InsertSlotHold, NextHold, Idle
  <1>3. job[c].event \in Event /\ At(c, "holdRow") BY <1>0, Shapes DEF InsertSlotHold
  <1>4. holds' = holds \union {h} /\ h.event = job[c].event BY DEF InsertSlotHold
  <1>a. h \in [event : Event, slot : Slot, expired : BOOLEAN] BY <1>1, <1>3
  <1>5. holds' \subseteq [event : Event, slot : Slot, expired : BOOLEAN]
    <2>. HIDE DEF h
    <2>. QED BY <1>0, <1>4, <1>a DEF TypeOK
  <1>6. \A q \in Proc : At(q, "purgeRow") => Min(job[q].todo) # job[c].event
    <2>. SUFFICES ASSUME NEW q \in Proc, At(q, "purgeRow") PROVE Min(job[q].todo) # job[c].event
      OBVIOUS
    <2>1. job[q].todo \in Some(Event) BY <1>0, Shapes, CronShapes DEF At, Proc
    <2>2. Min(job[q].todo) \in job[q].todo BY <2>1, MinIn DEF Some, Event
    <2>3. job[c].event \notin job[q].todo BY <1>0, <1>3 DEF Fresh, At
    <2>. QED BY <2>2, <2>3
  <1>7. UNCHANGED <<calendar, meetings, world, history, upsets>> BY DEF InsertSlotHold
  <1>. HIDE DEF j, h
  <1>. QED BY <1>0, <1>1, <1>2, <1>3, <1>4, <1>5, <1>6, <1>7, HoldsAreWritten

LEMMA HoldIsConsumed ==
  ASSUME EventInv, NEW c \in Caller, MarkHoldConsumed(c)
  PROVE  EventInv'
  <1>0. TypeOK /\ c \in Proc /\ c \notin Loop BY SchedulingAssumption DEF EventInv, Proc
  <1>. DEFINE j == [job[c] EXCEPT !.at = "others"]
  <1>1. job[c] \in [at : {"confirm", "consume", "others"}, slot : Slot, event : Event]
    BY <1>0, Shapes DEF MarkHoldConsumed, At
  <1>2. j \in CallerJob /\ j.at = "others" /\ j.event = job[c].event /\ j.at \in Strong BY <1>1 DEF CallerJob, Strong
  <1>3. Goto(c, j) /\ holds' = {h \in holds : h.event # job[c].event} BY DEF MarkHoldConsumed, Becomes
  <1>4. holds' \subseteq [event : Event, slot : Slot, expired : BOOLEAN] BY <1>0, <1>3 DEF TypeOK
  <1>5. UNCHANGED <<calendar, meetings, world, history, upsets>> BY DEF MarkHoldConsumed
  <1>. HIDE DEF j
  <1>. QED BY <1>0, <1>2, <1>3, <1>4, <1>5, HoldsAreWritten

LEMMA HoldIsPurged ==
  ASSUME EventInv, NEW p \in Proc, PurgeRow(p)
  PROVE  EventInv'
  <1>0. TypeOK BY DEF EventInv
  <1>. DEFINE left == job[p].todo \ {Min(job[p].todo)}
              j == IF left # {} THEN [job[p] EXCEPT !.at = "purge", !.todo = left]
                   ELSE IF p \in Caller THEN [job[p] EXCEPT !.at = "insert", !.todo = {}]
                   ELSE Idle
  <1>1. p \in Caller => /\ p \notin Loop
                        /\ job[p] \in [at : {"purge", "purgeRow"}, slot : Slot, event : Event, todo : Some(Event)]
    BY <1>0, Shapes, SchedulingAssumption DEF PurgeRow, At
  <1>2. p \in Loop => /\ p \notin Caller
                      /\ job[p] \in [at : {"purge", "purgeRow"}, todo : Some(Event)]
    BY <1>0, CronShapes, SchedulingAssumption DEF PurgeRow, At
  <1>3. p \in Caller \/ p \in Loop BY DEF Proc
  <1>4. left \subseteq Event /\ left \subseteq job[p].todo BY <1>1, <1>2, <1>3 DEF Some
  <1>5. p \in Caller => j \in CallerJob /\ j.at \in {"purge", "insert"} /\ j.event = job[p].event
    <2>1. CASE left # {} BY <1>1, <1>4, <2>1 DEF CallerJob, Some
    <2>2. CASE left = {} BY <1>1, <2>2 DEF CallerJob
    <2>. QED BY <2>1, <2>2
  <1>6. p \in Loop => j \in CronJob /\ j.at \in {"purge", "idle"}
    <2>1. CASE left # {} BY <1>2, <1>4, <2>1 DEF CronJob, Some
    <2>2. CASE left = {} BY <1>2, <2>2 DEF CronJob, Idle
    <2>. QED BY <2>1, <2>2
  <1>7. j.at = "purge" => j.todo \subseteq job[p].todo
    <2>1. CASE left # {} BY <1>1, <1>2, <1>3, <1>4, <2>1
    <2>2. CASE left = {} BY <1>1, <1>2, <1>3, <2>2 DEF Idle
    <2>. QED BY <2>1, <2>2
  <1>8. holds' = {h \in holds : h.event # Min(job[p].todo)} /\ Goto(p, j) /\ At(p, "purgeRow")
        /\ UNCHANGED <<calendar, meetings, world, history, upsets>>
    BY DEF PurgeRow
  <1>9. ~Held(Min(job[p].todo)) BY <1>8 DEF Held
  <1>10. holds' \subseteq [event : Event, slot : Slot, expired : BOOLEAN] BY <1>0, <1>8 DEF TypeOK
  <1>11. p \in Caller => j.at \in Strong BY <1>5 DEF Strong
  <1>12. \A h \in holds : (\E g \in holds' : g.event = h.event) \/ ~Held(h.event) BY <1>8, <1>9
  <1>13. \A h \in holds' : \E g \in holds : g.event = h.event BY <1>8
  <1>14. j.at \notin {"holdRow", "purgeRow", "cancelRow", "cancelled"} BY <1>3, <1>5, <1>6
  <1>15. job[p].at \in {"purge", "purgeRow"} BY <1>8 DEF At
  <1>. HIDE DEF j
  <1>. QED BY <1>5, <1>6, <1>7, <1>8, <1>10, <1>11, <1>12, <1>13, <1>14, <1>15, HoldsAreWritten

LEMMA EventIsPurged ==
  ASSUME EventInv, NEW p \in Proc, PurgeEvent(p)
  PROVE  EventInv'
  <1>0. TypeOK BY DEF EventInv
  <1>. DEFINE j == [job[p] EXCEPT !.at = "purgeRow"]
  <1>1. p \in Caller => /\ p \notin Loop
                        /\ job[p] \in [at : {"purge", "purgeRow"}, slot : Slot, event : Event, todo : Some(Event)]
    BY <1>0, Shapes, SchedulingAssumption DEF PurgeEvent, At
  <1>2. p \in Loop => /\ p \notin Caller
                      /\ job[p] \in [at : {"purge", "purgeRow"}, todo : Some(Event)]
    BY <1>0, CronShapes, SchedulingAssumption DEF PurgeEvent, At
  <1>3. p \in Caller \/ p \in Loop BY DEF Proc
  <1>4. j.at = "purgeRow" /\ j.todo = job[p].todo BY <1>1, <1>2, <1>3
  <1>5. p \in Caller => j \in CallerJob /\ j.event = job[p].event BY <1>1 DEF CallerJob
  <1>6. p \in Loop => j \in CronJob BY <1>2 DEF CronJob
  <1>7. Goto(p, j) /\ DeleteEvent(Min(job[p].todo)) /\ job[p].at = "purge" BY DEF PurgeEvent, Becomes, At
  <1>8. Min(job[p].todo) \in Event
    <2>1. job[p].todo \in Some(Event) BY <1>1, <1>2, <1>3
    <2>2. Min(job[p].todo) \in job[p].todo BY <2>1, MinIn DEF Some, Event
    <2>. QED BY <2>1, <2>2 DEF Some
  <1>9. holds' = holds /\ meetings' = meetings /\ world' = world /\ overlapped' \in BOOLEAN
    BY <1>0 DEF PurgeEvent, rows, TypeOK
  <1>10. "purgeRow" \in Strong BY DEF Strong
  <1>11. /\ calendar' \in CalendarType /\ Len(calendar') = Len(calendar) /\ \A x \in Event : Live(x)' => Live(x)
         /\ excused \subseteq excused' /\ excused' \subseteq Event /\ upsets' \in 0..MaxUpsets
    BY <1>0, <1>7, <1>8, Deletes
  <1>12. \A e \in Event : e = Min(j.todo) /\ Live(e)' => e \in excused'
    BY <1>0, <1>4, <1>7, <1>8, Deletes
  <1>. HIDE DEF j
  <1>. QED BY <1>4, <1>5, <1>6, <1>7, <1>9, <1>10, <1>11, <1>12, Moves

LEMMA MeetingIsInserted ==
  ASSUME EventInv, NEW c \in Caller, InsertMeeting(c)
  PROVE  EventInv'
  <1>0. TypeOK /\ Solid /\ Fresh /\ c \in Proc /\ c \notin Loop BY SchedulingAssumption DEF EventInv, Proc
  <1>. DEFINE M == [slot : Slot, event : Event,
                    status : {"scheduled", "rescheduled", "cancelled", "cancelled_by_organizer", "rescheduled_by_organizer"}]
              r == [slot |-> job[c].slot, event |-> job[c].event, status |-> "scheduled"]
              n == Len(meetings) + 1
  <1>1. job[c].slot \in Slot /\ job[c].event \in Event /\ At(c, "insert") BY <1>0, Shapes DEF InsertMeeting
  <1>2. meetings \in Seq(M) /\ r \in M /\ r.event = job[c].event /\ r.status = "scheduled"
    BY <1>0, <1>1 DEF TypeOK
  <1>3. meetings' = Append(meetings, r) /\ Goto(c, Idle) /\ UNCHANGED <<calendar, holds, world, history, upsets>>
    BY DEF InsertMeeting
  <1>. HIDE DEF M, r
  <1>4. /\ meetings' \in Seq(M) /\ Len(meetings') = n /\ meetings'[n] = r
        /\ \A i \in 1..Len(meetings) : meetings'[i] = meetings[i]
    BY <1>2, <1>3, AppendProperties
  <1>5. Len(meetings) \in Nat /\ Len(calendar) \in Nat BY <1>0, Rows_
  <1>6. MeetingRow' = MeetingRow \union {n} /\ n \notin MeetingRow /\ Event' = Event
    BY <1>3, <1>4, <1>5 DEF MeetingRow, Event
  <1>7. \A i \in MeetingRow : meetings'[i] = meetings[i] BY <1>4 DEF MeetingRow
  <1>8. TypeOK' /\ job'[c] = Idle /\ \A q \in Proc : q # c => job'[q] = job[q]
    <2>1. job' = [job EXCEPT ![c] = Idle] BY <1>3 DEF Goto
    <2>2. Idle \in CallerJob' BY DEF CallerJob
    <2>3. Len(calendar) <= Len(calendar') /\ Len(meetings) <= Len(meetings') BY <1>3, <1>4, <1>5
    <2>4. /\ calendar' \in CalendarType /\ meetings' \in MeetingsType(Event')
          /\ holds' \subseteq [event : Event', slot : Slot, expired : BOOLEAN]
          /\ world' = world /\ overlapped' \in BOOLEAN /\ upsets' \in 0..MaxUpsets /\ excused' \subseteq Event'
      BY <1>0, <1>3, <1>4, <1>6 DEF TypeOK, history, CalendarType, MeetingsType, M
    <2>. QED BY <1>0, <2>1, <2>2, <2>3, <2>4, JobMoves DEF CalendarType, MeetingsType
  <1>9. Idle.at = "idle" BY DEF Idle
  <1>10. Solid'
    <2>1. \A e \in Event' : Live(e)' => e \in Event /\ Live(e) BY <1>3, <1>6 DEF Live
    <2>2. \A d \in Caller : job[d].at \in Strong =>
            \/ job'[d].at \in Strong /\ job'[d].event = job[d].event
            \/ \A e \in Event' : job[d].event = e => Safe(e)'
      <3>. SUFFICES ASSUME NEW e \in Event', e = job[c].event PROVE Met(e)'
        BY <1>8 DEF Safe, Kept, Proc
      <3>1. \A d \in Caller : At(d, "cancelRow")' => job'[d].row # n
        <4>. SUFFICES ASSUME NEW d \in Caller, At(d, "cancelRow")' PROVE job'[d].row # n
          OBVIOUS
        <4>1. d # c /\ job'[d] = job[d] /\ At(d, "cancelRow") BY <1>8, <1>9 DEF At, Proc
        <4>2. job[d].row \in MeetingRow BY <1>0, <4>1, Shapes DEF At
        <4>. QED BY <1>6, <4>1, <4>2
      <3>2. \A q \in Loop : At(q, "cancelled")' => Row(q)' # n
        <4>. SUFFICES ASSUME NEW q \in Loop, At(q, "cancelled")' PROVE Row(q)' # n
          OBVIOUS
        <4>1. job'[q] = job[q] /\ At(q, "cancelled") BY <1>0, <1>8 DEF At, Proc
        <4>2. Row(q) \in MeetingRow BY <1>0, <4>1, ScanRow DEF At
        <4>3. Row(q)' = Row(q) BY <4>1 DEF Row
        <4>. QED BY <1>6, <4>2, <4>3
      <3>. QED BY <1>2, <1>4, <1>6, <3>1, <3>2 DEF Met, Off
    <2>3. \A q \in Proc : At(q, "purgeRow")' => At(q, "purgeRow") /\ job'[q].todo = job[q].todo
      BY <1>8, <1>9 DEF At
    <2>4. \A d \in Caller : At(d, "cancelRow")' => At(d, "cancelRow") /\ job'[d].row = job[d].row
      BY <1>8, <1>9 DEF At, Proc
    <2>5. \A q \in Loop : At(q, "cancelled")' => At(q, "cancelled") /\ job'[q].slots = job[q].slots
      BY <1>0, <1>8 DEF At, Proc
    <2>6. \A k \in MeetingRow : k \in MeetingRow' /\ meetings'[k].event = meetings[k].event
                                /\ (meetings[k].status \in Off \/ meetings'[k].status \notin Off)
      BY <1>6, <1>7
    <2>7. excused \subseteq excused' /\ holds' = holds BY <1>3 DEF history
    <2>. QED BY <1>0, <2>1, <2>2, <2>3, <2>4, <2>5, <2>6, <2>7, SolidStep
  <1>11. Fresh'
    <2>1. \A d \in Caller : At(d, "holdRow")' => job'[d] = job[d] BY <1>8, <1>9 DEF At, Proc
    <2>2. \A h \in holds' : \E g \in holds : g.event = h.event BY <1>3
    <2>3. \A q \in Proc : job'[q].at \in {"purge", "purgeRow"} =>
           \A e \in job'[q].todo : job[q].at \in {"purge", "purgeRow"} /\ e \in job[q].todo
      BY <1>8, <1>9
    <2>. QED BY <1>0, <2>1, <2>2, <2>3, FreshStep
  <1>. QED BY <1>8, <1>10, <1>11 DEF EventInv

-----------------------------------------------------------------------------
(* The cron jobs, crashes, and what happens to the calendar. *)

LEMMA ProcessDies ==
  ASSUME EventInv, NEW p \in Proc, Crash(p)
  PROVE  EventInv'
  <1>0. TypeOK BY DEF EventInv
  <1>1. Idle \in CallerJob /\ Idle \in CronJob /\ Idle.at = "idle" BY DEF CallerJob, CronJob, Idle
  <1>2. upsets' \in 0..MaxUpsets /\ overlapped' \in BOOLEAN /\ UNCHANGED <<calendar, rows, world>> /\ Goto(p, Idle)
    BY <1>0, SchedulingAssumption DEF Crash, TypeOK
  <1>3. p \in Caller /\ job[p].at \in Strong => job[p].event \in excused'
    <2>. SUFFICES ASSUME p \in Caller, job[p].at \in Strong PROVE job[p].event \in excused'
      OBVIOUS
    <2>1. job[p].event \in Event /\ "event" \in DOMAIN job[p] BY <1>0, Shapes DEF At, Strong
    <2>. QED BY <2>1 DEF Crash, Event
  <1>4. excused' \subseteq Event
    <2>1. "event" \in DOMAIN job[p] => job[p].event \in Event \union {0}
      <3>1. job[p] \in CallerJob \/ job[p] \in CronJob BY <1>0 DEF TypeOK, Proc
      <3>. QED BY <3>1 DEF CallerJob, CronJob, Idle
    <2>. QED BY <1>0, <2>1 DEF Crash, TypeOK
  <1>5. excused \subseteq excused' BY DEF Crash
  <1>. QED BY <1>1, <1>2, <1>3, <1>4, <1>5, JobOnly

LEMMA RestrictedBatch ==
  ASSUME TypeOK, NEW p \in Loop, job[p].at \in {"get", "cancelled", "moved"}
  PROVE  (IF DOMAIN job[p].slots \ {Row(p)} = {} THEN Idle
          ELSE [at |-> "get", slots |-> Restrict(job[p].slots, DOMAIN job[p].slots \ {Row(p)})]) \in CronJob
  <1>1. job[p].slots \in Batch BY CronShapes DEF At
  <1>2. PICK s \in Some(MeetingRow) : job[p].slots \in [s -> Slot] BY <1>1 DEF Batch
  <1>. DEFINE left == DOMAIN job[p].slots \ {Row(p)}
  <1>3. CASE left = {} BY <1>3 DEF CronJob
  <1>4. CASE left # {}
    <2>1. left \in Some(MeetingRow) BY <1>2, <1>4 DEF Some
    <2>2. Restrict(job[p].slots, left) \in [left -> Slot] BY <1>2 DEF Restrict
    <2>3. Restrict(job[p].slots, left) \in Batch BY <2>1, <2>2 DEF Batch
    <2>. QED BY <1>4, <2>3 DEF CronJob
  <1>. QED BY <1>3, <1>4

LEMMA CronMoves ==
  ASSUME EventInv, NEW p \in Loop, SweepExpired(p) \/ Scan(p) \/ GetEvent(p) \/ TellAgent(p) \/ ReconcileFails(p)
  PROVE  EventInv'
  <1>0. TypeOK /\ p \in Proc /\ p \notin Caller BY SchedulingAssumption DEF EventInv, Proc
  <1>. DEFINE next == IF DOMAIN job[p].slots \ {Row(p)} = {} THEN Idle
                      ELSE [at |-> "get", slots |-> Restrict(job[p].slots, DOMAIN job[p].slots \ {Row(p)})]
  <1>1. next.at \in {"idle", "get"} BY DEF Idle
  <1>2. NextRow(p) => Goto(p, next) BY DEF NextRow
  <1>3. job[p].at \in {"get", "cancelled", "moved"} => next \in CronJob BY <1>0, RestrictedBatch
  <1>4. Idle \in CronJob /\ Idle.at = "idle" BY DEF CronJob, Idle
  <1>. HIDE DEF next
  <1>5. CASE SweepExpired(p)
    <2>1. PICK h \in ExpiredHolds : Goto(p, [at |-> "purge", todo |-> {h.event}])
      BY <1>5 DEF SweepExpired
    <2>2. h \in holds /\ h.event \in Event BY <1>0 DEF ExpiredHolds, TypeOK
    <2>3. [at |-> "purge", todo |-> {h.event}] \in CronJob BY <2>2 DEF CronJob, Some
    <2>4. UNCHANGED <<calendar, rows, world>> /\ overlapped' \in BOOLEAN /\ upsets' \in 0..MaxUpsets
          /\ excused' = excused /\ excused \subseteq Event
      BY <1>0, <1>5 DEF SweepExpired, history, TypeOK
    <2>. QED BY <1>0, <2>1, <2>2, <2>3, <2>4, JobOnly
  <1>6. CASE Scan(p)
    <2>. DEFINE j == [at |-> "get", slots |-> [i \in Scanned |-> meetings[i].slot]]
    <2>1. Scanned \in Some(MeetingRow) BY <1>0, <1>6, ActiveRow DEF Scan, Scanned, Some
    <2>2. \A i \in Scanned : meetings[i].slot \in Slot BY <1>0, <2>1, Rows_ DEF Some
    <2>3. j \in CronJob BY <2>1, <2>2 DEF CronJob, Batch
    <2>4. UNCHANGED <<calendar, rows, world>> /\ overlapped' \in BOOLEAN /\ upsets' \in 0..MaxUpsets
          /\ excused' = excused /\ excused \subseteq Event /\ Goto(p, j)
      BY <1>0, <1>6 DEF Scan, history, TypeOK
    <2>5. j.at = "get" OBVIOUS
    <2>. HIDE DEF j
    <2>. QED BY <1>0, <2>3, <2>4, <2>5, JobOnly
  <1>7. CASE GetEvent(p)
    <2>1. job[p].slots \in Batch /\ Row(p) \in MeetingRow BY <1>0, <1>7, ScanRow DEF GetEvent, At
    <2>. DEFINE e == meetings[Row(p)].event
                told(kind) == [at |-> kind, slots |-> job[p].slots, slot |-> calendar[e].slot]
    <2>2. e \in Event /\ calendar[e].slot \in Slot BY <1>0, <2>1, Rows_
    <2>3. told("cancelled") \in CronJob /\ told("moved") \in CronJob BY <2>1, <2>2 DEF CronJob
    <2>4. UNCHANGED <<calendar, rows, world>> /\ overlapped' \in BOOLEAN /\ upsets' \in 0..MaxUpsets
          /\ excused' = excused /\ excused \subseteq Event
      BY <1>0, <1>7 DEF GetEvent, history, TypeOK
    <2>5. CASE calendar[e].status \in {"deleted", "removed"} /\ Goto(p, told("cancelled"))
      <3>. DEFINE j == told("cancelled")
      <3>1. j \in CronJob /\ j.at = "cancelled" /\ j.slots = job[p].slots BY <2>3
      <3>2. Goto(p, j) BY <2>5
      <3>3. \A x \in Event : x = meetings[Min(DOMAIN j.slots)].event => ~Live(x)'
        BY <2>4, <2>5 DEF Row, Live
      <3>4. calendar' \in CalendarType /\ calendar' = calendar /\ holds' = holds /\ meetings' = meetings /\ world' = world
        BY <1>0, <2>4 DEF TypeOK, CalendarType, rows
      <3>5. \A x \in Event : Live(x)' => Live(x) BY <3>4 DEF Live
      <3>. HIDE DEF j
      <3>. QED BY <1>0, <2>4, <3>1, <3>2, <3>3, <3>4, <3>5, Moves
    <2>6. CASE Goto(p, told("moved"))
      <3>. DEFINE j == told("moved")
      <3>1. j \in CronJob /\ j.at = "moved" /\ Goto(p, j) BY <2>3, <2>6
      <3>. HIDE DEF j
      <3>. QED BY <1>0, <2>4, <3>1, JobOnly
    <2>7. CASE NextRow(p)
      <3>1. Goto(p, next) /\ next \in CronJob BY <1>2, <1>3, <1>7, <2>7 DEF GetEvent, At
      <3>. QED BY <1>0, <1>1, <2>4, <3>1, JobOnly
    <2>. QED BY <1>7, <2>5, <2>6, <2>7 DEF GetEvent
  <1>8. CASE TellAgent(p)
    <2>1. Row(p) \in MeetingRow /\ job[p] \in [at : {"cancelled", "moved"}, slots : Batch, slot : Slot]
      BY <1>0, <1>8, ScanRow, CronShapes DEF TellAgent
    <2>. DEFINE r == IF At(p, "cancelled") THEN [meetings[Row(p)] EXCEPT !.status = "cancelled_by_organizer"]
                     ELSE [meetings[Row(p)] EXCEPT !.status = "rescheduled_by_organizer", !.slot = job[p].slot]
    <2>2. r \in [slot : Slot, event : Event,
                status : {"scheduled", "rescheduled", "cancelled", "cancelled_by_organizer", "rescheduled_by_organizer"}]
          /\ r.event = meetings[Row(p)].event /\ (r.status \in Off => At(p, "cancelled"))
      <3>1. job[p].slot \in Slot BY <2>1
      <3>2. CASE At(p, "cancelled") BY <1>0, <2>1, <3>2, RowShape
      <3>3. CASE ~At(p, "cancelled") BY <1>0, <2>1, <3>1, <3>3, RowShape DEF Off
      <3>. QED BY <3>2, <3>3
    <2>3. meetings' = [meetings EXCEPT ![Row(p)] = r]
      <3>1. DOMAIN meetings = MeetingRow BY <1>0, Rows_
      <3>2. CASE At(p, "cancelled") BY <1>8, <3>2 DEF TellAgent
      <3>3. CASE ~At(p, "cancelled") BY <1>8, <2>1, <3>1, <3>3 DEF TellAgent
      <3>. QED BY <3>2, <3>3
    <2>4. Goto(p, next) /\ next \in CronJob BY <1>2, <1>3, <1>8 DEF TellAgent
    <2>5. UNCHANGED <<calendar, holds, world, history, upsets>> BY <1>8 DEF TellAgent
    <2>. HIDE DEF r
    <2>. QED BY <1>0, <1>1, <2>1, <2>2, <2>3, <2>4, <2>5, RowIsWritten
  <1>9. CASE ReconcileFails(p)
    <2>1. PICK j \in {next, Idle} : j \in CronJob /\ Goto(p, j) /\ j.at \in {"idle", "get"}
      BY <1>1, <1>2, <1>3, <1>4, <1>9 DEF ReconcileFails, At
    <2>2. UNCHANGED <<calendar, rows, world>> /\ overlapped' \in BOOLEAN /\ upsets' \in 0..MaxUpsets
          /\ excused' = excused /\ excused \subseteq Event
      BY <1>0, <1>9, SchedulingAssumption DEF ReconcileFails, history, TypeOK
    <2>. QED BY <1>0, <2>1, <2>2, JobOnly
  <1>. QED BY <1>5, <1>6, <1>7, <1>8, <1>9

LEMMA EnvironmentMoves ==
  ASSUME EventInv,
         \/ \E e \in Event : OrganizerDeletes(e) \/ \E s \in Slot : OrganizerMoves(e, s)
         \/ \E h \in holds : HoldExpires(h)
         \/ Disconnect \/ Connect \/ TimePasses
         \/ UNCHANGED vars
  PROVE  EventInv'
  <1>0. TypeOK /\ Solid /\ Fresh BY DEF EventInv
  <1>1. job' = job /\ excused' = excused /\ meetings' = meetings /\ overlapped' = overlapped
    BY DEF OrganizerDeletes, OrganizerMoves, HoldExpires, Disconnect, Connect, TimePasses, vars, rows, history
  <1>2. calendar' \in CalendarType /\ Len(calendar') = Len(calendar) /\ \A e \in Event : Live(e)' => Live(e)
    <2>1. ASSUME NEW e \in Event, OrganizerDeletes(e)
          PROVE  calendar' \in CalendarType /\ Len(calendar') = Len(calendar) /\ \A x \in Event : Live(x)' => Live(x)
      <3>1. calendar[e].slot \in Slot BY <1>0, Rows_
      <3>2. /\ calendar' \in CalendarType /\ Len(calendar') = Len(calendar)
            /\ calendar'[e].status = "removed" /\ \A x \in Event : x # e => calendar'[x] = calendar[x]
        BY <1>0, <2>1, <3>1, Patches DEF OrganizerDeletes
      <3>. QED BY <3>2 DEF Live
    <2>2. ASSUME NEW e \in Event, NEW s \in Slot, OrganizerMoves(e, s)
          PROVE  calendar' \in CalendarType /\ Len(calendar') = Len(calendar) /\ \A x \in Event : Live(x)' => Live(x)
      <3>2. /\ calendar' \in CalendarType /\ Len(calendar') = Len(calendar) /\ calendar[e].status = "confirmed"
            /\ \A x \in Event : x # e => calendar'[x] = calendar[x]
        BY <1>0, <2>2, Patches DEF OrganizerMoves
      <3>. QED BY <3>2 DEF Live
    <2>3. CASE calendar' = calendar BY <1>0, <2>3 DEF Live, TypeOK, CalendarType
    <2>. QED BY <2>1, <2>2, <2>3 DEF HoldExpires, Disconnect, Connect, TimePasses, vars
  <1>3. /\ \A h \in holds : \E g \in holds' : g.event = h.event
        /\ \A h \in holds' : \E g \in holds : g.event = h.event
        /\ holds' \subseteq [event : Event, slot : Slot, expired : BOOLEAN]
    <2>1. ASSUME NEW h \in holds, HoldExpires(h)
          PROVE  /\ \A k \in holds : \E g \in holds' : g.event = k.event
                 /\ \A k \in holds' : \E g \in holds : g.event = k.event
                 /\ holds' \subseteq [event : Event, slot : Slot, expired : BOOLEAN]
      <3>. DEFINE g == [h EXCEPT !.expired = TRUE]
      <3>1. h \in [event : Event, slot : Slot, expired : BOOLEAN] BY <1>0 DEF TypeOK
      <3>2. g \in [event : Event, slot : Slot, expired : BOOLEAN] /\ g.event = h.event BY <3>1
      <3>3. holds' = (holds \ {h}) \union {g} BY <2>1 DEF HoldExpires
      <3>. HIDE DEF g
      <3>. QED BY <1>0, <3>2, <3>3 DEF TypeOK
    <2>2. CASE holds' = holds BY <1>0, <2>2 DEF TypeOK
    <2>. QED BY <2>1, <2>2 DEF OrganizerDeletes, OrganizerMoves, Disconnect, Connect, TimePasses, vars, rows
  <1>4. upsets' \in 0..MaxUpsets /\ ready' \in BOOLEAN /\ now' \in Instants
    <2>1. upsets \in 0..MaxUpsets /\ ready \in BOOLEAN BY <1>0 DEF TypeOK
    <2>2. upsets' = upsets \/ (upsets < MaxUpsets /\ upsets' = upsets + 1)
      BY DEF OrganizerDeletes, OrganizerMoves, HoldExpires, Disconnect, Connect, TimePasses, vars
    <2>3. ready' \in {ready, TRUE, FALSE}
      BY DEF OrganizerDeletes, OrganizerMoves, HoldExpires, Disconnect, Connect, TimePasses, vars
    <2>4. ready' \in BOOLEAN BY <2>1, <2>3
    <2>5. upsets' \in 0..MaxUpsets
      <3>1. MaxUpsets \in Nat BY SchedulingAssumption
      <3>. QED BY <2>1, <2>2, <3>1
    <2>6. now' = now \/ now' \in Instants
      BY DEF OrganizerDeletes, OrganizerMoves, HoldExpires, Disconnect, Connect, TimePasses, vars
    <2>. QED BY <1>0, <2>4, <2>5, <2>6 DEF TypeOK
  <1>5. Event' = Event /\ MeetingRow' = MeetingRow BY <1>1, <1>2 DEF Event, MeetingRow
  <1>6. TypeOK'
    <2>1. CallerJob' = CallerJob /\ CronJob' = CronJob BY <1>5 DEF CallerJob, CronJob, Batch
    <2>. QED BY <1>0, <1>1, <1>2, <1>3, <1>4, <1>5, <2>1 DEF TypeOK, CalendarType
  <1>7. Solid'
    <2>1. \A e \in Event' : Live(e)' => e \in Event /\ Live(e) BY <1>2, <1>5
    <2>2. \A q \in Loop : At(q, "cancelled")' => At(q, "cancelled") /\ job'[q].slots = job[q].slots BY <1>1 DEF At
    <2>3. \A q \in Proc : At(q, "purgeRow")' => At(q, "purgeRow") /\ job'[q].todo = job[q].todo BY <1>1 DEF At
    <2>4. \A c \in Caller : At(c, "cancelRow")' => At(c, "cancelRow") /\ job'[c].row = job[c].row BY <1>1 DEF At
    <2>5. \A c \in Caller : job[c].at \in Strong => job'[c].at \in Strong /\ job'[c].event = job[c].event BY <1>1
    <2>6. \A k \in MeetingRow : k \in MeetingRow' /\ meetings'[k].event = meetings[k].event
                                /\ (meetings[k].status \in Off \/ meetings'[k].status \notin Off)
      BY <1>1, <1>5
    <2>. QED BY <1>0, <1>1, <1>3, <2>1, <2>2, <2>3, <2>4, <2>5, <2>6, SolidStep
  <1>8. Fresh' BY <1>0, <1>1, <1>3, FreshStep DEF At
  <1>. QED BY <1>6, <1>7, <1>8 DEF EventInv

-----------------------------------------------------------------------------

LEMMA EventInvStep == EventInv /\ [Next]_vars => EventInv'
  <1>. SUFFICES ASSUME EventInv, [Next]_vars PROVE EventInv'
    OBVIOUS
  <1>1. ASSUME NEW c \in Caller, HoldFails(c) \/ BookingAnswerLost(c) \/ CallerStep(c) PROVE EventInv'
    BY <1>1, HoldIsSkipped, BookingFails, HoldIsCreated, HoldIsStored, MeetingIsLookedUp, EventIsBooked,
       HoldIsConsumed, OthersAreListed, MeetingIsInserted, MeetingIsMoved DEF CallerStep
  <1>2. ASSUME NEW p \in Proc, PurgeEvent(p) \/ PurgeRow(p) \/ Crash(p) PROVE EventInv'
    BY <1>2, EventIsPurged, HoldIsPurged, ProcessDies
  <1>3. ASSUME NEW p \in Loop,
               Scan(p) \/ SweepExpired(p) \/ GetEvent(p) \/ TellAgent(p) \/ ReconcileFails(p)
        PROVE  EventInv'
    BY <1>3, CronMoves
  <1>. QED BY <1>1, <1>2, <1>3, RequestBegins, EnvironmentMoves DEF Next, Event

LEMMA EventInvInit == Init => EventInv
  <1>. SUFFICES ASSUME Init PROVE EventInv
    OBVIOUS
  <1>1. Event = {} /\ MeetingRow = {} BY EmptySeq DEF Init, Event, MeetingRow
  <1>2. TypeOK
    <2>1. \A p \in Proc : job[p] = Idle BY DEF Init
    <2>2. calendar \in CalendarType /\ meetings \in MeetingsType(Event) BY EmptySeq DEF Init, CalendarType, MeetingsType
    <2>3. 0 \in 0..MaxUpsets BY SchedulingAssumption
    <2>. QED BY <2>1, <2>2, <2>3 DEF Init, TypeOK, CalendarType, MeetingsType, CallerJob, CronJob, Proc
  <1>3. Solid BY <1>1 DEF Solid
  <1>4. Fresh BY DEF Fresh, At, Init, Idle, Proc
  <1>. QED BY <1>2, <1>3, <1>4 DEF EventInv

(* Whatever the requests, the crashes and the organizer do: every event that is
   not excused is kept by somebody who will not let go of it yet. *)
THEOREM EventsAreKept == Spec => []EventInv
  <1>. QED BY EventInvInit, EventInvStep, PTL DEF Spec

(* The rows, the calendar and what each request is at have their types. *)
THEOREM TypeCorrect == Spec => []TypeOK
  <1>1. EventInv => TypeOK BY DEF EventInv
  <1>. QED BY <1>1, EventsAreKept, PTL

(* holds-cleanup.ts, schedule-service.ts: no event stays in the organizer's
   calendar that neither a row nor a running request knows of, but for those a
   failed call left. *)
THEOREM NothingStrays == Spec => []NoStrayEvent
  <1>1. EventInv => NoStrayEvent
    <2>. SUFFICES ASSUME EventInv, NEW e \in Event, Live(e), e \notin excused PROVE InHand(e) \/ Referenced(e)
      BY DEF NoStrayEvent, Event
    <2>1. Kept(e) BY DEF EventInv, Solid, Safe
    <2>2. InStrongHand(e) => InHand(e)
      <3>1. \A c \in Caller : job[c].at \in Strong => "event" \in DOMAIN job[c]
        BY Shapes DEF EventInv, Strong, At
      <3>. QED BY <3>1 DEF InStrongHand, InHand
    <2>3. Held(e) \/ Met(e) => Referenced(e) BY DEF Held, Met, Referenced, MeetingRow, Off
    <2>. QED BY <2>1, <2>2, <2>3 DEF Kept
  <1>. QED BY <1>1, EventsAreKept, PTL

-----------------------------------------------------------------------------
(* One meeting of the lead at most. While no two requests overlap, a meeting
   whose event stands is the newest of the active ones, and a request that is
   to book another has left none standing before it does. *)

Standing == {i \in ActiveMeetings : Live(meetings[i].event) /\ meetings[i].event \notin excused}
Newest == \A i \in Standing, k \in ActiveMeetings : k <= i

Alone == \A c, d \in Caller : ~At(c, "idle") /\ ~At(d, "idle") => c = d

\* An event is of one hold, of one booking or of one meeting at a time.
HoldsApart == \A h \in holds, i \in MeetingRow : meetings[i].event # h.event
Apart(c) ==
  /\ job[c].at \in Strong \union {"confirm"} => \A i \in MeetingRow : meetings[i].event # job[c].event
  /\ job[c].at \in {"others", "purge", "purgeRow", "insert"} => \A h \in holds : h.event # job[c].event

Booking == {"markOld", "lookup", "confirm", "create", "consume", "others", "purge", "purgeRow", "insert"}

\* A row that moves may have been told as cancelled meanwhile, and comes back.
Stage(c) ==
  /\ At(c, "dropOld") => Standing \subseteq {job[c].row}
  /\ At(c, "markOld") => ~Live(meetings[job[c].row].event) \/ meetings[job[c].row].event \in excused
  /\ job[c].at \in Booking => Standing = {}
  /\ job[c].at \in {"move", "moveRow"} =>
       /\ \A i \in Standing : job[c].row <= i
       /\ Live(meetings[job[c].row].event) /\ meetings[job[c].row].event \notin excused =>
            \A k \in ActiveMeetings : k <= job[c].row

Single == Alone /\ HoldsApart /\ Newest /\ \A c \in Caller : Apart(c) /\ Stage(c)

OneInv == EventInv /\ (overlapped \/ Single)

LEMMA JobGoes ==
  ASSUME TypeOK, NEW p \in Proc, NEW j, Goto(p, j)
  PROVE  job'[p] = j /\ \A q \in Proc : q # p => job'[q] = job[q]
  BY DEF TypeOK, Goto

\* No meeting becomes active and no event of a meeting comes back.
Shrinks ==
  /\ MeetingRow' = MeetingRow /\ ActiveMeetings' \subseteq ActiveMeetings
  /\ \A i \in MeetingRow : meetings'[i].event = meetings[i].event
  /\ \A e \in Event : Live(e)' => Live(e) \/ \A i \in MeetingRow : meetings[i].event # e
  /\ excused \subseteq excused'

LEMMA StandingShrinks ==
  ASSUME TypeOK, Shrinks
  PROVE  /\ Standing' \subseteq Standing
         /\ Newest => Newest'
         /\ \A i \in MeetingRow : /\ Live(meetings[i].event)' => Live(meetings[i].event)
                                  /\ meetings[i].event \in excused => (meetings[i].event \in excused)'
  <1>1. ActiveMeetings \subseteq MeetingRow BY ActiveRow
  <1>2. \A i \in MeetingRow : meetings[i].event \in Event BY Rows_
  <1>3. \A i \in MeetingRow : Live(meetings[i].event)' => Live(meetings[i].event) BY <1>2 DEF Shrinks, Live
  <1>4. \A i \in MeetingRow : meetings[i].event \in excused => (meetings[i].event \in excused)' BY DEF Shrinks
  <1>5. Standing' \subseteq Standing BY <1>1, <1>3, <1>4 DEF Standing, Shrinks
  <1>6. Newest => Newest' BY <1>5 DEF Newest, Shrinks
  <1>. QED BY <1>3, <1>4, <1>5, <1>6

\* What a process does that is no request leaves the requests' part as it was.
LEMMA SingleKept ==
  ASSUME TypeOK, Single, Shrinks, \A c \in Caller : job'[c] = job[c],
         \A h \in holds' : \E g \in holds : g.event = h.event
  PROVE  Single'
  <1>1. Alone' BY DEF Single, Alone, At
  <1>2. HoldsApart' BY DEF Single, HoldsApart, Shrinks
  <1>3. Newest' BY StandingShrinks DEF Single
  <1>4. ASSUME NEW c \in Caller PROVE Apart(c)'
    <2>1. Apart(c) /\ job'[c] = job[c] BY DEF Single
    <2>. QED BY <2>1 DEF Apart, Shrinks
  <1>5. ASSUME NEW c \in Caller PROVE Stage(c)'
    <2>1. Stage(c) /\ job'[c] = job[c] BY DEF Single
    <2>2. job[c].at \in {"dropOld", "markOld", "move", "moveRow"} => job[c].row \in MeetingRow BY Shapes DEF At
    <2>3. Standing' \subseteq Standing /\ ActiveMeetings' \subseteq ActiveMeetings BY StandingShrinks DEF Shrinks
    <2>4. job[c].row \in MeetingRow =>
            /\ Live(meetings[job[c].row].event)' => Live(meetings[job[c].row].event)
            /\ meetings[job[c].row].event \in excused => (meetings[job[c].row].event \in excused)'
      BY <2>1, StandingShrinks
    <2>5. (At(c, "dropOld") => Standing \subseteq {job[c].row})' BY <2>1, <2>3 DEF Stage, At
    <2>6. (At(c, "markOld") => ~Live(meetings[job[c].row].event) \/ meetings[job[c].row].event \in excused)'
      BY <2>1, <2>2, <2>4 DEF Stage, At
    <2>7. (job[c].at \in Booking => Standing = {})' BY <2>1, <2>3 DEF Stage
    <2>8. (job[c].at \in {"move", "moveRow"} =>
             /\ \A i \in Standing : job[c].row <= i
             /\ Live(meetings[job[c].row].event) /\ meetings[job[c].row].event \notin excused =>
                  \A k \in ActiveMeetings : k <= job[c].row)'
      BY <2>1, <2>2, <2>3, <2>4 DEF Stage
    <2>. QED BY <2>5, <2>6, <2>7, <2>8 DEF Stage
  <1>. QED BY <1>1, <1>2, <1>3, <1>4, <1>5 DEF Single

\* A request moves on while the others are idle: what is left to show of it.
LEMMA SingleMoves ==
  ASSUME Single, NEW c \in Caller, \A d \in Caller : d # c => At(d, "idle"),
         \A d \in Caller : d # c => job'[d] = job[d],
         HoldsApart', Newest', Apart(c)', Stage(c)'
  PROVE  Single'
  <1>1. \A d \in Caller : d # c => At(d, "idle")' BY DEF At
  <1>2. Alone' BY <1>1 DEF Alone
  <1>3. ASSUME NEW d \in Caller, d # c PROVE Apart(d)' /\ Stage(d)'
    <2>1. job'[d].at = "idle" BY <1>1, <1>3 DEF At
    <2>. QED BY <2>1 DEF Apart, Stage, At, Strong, Booking
  <1>. QED BY <1>2, <1>3 DEF Single

LEMMA OthersIdle ==
  ASSUME Single, NEW c \in Caller, ~At(c, "idle")
  PROVE  \A d \in Caller : d # c => At(d, "idle")
  BY DEF Single, Alone

\* Where a request is says nothing of the meetings.
LEMMA NoStage ==
  ASSUME NEW c, job'[c].at \in {"idle", "hold", "holdRow", "cancel", "cancelRow"}
  PROVE  Stage(c)' /\ (job'[c].at # "holdRow" => Apart(c)')
  BY DEF Stage, Apart, At, Strong, Booking

\* A request goes home.
LEMMA SingleEnds ==
  ASSUME TypeOK, Single, NEW c \in Caller, NEW j, Goto(c, j), j.at \in {"idle", "hold", "cancel", "cancelRow"},
         ~At(c, "idle") \/ \A d \in Caller : d # c => At(d, "idle"),
         Shrinks, \A h \in holds' : \E g \in holds : g.event = h.event
  PROVE  Single'
  <1>1. job'[c] = j /\ \A d \in Caller : d # c => job'[d] = job[d] BY JobGoes DEF Proc
  <1>2. \A d \in Caller : d # c => At(d, "idle") BY OthersIdle
  <1>3. HoldsApart' BY DEF Single, HoldsApart, Shrinks
  <1>4. Newest' BY StandingShrinks DEF Single
  <1>5. Apart(c)' /\ Stage(c)' BY <1>1, NoStage
  <1>. QED BY <1>1, <1>2, <1>3, <1>4, <1>5, SingleMoves

LEMMA StillShrinks ==
  ASSUME TypeOK, calendar' = calendar, meetings' = meetings, excused \subseteq excused'
  PROVE  Shrinks
  <1>1. MeetingRow' = MeetingRow /\ ActiveMeetings' = ActiveMeetings BY DEF MeetingRow, ActiveMeetings
  <1>2. \A e \in Event : Live(e)' => Live(e) BY DEF Live
  <1>. QED BY <1>1, <1>2 DEF Shrinks

LEMMA LessIsLive ==
  ASSUME TypeOK, meetings' = meetings, \A e \in Event : Live(e)' => Live(e), excused \subseteq excused'
  PROVE  Shrinks
  <1>1. MeetingRow' = MeetingRow /\ ActiveMeetings' = ActiveMeetings BY DEF MeetingRow, ActiveMeetings
  <1>. QED BY <1>1 DEF Shrinks

\* A write of one meeting keeps its event, and the other meetings.
RowWritten(i) ==
  /\ MeetingRow' = MeetingRow
  /\ meetings'[i].event = meetings[i].event
  /\ \A k \in MeetingRow : k # i => meetings'[k] = meetings[k]

LEMMA RowWrites ==
  ASSUME TypeOK, NEW i \in MeetingRow, NEW r, meetings' = [meetings EXCEPT ![i] = r], r.event = meetings[i].event,
         r \in [slot : Slot, event : Event,
                status : {"scheduled", "rescheduled", "cancelled", "cancelled_by_organizer", "rescheduled_by_organizer"}]
  PROVE  RowWritten(i) /\ meetings'[i] = r
  <1>. DEFINE M == [slot : Slot, event : Event,
                    status : {"scheduled", "rescheduled", "cancelled", "cancelled_by_organizer", "rescheduled_by_organizer"}]
  <1>1. meetings \in Seq(M) /\ r \in M BY DEF TypeOK
  <1>2. Len(meetings') = Len(meetings)
    <2>. HIDE DEF M
    <2>. QED BY <1>1, ExceptSeq DEF MeetingRow
  <1>3. DOMAIN meetings = MeetingRow BY Rows_
  <1>4. MeetingRow' = MeetingRow BY <1>2 DEF MeetingRow
  <1>. QED BY <1>3, <1>4 DEF RowWritten

LEMMA StatusWritten ==
  ASSUME TypeOK, NEW i \in MeetingRow,
         NEW st \in {"scheduled", "rescheduled", "cancelled", "cancelled_by_organizer", "rescheduled_by_organizer"},
         meetings' = [meetings EXCEPT ![i].status = st]
  PROVE  RowWritten(i) /\ meetings'[i].status = st
  <1>. DEFINE r == [meetings[i] EXCEPT !.status = st]
  <1>1. meetings' = [meetings EXCEPT ![i] = r] OBVIOUS
  <1>2. r \in [slot : Slot, event : Event,
                status : {"scheduled", "rescheduled", "cancelled", "cancelled_by_organizer", "rescheduled_by_organizer"}]
        /\ r.event = meetings[i].event /\ r.status = st
    BY RowShape
  <1>. HIDE DEF r
  <1>. QED BY <1>1, <1>2, RowWrites

LEMMA RetiresRow ==
  ASSUME TypeOK, NEW i \in MeetingRow, RowWritten(i), meetings'[i].status \notin Active,
         calendar' = calendar, excused' = excused
  PROVE  Shrinks
  <1>1. ActiveMeetings' \subseteq ActiveMeetings BY DEF RowWritten, ActiveMeetings, MeetingRow
  <1>2. \A e \in Event : Live(e)' => Live(e) BY DEF Live
  <1>. QED BY <1>1, <1>2 DEF Shrinks, RowWritten

LEMMA SingleBegins ==
  ASSUME EventInv, Single, ~overlapped', NEW c \in Caller,
         \/ \E d \in Days \union {0}, period \in {"any", "morning", "afternoon"} : SuggestSlots(c, d, period)
         \/ \E s \in Slot : Schedule(c, s) \/ \E i \in 1..Len(meetings) : Reschedule(c, i, s)
         \/ \E i \in 1..Len(meetings) : Cancel(c, i)
  PROVE  Single'
  <1>0. TypeOK BY DEF EventInv
  <1>1. ASSUME NEW j, Begin(c, j), j.at # "idle"
        PROVE  /\ job'[c] = j /\ \A d \in Caller : d # c => job'[d] = job[d]
               /\ \A d \in Caller : d # c => At(d, "idle")
               /\ Shrinks /\ holds' = holds
               /\ Goto(c, j) /\ At(c, "idle") /\ calendar' = calendar /\ meetings' = meetings /\ excused' = excused
    <2>1. Goto(c, j) /\ At(c, "idle") /\ holds' = holds /\ calendar' = calendar /\ meetings' = meetings /\ excused' = excused
      BY <1>1 DEF Begin, rows
    <2>2. job'[c] = j /\ \A d \in Caller : d # c => job'[d] = job[d] BY <1>0, <2>1, JobGoes DEF Proc
    <2>3. Shrinks BY <1>0, <2>1, StillShrinks
    <2>4. j # Idle BY <1>1 DEF Idle
    <2>5. \A d \in Caller : d # c => At(d, "idle") BY <1>1, <2>4 DEF Begin
    <2>. QED BY <2>1, <2>2, <2>3, <2>5
  <1>2. ASSUME NEW j, Begin(c, j), j.at \in {"hold", "cancel"} PROVE Single'
    BY <1>0, <1>1, <1>2, SingleEnds
  <1>3. ActiveMeetings \subseteq MeetingRow /\ Standing \subseteq ActiveMeetings BY <1>0, ActiveRow DEF Standing
  <1>4. ASSUME NEW s \in Slot, Schedule(c, s) PROVE Single'
    <2>. DEFINE j == [at |-> IF FindActive = 0 THEN "lookup" ELSE "dropOld", slot |-> s, row |-> FindActive]
    <2>1. Begin(c, j) /\ j.at \in {"lookup", "dropOld"} /\ j.row = FindActive BY <1>4 DEF Schedule
    <2>2. j.at = "lookup" => Standing = {}
      <3>. SUFFICES ASSUME FindActive = 0 PROVE ActiveMeetings = {}
        BY <1>3
      <3>1. 0 \notin MeetingRow BY DEF MeetingRow
      <3>2. ActiveMeetings # {} => Max(ActiveMeetings) \in ActiveMeetings
        BY <1>0, <1>3, Rows_, MaxIn DEF MeetingRow
      <3>. QED BY <1>3, <3>1, <3>2 DEF FindActive
    <2>3. j.at = "dropOld" => Standing \subseteq {FindActive}
      <3>. SUFFICES ASSUME FindActive # 0, NEW i \in Standing PROVE i = FindActive
        BY <2>1
      <3>1. FindActive = Max(ActiveMeetings) /\ ActiveMeetings # {} BY DEF FindActive
      <3>2. Max(ActiveMeetings) \in ActiveMeetings /\ \A k \in ActiveMeetings : k <= Max(ActiveMeetings)
        BY <1>0, <1>3, <3>1, Rows_, MaxIn DEF MeetingRow
      <3>3. i <= Max(ActiveMeetings) /\ Max(ActiveMeetings) <= i BY <1>3, <3>2 DEF Single, Newest
      <3>4. i \in Nat /\ Max(ActiveMeetings) \in Nat
        <4>1. MeetingRow \subseteq Nat BY DEF MeetingRow
        <4>. QED BY <1>3, <3>2, <4>1
      <3>. QED BY <3>1, <3>3, <3>4
    <2>. HIDE DEF j
    <2>4. job'[c] = j /\ (\A d \in Caller : d # c => job'[d] = job[d]) /\ Shrinks /\ holds' = holds
          /\ \A d \in Caller : d # c => At(d, "idle")
      BY <1>1, <2>1
    <2>5. Standing' \subseteq Standing /\ Newest' BY <1>0, <2>4, StandingShrinks DEF Single
    <2>6. Stage(c)'
      <3>1. CASE j.at = "lookup" BY <2>1, <2>2, <2>4, <2>5, <3>1 DEF Stage, At, Booking
      <3>2. CASE j.at = "dropOld" BY <2>1, <2>3, <2>4, <2>5, <3>2 DEF Stage, At, Booking
      <3>. QED BY <2>1, <3>1, <3>2
    <2>7. Apart(c)' BY <2>1, <2>4 DEF Apart, Strong
    <2>8. HoldsApart' BY <2>4 DEF Single, HoldsApart, Shrinks
    <2>. QED BY <2>4, <2>5, <2>6, <2>7, <2>8, SingleMoves
  <1>5. ASSUME NEW s \in Slot, NEW i \in MeetingRow, Reschedule(c, i, s) PROVE Single'
    <2>. DEFINE j == [at |-> "move", row |-> i, slot |-> s]
    <2>1. Begin(c, j) /\ j.at = "move" /\ j.row = i BY <1>5 DEF Reschedule
    <2>2. i \in ActiveMeetings BY <1>5 DEF Reschedule, ActiveMeetings, Active, MeetingRow
    <2>3. \A k \in Standing : i <= k BY <2>2 DEF Single, Newest
    <2>4. Live(meetings[i].event) /\ meetings[i].event \notin excused => \A k \in ActiveMeetings : k <= i
      BY <2>2 DEF Single, Newest, Standing
    <2>. HIDE DEF j
    <2>5. job'[c] = j /\ (\A d \in Caller : d # c => job'[d] = job[d]) /\ Shrinks /\ holds' = holds
          /\ (\A d \in Caller : d # c => At(d, "idle"))
          /\ calendar' = calendar /\ meetings' = meetings /\ excused' = excused
      BY <1>1, <2>1
    <2>6. Standing' = Standing /\ ActiveMeetings' = ActiveMeetings BY <2>5 DEF Standing, ActiveMeetings, Live
    <2>7. Newest' BY <2>6 DEF Newest, Single
    <2>8. Stage(c)' BY <2>1, <2>3, <2>4, <2>5, <2>6 DEF Stage, At, Booking, Live
    <2>9. Apart(c)' BY <2>1, <2>5 DEF Apart, Strong
    <2>10. HoldsApart' BY <2>5 DEF Single, HoldsApart, Shrinks
    <2>. QED BY <2>5, <2>7, <2>8, <2>9, <2>10, SingleMoves
  <1>6. ASSUME NEW d, NEW period, SuggestSlots(c, d, period) PROVE Single'
    <2>1. PICK free : Begin(c, [at |-> "hold", slots |-> free]) BY <1>6 DEF SuggestSlots
    <2>. QED BY <1>2, <2>1
  <1>7. ASSUME NEW i \in MeetingRow, Cancel(c, i) PROVE Single'
    BY <1>2, <1>7 DEF Cancel
  <1>. QED BY <1>4, <1>5, <1>6, <1>7 DEF MeetingRow

\* A request that holds slots, fails, cancels or dies.
LEMMA SingleQuiet ==
  ASSUME EventInv, Single, NEW c \in Caller,
         HoldFails(c) \/ BookingRefused(c) \/ BookingAnswerLost(c) \/ CancelEvent(c) \/ CancelRow(c) \/ Crash(c)
  PROVE  Single'
  <1>0. TypeOK /\ c \in Proc BY DEF EventInv, Proc
  <1>1. CASE HoldFails(c)
    <2>. DEFINE left == job[c].slots \ {Min(job[c].slots)}
                j == IF left = {} THEN Idle ELSE [at |-> "hold", slots |-> left]
    <2>1. Goto(c, j) /\ j.at \in {"idle", "hold"} BY <1>1 DEF HoldFails, NextHold, Idle
    <2>2. ~At(c, "idle") /\ holds' = holds /\ calendar' = calendar /\ meetings' = meetings /\ excused \subseteq excused'
      BY <1>1 DEF HoldFails, At, rows
    <2>3. Shrinks BY <1>0, <2>2, StillShrinks
    <2>. HIDE DEF j
    <2>. QED BY <1>0, <2>1, <2>2, <2>3, SingleEnds
  <1>2. CASE BookingRefused(c) \/ Crash(c)
    <2>1. Goto(c, Idle) /\ Idle.at = "idle" /\ ~At(c, "idle") BY <1>2 DEF BookingRefused, Crash, Simulate, Idle, At
    <2>2. holds' = holds /\ calendar' = calendar /\ meetings' = meetings /\ excused \subseteq excused'
      BY <1>2 DEF BookingRefused, Crash, rows, history
    <2>3. Shrinks BY <1>0, <2>2, StillShrinks
    <2>. QED BY <1>0, <2>1, <2>2, <2>3, SingleEnds
  <1>3. CASE BookingAnswerLost(c)
    <2>1. Goto(c, Idle) /\ Idle.at = "idle" /\ ~At(c, "idle") BY <1>3 DEF BookingAnswerLost, Simulate, Idle, At
    <2>2. holds' = holds /\ meetings' = meetings /\ excused \subseteq excused'
      BY <1>3 DEF BookingAnswerLost, rows
    <2>3. MeetingRow' = MeetingRow /\ ActiveMeetings' = ActiveMeetings BY <2>2 DEF MeetingRow, ActiveMeetings
    <2>4. \A e \in Event : Live(e)' => Live(e) \/ \A i \in MeetingRow : meetings[i].event # e
      <3>1. CASE At(c, "confirm") /\ Patch(job[c].event, calendar[job[c].event].slot, "confirmed")
        <4>1. job[c].event \in Event BY <1>0, <3>1, Shapes DEF At
        <4>2. calendar[job[c].event].slot \in Slot BY <1>0, <4>1, Rows_
        <4>3. \A e \in Event : e # job[c].event => calendar'[e] = calendar[e] BY <1>0, <3>1, <4>1, <4>2, Patches
        <4>4. \A i \in MeetingRow : meetings[i].event # job[c].event BY <3>1 DEF Single, Apart, At
        <4>. QED BY <4>3, <4>4 DEF Live
      <3>2. CASE At(c, "create") /\ Insert(job[c].slot, "confirmed")
        <4>1. job[c].slot \in Slot BY <1>0, <3>2, Shapes
        <4>2. \A e \in Event : calendar'[e] = calendar[e] BY <1>0, <3>2, <4>1, Inserts
        <4>. QED BY <4>2 DEF Live
      <3>. QED BY <1>3, <3>1, <3>2 DEF BookingAnswerLost
    <2>5. Shrinks BY <2>2, <2>3, <2>4 DEF Shrinks
    <2>. QED BY <1>0, <2>1, <2>2, <2>5, SingleEnds
  <1>4. CASE CancelEvent(c)
    <2>. DEFINE j == [job[c] EXCEPT !.at = "cancelRow"]
    <2>1. job[c] \in [at : {"cancel", "cancelRow"}, row : MeetingRow] BY <1>0, <1>4, Shapes DEF CancelEvent, At
    <2>2. Goto(c, j) /\ j.at = "cancelRow" /\ ~At(c, "idle") BY <1>4, <2>1 DEF CancelEvent, Becomes, At
    <2>3. meetings[job[c].row].event \in Event BY <1>0, <2>1, Rows_
    <2>4. (\A e \in Event : Live(e)' => Live(e)) /\ excused \subseteq excused' /\ meetings' = meetings /\ holds' = holds
      BY <1>0, <1>4, <2>3, Deletes DEF CancelEvent, rows
    <2>5. Shrinks BY <1>0, <2>4, LessIsLive
    <2>. HIDE DEF j
    <2>. QED BY <1>0, <2>2, <2>4, <2>5, SingleEnds
  <1>5. CASE CancelRow(c)
    <2>1. Goto(c, Idle) /\ Idle.at = "idle" /\ ~At(c, "idle") BY <1>5 DEF CancelRow, Idle, At
    <2>2. job[c].row \in MeetingRow BY <1>0, <1>5, Shapes DEF CancelRow, At
    <2>3. Shrinks /\ holds' = holds
      <3>1. holds' = holds /\ excused' = excused /\ calendar' = calendar BY <1>5 DEF CancelRow, history
      <3>2. meetings' = [meetings EXCEPT ![job[c].row].status = "cancelled"] BY <1>5 DEF CancelRow, SetStatus
      <3>3. RowWritten(job[c].row)
        BY <1>0, <2>2, <3>2, StatusWritten
      <3>4. meetings'[job[c].row].status = "cancelled" BY <1>0, <2>2, <3>2, StatusWritten
      <3>. QED BY <1>0, <2>2, <3>1, <3>3, <3>4, RetiresRow DEF Active
    <2>. QED BY <1>0, <2>1, <2>3, SingleEnds
  <1>. QED BY <1>1, <1>2, <1>3, <1>4, <1>5

\* A request on its way to a meeting: what stands is gone, and stays so.
LEMMA SingleBooks ==
  ASSUME EventInv, Single, NEW c \in Caller,
         MarkOld(c) \/ Lookup(c) \/ ConfirmHold(c) \/ CreateEventDirect(c) \/ MarkHoldConsumed(c)
           \/ OtherHolds(c) \/ PurgeEvent(c) \/ PurgeRow(c)
  PROVE  Single'
  <1>0. TypeOK /\ c \in Proc BY DEF EventInv, Proc
  <1>1. job[c].at \in Booking /\ ~At(c, "idle")
    BY DEF MarkOld, Lookup, ConfirmHold, CreateEventDirect, MarkHoldConsumed, OtherHolds, PurgeEvent, PurgeRow, At, Booking
  <1>2. Standing = {} BY <1>1 DEF Single, Stage
  <1>3. \A d \in Caller : d # c => At(d, "idle") BY <1>1, OthersIdle
  \* The job it goes to, and what it must keep to.
  <1>4. ASSUME NEW j, Goto(c, j), j.at \in Booking \union {"idle"}, j.at # "markOld",
               Standing' = {},
               MeetingRow' = MeetingRow, \A i \in MeetingRow : meetings'[i].event = meetings[i].event,
               \A h \in holds' : \E g \in holds : g.event = h.event,
               j.at \in Strong \union {"confirm"} => \A i \in MeetingRow : meetings[i].event # j.event,
               j.at \in {"others", "purge", "purgeRow", "insert"} => \A h \in holds' : h.event # j.event
        PROVE  Single'
    <2>1. job'[c] = j /\ \A d \in Caller : d # c => job'[d] = job[d] BY <1>0, <1>4, JobGoes DEF Proc
    <2>2. HoldsApart' BY <1>4 DEF Single, HoldsApart
    <2>3. Newest' BY <1>4 DEF Newest
    <2>4. Apart(c)' BY <1>4, <2>1 DEF Apart
    <2>5. Stage(c)' BY <1>4, <2>1 DEF Stage, At, Booking
    <2>. QED BY <1>3, <2>1, <2>2, <2>3, <2>4, <2>5, SingleMoves
  <1>5. Shrinks => Standing' = {} BY <1>0, <1>2, StandingShrinks
  <1>6. CASE MarkOld(c)
    <2>1. job[c] \in [at : {"dropOld", "markOld"}, slot : Slot, row : MeetingRow] BY <1>0, <1>6, Shapes DEF MarkOld, At
    <2>. DEFINE j == [job[c] EXCEPT !.at = "lookup"]
                i == job[c].row
    <2>2. i \in MeetingRow BY <2>1
    <2>3. RowWritten(i) BY <1>0, <1>6, <2>2, StatusWritten DEF MarkOld, SetStatus
    <2>4. ~Live(meetings[i].event) \/ meetings[i].event \in excused BY <1>6 DEF Single, Stage, MarkOld
    <2>5. calendar' = calendar /\ excused' = excused /\ holds' = holds BY <1>6 DEF MarkOld, history
    <2>6. Standing' = {}
      <3>. SUFFICES ASSUME NEW k \in Standing' PROVE FALSE
        OBVIOUS
      <3>1. k \in ActiveMeetings' /\ (Live(meetings[k].event) /\ meetings[k].event \notin excused)' BY DEF Standing
      <3>2. k \in MeetingRow BY <2>3, <3>1 DEF RowWritten, ActiveMeetings, MeetingRow
      <3>3. meetings'[k].event = meetings[k].event BY <2>3, <3>2 DEF RowWritten
      <3>4. Live(meetings[k].event) /\ meetings[k].event \notin excused BY <2>5, <3>1, <3>3 DEF Live
      <3>5. k # i BY <2>4, <3>4
      <3>6. k \in ActiveMeetings BY <2>3, <3>1, <3>2, <3>5 DEF RowWritten, ActiveMeetings, MeetingRow
      <3>. QED BY <1>2, <3>4, <3>6 DEF Standing
    <2>7. Goto(c, j) /\ j.at = "lookup" BY <1>6, <2>1 DEF MarkOld, Becomes
    <2>8. MeetingRow' = MeetingRow /\ \A k \in MeetingRow : meetings'[k].event = meetings[k].event
      BY <2>3 DEF RowWritten
    <2>. HIDE DEF j, i
    <2>. QED BY <1>4, <2>5, <2>6, <2>7, <2>8 DEF Booking, Strong
  <1>7. CASE Lookup(c)
    <2>. DEFINE found == {h.event : h \in HoldsFor(job[c].slot)}
                j == IF ~ready THEN Idle
                     ELSE [at |-> IF found = {} THEN "create" ELSE "confirm", slot |-> job[c].slot,
                           event |-> IF found = {} THEN 0 ELSE Max(found)]
    <2>1. Goto(c, j) /\ j.at \in {"idle", "create", "confirm"} BY <1>7 DEF Lookup, Simulate, Idle
    <2>2. found \subseteq Event /\ found \subseteq {h.event : h \in holds} BY <1>0 DEF HoldsFor, TypeOK
    <2>3. j.at = "confirm" => found # {} /\ j.event = Max(found) BY DEF Idle
    <2>4. found # {} => Max(found) \in found BY <1>0, <2>2, Rows_, MaxIn DEF Event
    <2>5. j.at = "confirm" => \A i \in MeetingRow : meetings[i].event # j.event
      BY <2>2, <2>3, <2>4 DEF Single, HoldsApart
    <2>6. holds' = holds /\ calendar' = calendar /\ meetings' = meetings /\ excused' = excused
      BY <1>7 DEF Lookup, rows, history
    <2>7. Shrinks BY <1>0, <2>6, StillShrinks
    <2>. HIDE DEF j, found
    <2>. QED BY <1>4, <1>5, <2>1, <2>5, <2>6, <2>7 DEF Booking, Strong, Shrinks
  <1>8. CASE ConfirmHold(c)
    <2>1. job[c] \in [at : {"confirm", "consume", "others"}, slot : Slot, event : Event]
      BY <1>0, <1>8, Shapes DEF ConfirmHold, At
    <2>. DEFINE j == [job[c] EXCEPT !.at = "consume"]
    <2>2. job[c].event \in Event /\ calendar[job[c].event].slot \in Slot BY <1>0, <2>1, Rows_
    <2>3. \A e \in Event : e # job[c].event => calendar'[e] = calendar[e]
      BY <1>0, <1>8, <2>2, Patches DEF ConfirmHold
    <2>4. \A i \in MeetingRow : meetings[i].event # job[c].event BY <1>8 DEF Single, Apart, ConfirmHold, At
    <2>5. holds' = holds /\ meetings' = meetings /\ excused' = excused BY <1>8 DEF ConfirmHold, rows, history
    <2>6. MeetingRow' = MeetingRow /\ ActiveMeetings' = ActiveMeetings BY <2>5 DEF MeetingRow, ActiveMeetings
    <2>7. \A e \in Event : Live(e)' => Live(e) \/ \A i \in MeetingRow : meetings[i].event # e
      BY <2>3, <2>4 DEF Live
    <2>8. Shrinks BY <2>5, <2>6, <2>7 DEF Shrinks
    <2>9. Goto(c, j) /\ j.at = "consume" /\ j.event = job[c].event BY <1>8, <2>1 DEF ConfirmHold, Becomes
    <2>. HIDE DEF j
    <2>. QED BY <1>4, <1>5, <2>4, <2>5, <2>6, <2>8, <2>9 DEF Booking
  <1>9. CASE CreateEventDirect(c)
    <2>1. job[c] \in [at : {"create"}, slot : Slot, event : {0}] BY <1>0, <1>9, Shapes DEF CreateEventDirect
    <2>. DEFINE x == Len(calendar) + 1
                j == [job[c] EXCEPT !.at = "others", !.event = Len(calendar) + 1]
    <2>2. job[c].slot \in Slot BY <2>1
    <2>3. x \notin Event /\ \A e \in Event : calendar'[e] = calendar[e]
      BY <1>0, <1>9, <2>2, Inserts DEF CreateEventDirect
    <2>4. (\A i \in MeetingRow : meetings[i].event # x) /\ \A h \in holds : h.event # x
      <3>1. \A i \in MeetingRow : meetings[i].event \in Event BY <1>0, Rows_
      <3>2. \A h \in holds : h.event \in Event BY <1>0 DEF TypeOK
      <3>. QED BY <2>3, <3>1, <3>2
    <2>5. holds' = holds /\ meetings' = meetings /\ excused' = excused BY <1>9 DEF CreateEventDirect, rows, history
    <2>6. MeetingRow' = MeetingRow /\ ActiveMeetings' = ActiveMeetings BY <2>5 DEF MeetingRow, ActiveMeetings
    <2>7. \A e \in Event : Live(e)' => Live(e) BY <2>3 DEF Live
    <2>8. Shrinks BY <1>0, <2>5, <2>7, LessIsLive
    <2>9. Goto(c, j) /\ j.at = "others" /\ j.event = x BY <1>9, <2>1 DEF CreateEventDirect
    <2>. HIDE DEF j, x
    <2>. QED BY <1>4, <1>5, <2>4, <2>5, <2>6, <2>8, <2>9 DEF Booking
  <1>10. CASE MarkHoldConsumed(c)
    <2>1. job[c] \in [at : {"confirm", "consume", "others"}, slot : Slot, event : Event]
      BY <1>0, <1>10, Shapes DEF MarkHoldConsumed, At
    <2>. DEFINE j == [job[c] EXCEPT !.at = "others"]
    <2>2. Goto(c, j) /\ j.at = "others" /\ j.event = job[c].event BY <1>10, <2>1 DEF MarkHoldConsumed, Becomes
    <2>3. calendar' = calendar /\ meetings' = meetings /\ excused' = excused
          /\ holds' = {h \in holds : h.event # job[c].event}
      BY <1>10 DEF MarkHoldConsumed, history
    <2>4. Shrinks BY <1>0, <2>3, StillShrinks
    <2>5. \A i \in MeetingRow : meetings[i].event # job[c].event
      BY <1>10 DEF Single, Apart, MarkHoldConsumed, At, Strong
    <2>. HIDE DEF j
    <2>. QED BY <1>4, <1>5, <2>2, <2>3, <2>4, <2>5 DEF Booking, Shrinks
  <1>11. CASE OtherHolds(c)
    <2>. DEFINE others == {h.event : h \in holds} \ {job[c].event}
                j == [at |-> IF others = {} THEN "insert" ELSE "purge", slot |-> job[c].slot,
                      event |-> job[c].event, todo |-> others]
    <2>1. Goto(c, j) /\ j.at \in {"insert", "purge"} /\ j.event = job[c].event BY <1>11 DEF OtherHolds
    <2>2. holds' = holds /\ calendar' = calendar /\ meetings' = meetings /\ excused' = excused
      BY <1>11 DEF OtherHolds, rows, history
    <2>3. Shrinks BY <1>0, <2>2, StillShrinks
    <2>4. (\A i \in MeetingRow : meetings[i].event # job[c].event) /\ \A h \in holds : h.event # job[c].event
      BY <1>11 DEF Single, Apart, OtherHolds, At, Strong
    <2>. HIDE DEF j
    <2>. QED BY <1>4, <1>5, <2>1, <2>2, <2>3, <2>4 DEF Booking, Shrinks
  <1>12. CASE PurgeEvent(c)
    <2>. DEFINE j == [job[c] EXCEPT !.at = "purgeRow"]
    <2>1. job[c] \in [at : {"purge", "purgeRow"}, slot : Slot, event : Event, todo : Some(Event)]
      BY <1>0, <1>12, Shapes DEF PurgeEvent, At
    <2>2. Goto(c, j) /\ j.at = "purgeRow" /\ j.event = job[c].event BY <1>12, <2>1 DEF PurgeEvent, Becomes
    <2>3. Min(job[c].todo) \in Event
      <3>1. Min(job[c].todo) \in job[c].todo BY <2>1, MinIn DEF Some, Event
      <3>. QED BY <2>1, <3>1 DEF Some
    <2>4. holds' = holds /\ meetings' = meetings BY <1>12 DEF PurgeEvent, rows
    <2>5. (\A e \in Event : Live(e)' => Live(e)) /\ excused \subseteq excused'
      BY <1>0, <1>12, <2>3, Deletes DEF PurgeEvent
    <2>6. Shrinks BY <1>0, <2>4, <2>5, LessIsLive
    <2>7. (\A i \in MeetingRow : meetings[i].event # job[c].event) /\ \A h \in holds : h.event # job[c].event
      BY <1>12 DEF Single, Apart, PurgeEvent, At, Strong
    <2>. HIDE DEF j
    <2>. QED BY <1>4, <1>5, <2>2, <2>4, <2>6, <2>7 DEF Booking, Shrinks
  <1>13. CASE PurgeRow(c)
    <2>. DEFINE left == job[c].todo \ {Min(job[c].todo)}
                j == IF left # {} THEN [job[c] EXCEPT !.at = "purge", !.todo = left]
                     ELSE [job[c] EXCEPT !.at = "insert", !.todo = {}]
    <2>1. job[c] \in [at : {"purge", "purgeRow"}, slot : Slot, event : Event, todo : Some(Event)]
      BY <1>0, <1>13, Shapes DEF PurgeRow, At
    <2>2. j.at \in {"purge", "insert"} /\ j.event = job[c].event BY <2>1
    <2>3. Goto(c, j) /\ calendar' = calendar /\ meetings' = meetings /\ excused' = excused /\ holds' \subseteq holds
      BY <1>13 DEF PurgeRow, history
    <2>4. Shrinks BY <1>0, <2>3, StillShrinks
    <2>5. (\A i \in MeetingRow : meetings[i].event # job[c].event) /\ \A h \in holds : h.event # job[c].event
      BY <1>13 DEF Single, Apart, PurgeRow, At, Strong
    <2>. HIDE DEF j
    <2>. QED BY <1>4, <1>5, <2>2, <2>3, <2>4, <2>5 DEF Booking, Shrinks
  <1>. QED BY <1>6, <1>7, <1>8, <1>9, <1>10, <1>11, <1>12, <1>13

\* A request that holds a slot.
LEMMA SingleHolds ==
  ASSUME EventInv, Single, NEW c \in Caller, CreateHold(c) \/ InsertSlotHold(c)
  PROVE  Single'
  <1>0. TypeOK /\ c \in Proc BY DEF EventInv, Proc
  <1>1. CASE CreateHold(c)
    <2>. DEFINE x == Len(calendar) + 1
                j == [at |-> "holdRow", slots |-> job[c].slots, event |-> Len(calendar) + 1]
    <2>1. Min(job[c].slots) \in Slot BY <1>0, <1>1, NextHoldJob DEF CreateHold, At
    <2>2. x \notin Event /\ \A e \in Event : calendar'[e] = calendar[e] BY <1>0, <1>1, <2>1, Inserts DEF CreateHold
    <2>3. Goto(c, j) /\ j.at = "holdRow" /\ j.event = x BY <1>1 DEF CreateHold
    <2>4. holds' = holds /\ meetings' = meetings /\ excused' = excused BY <1>1 DEF CreateHold, rows, history
    <2>5. Shrinks BY <1>0, <2>2, <2>4, LessIsLive DEF Live
    <2>6. ~At(c, "idle") BY <1>1 DEF CreateHold, At
    <2>. HIDE DEF j, x
    <2>7. job'[c] = j /\ \A d \in Caller : d # c => job'[d] = job[d] BY <1>0, <2>3, JobGoes DEF Proc
    <2>8. HoldsApart' BY <2>4, <2>5 DEF Single, HoldsApart, Shrinks
    <2>9. Newest' BY <1>0, <2>5, StandingShrinks DEF Single
    <2>10. \A i \in MeetingRow : meetings[i].event # x BY <1>0, <2>2, Rows_
    <2>11. Apart(c)' BY <2>3, <2>4, <2>5, <2>7, <2>10 DEF Apart, Shrinks
    <2>12. Stage(c)' BY <2>3, <2>7, NoStage
    <2>. QED BY <2>6, <2>7, <2>8, <2>9, <2>11, <2>12, OthersIdle, SingleMoves
  <1>2. CASE InsertSlotHold(c)
    <2>. DEFINE left == job[c].slots \ {Min(job[c].slots)}
                j == IF left = {} THEN Idle ELSE [at |-> "hold", slots |-> left]
                h == [event |-> job[c].event, slot |-> Min(job[c].slots), expired |-> FALSE]
    <2>1. Goto(c, j) /\ j.at \in {"idle", "hold"} BY <1>2 DEF InsertSlotHold, NextHold, Idle
    <2>2. holds' = holds \union {h} /\ h.event = job[c].event BY <1>2 DEF InsertSlotHold
    <2>3. calendar' = calendar /\ meetings' = meetings /\ excused' = excused BY <1>2 DEF InsertSlotHold, history
    <2>4. Shrinks BY <1>0, <2>3, StillShrinks
    <2>5. ~At(c, "idle") BY <1>2 DEF InsertSlotHold, At
    <2>. HIDE DEF j, h
    <2>6. job'[c] = j /\ \A d \in Caller : d # c => job'[d] = job[d] BY <1>0, <2>1, JobGoes DEF Proc
    <2>7. \A i \in MeetingRow : meetings[i].event # job[c].event
      BY <1>2 DEF Single, Apart, InsertSlotHold, At, Strong
    <2>8. HoldsApart' BY <2>2, <2>4, <2>7 DEF Single, HoldsApart, Shrinks
    <2>9. Newest' BY <1>0, <2>4, StandingShrinks DEF Single
    <2>10. Apart(c)' /\ Stage(c)' BY <2>1, <2>6, NoStage
    <2>. QED BY <2>5, <2>6, <2>8, <2>9, <2>10, OthersIdle, SingleMoves
  <1>. QED BY <1>1, <1>2

\* A request that lets the old meeting go, and one that inserts the new one.
LEMMA SingleReplaces ==
  ASSUME EventInv, Single, NEW c \in Caller, DropOld(c) \/ InsertMeeting(c)
  PROVE  Single'
  <1>0. TypeOK /\ c \in Proc BY DEF EventInv, Proc
  <1>1. CASE DropOld(c)
    <2>1. job[c] \in [at : {"dropOld", "markOld"}, slot : Slot, row : MeetingRow] BY <1>0, <1>1, Shapes DEF DropOld, At
    <2>. DEFINE j == [job[c] EXCEPT !.at = "markOld"]
    <2>a. PICK i \in MeetingRow : i = job[c].row BY <2>1
    <2>b. PICK e \in Event : e = meetings[i].event BY <1>0, Rows_
    <2>3. Goto(c, j) /\ j.at = "markOld" /\ j.row = i BY <1>1, <2>1, <2>a DEF DropOld, Becomes
    <2>4. holds' = holds /\ meetings' = meetings /\ DeleteEvent(e) BY <1>1, <2>a, <2>b DEF DropOld, rows
    <2>5. (\A x \in Event : Live(x)' => Live(x)) /\ excused \subseteq excused' /\ (Live(e)' => e \in excused')
      BY <1>0, <2>4, Deletes
    <2>6. Shrinks BY <1>0, <2>4, <2>5, LessIsLive
    <2>7. Standing \subseteq {i} /\ ~At(c, "idle") BY <1>1, <2>a DEF Single, Stage, DropOld, At
    <2>. HIDE DEF j
    <2>8. job'[c] = j /\ \A d \in Caller : d # c => job'[d] = job[d] BY <1>0, <2>3, JobGoes DEF Proc
    <2>9. Standing' \subseteq Standing /\ Newest' BY <1>0, <2>6, StandingShrinks DEF Single
    <2>10. i \notin Standing' BY <2>4, <2>5, <2>b DEF Standing
    <2>c. (~Live(meetings[job[c].row].event) \/ meetings[job[c].row].event \in excused)'
      BY <2>3, <2>4, <2>5, <2>8, <2>b DEF Live
    <2>d. Standing' = {} BY <2>7, <2>9, <2>10
    <2>11. Stage(c)' BY <2>3, <2>8, <2>c, <2>d DEF Stage, At
    <2>12. Apart(c)' BY <2>3, <2>8 DEF Apart, Strong
    <2>13. HoldsApart' BY <2>4, <2>6 DEF Single, HoldsApart, Shrinks
    <2>. QED BY <2>7, <2>8, <2>9, <2>11, <2>12, <2>13, OthersIdle, SingleMoves
  <1>2. CASE InsertMeeting(c)
    <2>. DEFINE M == [slot : Slot, event : Event,
                      status : {"scheduled", "rescheduled", "cancelled", "cancelled_by_organizer", "rescheduled_by_organizer"}]
                r == [slot |-> job[c].slot, event |-> job[c].event, status |-> "scheduled"]
                n == Len(meetings) + 1
    <2>1. job[c].slot \in Slot /\ job[c].event \in Event /\ At(c, "insert") BY <1>0, <1>2, Shapes DEF InsertMeeting
    <2>2. meetings \in Seq(M) /\ r \in M /\ r.event = job[c].event BY <1>0, <2>1 DEF TypeOK
    <2>3. meetings' = Append(meetings, r) /\ Goto(c, Idle) /\ holds' = holds /\ calendar' = calendar /\ excused' = excused
      BY <1>2 DEF InsertMeeting, history
    <2>. HIDE DEF M, r
    <2>4. /\ Len(meetings') = n /\ meetings'[n] = r
          /\ \A i \in 1..Len(meetings) : meetings'[i] = meetings[i]
      BY <2>2, <2>3, AppendProperties
    <2>5. Len(meetings) \in Nat BY <1>0, Rows_
    <2>6. MeetingRow' = MeetingRow \union {n} BY <2>4, <2>5 DEF MeetingRow
    <2>7. \A i \in MeetingRow : meetings'[i] = meetings[i] /\ i <= n /\ i \in Nat
      BY <2>4, <2>5 DEF MeetingRow
    <2>8. Standing = {} /\ ~At(c, "idle") BY <2>1 DEF Single, Stage, At, Booking
    <2>9. ActiveMeetings' \subseteq MeetingRow' BY DEF ActiveMeetings, MeetingRow
    <2>10. Standing' \subseteq {n}
      <3>. SUFFICES ASSUME NEW k \in Standing', k # n PROVE FALSE
        OBVIOUS
      <3>1. k \in ActiveMeetings' /\ (Live(meetings[k].event) /\ meetings[k].event \notin excused)' BY DEF Standing
      <3>2. k \in MeetingRow /\ meetings'[k] = meetings[k] BY <2>6, <2>7, <2>9, <3>1
      <3>3. k \in ActiveMeetings BY <3>1, <3>2 DEF ActiveMeetings, MeetingRow
      <3>. QED BY <2>3, <2>8, <3>1, <3>2, <3>3 DEF Standing, Live
    <2>11. Newest' BY <2>5, <2>6, <2>7, <2>9, <2>10 DEF Newest
    <2>12. \A h \in holds : h.event # job[c].event BY <2>1 DEF Single, Apart, At
    <2>13. HoldsApart'
      <3>. SUFFICES ASSUME NEW h \in holds', NEW i \in MeetingRow' PROVE meetings'[i].event # h.event
        BY DEF HoldsApart
      <3>1. h \in holds BY <2>3
      <3>2. CASE i \in MeetingRow BY <2>7, <3>1, <3>2 DEF Single, HoldsApart
      <3>3. CASE i = n BY <2>2, <2>4, <2>12, <3>1, <3>3
      <3>. QED BY <2>6, <3>2, <3>3
    <2>14. job'[c] = Idle /\ \A d \in Caller : d # c => job'[d] = job[d] BY <1>0, <2>3, JobGoes DEF Proc
    <2>15. Apart(c)' /\ Stage(c)' BY <2>14, NoStage DEF Idle
    <2>. QED BY <2>8, <2>11, <2>13, <2>14, <2>15, OthersIdle, SingleMoves
  <1>. QED BY <1>1, <1>2

\* A request that moves a meeting.
LEMMA SingleReschedules ==
  ASSUME EventInv, Single, NEW c \in Caller, MoveEvent(c) \/ MoveRow(c)
  PROVE  Single'
  <1>0. TypeOK /\ c \in Proc BY DEF EventInv, Proc
  <1>1. job[c] \in [at : {"move", "moveRow"}, row : MeetingRow, slot : Slot] /\ ~At(c, "idle")
    BY <1>0, Shapes DEF MoveEvent, MoveRow, At
  <1>2. PICK i \in MeetingRow : i = job[c].row BY <1>1
  <1>a. PICK e \in Event : e = meetings[i].event BY <1>0, Rows_
  <1>3. /\ \A k \in Standing : i <= k
        /\ Live(meetings[i].event) /\ meetings[i].event \notin excused => \A k \in ActiveMeetings : k <= i
    BY <1>2 DEF Single, Stage, MoveEvent, MoveRow, At
  <1>4. CASE MoveEvent(c)
    <2>. DEFINE j == [job[c] EXCEPT !.at = "moveRow"]
    <2>1. holds' = holds /\ meetings' = meetings /\ excused' = excused BY <1>4 DEF MoveEvent, rows, history
    <2>2. \A x \in Event : Live(x)' = Live(x)
      <3>1. CASE Live(e) /\ Patch(e, job[c].slot, calendar[e].status)
        <4>1. calendar[e].status \in {"tentative", "confirmed", "deleted", "removed"} /\ job[c].slot \in Slot
          BY <1>0, <1>1, Rows_
        <4>2. calendar'[e].status = calendar[e].status /\ \A x \in Event : x # e => calendar'[x] = calendar[x]
          BY <1>0, <1>2, <3>1, <4>1, Patches
        <4>. QED BY <4>2 DEF Live
      <3>2. CASE calendar' = calendar BY <3>2 DEF Live
      <3>. QED BY <1>2, <1>4, <1>a, <3>1, <3>2 DEF MoveEvent
    <2>3. Shrinks BY <1>0, <2>1, <2>2, LessIsLive
    <2>4. CASE Goto(c, Idle) BY <1>0, <1>1, <2>1, <2>3, <2>4, SingleEnds DEF Idle
    <2>5. CASE Goto(c, j)
      <3>1. j.at = "moveRow" /\ j.row = i BY <1>1, <1>2
      <3>2. job'[c] = j /\ \A d \in Caller : d # c => job'[d] = job[d] BY <1>0, <2>5, JobGoes DEF Proc
      <3>. HIDE DEF j
      <3>3. Standing' \subseteq Standing /\ Newest' BY <1>0, <2>3, StandingShrinks DEF Single
      <3>4. ActiveMeetings' = ActiveMeetings BY <2>1 DEF ActiveMeetings
      <3>5. Live(e)' => Live(e) BY <2>2
      <3>6. Stage(c)'
        <4>1. (\A k \in Standing : job[c].row <= k)' BY <1>3, <3>1, <3>2, <3>3
        <4>2. (Live(meetings[job[c].row].event) /\ meetings[job[c].row].event \notin excused =>
                 \A k \in ActiveMeetings : k <= job[c].row)'
          BY <1>3, <1>a, <2>1, <3>1, <3>2, <3>4, <3>5 DEF Live
        <4>. QED BY <3>1, <3>2, <4>1, <4>2 DEF Stage, At, Booking
      <3>7. Apart(c)' BY <3>1, <3>2 DEF Apart, Strong
      <3>8. HoldsApart' BY <2>1, <2>3 DEF Single, HoldsApart, Shrinks
      <3>. QED BY <1>1, <3>2, <3>3, <3>6, <3>7, <3>8, OthersIdle, SingleMoves
    <2>. QED BY <1>4, <2>4, <2>5 DEF MoveEvent, Becomes
  <1>5. CASE MoveRow(c)
    <2>. DEFINE r == [meetings[i] EXCEPT !.slot = job[c].slot, !.status = "rescheduled"]
    <2>1. meetings' = [meetings EXCEPT ![i] = r] /\ Goto(c, Idle)
      <3>1. DOMAIN meetings = MeetingRow BY <1>0, Rows_
      <3>. QED BY <1>2, <1>5, <3>1 DEF MoveRow
    <2>2. r \in [slot : Slot, event : Event,
                status : {"scheduled", "rescheduled", "cancelled", "cancelled_by_organizer", "rescheduled_by_organizer"}]
          /\ r.event = meetings[i].event
      BY <1>0, <1>1, <1>2, RowShape
    <2>3. calendar' = calendar /\ excused' = excused /\ holds' = holds BY <1>5 DEF MoveRow, history
    <2>. HIDE DEF r
    <2>4. RowWritten(i) BY <1>0, <1>2, <2>1, <2>2, RowWrites
    <2>5. ActiveMeetings' \subseteq ActiveMeetings \union {i} /\ ActiveMeetings \subseteq MeetingRow
      <3>1. ActiveMeetings' \subseteq MeetingRow BY <2>4 DEF ActiveMeetings, MeetingRow, RowWritten
      <3>2. \A k \in ActiveMeetings' : k # i => k \in ActiveMeetings
        BY <2>4, <3>1 DEF ActiveMeetings, MeetingRow, RowWritten
      <3>. QED BY <1>0, <3>2, ActiveRow
    <2>6. \A k \in MeetingRow : meetings'[k].event = meetings[k].event BY <2>4 DEF RowWritten
    <2>7. \A k \in Standing' : \/ k \in Standing
                               \/ k = i /\ Live(meetings[i].event) /\ meetings[i].event \notin excused
      <3>. SUFFICES ASSUME NEW k \in Standing'
                    PROVE  \/ k \in Standing
                           \/ k = i /\ Live(meetings[i].event) /\ meetings[i].event \notin excused
        OBVIOUS
      <3>1. k \in ActiveMeetings' /\ (Live(meetings[k].event) /\ meetings[k].event \notin excused)' BY DEF Standing
      <3>2. k \in MeetingRow BY <1>2, <2>5, <3>1
      <3>3. Live(meetings[k].event) /\ meetings[k].event \notin excused BY <2>3, <2>6, <3>1, <3>2 DEF Live
      <3>. QED BY <2>5, <3>1, <3>3 DEF Standing
    <2>8. Newest'
      <3>. SUFFICES ASSUME NEW k \in Standing', NEW m \in ActiveMeetings' PROVE m <= k
        BY DEF Newest
      <3>1. i \in Nat BY <1>2 DEF MeetingRow
      <3>2. \A x \in Standing, y \in ActiveMeetings : y <= x BY DEF Single, Newest
      <3>3. CASE k \in Standing BY <1>3, <2>5, <3>2, <3>3
      <3>4. CASE k = i /\ Live(meetings[i].event) /\ meetings[i].event \notin excused BY <1>3, <2>5, <3>1, <3>4
      <3>. QED BY <2>7, <3>3, <3>4
    <2>9. job'[c] = Idle /\ \A d \in Caller : d # c => job'[d] = job[d] BY <1>0, <2>1, JobGoes DEF Proc
    <2>10. Apart(c)' /\ Stage(c)' BY <2>9, NoStage DEF Idle
    <2>11. HoldsApart' BY <2>3, <2>4, <2>6 DEF Single, HoldsApart, RowWritten
    <2>. QED BY <1>1, <2>8, <2>9, <2>10, <2>11, OthersIdle, SingleMoves
  <1>. QED BY <1>4, <1>5

\* The cron jobs only take away.
LEMMA SingleCron ==
  ASSUME EventInv, Single, NEW p \in Loop,
         SweepExpired(p) \/ Scan(p) \/ GetEvent(p) \/ TellAgent(p) \/ ReconcileFails(p)
           \/ PurgeEvent(p) \/ PurgeRow(p) \/ Crash(p)
  PROVE  Single'
  <1>0. TypeOK /\ p \in Proc /\ p \notin Caller BY SchedulingAssumption DEF EventInv, Proc
  <1>1. \A c \in Caller : job'[c] = job[c]
    <2>1. \E j : Goto(p, j)
      BY DEF SweepExpired, Scan, GetEvent, TellAgent, ReconcileFails, PurgeEvent, PurgeRow, Crash, Becomes, NextRow
    <2>. QED BY <1>0, <2>1, JobGoes DEF Proc
  <1>2. \A h \in holds' : \E g \in holds : g.event = h.event
    <2>1. holds' \subseteq holds
      BY DEF SweepExpired, Scan, GetEvent, TellAgent, ReconcileFails, PurgeEvent, PurgeRow, Crash, rows
    <2>. QED BY <2>1
  <1>3. CASE SweepExpired(p) \/ Scan(p) \/ GetEvent(p) \/ ReconcileFails(p) \/ PurgeRow(p) \/ Crash(p)
    <2>1. calendar' = calendar /\ meetings' = meetings /\ excused \subseteq excused'
      BY <1>3 DEF SweepExpired, Scan, GetEvent, ReconcileFails, PurgeRow, Crash, rows, history
    <2>. QED BY <1>0, <1>1, <1>2, <2>1, StillShrinks, SingleKept
  <1>4. CASE TellAgent(p)
    <2>1. PICK i \in MeetingRow : i = Row(p) BY <1>0, <1>4, ScanRow DEF TellAgent
    <2>2. job[p].slot \in Slot BY <1>0, <1>4, CronShapes DEF TellAgent
    <2>3. RowWritten(i) /\ meetings'[i].status \notin Active
      <3>1. CASE At(p, "cancelled")
        <4>1. meetings' = [meetings EXCEPT ![i].status = "cancelled_by_organizer"] BY <1>4, <2>1, <3>1 DEF TellAgent
        <4>. QED BY <1>0, <4>1, StatusWritten DEF Active
      <3>2. CASE ~At(p, "cancelled")
        <4>. DEFINE r == [meetings[i] EXCEPT !.status = "rescheduled_by_organizer", !.slot = job[p].slot]
        <4>1. DOMAIN meetings = MeetingRow BY <1>0, Rows_
        <4>2. meetings' = [meetings EXCEPT ![i] = r] BY <1>4, <2>1, <3>2, <4>1 DEF TellAgent
        <4>3. r \in [slot : Slot, event : Event,
                     status : {"scheduled", "rescheduled", "cancelled", "cancelled_by_organizer", "rescheduled_by_organizer"}]
              /\ r.event = meetings[i].event /\ r.status \notin Active
          BY <1>0, <2>2, RowShape DEF Active
        <4>. HIDE DEF r
        <4>. QED BY <1>0, <4>2, <4>3, RowWrites
      <3>. QED BY <3>1, <3>2
    <2>4. calendar' = calendar /\ excused' = excused BY <1>4 DEF TellAgent, history
    <2>. QED BY <1>0, <1>1, <1>2, <2>3, <2>4, RetiresRow, SingleKept
  <1>5. CASE PurgeEvent(p)
    <2>1. job[p].todo \in Some(Event) BY <1>0, <1>5, CronShapes DEF PurgeEvent, At
    <2>2. Min(job[p].todo) \in Event
      <3>1. Min(job[p].todo) \in job[p].todo BY <2>1, MinIn DEF Some, Event
      <3>. QED BY <2>1, <3>1 DEF Some
    <2>3. (\A e \in Event : Live(e)' => Live(e)) /\ excused \subseteq excused'
      BY <1>0, <1>5, <2>2, Deletes DEF PurgeEvent
    <2>4. meetings' = meetings BY <1>5 DEF PurgeEvent, rows
    <2>. QED BY <1>0, <1>1, <1>2, <2>3, <2>4, LessIsLive, SingleKept
  <1>. QED BY <1>3, <1>4, <1>5

LEMMA SingleEnvironment ==
  ASSUME EventInv, Single,
         \/ \E e \in Event : OrganizerDeletes(e) \/ \E s \in Slot : OrganizerMoves(e, s)
         \/ \E h \in holds : HoldExpires(h)
         \/ Disconnect \/ Connect \/ TimePasses
         \/ UNCHANGED vars
  PROVE  Single'
  <1>0. TypeOK BY DEF EventInv
  <1>1. job' = job /\ excused' = excused /\ meetings' = meetings
    BY DEF OrganizerDeletes, OrganizerMoves, HoldExpires, Disconnect, Connect, TimePasses, vars, rows, history
  <1>2. \A e \in Event : Live(e)' => Live(e)
    <2>1. ASSUME NEW e \in Event, OrganizerDeletes(e) PROVE \A x \in Event : Live(x)' => Live(x)
      <3>1. calendar[e].slot \in Slot BY <1>0, Rows_
      <3>2. calendar'[e].status = "removed" /\ \A x \in Event : x # e => calendar'[x] = calendar[x]
        BY <1>0, <2>1, <3>1, Patches DEF OrganizerDeletes
      <3>. QED BY <3>2 DEF Live
    <2>2. ASSUME NEW e \in Event, NEW s \in Slot, OrganizerMoves(e, s) PROVE \A x \in Event : Live(x)' => Live(x)
      <3>1. calendar[e].status = "confirmed" /\ \A x \in Event : x # e => calendar'[x] = calendar[x]
        BY <1>0, <2>2, Patches DEF OrganizerMoves
      <3>. QED BY <3>1 DEF Live
    <2>3. CASE calendar' = calendar BY <2>3 DEF Live
    <2>. QED BY <2>1, <2>2, <2>3 DEF HoldExpires, Disconnect, Connect, TimePasses, vars
  <1>3. \A h \in holds' : \E g \in holds : g.event = h.event
    <2>1. ASSUME NEW k \in holds, HoldExpires(k) PROVE \A h \in holds' : \E g \in holds : g.event = h.event
      <3>1. k \in [event : Event, slot : Slot, expired : BOOLEAN] BY <1>0 DEF TypeOK
      <3>2. [k EXCEPT !.expired = TRUE].event = k.event BY <3>1
      <3>3. holds' = (holds \ {k}) \union {[k EXCEPT !.expired = TRUE]} BY <2>1 DEF HoldExpires
      <3>. QED BY <3>2, <3>3
    <2>2. CASE holds' = holds BY <2>2
    <2>. QED BY <2>1, <2>2 DEF OrganizerDeletes, OrganizerMoves, Disconnect, Connect, TimePasses, vars, rows
  <1>. QED BY <1>0, <1>1, <1>2, <1>3, LessIsLive, SingleKept

LEMMA OneInvStep == OneInv /\ [Next]_vars => OneInv'
  <1>. SUFFICES ASSUME OneInv, [Next]_vars, ~overlapped' PROVE Single'
    BY EventInvStep DEF OneInv
  <1>0. EventInv BY DEF OneInv
  <1>1. ASSUME NEW c \in Caller,
               \/ \E d \in Days \union {0}, period \in {"any", "morning", "afternoon"} : SuggestSlots(c, d, period)
               \/ \E s \in Slot : Schedule(c, s) \/ \E i \in 1..Len(meetings) : Reschedule(c, i, s)
               \/ \E i \in 1..Len(meetings) : Cancel(c, i)
        PROVE  Single'
    <2>1. ~overlapped BY <1>1 DEF SuggestSlots, Schedule, Reschedule, Cancel, Begin
    <2>. QED BY <1>0, <1>1, <2>1, SingleBegins DEF OneInv
  <1>2. ASSUME NEW c \in Caller, HoldFails(c) \/ BookingAnswerLost(c) \/ CallerStep(c) PROVE Single'
    <2>1. ~overlapped
      BY <1>2 DEF HoldFails, BookingAnswerLost, CallerStep, CreateHold, InsertSlotHold, DropOld, MarkOld, Lookup,
                  ConfirmHold, CreateEventDirect, BookingRefused, MarkHoldConsumed, OtherHolds, InsertMeeting,
                  CancelEvent, CancelRow, MoveEvent, MoveRow, history
    <2>. QED BY <1>0, <1>2, <2>1, SingleQuiet, SingleBooks, SingleHolds, SingleReplaces, SingleReschedules
             DEF OneInv, CallerStep
  <1>3. ASSUME NEW p \in Proc, PurgeEvent(p) \/ PurgeRow(p) \/ Crash(p) PROVE Single'
    <2>1. ~overlapped BY <1>3 DEF PurgeEvent, PurgeRow, Crash, history
    <2>2. CASE p \in Caller BY <1>0, <1>3, <2>1, <2>2, SingleBooks, SingleQuiet DEF OneInv
    <2>3. CASE p \in Loop BY <1>0, <1>3, <2>1, <2>3, SingleCron DEF OneInv
    <2>. QED BY <2>2, <2>3 DEF Proc
  <1>4. ASSUME NEW p \in Loop,
               Scan(p) \/ SweepExpired(p) \/ GetEvent(p) \/ TellAgent(p) \/ ReconcileFails(p)
        PROVE  Single'
    <2>1. ~overlapped BY <1>4 DEF Scan, SweepExpired, GetEvent, TellAgent, ReconcileFails, history
    <2>. QED BY <1>0, <1>4, <2>1, SingleCron DEF OneInv
  <1>5. ASSUME \/ \E e \in Event : OrganizerDeletes(e) \/ \E s \in Slot : OrganizerMoves(e, s)
               \/ \E h \in holds : HoldExpires(h)
               \/ Disconnect \/ Connect \/ TimePasses
               \/ UNCHANGED vars
        PROVE  Single'
    <2>1. ~overlapped
      BY <1>5 DEF OrganizerDeletes, OrganizerMoves, HoldExpires, Disconnect, Connect, TimePasses, vars, history
    <2>. QED BY <1>0, <1>5, <2>1, SingleEnvironment DEF OneInv
  <1>. QED BY <1>1, <1>2, <1>3, <1>4, <1>5 DEF Next, Event

LEMMA OneInvInit == Init => OneInv
  <1>. SUFFICES ASSUME Init PROVE OneInv
    OBVIOUS
  <1>1. MeetingRow = {} /\ ActiveMeetings = {} BY EmptySeq DEF Init, MeetingRow, ActiveMeetings
  <1>2. \A c \in Caller : job[c].at = "idle" BY DEF Init, Idle, Proc
  <1>3. Alone BY <1>2 DEF Alone, At
  <1>4. HoldsApart /\ Newest BY <1>1 DEF HoldsApart, Newest
  <1>5. ASSUME NEW c \in Caller PROVE Apart(c) /\ Stage(c)
    BY <1>2 DEF Apart, Stage, At, Strong, Booking
  <1>. QED BY <1>3, <1>4, <1>5, EventInvInit DEF OneInv, Single

(* schedule-service.ts, scheduleMeeting "drops the meeting it replaces": until
   two of its requests run at once, a lead has at most one active meeting whose
   event stands, whatever fails, and whatever the organizer does to it. *)
THEOREM OneMeeting == Spec => []OneLiveMeeting
  <1>1. OneInv => OneLiveMeeting
    <2>. SUFFICES ASSUME EventInv, Single PROVE Cardinality(Standing) <= 1
      BY DEF OneInv, OneLiveMeeting, Standing
    <2>1. Standing \subseteq Nat
      <3>1. Standing \subseteq MeetingRow BY ActiveRow DEF EventInv, Standing
      <3>. QED BY <3>1 DEF MeetingRow
    <2>2. \A i, k \in Standing : i = k
      <3>1. \A i, k \in Standing : k <= i BY DEF Single, Newest, Standing
      <3>. QED BY <2>1, <3>1
    <2>3. CASE Standing = {} BY <2>3, FS_EmptySet
    <2>4. CASE Standing # {}
      <3>1. PICK x \in Standing : TRUE BY <2>4
      <3>2. Standing = {x} BY <2>2
      <3>. QED BY <3>2, FS_Singleton
    <2>. QED BY <2>3, <2>4
  <1>2. Spec => []OneInv BY OneInvInit, OneInvStep, PTL DEF Spec
  <1>. QED BY <1>1, <1>2, PTL
=============================================================================
