----------------------------- MODULE MCMeetings -----------------------------
(***************************************************************************)
(* One run for the life of meetings: a behaviour either schedules those of *)
(* one lead, or collects two, or follows one whose collection has ended.   *)
(***************************************************************************)
EXTENDS MCScheduling

CONSTANTS Recoverer, Writer, MaxAttempts, MaxRevisions, Room, Request, Tick, MaxConcurrent, MaxRows

\* VEXA_MAX_CONCURRENT counts places; the bound on imports leaves one to start from.
ASSUME MeetingsAssumption == MaxConcurrent \in Nat /\ MaxRevisions \in Nat \ {0}

VARIABLES
  part,  \* what the behaviour follows
  queue, bot, handed, health, work, sideways, forgiven, mishaps,
  episode, summary, recovery, hand, lapsed, troubles

C == INSTANCE Collection
       WITH rows <- queue, recovery <- handed, job <- work, overlapped <- sideways,
            excused <- forgiven, upsets <- mishaps
D == INSTANCE Digest WITH job <- hand, upsets <- troubles

scheduling == vars
collecting == <<queue, bot, handed, health, work, sideways, forgiven, mishaps>>
ended == <<episode, summary, recovery, hand, lapsed, troubles>>

NoMeeting ==
  /\ episode = [rev |-> 0, text |-> "none", digest |-> 0, audio |-> FALSE]
  /\ summary = [status |-> "none", rev |-> 0, attempts |-> 0]
  /\ recovery = [status |-> "none", reason |-> "silent_room", attempts |-> 0]
  /\ hand = [p \in D!Process |-> D!Idle] /\ lapsed = {} /\ troubles = 0

InitMeetings ==
  /\ part \in {"scheduling", "collecting", "ended"}
  /\ Init /\ C!Init /\ IF part = "ended" THEN D!Init ELSE NoMeeting

\* Rooms are alike: whatever room is asked for first stands for any of them.
RoomsAreAlike == IF queue' = <<>> THEN TRUE ELSE queue'[1].room = CHOOSE r \in Room : TRUE

NextMeetings ==
  \/ part = "scheduling" /\ Next /\ UNCHANGED <<part, collecting, ended>>
  \/ part = "collecting" /\ C!Next /\ RoomsAreAlike /\ UNCHANGED <<part, scheduling, ended>>
  \/ part = "ended" /\ D!Next /\ UNCHANGED <<part, scheduling, collecting>>

SpecMeetings ==
  /\ InitMeetings /\ [][NextMeetings]_<<part, scheduling, collecting, ended>>
  /\ Fairness /\ C!Fairness /\ D!Fairness

(* The properties of Collection and Digest. The crons catch up with the
   calendar; every request for a bot and every job that follows it ends. *)
CapKept == C!CapKept
NoOrphanBot == C!NoOrphanBot
SpeechIsNotLost == C!SpeechIsNotLost
RecordingPrevails == D!RecordingPrevails
DigestIsCurrent == D!DigestIsCurrent
CalendarIsFollowed == CancellationIsNoticed /\ HoldsAreReleased
EventuallySettled == C!EventuallySettled /\ D!JobsEnd
=============================================================================
