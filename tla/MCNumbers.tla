----------------------------- MODULE MCNumbers -----------------------------
(***************************************************************************)
(* One run for the connection probes and the outage notices: an instance   *)
(* either probes a number, or watches an outage and announces it.          *)
(***************************************************************************)
EXTENDS Probes

CONSTANTS p1, p2, Watcher, MaxNotices, MaxChanges

ASSUME NoticesAssumption == MaxNotices \in Nat /\ IsFiniteSet(Watcher)

VARIABLES kind, state, store, row, outage, watch, probe, late, said, lost, undone, changes, mishaps

N == INSTANCE Notices
       WITH turns <- changes, faults <- mishaps, MaxTurns <- MaxChanges

probing == vars
watching == <<kind, state, store, row, outage, watch, probe, late, said, lost, undone, changes, mishaps>>

\* Where behaviours begin, each with part of the bounds used up: the first probe of
\* a pair has been sent and not received, or no probe was sent at all.
Begun == [parent |-> 0, mark |-> 0, sent |-> "yes", out |-> TRUE, stored |-> FALSE, cloud |-> "none",
          age |-> "young", received |-> FALSE, verdict |-> "repeated"]
Repeating == [at |-> "create", was |-> "connected", parent |-> 1, then |-> "state"]

Begin(begun, up, messages, t, f) ==
  /\ session = [state |-> "open", alive |-> TRUE] /\ last = messages
  /\ number = [status |-> "connected", outage |-> NoOutage]
  /\ probes = IF begun THEN <<Begun>> ELSE <<>>
  /\ receipt = [i \in 1..MaxProbes |-> "none"]
  /\ loop = [p \in Loop |-> IF p \notin up THEN [at |-> "down"]
                            ELSE IF begun /\ p = p1 THEN Repeating ELSE Idle]
  /\ events = {} /\ panel = "idle" /\ abandoned = FALSE
  /\ turns = t /\ faults = f

Fresh == Begin(FALSE, {p1}, MaxMessages, 0, MaxFaults)
Hearing == Begin(TRUE, {p1}, 0, 0, MaxFaults)
Failing == Begin(TRUE, {p1}, MaxMessages, MaxTurns, 0)
Deploy == Begin(TRUE, {p1, p2}, MaxMessages, MaxTurns, MaxFaults)

InitPast == Fresh \/ Hearing \/ Failing \/ Deploy

\* No probe is in play: nothing but the outages and their notices moves.
Resting ==
  /\ session = [state |-> "close", alive |-> FALSE] /\ last = MaxMessages
  /\ number = [status |-> "disconnected", outage |-> NoOutage]
  /\ probes = <<>> /\ receipt = [i \in 1..MaxProbes |-> "none"]
  /\ loop = [p \in Loop |-> [at |-> "down"]]
  /\ events = {} /\ panel = "rest" /\ abandoned = FALSE
  /\ turns = MaxTurns /\ faults = MaxFaults

\* No outage is watched: the watchers have not started.
Unwatched ==
  /\ kind = "number" /\ state = "open" /\ store = 0
  /\ row = N!Healthy /\ outage = "none"
  /\ watch = [w \in Watcher |-> [at |-> "down"]] /\ probe = N!Idle
  /\ late = {} /\ said = N!Unsaid /\ lost = 0 /\ undone = 0 /\ changes = 0 /\ mishaps = 0

\* An outage of the session has gone on for a while, and no notice was sent.
Fallen ==
  /\ kind \in {"system", "number"} /\ state = "close" /\ store = 0
  /\ row = [N!Healthy EXCEPT !.down = "state", !.off = (kind = "number"), !.aged = TRUE]
  /\ outage = IF kind = "number" THEN "webhook" ELSE "watch"
  /\ watch = [w \in Watcher |-> N!Idle] /\ probe = N!Idle
  /\ late = {} /\ said = N!Unsaid /\ lost = 0 /\ undone = 0 /\ changes = 0 /\ mishaps = 0

InitNumbers == (InitPast /\ Unwatched) \/ (Resting /\ (N!Init \/ Fallen))

NextNumbers ==
  \/ panel # "rest" /\ Next /\ UNCHANGED watching
  \/ panel = "rest" /\ N!Next /\ UNCHANGED probing

SpecNumbers ==
  /\ InitNumbers /\ [][NextNumbers]_<<probing, watching>>
  /\ Fairness /\ N!Fairness

(* Notices!OneNoticeEach, Notices!EpisodesAgree and Notices!Announced of the
   instance whose outages are watched. *)
OneNoticeEach == N!OneNoticeEach
EpisodesAgree == N!EpisodesAgree
Announced == panel = "rest" => N!Announced
=============================================================================
