SPECIFICATION SpecMeetings
CONSTANTS
  Caller = {c1}
  Loop = {"cleaner", "reconciler"}
  Days = {2}
  Instants = {9, 60}
  Ranges <- Ranges1
  Duration = 1
  MinAdvance = 4
  MaxResults = 1
  MaxEvents = 2
  MaxUpsets = 1
  Recoverer = {g1, g2}
  Writer = {w1, w2}
  MaxAttempts = 2
  MaxRevisions = 3
  Room = {r1, r2}
  Request = {q1}
  Tick = {t1}
  MaxConcurrent = 1
  MaxRows = 2
INVARIANTS NoStrayEvent OneLiveMeeting RecordingPrevails CapKept NoOrphanBot SpeechIsNotLost
PROPERTIES CalendarIsFollowed DigestIsCurrent EventuallySettled
CHECK_DEADLOCK FALSE
