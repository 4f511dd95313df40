--------------------------- MODULE MeetingsProofs ---------------------------
(***************************************************************************)
(* What MCMeetings runs after the booking, for every set of rooms, workers *)
(* and processes: the collection by bots (meetings-collect) and what       *)
(* follows it (meetings-recover, meetings-summary). Of the collection:     *)
(*   - work that is alone finds a row as it left it (AloneInv): rows it    *)
(*     will promote are queued, there is a place for the bot it sends,     *)
(*     and it ends a row only when the bot is out of the room;             *)
(*   - a room on its way to the recovery is in the hand of the worker that *)
(*     wrote it off (SpeechIsNotLost), overlapping work included.          *)
(* Of what follows: whoever replaces a partial transcript forces it.       *)
(***************************************************************************)
EXTENDS MCMeetings, FiniteSetTheorems, SequenceTheorems, WellFoundedInduction, TLAPS

-----------------------------------------------------------------------------
(* After the collection: the recovery and the digest. *)

EpisodeType == [rev : 0..MaxRevisions, text : {"none", "live", "recording"},
                digest : 0..MaxRevisions, audio : BOOLEAN]
SummaryType == [status : {"none", "pending", "processing", "done", "failed"},
                rev : 0..MaxRevisions, attempts : Nat]
RecoveryType == [status : {"none", "pending", "processing", "done", "no_speech", "failed"},
                 reason : {"silent_room", "partial"}, attempts : Nat]
HandType ==
  {[at |-> "idle"], [at |-> "recovered"]}
    \union [at : {"recover"}, reason : {"silent_room", "partial"}, attempts : Nat]
    \union [at : {"load", "write"}, rev : 0..MaxRevisions, attempts : Nat]

DigestTypes ==
  /\ episode \in EpisodeType /\ summary \in SummaryType /\ recovery \in RecoveryType
  /\ hand \in [D!Process -> HandType]
  /\ lapsed \subseteq {"summary", "recovery"} /\ troubles \in Nat

\* Whoever recovers a partial transcript knows that it is partial; what it wrote stays.
Forced ==
  /\ \A p \in D!Process : hand[p].at = "recover" => hand[p].reason = recovery.reason
  /\ recovery.reason = "partial" =>
       /\ recovery.status = "done" => episode.text = "recording"
       /\ \A p \in D!Process : hand[p].at = "recovered" => episode.text = "recording"

DigestInv == DigestTypes /\ Forced

LEMMA HandFields ==
  ASSUME NEW h \in HandType
  PROVE  /\ h.at = "recover" => h \in [at : {"recover"}, reason : {"silent_room", "partial"}, attempts : Nat]
         /\ h.at \in {"load", "write"} => h \in [at : {"load", "write"}, rev : 0..MaxRevisions, attempts : Nat]
  BY DEF HandType

LEMMA EpisodeKept ==
  ASSUME NEW e \in EpisodeType
  PROVE  /\ [e EXCEPT !.audio = TRUE] \in EpisodeType /\ [e EXCEPT !.audio = TRUE].text = e.text
         /\ \A r \in 0..MaxRevisions :
              [e EXCEPT !.digest = r] \in EpisodeType /\ [e EXCEPT !.digest = r].text = e.text
  <1>1. [e EXCEPT !.audio = TRUE] \in EpisodeType BY Zenon DEF EpisodeType
  <1>2. [e EXCEPT !.audio = TRUE].text = e.text BY DEF EpisodeType
  <1>3. ASSUME NEW r \in 0..MaxRevisions
        PROVE  [e EXCEPT !.digest = r] \in EpisodeType /\ [e EXCEPT !.digest = r].text = e.text
    <2>1. [e EXCEPT !.digest = r] \in EpisodeType BY Zenon DEF EpisodeType
    <2>2. [e EXCEPT !.digest = r].text = e.text BY DEF EpisodeType
    <2>. QED BY <2>1, <2>2, Zenon
  <1>. QED BY <1>1, <1>2, <1>3, Zenon

LEMMA SummaryWrites ==
  ASSUME NEW s \in SummaryType, NEW v \in {"none", "pending", "processing", "done", "failed"}, NEW n \in Nat
  PROVE  [s EXCEPT !.status = v, !.attempts = n] \in SummaryType
  BY Zenon DEF SummaryType

LEMMA RecoveryWrites ==
  ASSUME NEW s \in RecoveryType, NEW v \in {"none", "pending", "processing", "done", "no_speech", "failed"}
  PROVE  /\ \A n \in Nat : [s EXCEPT !.status = v, !.attempts = n] \in RecoveryType
         /\ \A n \in Nat : [s EXCEPT !.status = v, !.attempts = n].status = v
         /\ \A n \in Nat : [s EXCEPT !.status = v, !.attempts = n].reason = s.reason
         /\ [s EXCEPT !.status = v] \in RecoveryType
         /\ [s EXCEPT !.status = v].status = v
         /\ [s EXCEPT !.status = v].reason = s.reason
  BY DEF RecoveryType

\* What a process takes up next is well formed.
LEMMA Moves ==
  ASSUME DigestTypes, NEW p \in D!Process, NEW h \in HandType, D!Goto(p, h)
  PROVE  /\ hand' \in [D!Process -> HandType]
         /\ \A q \in D!Process : hand'[q] = IF q = p THEN h ELSE hand[q]
  BY DEF DigestTypes, D!Goto

LEMMA Inserted ==
  ASSUME DigestTypes, NEW text \in {"none", "live", "recording"}, NEW audio \in BOOLEAN, NEW force \in BOOLEAN,
         D!InsertEpisode(text, audio, force)
  PROVE  /\ episode' \in EpisodeType /\ summary' \in SummaryType /\ lapsed' \subseteq {"summary", "recovery"}
         /\ episode' = episode \/ episode'.text = text
         /\ force => episode'.text = text
  <1>1. CASE episode.rev > 0 /\ ~force
    BY <1>1 DEF D!InsertEpisode, DigestTypes
  <1>2. CASE ~(episode.rev > 0 /\ ~force)
    <2>0. episode \in EpisodeType BY DEF DigestTypes
    <2>1. episode.rev + 1 \in 0..MaxRevisions
      BY <1>2, MeetingsAssumption DEF D!InsertEpisode, DigestTypes, EpisodeType
    <2>2. episode' = [episode EXCEPT !.rev = episode.rev + 1, !.text = text, !.audio = audio]
      BY <1>2 DEF D!InsertEpisode
    <2>3. episode' \in EpisodeType /\ episode'.text = text
      <3>1. \A r \in 0..MaxRevisions :
              [episode EXCEPT !.rev = r, !.text = text, !.audio = audio] \in EpisodeType
        BY <2>0, Zenon DEF EpisodeType
      <3>2. episode'.text = text BY <2>0, <2>2 DEF EpisodeType
      <3>. QED BY <2>1, <2>2, <3>1, <3>2, Zenon
    <2>4. summary' \in SummaryType BY <1>2, <2>1 DEF D!InsertEpisode, SummaryType
    <2>. QED BY <1>2, <2>3, <2>4 DEF D!InsertEpisode, DigestTypes
  <1>. QED BY <1>1, <1>2

LEMMA Settled ==
  ASSUME DigestTypes, NEW v \in {"none", "pending", "processing", "done", "no_speech", "failed"}, NEW n \in Nat,
         D!SettleRecovery(v, n)
  PROVE  /\ recovery' \in RecoveryType /\ recovery'.status = v /\ recovery'.reason = recovery.reason
         /\ lapsed' \subseteq {"summary", "recovery"}
  <1>1. recovery' = [recovery EXCEPT !.status = v, !.attempts = n] BY DEF D!SettleRecovery
  <1>2. recovery \in RecoveryType BY DEF DigestTypes
  <1>3. recovery' \in RecoveryType /\ recovery'.status = v /\ recovery'.reason = recovery.reason
    BY <1>1, <1>2 DEF RecoveryType
  <1>. QED BY <1>3 DEF D!SettleRecovery, DigestTypes

LEMMA SummarySettled ==
  ASSUME DigestTypes, NEW p \in D!Process, NEW v \in {"none", "pending", "processing", "done", "failed"}, NEW n \in Nat,
         D!Settle(p, v, n)
  PROVE  /\ summary' \in SummaryType /\ lapsed' \subseteq {"summary", "recovery"}
         /\ hand' \in [D!Process -> HandType]
         /\ \A q \in D!Process : hand'[q] = IF q = p THEN D!Idle ELSE hand[q]
  <1>1. summary' = [summary EXCEPT !.status = v, !.attempts = n] BY DEF D!Settle
  <1>2. D!Idle \in HandType BY DEF D!Idle, HandType
  <1>3. summary \in SummaryType BY DEF DigestTypes
  <1>4. summary' \in SummaryType BY <1>1, <1>3, SummaryWrites, Zenon
  <1>. QED BY <1>2, <1>4, Moves DEF D!Settle, DigestTypes

\* A step that keeps the recovery's row and the transcript, and takes up no recovery.
LEMMA ForcedStays ==
  ASSUME Forced, recovery'.reason = recovery.reason,
         recovery'.status = "done" => recovery.status = "done",
         episode'.text = episode.text \/ episode'.text = "recording",
         \A q \in D!Process : hand'[q] = hand[q] \/ hand'[q].at \notin {"recover", "recovered"}
  PROVE  Forced'
  BY DEF Forced, D!Process

LEMMA DigestStep == DigestInv /\ [D!Next]_(D!vars) => DigestInv'
  <1>. SUFFICES ASSUME DigestInv, [D!Next]_(D!vars) PROVE DigestInv'
    OBVIOUS
  <1>. USE DEF DigestInv
  <1>i. D!Idle \in HandType /\ D!Idle.at \notin {"recover", "recovered"} BY DEF D!Idle, HandType
  <1>1. CASE UNCHANGED D!vars
    BY <1>1 DEF D!vars, DigestTypes, Forced, D!Process
  <1>2. CASE D!Reimport
    <2>1. episode.text \in {"none", "live", "recording"} BY DEF DigestTypes, EpisodeType
    <2>2. episode' \in EpisodeType /\ summary' \in SummaryType /\ lapsed' \subseteq {"summary", "recovery"}
            /\ episode'.text = episode.text
      BY <1>2, <2>1, Inserted DEF D!Reimport
    <2>. QED BY <1>2, <2>2, ForcedStays DEF D!Reimport, DigestTypes
  <1>3. CASE D!EnqueueAgain
    <2>1. summary' \in SummaryType BY <1>3 DEF D!EnqueueAgain, DigestTypes, EpisodeType, SummaryType
    <2>. QED BY <1>3, <2>1, ForcedStays DEF D!EnqueueAgain, DigestTypes, D!Upset
  <1>4. CASE D!ArchiveAudio
    <2>1. episode \in EpisodeType /\ 0 \in 0..MaxRevisions BY MeetingsAssumption DEF DigestTypes
    <2>2. episode' = [episode EXCEPT !.audio = TRUE] BY <1>4 DEF D!ArchiveAudio
    <2>3. episode' \in EpisodeType /\ episode'.text = episode.text BY <2>1, <2>2, EpisodeKept, Zenon
    <2>. QED BY <1>4, <2>3, ForcedStays DEF D!ArchiveAudio, DigestTypes
  <1>5. CASE D!LeaseRunsOut
    BY <1>5, ForcedStays DEF D!LeaseRunsOut, DigestTypes, D!Upset
  <1>6. ASSUME NEW p \in D!Process, D!ClaimRecovery(p) PROVE DigestInv'
    <2>. DEFINE h == [at |-> "recover", reason |-> recovery.reason, attempts |-> recovery.attempts]
    <2>1. h \in HandType BY DEF DigestTypes, RecoveryType, HandType
    <2>2. recovery' \in RecoveryType /\ recovery'.reason = recovery.reason /\ recovery'.status = "processing"
      <3>1. recovery \in RecoveryType /\ 0 \in Nat BY DEF DigestTypes
      <3>2. recovery' = [recovery EXCEPT !.status = "processing"] BY <1>6 DEF D!ClaimRecovery
      <3>. QED BY <3>1, <3>2, RecoveryWrites, Zenon
    <2>3. D!Goto(p, h) /\ h.at = "recover" /\ h.reason = recovery.reason BY <1>6 DEF D!ClaimRecovery
    <2>. HIDE DEF h
    <2>4. /\ hand' \in [D!Process -> HandType]
          /\ \A q \in D!Process : hand'[q] = IF q = p THEN h ELSE hand[q]
      BY <2>1, <2>3, Moves
    <2>5. DigestTypes' BY <1>6, <2>2, <2>4 DEF D!ClaimRecovery, DigestTypes
    <2>6. Forced' BY <1>6, <2>2, <2>3, <2>4 DEF D!ClaimRecovery, Forced
    <2>. QED BY <2>5, <2>6
  <1>7. ASSUME NEW p \in D!Process, D!NoSpeech(p) \/ D!PostponeRecovery(p) \/ D!RecoveryFails(p) PROVE DigestInv'
    <2>1. recovery.attempts \in Nat /\ recovery.attempts + 1 \in Nat BY DEF DigestTypes, RecoveryType
    <2>2. \E v \in {"pending", "no_speech", "failed"}, n \in Nat : D!SettleRecovery(v, n)
      BY <1>7, <2>1 DEF D!NoSpeech, D!PostponeRecovery, D!RecoveryFails
    <2>3. /\ recovery' \in RecoveryType /\ recovery'.status # "done" /\ recovery'.reason = recovery.reason
          /\ lapsed' \subseteq {"summary", "recovery"}
      BY <2>2, Settled
    <2>4. /\ hand' \in [D!Process -> HandType]
          /\ \A q \in D!Process : hand'[q] = IF q = p THEN D!Idle ELSE hand[q]
      BY <1>7, <1>i, Moves DEF D!NoSpeech, D!PostponeRecovery, D!RecoveryFails
    <2>5. troubles' \in Nat /\ UNCHANGED <<episode, summary>>
      BY <1>7 DEF D!NoSpeech, D!PostponeRecovery, D!RecoveryFails, D!Upset, DigestTypes
    <2>. QED BY <1>i, <2>3, <2>4, <2>5, ForcedStays DEF DigestTypes
  <1>8. ASSUME NEW p \in D!Process, D!Recover(p) PROVE DigestInv'
    <2>1. (hand[p].reason = "partial") \in BOOLEAN OBVIOUS
    <2>2. /\ episode' \in EpisodeType /\ summary' \in SummaryType /\ lapsed' \subseteq {"summary", "recovery"}
          /\ episode' = episode \/ episode'.text = "recording"
          /\ hand[p].reason = "partial" => episode'.text = "recording"
      BY <1>8, <2>1, Inserted DEF D!Recover
    <2>3. [at |-> "recovered"] \in HandType BY DEF HandType
    <2>4. /\ hand' \in [D!Process -> HandType]
          /\ \A q \in D!Process : hand'[q] = IF q = p THEN [at |-> "recovered"] ELSE hand[q]
      BY <1>8, <2>3, Moves DEF D!Recover
    <2>5. DigestTypes' BY <1>8, <2>2, <2>4 DEF D!Recover, DigestTypes
    <2>6. Forced' BY <1>8, <2>2, <2>4 DEF D!Recover, D!At, Forced
    <2>. QED BY <2>5, <2>6
  <1>9. ASSUME NEW p \in D!Process, D!FinishRecovery(p) PROVE DigestInv'
    <2>1. recovery.attempts \in Nat BY DEF DigestTypes, RecoveryType
    <2>2. /\ recovery' \in RecoveryType /\ recovery'.reason = recovery.reason
          /\ lapsed' \subseteq {"summary", "recovery"}
      BY <1>9, <2>1, Settled DEF D!FinishRecovery
    <2>3. /\ hand' \in [D!Process -> HandType]
          /\ \A q \in D!Process : hand'[q] = IF q = p THEN D!Idle ELSE hand[q]
      BY <1>9, <1>i, Moves DEF D!FinishRecovery
    <2>4. DigestTypes' BY <1>9, <2>2, <2>3 DEF D!FinishRecovery, DigestTypes
    <2>5. Forced' BY <1>9, <1>i, <2>2, <2>3 DEF D!FinishRecovery, D!At, Forced
    <2>. QED BY <2>4, <2>5
  <1>10. ASSUME NEW p \in D!Process, D!ClaimSummary(p) PROVE DigestInv'
    <2>. DEFINE h == [at |-> "load", rev |-> summary.rev, attempts |-> summary.attempts + 1]
    <2>1. summary.attempts + 1 \in Nat /\ h \in HandType /\ h.at = "load"
      BY DEF DigestTypes, SummaryType, HandType
    <2>2. summary' \in SummaryType
      <3>1. summary' = [summary EXCEPT !.status = "processing", !.attempts = summary.attempts + 1]
        BY <1>10 DEF D!ClaimSummary
      <3>2. summary \in SummaryType BY DEF DigestTypes
      <3>. QED BY <2>1, <3>1, <3>2, SummaryWrites, Zenon
    <2>3. D!Goto(p, h) BY <1>10 DEF D!ClaimSummary
    <2>. HIDE DEF h
    <2>4. /\ hand' \in [D!Process -> HandType]
          /\ \A q \in D!Process : hand'[q] = IF q = p THEN h ELSE hand[q]
      BY <2>1, <2>3, Moves
    <2>. QED BY <1>10, <2>1, <2>2, <2>4, ForcedStays DEF D!ClaimSummary, DigestTypes
  <1>11. ASSUME NEW p \in D!Process, D!Load(p) PROVE DigestInv'
    <2>. DEFINE h == IF episode.rev = hand[p].rev THEN [hand[p] EXCEPT !.at = "write"] ELSE D!Idle
    <2>1. hand[p] \in [at : {"load", "write"}, rev : 0..MaxRevisions, attempts : Nat]
      BY <1>11, HandFields DEF D!Load, D!At, DigestTypes
    <2>2. h \in HandType /\ h.at \notin {"recover", "recovered"} BY <1>i, <2>1 DEF HandType
    <2>3. D!Goto(p, h) BY <1>11 DEF D!Load
    <2>. HIDE DEF h
    <2>4. /\ hand' \in [D!Process -> HandType]
          /\ \A q \in D!Process : hand'[q] = IF q = p THEN h ELSE hand[q]
      BY <2>2, <2>3, Moves
    <2>. QED BY <1>11, <2>2, <2>4, ForcedStays DEF D!Load, DigestTypes
  <1>12. ASSUME NEW p \in D!Process, D!Save(p) \/ D!CloseEmpty(p) \/ D!SummaryFails(p) PROVE DigestInv'
    <2>1. hand[p] \in [at : {"load", "write"}, rev : 0..MaxRevisions, attempts : Nat]
      BY <1>12, HandFields DEF D!Save, D!CloseEmpty, D!SummaryFails, D!At, DigestTypes
    <2>2. /\ summary.status \in {"none", "pending", "processing", "done", "failed"} /\ summary.attempts \in Nat
          /\ (IF summary.attempts > 0 THEN summary.attempts - 1 ELSE 0) \in Nat
      BY DEF DigestTypes, SummaryType
    <2>3. \/ \E v \in {"none", "pending", "processing", "done", "failed"}, n \in Nat : D!Settle(p, v, n)
          \/ D!Goto(p, D!Idle) /\ UNCHANGED <<summary, lapsed>>
      BY <1>12, <2>2 DEF D!Save, D!CloseEmpty, D!SummaryFails
    <2>4. /\ summary' \in SummaryType /\ lapsed' \subseteq {"summary", "recovery"}
          /\ hand' \in [D!Process -> HandType]
          /\ \A q \in D!Process : hand'[q] = IF q = p THEN D!Idle ELSE hand[q]
      BY <2>3, <1>i, SummarySettled, Moves DEF DigestTypes
    <2>5. episode' = episode \/ episode' = [episode EXCEPT !.digest = hand[p].rev]
      BY <1>12 DEF D!Save, D!CloseEmpty, D!SummaryFails
    <2>6. hand[p].rev \in 0..MaxRevisions BY <2>1
    <2>7. episode' \in EpisodeType /\ episode'.text = episode.text
      <3>1. episode \in EpisodeType BY DEF DigestTypes
      <3>. QED BY <2>5, <2>6, <3>1, EpisodeKept, Zenon
    <2>8. troubles' \in Nat /\ recovery' = recovery
      BY <1>12 DEF D!Save, D!CloseEmpty, D!SummaryFails, D!Upset, DigestTypes
    <2>. QED BY <1>i, <2>4, <2>7, <2>8, ForcedStays DEF DigestTypes
  <1>13. ASSUME NEW p \in D!Process, D!Crash(p) PROVE DigestInv'
    <2>1. /\ hand' \in [D!Process -> HandType]
          /\ \A q \in D!Process : hand'[q] = IF q = p THEN D!Idle ELSE hand[q]
      BY <1>13, <1>i, Moves DEF D!Crash
    <2>. QED BY <1>13, <1>i, <2>1, ForcedStays DEF D!Crash, D!Upset, DigestTypes
  <1>. QED BY <1>1, <1>2, <1>3, <1>4, <1>5, <1>6, <1>7, <1>8, <1>9, <1>10, <1>11, <1>12, <1>13
       DEF D!Next, D!Step

LEMMA DigestInit == InitMeetings => DigestInv
  <1>. SUFFICES ASSUME InitMeetings PROVE DigestInv OBVIOUS
  <1>1. 0 \in 0..MaxRevisions /\ 1 \in 0..MaxRevisions BY MeetingsAssumption
  <1>2. D!Idle \in HandType /\ D!Idle.at \notin {"recover", "recovered"} BY DEF D!Idle, HandType
  <1>3. \A r \in {0, 1}, t \in {"none", "live"} :
          [rev |-> r, text |-> t, digest |-> 0, audio |-> FALSE] \in EpisodeType
    BY <1>1 DEF EpisodeType
  <1>6. \A r \in {0, 1}, v \in {"none", "pending"} :
          [status |-> v, rev |-> r, attempts |-> 0] \in SummaryType
    BY <1>1 DEF SummaryType
  <1>7. episode \in EpisodeType /\ summary \in SummaryType
    BY <1>3, <1>6, Zenon DEF InitMeetings, NoMeeting, D!Init
  <1>5. recovery \in RecoveryType /\ recovery.status # "done"
    BY DEF InitMeetings, NoMeeting, D!Init, RecoveryType
  <1>4. hand = [p \in D!Process |-> D!Idle] /\ lapsed = {} /\ troubles = 0
    BY DEF InitMeetings, NoMeeting, D!Init
  <1>. QED BY <1>2, <1>4, <1>5, <1>7 DEF DigestInv, DigestTypes, Forced

-----------------------------------------------------------------------------
(* The collection: types. *)

RowStatus == {"collecting", "stopping", "queued", "imported", "silent", "failed", "canceled"}
RowType == [room : Room, status : RowStatus, late : BOOLEAN, quiet : {"no", "quiet", "ceiling"},
            hit : BOOLEAN, missed : {"no", "missed", "forgotten"}, again : BOOLEAN]
BotType == [status : {"none", "active", "completed", "failed"}, heard : 0..2]
Reason == {"none", "silent_room", "partial"}

Todo(n) == {T \in SUBSET (1..n) : T # {}}
Walking == {"send", "sent", "refused", "look", "stopping", "stopBot", "read", "cancel"}
Ending == {"fail", "failed", "stop", "silence", "import"}

\* What a worker can be at while there are n rows.
WorkType(n) ==
  {[at |-> "idle"], [at |-> "promote"]}
    \union [at : {"expire", "count"}, todo : SUBSET (1..n)]
    \union [at : Walking, todo : Todo(n)]
    \union [at : Ending, todo : Todo(n), heard : 0..2]
    \union [at : {"recover"}, todo : Todo(n), reason : Reason \ {"none"}]

CollectionTypes ==
  /\ queue \in Seq(RowType) /\ bot \in [Room -> BotType]
  /\ handed \in Seq(Reason) /\ Len(handed) = Len(queue)
  /\ health \in {"ok", "down"} /\ forgiven \subseteq Room /\ sideways \in BOOLEAN
  /\ work \in [C!Worker -> WorkType(Len(queue))]

LEMMA SameCardinality == \A S : C!Cardinality(S) = Cardinality(S)
  BY Zenon DEF Cardinality, C!Cardinality

\* The rows a worker goes through are taken in order: the least is one of them.
LEMMA LeastIsOne ==
  ASSUME NEW S \in SUBSET Nat, IsFiniteSet(S), S # {}
  PROVE  C!Min(S) \in S
  <1>. DEFINE Low(x) == {y \in S : y <= x}
              T == {Low(x) : x \in S}
  <1>1. IsWellFoundedOn(StrictSubsetOrdering(S), SUBSET S)
    BY FS_StrictSubsetOrderingWellFounded, FS_FiniteSubsetsOfFinite
  <1>2. T \subseteq SUBSET S /\ T # {} OBVIOUS
  <1>3. \E A \in T : \A B \in T : ~ (<<B, A>> \in StrictSubsetOrdering(S))
    <2>. HIDE DEF T
    <2>. QED BY <1>1, <1>2, WFMin
  <1>4. PICK x \in S : \A B \in T : ~ (<<B, Low(x)>> \in StrictSubsetOrdering(S)) BY <1>3
  <1>5. ASSUME NEW y \in S PROVE x <= y
    <2>0. ~ (<<Low(y), Low(x)>> \in StrictSubsetOrdering(S)) BY <1>4
    <2>1. ~(Low(y) \subseteq Low(x) /\ Low(y) # Low(x)) BY <2>0 DEF StrictSubsetOrdering
    <2>. SUFFICES ASSUME y < x PROVE FALSE OBVIOUS
    <2>2. ASSUME NEW z \in Low(y) PROVE z \in Low(x)
      <3>1. z \in Nat /\ y \in Nat /\ x \in Nat /\ z <= y BY <2>2
      <3>. QED BY <3>1, <2>2
    <2>3. x \in Low(x) /\ x \notin Low(y) OBVIOUS
    <2>. QED BY <2>1, <2>2, <2>3
  <1>. QED BY <1>5 DEF C!Min

LEMMA WorkFields ==
  ASSUME NEW n, NEW w \in WorkType(n)
  PROVE  /\ w.at \in {"expire", "count"} => w \in [at : {"expire", "count"}, todo : SUBSET (1..n)]
         /\ w.at \in Walking => w \in [at : Walking, todo : Todo(n)]
         /\ w.at \in Ending => w \in [at : Ending, todo : Todo(n), heard : 0..2]
         /\ w.at = "recover" => w \in [at : {"recover"}, todo : Todo(n), reason : Reason \ {"none"}]
         /\ w.at \in {"expire", "count", "recover", "idle", "promote"} \union Walking \union Ending
  BY DEF WorkType, Walking, Ending

\* The row at hand is one of the table's.
LEMMA LeastRow ==
  ASSUME CollectionTypes, NEW p \in C!Worker, work[p].todo \subseteq 1..Len(queue), work[p].todo # {}
  PROVE  /\ C!RowOf(p) \in work[p].todo /\ C!RowOf(p) \in DOMAIN queue
         /\ queue[C!RowOf(p)] \in RowType
  <1>1. Len(queue) \in Nat /\ DOMAIN queue = 1..Len(queue) BY DEF CollectionTypes
  <1>2. 1..Len(queue) \subseteq Nat /\ IsFiniteSet(1..Len(queue)) BY <1>1, FS_Interval
  <1>3. work[p].todo \in SUBSET Nat /\ IsFiniteSet(work[p].todo) BY <1>2, FS_Subset
  <1>4. C!RowOf(p) \in work[p].todo BY <1>3, LeastIsOne DEF C!RowOf
  <1>. QED BY <1>1, <1>4 DEF CollectionTypes

LEMMA RowAtHand ==
  ASSUME CollectionTypes, NEW p \in C!Worker, work[p].at \in Walking \union Ending \union {"recover"}
  PROVE  /\ work[p].todo \in Todo(Len(queue))
         /\ C!RowOf(p) \in work[p].todo /\ C!RowOf(p) \in DOMAIN queue
         /\ queue[C!RowOf(p)] \in RowType
  <1>1. work[p].todo \in Todo(Len(queue)) BY WorkFields DEF CollectionTypes
  <1>2. work[p].todo \subseteq 1..Len(queue) /\ work[p].todo # {} BY <1>1 DEF Todo
  <1>. QED BY <1>1, <1>2, LeastRow

LEMMA WorkGrows ==
  ASSUME NEW m \in Nat, NEW n \in Nat, m <= n
  PROVE  WorkType(m) \subseteq WorkType(n)
  <1>1. 1..m \subseteq 1..n OBVIOUS
  <1>2. SUBSET (1..m) \subseteq SUBSET (1..n) /\ Todo(m) \subseteq Todo(n) BY <1>1 DEF Todo
  <1>. QED BY <1>2 DEF WorkType

\* What a worker may take up next.
LEMMA WorkMoves ==
  ASSUME NEW n \in Nat, NEW w \in WorkType(n)
  PROVE  /\ w.at = "count" /\ w.todo # {} => [w EXCEPT !.at = "send"] \in WorkType(n)
         /\ w.at \in Walking => \A s \in Walking : [w EXCEPT !.at = s] \in WorkType(n)
         /\ w.at \in Ending => \A s \in Ending : [w EXCEPT !.at = s] \in WorkType(n)
         /\ C!Idle \in WorkType(n) /\ [at |-> "promote"] \in WorkType(n)
         /\ \A s \in {"expire", "count"}, T \in SUBSET (1..n) : [at |-> s, todo |-> T] \in WorkType(n)
         /\ \A T \in Todo(n) :
              /\ \A s \in Walking : [at |-> s, todo |-> T] \in WorkType(n)
              /\ \A s \in Ending, h \in 0..2 : [at |-> s, todo |-> T, heard |-> h] \in WorkType(n)
              /\ \A r \in Reason \ {"none"} : [at |-> "recover", todo |-> T, reason |-> r] \in WorkType(n)
  <1>1. ASSUME w.at = "count", w.todo # {} PROVE [w EXCEPT !.at = "send"] \in WorkType(n)
    <2>1. w \in [at : {"expire", "count"}, todo : SUBSET (1..n)] BY <1>1, WorkFields
    <2>2. w.todo \in Todo(n) BY <1>1, <2>1 DEF Todo
    <2>3. [w EXCEPT !.at = "send"] = [at |-> "send", todo |-> w.todo] BY <2>1
    <2>. QED BY <2>2, <2>3 DEF WorkType, Walking
  <1>2. ASSUME w.at \in Walking, NEW s \in Walking PROVE [w EXCEPT !.at = s] \in WorkType(n)
    <2>1. w \in [at : Walking, todo : Todo(n)] BY <1>2, WorkFields
    <2>2. [w EXCEPT !.at = s] \in [at : Walking, todo : Todo(n)] BY <2>1, Zenon
    <2>. QED BY <2>2 DEF WorkType
  <1>3. ASSUME w.at \in Ending, NEW s \in Ending PROVE [w EXCEPT !.at = s] \in WorkType(n)
    <2>1. w \in [at : Ending, todo : Todo(n), heard : 0..2] BY <1>3, WorkFields
    <2>2. [w EXCEPT !.at = s] \in [at : Ending, todo : Todo(n), heard : 0..2] BY <2>1, Zenon
    <2>. QED BY <2>2 DEF WorkType
  <1>4. C!Idle \in WorkType(n) /\ [at |-> "promote"] \in WorkType(n) BY DEF WorkType, C!Idle
  <1>5. \A s \in {"expire", "count"}, T \in SUBSET (1..n) : [at |-> s, todo |-> T] \in WorkType(n) BY DEF WorkType
  <1>6. ASSUME NEW T \in Todo(n)
        PROVE  /\ \A s \in Walking : [at |-> s, todo |-> T] \in WorkType(n)
               /\ \A s \in Ending, h \in 0..2 : [at |-> s, todo |-> T, heard |-> h] \in WorkType(n)
               /\ \A r \in Reason \ {"none"} : [at |-> "recover", todo |-> T, reason |-> r] \in WorkType(n)
    BY DEF WorkType
  <1>. QED BY <1>1, <1>2, <1>3, <1>4, <1>5, <1>6

LEMMA Goes ==
  ASSUME CollectionTypes, NEW p \in C!Worker, NEW w \in WorkType(Len(queue')), C!Goto(p, w),
         Len(queue') \in Nat, Len(queue) <= Len(queue')
  PROVE  /\ work' \in [C!Worker -> WorkType(Len(queue'))]
         /\ \A q \in C!Worker : work'[q] = IF q = p THEN w ELSE work[q]
  <1>1. WorkType(Len(queue)) \subseteq WorkType(Len(queue'))
    BY WorkGrows DEF CollectionTypes
  <1>. QED BY <1>1 DEF CollectionTypes, C!Goto

\* What the writes to a row leave of it.
LEMMA RowWrites ==
  ASSUME NEW row \in RowType
  PROVE  /\ \A s \in RowStatus : /\ C!Moved(row, s) \in RowType
                                 /\ C!Moved(row, s).status = s
                                 /\ C!Moved(row, s).room = row.room /\ C!Moved(row, s).hit = row.hit
                                 /\ C!Moved(row, s).missed = row.missed
         /\ \A b \in BOOLEAN : [row EXCEPT !.hit = b] \in RowType
         /\ \A q \in {"no", "quiet", "ceiling"} : [row EXCEPT !.quiet = q] \in RowType
         /\ \A m \in {"no", "missed", "forgotten"} : [row EXCEPT !.missed = m] \in RowType
         /\ [row EXCEPT !.late = TRUE] \in RowType
         /\ C!Recorded(row) \in RowType /\ C!Recorded(row).status = "collecting"
         /\ C!Recorded(row).room = row.room /\ C!Recorded(row).missed = "no"
         /\ C!Forgotten(row) \in RowType /\ C!Forgotten(row).status = row.status
         /\ C!Forgotten(row).room = row.room /\ C!Forgotten(row).hit = row.hit
         /\ C!Forgotten(row).missed # "missed"
  <1>1. ASSUME NEW s \in RowStatus
        PROVE  /\ C!Moved(row, s) \in RowType
               /\ C!Moved(row, s).status = s
               /\ C!Moved(row, s).room = row.room /\ C!Moved(row, s).hit = row.hit
               /\ C!Moved(row, s).missed = row.missed
    <2>1. [row EXCEPT !.status = s] \in RowType BY Zenon DEF RowType
    <2>2. [row EXCEPT !.status = s, !.quiet = "no", !.late = FALSE, !.again = FALSE] \in RowType
      BY Zenon DEF RowType
    <2>3. C!Moved(row, s) \in RowType BY <2>1, <2>2, Zenon DEF C!Moved
    <2>4. C!Moved(row, s).status = s /\ C!Moved(row, s).room = row.room /\ C!Moved(row, s).missed = row.missed
      BY DEF C!Moved, RowType
    <2>5. C!Moved(row, s).hit = row.hit BY DEF C!Moved, RowType
    <2>. QED BY <2>3, <2>4, <2>5, Zenon
  <1>2. \A b \in BOOLEAN : [row EXCEPT !.hit = b] \in RowType BY Zenon DEF RowType
  <1>3. \A q \in {"no", "quiet", "ceiling"} : [row EXCEPT !.quiet = q] \in RowType BY Zenon DEF RowType
  <1>4. \A m \in {"no", "missed", "forgotten"} : [row EXCEPT !.missed = m] \in RowType BY Zenon DEF RowType
  <1>5. [row EXCEPT !.late = TRUE] \in RowType BY Zenon DEF RowType
  <1>6. C!Recorded(row) \in RowType BY Zenon DEF C!Recorded, RowType, RowStatus
  <1>7. /\ C!Recorded(row).status = "collecting" /\ C!Recorded(row).room = row.room
        /\ C!Recorded(row).missed = "no"
    BY DEF C!Recorded, RowType
  <1>8. C!Forgotten(row) \in RowType
    <2>1. C!Forgotten(row) = [row EXCEPT !.missed = IF row.missed = "missed" THEN "forgotten" ELSE row.missed]
      BY DEF C!Forgotten
    <2>2. (IF row.missed = "missed" THEN "forgotten" ELSE row.missed) \in {"no", "missed", "forgotten"}
      BY DEF RowType
    <2>. QED BY <1>4, <2>1, <2>2, Zenon
  <1>9. /\ C!Forgotten(row).status = row.status /\ C!Forgotten(row).room = row.room
        /\ C!Forgotten(row).missed # "missed"
    BY DEF C!Forgotten, RowType
  <1>10. C!Forgotten(row).hit = row.hit BY DEF C!Forgotten, RowType
  <1>. QED BY <1>1, <1>2, <1>3, <1>4, <1>5, <1>6, <1>7, <1>8, <1>9, <1>10, Zenon

\* A row that is asked for again owes nothing new to the recovery.
LEMMA ReusedRow ==
  ASSUME CollectionTypes, NEW row \in RowType
  PROVE  /\ C!Reused(row) \in RowType /\ C!Reused(row).status = row.status /\ C!Reused(row).room = row.room
         /\ row.status # "collecting" => C!Reused(row).hit = row.hit /\ C!Reused(row).missed = row.missed
         /\ row.status = "collecting" => health = "down" \/ C!Reused(row).missed # "missed"
  <1>1. CASE row.status # "collecting"
    <2>1. C!Reused(row) = [row EXCEPT !.again = TRUE, !.late = FALSE] BY <1>1 DEF C!Reused
    <2>. DEFINE r == [row EXCEPT !.again = TRUE, !.late = FALSE]
    <2>2. r \in RowType BY Zenon DEF RowType
    <2>3. r.status = row.status /\ r.room = row.room /\ r.missed = row.missed BY DEF RowType
    <2>4. r.hit = row.hit BY DEF RowType
    <2>. QED BY <1>1, <2>1, <2>2, <2>3, <2>4, Zenon
  <1>2. CASE row.status = "collecting"
    <2>1. PICK q \in {"no", "quiet"} :
            LET r == [row EXCEPT !.again = TRUE, !.hit = FALSE, !.quiet = q]
            IN  C!Reused(row) = IF health = "down" THEN r ELSE C!Forgotten(r)
      BY <1>2 DEF C!Reused
    <2>. DEFINE r == [row EXCEPT !.again = TRUE, !.hit = FALSE, !.quiet = q]
    <2>2. r \in RowType BY Zenon DEF RowType
    <2>3. r.status = row.status /\ r.room = row.room BY DEF RowType
    <2>4. C!Reused(row) = IF health = "down" THEN r ELSE C!Forgotten(r) BY <2>1
    <2>. HIDE DEF r
    <2>5. /\ C!Forgotten(r) \in RowType /\ C!Forgotten(r).status = r.status /\ C!Forgotten(r).room = r.room
          /\ C!Forgotten(r).missed # "missed"
      BY <2>2, RowWrites
    <2>. QED BY <1>2, <2>2, <2>3, <2>4, <2>5
  <1>. QED BY <1>1, <1>2

\* One row is written; the others stay.
LEMMA OneRow ==
  ASSUME CollectionTypes, NEW i \in DOMAIN queue, NEW row \in RowType, queue' = [queue EXCEPT ![i] = row]
  PROVE  /\ queue' \in Seq(RowType) /\ Len(queue') = Len(queue)
         /\ queue'[i] = row /\ \A j \in DOMAIN queue : j # i => queue'[j] = queue[j]
  BY DEF CollectionTypes

LEMMA StatusSet ==
  ASSUME CollectionTypes, NEW i \in DOMAIN queue, NEW s \in RowStatus, C!SetStatus(i, s)
  PROVE  /\ queue' \in Seq(RowType) /\ Len(queue') = Len(queue)
         /\ queue'[i].status = s /\ queue'[i].room = queue[i].room /\ queue'[i].hit = queue[i].hit
         /\ queue'[i].missed = queue[i].missed
         /\ \A j \in DOMAIN queue : j # i => queue'[j] = queue[j]
  <1>1. queue[i] \in RowType BY DEF CollectionTypes
  <1>2. queue' = [queue EXCEPT ![i] = C!Moved(queue[i], s)] BY DEF C!SetStatus
  <1>3. C!Moved(queue[i], s) \in RowType BY <1>1, RowWrites
  <1>4. /\ queue' \in Seq(RowType) /\ Len(queue') = Len(queue)
        /\ queue'[i] = C!Moved(queue[i], s) /\ \A j \in DOMAIN queue : j # i => queue'[j] = queue[j]
    BY <1>2, <1>3, OneRow
  <1>5. C!Moved(queue[i], s).status = s /\ C!Moved(queue[i], s).room = queue[i].room
    BY <1>1, RowWrites
  <1>6. C!Moved(queue[i], s).hit = queue[i].hit /\ C!Moved(queue[i], s).missed = queue[i].missed
    BY <1>1, RowWrites, Zenon
  <1>. QED BY <1>4, <1>5, <1>6, Zenon

LEMMA RoomsAreRooms ==
  ASSUME CollectionTypes, NEW p \in C!Worker, work[p].at \in Walking \union Ending \union {"recover"}
  PROVE  C!RoomOf(p) \in Room
  BY RowAtHand DEF C!RoomOf, RowType

LEMMA UpsetTypes ==
  ASSUME CollectionTypes, NEW rooms \in SUBSET Room, C!Upset(rooms) \/ UNCHANGED C!history
  PROVE  forgiven' \subseteq Room /\ sideways' \in BOOLEAN /\ sideways' = sideways /\ forgiven \subseteq forgiven'
  BY DEF CollectionTypes, C!Upset, C!history

\* What is left of the rows, or nothing.
LEMMA NextRowTypes ==
  ASSUME CollectionTypes, NEW p \in C!Worker, work[p].at \in Walking \union Ending \union {"recover"}, C!NextRow(p),
         Len(queue') = Len(queue)
  PROVE  /\ work' \in [C!Worker -> WorkType(Len(queue'))]
         /\ \A q \in C!Worker : q # p => work'[q] = work[q]
         /\ work'[p].at \in {"idle", "look"}
  <1>. DEFINE left == work[p].todo \ {C!RowOf(p)}
              w == IF left = {} THEN C!Idle ELSE [at |-> "look", todo |-> left]
  <1>1. work[p].todo \in Todo(Len(queue)) BY RowAtHand
  <1>2. Len(queue) \in Nat /\ work[p] \in WorkType(Len(queue)) BY DEF CollectionTypes
  <1>3. left # {} => left \in Todo(Len(queue)) BY <1>1 DEF Todo
  <1>4. w \in WorkType(Len(queue)) BY <1>2, <1>3, WorkMoves DEF Walking
  <1>5. w.at \in {"idle", "look"} BY DEF C!Idle
  <1>6. C!Goto(p, w) BY DEF C!NextRow
  <1>. HIDE DEF w
  <1>. QED BY <1>2, <1>4, <1>5, <1>6, Goes

LEMMA HandTypes ==
  ASSUME CollectionTypes, NEW p \in C!Worker, work[p].at \in Walking \union Ending, C!Hand(p, "silent_room") \/ C!Hand(p, "partial"),
         Len(queue') = Len(queue)
  PROVE  /\ work' \in [C!Worker -> WorkType(Len(queue'))]
         /\ \A q \in C!Worker : q # p => work'[q] = work[q]
         /\ work'[p].at = "recover" /\ work'[p].todo = work[p].todo
  <1>1. PICK r \in Reason \ {"none"} : C!Hand(p, r) BY DEF Reason
  <1>. DEFINE w == [at |-> "recover", todo |-> work[p].todo, reason |-> r]
  <1>2. Len(queue) \in Nat /\ work[p] \in WorkType(Len(queue)) BY DEF CollectionTypes
  <1>3. w \in WorkType(Len(queue)) BY <1>2, RowAtHand, WorkMoves
  <1>4. w.at = "recover" /\ w.todo = work[p].todo /\ C!Goto(p, w) BY <1>1 DEF C!Hand
  <1>. HIDE DEF w
  <1>. QED BY <1>2, <1>3, <1>4, Goes

\* The worker goes on at the same row.
LEMMA StepTypes ==
  ASSUME CollectionTypes, NEW p \in C!Worker, Len(queue') = Len(queue),
         NEW s \in Walking \union Ending, C!Goto(p, [work[p] EXCEPT !.at = s]),
         (work[p].at \in Walking /\ s \in Walking) \/ (work[p].at \in Ending /\ s \in Ending)
  PROVE  /\ work' \in [C!Worker -> WorkType(Len(queue'))]
         /\ \A q \in C!Worker : q # p => work'[q] = work[q]
         /\ work'[p].at = s /\ work'[p].todo = work[p].todo
  <1>1. Len(queue) \in Nat /\ work[p] \in WorkType(Len(queue)) BY DEF CollectionTypes
  <1>. DEFINE w == [work[p] EXCEPT !.at = s]
  <1>2. w \in WorkType(Len(queue)) /\ C!Goto(p, w) BY <1>1, WorkMoves
  <1>3. w.at = s /\ w.todo = work[p].todo BY <1>1, WorkFields
  <1>. HIDE DEF w
  <1>. QED BY <1>1, <1>2, <1>3, Goes

LEMMA StartTypes ==
  ASSUME CollectionTypes, NEW p \in C!Worker, NEW w \in WorkType(Len(queue')), C!Start(p, w),
         Len(queue') \in Nat, Len(queue) <= Len(queue')
  PROVE  /\ work' \in [C!Worker -> WorkType(Len(queue'))]
         /\ \A q \in C!Worker : work'[q] = IF q = p THEN w ELSE work[q]
         /\ sideways' \in BOOLEAN /\ work[p].at = "idle" /\ UNCHANGED <<bot, health, forgiven>>
         /\ ~sideways' => ~sideways /\ \A q \in C!Worker \ {p} : work[q].at = "idle"
  <1>1. C!Goto(p, w) /\ work[p].at = "idle" /\ UNCHANGED <<bot, health, forgiven>> BY DEF C!Start, C!At
  <1>2. sideways' = (sideways \/ \E q \in C!Worker \ {p} : ~C!At(q, "idle")) BY DEF C!Start
  <1>. QED BY <1>1, <1>2, Goes DEF C!At, CollectionTypes

\* A step of p: the table keeps its rows and their rooms, the others their work.
Kept(p) ==
  /\ Len(queue') = Len(queue)
  /\ \A j \in DOMAIN queue : queue'[j].room = queue[j].room
  /\ \A q \in C!Worker : q # p => work'[q] = work[q]
  /\ sideways' = sideways /\ forgiven \subseteq forgiven' /\ health' = health

LEMMA PromotionKeeps ==
  ASSUME CollectionTypes, NEW p \in C!Worker, C!ListQueued(p) \/ C!Expire(p) \/ C!ListAgain(p) \/ C!Count(p)
  PROVE  CollectionTypes' /\ Kept(p)
  <1>0. Len(queue) \in Nat /\ DOMAIN queue = 1..Len(queue) /\ work[p] \in WorkType(Len(queue))
    BY DEF CollectionTypes
  <1>1. CASE C!Expire(p)
    <2>1. work[p] \in [at : {"expire", "count"}, todo : SUBSET (1..Len(queue))] BY <1>0, <1>1, WorkFields DEF C!Expire, C!At
    <2>2. C!RowOf(p) \in DOMAIN queue BY <1>1, <2>1, LeastRow DEF C!Expire
    <2>3. C!SetStatus(C!RowOf(p), "failed") /\ "failed" \in RowStatus BY <1>1 DEF C!Expire, RowStatus
    <2>4. queue' \in Seq(RowType) /\ Len(queue') = Len(queue) /\ \A j \in DOMAIN queue : queue'[j].room = queue[j].room
      BY <2>2, <2>3, StatusSet
    <2>5. C!Goto(p, [work[p] EXCEPT !.todo = work[p].todo \ {C!RowOf(p)}]) BY <1>1 DEF C!Expire
    <2>6. [work[p] EXCEPT !.todo = work[p].todo \ {C!RowOf(p)}] \in WorkType(Len(queue))
      <3>1. work[p].todo \ {C!RowOf(p)} \in SUBSET (1..Len(queue)) BY <2>1
      <3>2. [work[p] EXCEPT !.todo = work[p].todo \ {C!RowOf(p)}] \in [at : {"expire", "count"}, todo : SUBSET (1..Len(queue))]
        BY <2>1, <3>1, Zenon
      <3>. QED BY <3>2 DEF WorkType
    <2>7. /\ work' \in [C!Worker -> WorkType(Len(queue'))]
          /\ \A q \in C!Worker : q # p => work'[q] = work[q]
      BY <1>0, <2>4, <2>5, <2>6, Goes
    <2>8. UNCHANGED <<bot, handed, health, forgiven, sideways>> BY <1>1 DEF C!Expire, C!history
    <2>. QED BY <2>4, <2>7, <2>8 DEF CollectionTypes, Kept
  <1>3. CASE C!ListQueued(p) \/ C!ListAgain(p)
    <2>1. \E s \in {"expire", "count"}, T \in SUBSET (1..Len(queue)) : C!Goto(p, [at |-> s, todo |-> T])
      BY <1>0, <1>3 DEF C!ListQueued, C!ListAgain, C!WithStatus
    <2>2. \E w \in WorkType(Len(queue)) : C!Goto(p, w) BY <1>0, <2>1, WorkMoves
    <2>3. UNCHANGED <<queue, bot, handed, health, forgiven, sideways>>
      BY <1>3 DEF C!ListQueued, C!ListAgain, C!history
    <2>4. /\ work' \in [C!Worker -> WorkType(Len(queue'))]
          /\ \A q \in C!Worker : q # p => work'[q] = work[q]
      BY <1>0, <2>2, <2>3, Goes
    <2>. QED BY <2>3, <2>4 DEF CollectionTypes, Kept
  <1>2. CASE C!Count(p)
    <2>1. \E w \in WorkType(Len(queue)) : C!Goto(p, w)
      <3>1. CASE work[p].todo # {} /\ C!FreePlace
        BY <1>0, <1>2, <3>1, WorkMoves DEF C!Count, C!At
      <3>2. CASE ~(work[p].todo # {} /\ C!FreePlace)
        <4>1. C!WithStatus(C!Active) # {} => C!WithStatus(C!Active) \in Todo(Len(queue))
          BY <1>0 DEF C!WithStatus, Todo
        <4>2. C!Promoted(p) BY <1>2, <3>2 DEF C!Count
        <4>. QED BY <1>0, <4>1, <4>2, WorkMoves DEF C!Promoted, Walking
      <3>. QED BY <3>1, <3>2
    <2>2. UNCHANGED <<queue, bot, handed, health, forgiven, sideways>> BY <1>2 DEF C!Count, C!history
    <2>3. /\ work' \in [C!Worker -> WorkType(Len(queue'))]
          /\ \A q \in C!Worker : q # p => work'[q] = work[q]
      BY <1>0, <2>1, <2>2, Goes
    <2>. QED BY <2>2, <2>3 DEF CollectionTypes, Kept
  <1>. QED BY <1>1, <1>2, <1>3

LEMMA BotKeeps ==
  ASSUME CollectionTypes, NEW p \in C!Worker, C!SendBot(p) \/ C!RecordBot(p)
  PROVE  CollectionTypes' /\ Kept(p)
  <1>0. Len(queue) \in Nat /\ DOMAIN queue = 1..Len(queue) /\ work[p] \in WorkType(Len(queue))
    BY DEF CollectionTypes
  <1>1. CASE C!SendBot(p)
    <2>1. work[p].at \in Walking BY <1>1 DEF C!SendBot, C!At, Walking
    <2>2. UNCHANGED <<queue, handed, health>> BY <1>1 DEF C!SendBot
    <2>3. \E s \in Walking : C!Goto(p, [work[p] EXCEPT !.at = s])
      BY <1>1 DEF C!SendBot, Walking
    <2>4. /\ work' \in [C!Worker -> WorkType(Len(queue'))]
          /\ \A q \in C!Worker : q # p => work'[q] = work[q]
      BY <2>1, <2>2, <2>3, StepTypes
    <2>5. \/ \E R \in {{}, {C!RoomOf(p)}} : C!Upset(R)
          \/ UNCHANGED C!history
      BY <1>1 DEF C!SendBot
    <2>6. forgiven' \subseteq Room /\ sideways' \in BOOLEAN /\ sideways' = sideways /\ forgiven \subseteq forgiven'
      <3>1. {} \in SUBSET Room /\ {C!RoomOf(p)} \in SUBSET Room BY <2>1, RoomsAreRooms
      <3>. QED BY <2>5, <3>1, UpsetTypes
    <2>7. bot' \in [Room -> BotType]
      <3>1. [C!NoBot EXCEPT !.status = "active"] \in BotType BY DEF C!NoBot, BotType
      <3>2. bot' = bot \/ bot' = [bot EXCEPT ![C!RoomOf(p)] = [C!NoBot EXCEPT !.status = "active"]]
        BY <1>1 DEF C!SendBot
      <3>. QED BY <3>1, <3>2 DEF CollectionTypes
    <2>. QED BY <2>2, <2>4, <2>6, <2>7 DEF CollectionTypes, Kept
  <1>2. CASE C!RecordBot(p)
    <2>1. work[p].at \in Walking BY <1>2 DEF C!RecordBot, C!At, Walking
    <2>. DEFINE i == C!RowOf(p)
                left == work[p].todo \ {i}
    <2>2. i \in DOMAIN queue /\ queue[i] \in RowType /\ work[p].todo \in Todo(Len(queue)) BY <2>1, RowAtHand
    <2>3. queue' \in Seq(RowType) /\ Len(queue') = Len(queue) /\ \A j \in DOMAIN queue : queue'[j].room = queue[j].room
      <3>1. CASE C!SetStatus(i, "failed")
        BY <2>2, <3>1, StatusSet DEF RowStatus
      <3>2. CASE queue' = [queue EXCEPT ![i] = C!Recorded(queue[i])]
        <4>1. C!Recorded(queue[i]) \in RowType /\ C!Recorded(queue[i]).room = queue[i].room BY <2>2, RowWrites
        <4>. HIDE DEF i
        <4>. QED BY <2>2, <3>2, <4>1, OneRow
      <3>3. C!SetStatus(i, "failed") \/ queue' = [queue EXCEPT ![i] = C!Recorded(queue[i])]
        BY <1>2 DEF C!RecordBot
      <3>. QED BY <3>1, <3>2, <3>3
    <2>4. left \in SUBSET (1..Len(queue)) BY <2>2 DEF Todo
    <2>5. [at |-> "count", todo |-> left] \in WorkType(Len(queue)) BY <1>0, <2>4, WorkMoves
    <2>6. C!Goto(p, [at |-> "count", todo |-> left]) BY <1>2 DEF C!RecordBot
    <2>7. /\ work' \in [C!Worker -> WorkType(Len(queue'))]
          /\ \A q \in C!Worker : q # p => work'[q] = work[q]
      <3>. HIDE DEF left
      <3>. QED BY <1>0, <2>3, <2>5, <2>6, Goes
    <2>8. UNCHANGED <<bot, handed, health, forgiven, sideways>> BY <1>2 DEF C!RecordBot, C!history
    <2>. QED BY <2>3, <2>7, <2>8 DEF CollectionTypes, Kept
  <1>. QED BY <1>1, <1>2

LEMMA ReadingKeeps ==
  ASSUME CollectionTypes, NEW p \in C!Worker, C!Look(p) \/ C!ReadForRequest(p)
  PROVE  CollectionTypes' /\ Kept(p)
  <1>0. /\ Len(queue) \in Nat /\ work[p] \in WorkType(Len(queue)) /\ work[p].at \in Walking
        /\ UNCHANGED <<queue, bot, handed, health>>
    <2>1. work[p].at \in {"look", "read"} /\ UNCHANGED <<queue, bot, handed, health>>
      BY Zenon DEF C!Look, C!ReadForRequest, C!At
    <2>. QED BY <2>1 DEF CollectionTypes, Walking
  <1>1. work[p].todo \in Todo(Len(queue)) /\ C!RoomOf(p) \in Room BY <1>0, RowAtHand, RoomsAreRooms
  <1>2. bot[C!RoomOf(p)].heard \in 0..2 BY <1>1 DEF CollectionTypes, BotType
  <1>3. C!Upset({}) \/ UNCHANGED C!history BY DEF C!Look, C!ReadForRequest
  <1>4. forgiven' \subseteq Room /\ sideways' \in BOOLEAN /\ sideways' = sideways /\ forgiven \subseteq forgiven'
    <2>1. {} \in SUBSET Room OBVIOUS
    <2>. QED BY <1>3, <2>1, UpsetTypes
  <1>5. \/ C!NextRow(p)
        \/ \E s \in Ending : C!Goto(p, [at |-> s, todo |-> work[p].todo, heard |-> bot[C!RoomOf(p)].heard])
        \/ C!Goto(p, [work[p] EXCEPT !.at = "cancel"])
    BY DEF C!Look, C!Judged, C!ReadForRequest, C!Verdict, Ending
  <1>6. /\ work' \in [C!Worker -> WorkType(Len(queue'))]
        /\ \A q \in C!Worker : q # p => work'[q] = work[q]
    <2>1. CASE C!NextRow(p) BY <1>0, <2>1, NextRowTypes
    <2>2. CASE C!Goto(p, [work[p] EXCEPT !.at = "cancel"])
      BY <1>0, <2>2, StepTypes DEF Walking
    <2>3. ASSUME NEW s \in Ending, C!Goto(p, [at |-> s, todo |-> work[p].todo, heard |-> bot[C!RoomOf(p)].heard])
          PROVE  /\ work' \in [C!Worker -> WorkType(Len(queue'))]
                 /\ \A q \in C!Worker : q # p => work'[q] = work[q]
      <3>1. [at |-> s, todo |-> work[p].todo, heard |-> bot[C!RoomOf(p)].heard] \in WorkType(Len(queue))
        BY <1>0, <1>1, <1>2, WorkMoves
      <3>. QED BY <1>0, <2>3, <3>1, Goes
    <2>. QED BY <1>5, <2>1, <2>2, <2>3
  <1>. QED BY <1>0, <1>4, <1>6 DEF CollectionTypes, Kept

LEMMA StoppingKeeps ==
  ASSUME CollectionTypes, NEW p \in C!Worker, C!StopBot(p) \/ C!StopForRequest(p)
  PROVE  CollectionTypes' /\ Kept(p)
  <1>0. /\ Len(queue) \in Nat /\ work[p] \in WorkType(Len(queue)) /\ work[p].at \in Walking \union Ending
        /\ UNCHANGED <<queue, handed, health>>
    BY DEF CollectionTypes, C!StopBot, C!StopForRequest, C!Stopped, C!At, Walking, Ending
  <1>1. C!RoomOf(p) \in Room BY <1>0, RoomsAreRooms
  <1>2. C!Upset({C!RoomOf(p)}) \/ UNCHANGED C!history BY DEF C!StopBot, C!StopForRequest, C!Stopped
  <1>3. forgiven' \subseteq Room /\ sideways' \in BOOLEAN /\ sideways' = sideways /\ forgiven \subseteq forgiven'
    <2>1. {C!RoomOf(p)} \in SUBSET Room BY <1>1
    <2>. QED BY <1>2, <2>1, UpsetTypes
  <1>4. bot' \in [Room -> BotType]
    <2>1. \A b \in BotType, s \in {"none", "active", "completed", "failed"} : [b EXCEPT !.status = s] \in BotType
      BY DEF BotType
    <2>2. bot[C!RoomOf(p)] \in BotType BY <1>1 DEF CollectionTypes
    <2>3. bot[C!RoomOf(p)].status \in {"none", "active", "completed", "failed"} BY <2>2 DEF BotType
    <2>4. bot' = bot \/ bot' = [bot EXCEPT ![C!RoomOf(p)] = [bot[C!RoomOf(p)] EXCEPT !.status =
                IF bot[C!RoomOf(p)].status = "active" THEN "completed" ELSE bot[C!RoomOf(p)].status]]
      BY DEF C!StopBot, C!StopForRequest, C!Stopped
    <2>. QED BY <2>1, <2>2, <2>3, <2>4 DEF CollectionTypes
  <1>5. \E s \in Walking \union Ending :
          /\ C!Goto(p, [work[p] EXCEPT !.at = s])
          /\ (work[p].at \in Walking /\ s \in Walking) \/ (work[p].at \in Ending /\ s \in Ending)
    BY DEF C!StopBot, C!StopForRequest, C!Stopped, C!At, Walking, Ending
  <1>6. /\ work' \in [C!Worker -> WorkType(Len(queue'))]
        /\ \A q \in C!Worker : q # p => work'[q] = work[q]
    BY <1>0, <1>5, StepTypes
  <1>. QED BY <1>0, <1>3, <1>4, <1>6 DEF CollectionTypes, Kept

LEMMA EndingKeeps ==
  ASSUME CollectionTypes, NEW p \in C!Worker,
         C!FailRow(p) \/ C!Silence(p) \/ C!Import(p) \/ C!CancelRow(p) \/ C!MarkStopping(p)
  PROVE  CollectionTypes' /\ Kept(p)
  <1>0. /\ Len(queue) \in Nat /\ work[p].at \in Walking \union Ending
        /\ UNCHANGED <<bot, handed, health>>
    BY DEF CollectionTypes, C!FailRow, C!Silence, C!Import, C!CancelRow, C!MarkStopping, C!At, Walking, Ending
  <1>1. C!RowOf(p) \in DOMAIN queue /\ C!RoomOf(p) \in Room BY <1>0, RowAtHand, RoomsAreRooms
  <1>2. UNCHANGED queue \/ \E s \in RowStatus : C!SetStatus(C!RowOf(p), s)
    BY DEF C!FailRow, C!Silence, C!Import, C!CancelRow, C!MarkStopping, RowStatus
  <1>3. queue' \in Seq(RowType) /\ Len(queue') = Len(queue) /\ \A j \in DOMAIN queue : queue'[j].room = queue[j].room
    <2>1. CASE UNCHANGED queue BY <2>1 DEF CollectionTypes
    <2>2. ASSUME NEW s \in RowStatus, C!SetStatus(C!RowOf(p), s)
          PROVE  queue' \in Seq(RowType) /\ Len(queue') = Len(queue) /\ \A j \in DOMAIN queue : queue'[j].room = queue[j].room
      BY <1>1, <2>2, StatusSet
    <2>. QED BY <1>2, <2>1, <2>2
  <1>4. forgiven' \subseteq Room /\ sideways' \in BOOLEAN /\ sideways' = sideways /\ forgiven \subseteq forgiven'
    <2>1. {} \in SUBSET Room /\ {C!RoomOf(p)} \in SUBSET Room BY <1>1
    <2>2. C!Upset({}) \/ C!Upset({C!RoomOf(p)}) \/ UNCHANGED C!history
      BY DEF C!FailRow, C!Silence, C!Import, C!CancelRow, C!MarkStopping
    <2>. QED BY <2>1, <2>2, UpsetTypes
  <1>5. C!NextRow(p) \/ C!Hand(p, "silent_room") \/ C!Hand(p, "partial")
          \/ (work[p].at \in Walking /\ C!Goto(p, [work[p] EXCEPT !.at = "stopBot"]))
    BY DEF C!FailRow, C!Silence, C!Import, C!CancelRow, C!MarkStopping, C!At, Walking
  <1>6. /\ work' \in [C!Worker -> WorkType(Len(queue'))]
        /\ \A q \in C!Worker : q # p => work'[q] = work[q]
    <2>1. "stopBot" \in Walking BY DEF Walking
    <2>. QED BY <1>0, <1>3, <1>5, <2>1, NextRowTypes, HandTypes, StepTypes
  <1>. QED BY <1>0, <1>3, <1>4, <1>6 DEF CollectionTypes, Kept

LEMMA RecoveryKeeps ==
  ASSUME CollectionTypes, NEW p \in C!Worker, C!EnqueueRecovery(p) \/ C!Crash(p)
  PROVE  CollectionTypes' /\ Kept(p)
  <1>0. Len(queue) \in Nat /\ work[p] \in WorkType(Len(queue)) /\ UNCHANGED <<queue, bot, health>>
    BY DEF CollectionTypes, C!EnqueueRecovery, C!Crash
  <1>1. CASE C!EnqueueRecovery(p)
    <2>1. work[p].at = "recover" BY <1>1 DEF C!EnqueueRecovery, C!At
    <2>2. C!RowOf(p) \in DOMAIN queue /\ C!RoomOf(p) \in Room BY <2>1, RowAtHand, RoomsAreRooms
    <2>3. work[p].reason \in Reason BY <1>0, <2>1, WorkFields
    <2>4. handed' \in Seq(Reason) /\ Len(handed') = Len(queue)
      <3>1. UNCHANGED handed \/
              handed' = [handed EXCEPT ![C!RowOf(p)] = IF handed[C!RowOf(p)] = "none" THEN work[p].reason
                                                      ELSE handed[C!RowOf(p)]]
        BY <1>1 DEF C!EnqueueRecovery
      <3>2. handed \in Seq(Reason) /\ Len(handed) = Len(queue) /\ C!RowOf(p) \in DOMAIN handed
        BY <2>2 DEF CollectionTypes
      <3>3. handed[C!RowOf(p)] \in Reason BY <3>2
      <3>. QED BY <2>3, <3>1, <3>2, <3>3
    <2>5. forgiven' \subseteq Room /\ sideways' \in BOOLEAN /\ sideways' = sideways /\ forgiven \subseteq forgiven'
      <3>1. {C!RoomOf(p)} \in SUBSET Room BY <2>2
      <3>2. C!Upset({C!RoomOf(p)}) \/ UNCHANGED C!history BY <1>1 DEF C!EnqueueRecovery
      <3>. QED BY <3>1, <3>2, UpsetTypes
    <2>6. /\ work' \in [C!Worker -> WorkType(Len(queue'))]
          /\ \A q \in C!Worker : q # p => work'[q] = work[q]
      BY <1>0, <1>1, <2>1, NextRowTypes DEF C!EnqueueRecovery
    <2>. QED BY <1>0, <2>4, <2>5, <2>6 DEF CollectionTypes, Kept
  <1>2. CASE C!Crash(p)
    <2>. DEFINE lost == IF work[p].at \in {"sent", "recover"} THEN {C!RoomOf(p)} ELSE {}
    <2>1. lost \in SUBSET Room BY RoomsAreRooms DEF Walking
    <2>2. C!Upset(lost) BY <1>2 DEF C!Crash
    <2>3. forgiven' \subseteq Room /\ sideways' \in BOOLEAN /\ sideways' = sideways /\ forgiven \subseteq forgiven'
      <3>. HIDE DEF lost
      <3>. QED BY <2>1, <2>2, UpsetTypes
    <2>4. C!Goto(p, C!Idle) /\ C!Idle \in WorkType(Len(queue)) /\ UNCHANGED handed
      BY <1>0, <1>2, WorkMoves DEF C!Crash
    <2>5. /\ work' \in [C!Worker -> WorkType(Len(queue'))]
          /\ \A q \in C!Worker : q # p => work'[q] = work[q]
      BY <1>0, <2>4, Goes
    <2>. QED BY <1>0, <2>3, <2>4, <2>5 DEF CollectionTypes, Kept
  <1>. QED BY <1>1, <1>2

\* What of a row decides whether the recovery is owed it: it was written off, or
\* somebody spoke in vain and the row's account no longer counts as affected.
WrittenOff(i) ==
  queue[i].status \in {"silent", "canceled"} \/ (queue[i].status = "imported" /\ queue[i].missed = "missed")
Unheard(i) == queue[i].missed = "missed" /\ ~queue[i].hit /\ health # "down"
Owed(i) == WrittenOff(i) \/ Unheard(i)

\* What begins work leaves the rows there are, but for their limits.
Begun(p) ==
  /\ Len(queue) <= Len(queue')
  /\ \A j \in DOMAIN queue : /\ queue'[j].room = queue[j].room /\ queue'[j].status = queue[j].status
                             /\ Owed(j)' => Owed(j)
                             /\ handed'[j] = handed[j]
  /\ \A j \in DOMAIN queue' \ DOMAIN queue : ~Owed(j)' /\ queue'[j].status = "queued"
  /\ UNCHANGED <<bot, forgiven>>
  /\ \A q \in C!Worker : q # p => work'[q] = work[q]
  /\ work[p].at = "idle" /\ work'[p].at \in {"promote", "stopping"}
  /\ work'[p].at = "stopping" => C!RowOf(p)' \in DOMAIN queue /\ queue[C!RowOf(p)'].status \in C!Active
  /\ ~sideways' => ~sideways /\ \A q \in C!Worker \ {p} : work[q].at = "idle"

LEMMA StartKeeps ==
  ASSUME CollectionTypes, NEW p \in C!Worker,
         \/ \E r \in Room : C!Collect(p, r)
         \/ C!StartTick(p)
         \/ \E i \in DOMAIN queue : C!RequestStop(p, i)
  PROVE  CollectionTypes' /\ Begun(p)
  <1>0. Len(queue) \in Nat /\ DOMAIN queue = 1..Len(queue) /\ work[p] \in WorkType(Len(queue))
    BY DEF CollectionTypes
  <1>1. CASE \E i \in DOMAIN queue : C!RequestStop(p, i)
    <2>1. PICK i \in DOMAIN queue : C!RequestStop(p, i) BY <1>1
    <2>. DEFINE w == [at |-> "stopping", todo |-> {i}]
    <2>2. C!Start(p, w) /\ queue[i].status \in C!Active /\ UNCHANGED <<queue, handed>>
      BY <2>1 DEF C!RequestStop
    <2>3. {i} \in Todo(Len(queue)) BY <1>0 DEF Todo
    <2>4. w \in WorkType(Len(queue')) /\ w.at = "stopping" /\ w.todo = {i}
      BY <1>0, <2>2, <2>3, WorkMoves DEF Walking
    <2>. HIDE DEF w
    <2>5. /\ work' \in [C!Worker -> WorkType(Len(queue'))]
          /\ \A q \in C!Worker : work'[q] = IF q = p THEN w ELSE work[q]
          /\ sideways' \in BOOLEAN /\ work[p].at = "idle" /\ UNCHANGED <<bot, health, forgiven>>
          /\ ~sideways' => ~sideways /\ \A q \in C!Worker \ {p} : work[q].at = "idle"
      BY <1>0, <2>2, <2>4, StartTypes
    <2>6. C!RowOf(p)' = i
      <3>1. {i} \in SUBSET Nat /\ {i} # {} BY <1>0
      <3>3. IsFiniteSet({i}) BY FS_Singleton
      <3>2. C!Min({i}) = i BY <3>1, <3>3, LeastIsOne
      <3>. QED BY <2>4, <2>5, <3>2 DEF C!RowOf
    <2>7. \A j \in DOMAIN queue : Owed(j)' => Owed(j) BY <2>2, <2>5 DEF Owed, WrittenOff, Unheard
    <2>. QED BY <1>0, <2>2, <2>4, <2>5, <2>6, <2>7 DEF CollectionTypes, Begun
  <1>2. CASE C!StartTick(p)
    <2>. DEFINE w == [at |-> "promote"]
    <2>1. C!Start(p, w) /\ UNCHANGED <<queue, handed>> BY <1>2 DEF C!StartTick
    <2>2. w \in WorkType(Len(queue')) /\ w.at = "promote" BY <1>0, <2>1, WorkMoves
    <2>. HIDE DEF w
    <2>3. /\ work' \in [C!Worker -> WorkType(Len(queue'))]
          /\ \A q \in C!Worker : work'[q] = IF q = p THEN w ELSE work[q]
          /\ sideways' \in BOOLEAN /\ work[p].at = "idle" /\ UNCHANGED <<bot, health, forgiven>>
          /\ ~sideways' => ~sideways /\ \A q \in C!Worker \ {p} : work[q].at = "idle"
      BY <1>0, <2>1, <2>2, StartTypes
    <2>4. \A j \in DOMAIN queue : Owed(j)' => Owed(j) BY <2>1, <2>3 DEF Owed, WrittenOff, Unheard
    <2>. QED BY <1>0, <2>1, <2>2, <2>3, <2>4 DEF CollectionTypes, Begun
  <1>3. CASE \E r \in Room : C!Collect(p, r)
    <2>1. PICK r \in Room : C!Collect(p, r) BY <1>3
    <2>. DEFINE w == [at |-> "promote"]
                new == [room |-> r, status |-> "queued", late |-> FALSE, quiet |-> "no", hit |-> FALSE,
                        missed |-> "no", again |-> FALSE]
    <2>2. /\ queue' \in Seq(RowType) /\ handed' \in Seq(Reason) /\ Len(handed') = Len(queue')
          /\ Len(queue) <= Len(queue')
          /\ \A j \in DOMAIN queue : /\ queue'[j].room = queue[j].room /\ queue'[j].status = queue[j].status
                                     /\ handed'[j] = handed[j]
                                     /\ \/ queue'[j].hit = queue[j].hit /\ queue'[j].missed = queue[j].missed
                                        \/ /\ queue[j].status = "collecting"
                                           /\ health = "down" \/ queue'[j].missed # "missed"
          /\ \A j \in DOMAIN queue' \ DOMAIN queue : queue'[j].status = "queued" /\ queue'[j].missed = "no"
      <3>1. CASE C!Reusable(r) # {}
        <4>. DEFINE i == C!Min(C!Reusable(r))
        <4>1. C!Reusable(r) \subseteq 1..Len(queue) BY <1>0 DEF C!Reusable, C!WithStatus
        <4>2. 1..Len(queue) \subseteq Nat /\ IsFiniteSet(1..Len(queue)) BY <1>0, FS_Interval
        <4>3. IsFiniteSet(C!Reusable(r)) BY <4>1, <4>2, FS_Subset
        <4>4. i \in DOMAIN queue BY <1>0, <3>1, <4>1, <4>2, <4>3, LeastIsOne
        <4>5. queue[i] \in RowType BY <4>4 DEF CollectionTypes
        <4>6. queue' = [queue EXCEPT ![i] = C!Reused(queue[i])] /\ UNCHANGED handed
          BY <2>1, <3>1 DEF C!Collect
        <4>7. /\ C!Reused(queue[i]) \in RowType /\ C!Reused(queue[i]).status = queue[i].status
              /\ C!Reused(queue[i]).room = queue[i].room
          BY <4>5, ReusedRow
        <4>8. \/ C!Reused(queue[i]).hit = queue[i].hit /\ C!Reused(queue[i]).missed = queue[i].missed
              \/ /\ queue[i].status = "collecting"
                 /\ health = "down" \/ C!Reused(queue[i]).missed # "missed"
          BY <4>5, ReusedRow, Zenon
        <4>. HIDE DEF i
        <4>9. /\ queue' \in Seq(RowType) /\ Len(queue') = Len(queue)
              /\ queue'[i] = C!Reused(queue[i]) /\ \A j \in DOMAIN queue : j # i => queue'[j] = queue[j]
          BY <4>4, <4>6, <4>7, OneRow
        <4>10. \A j \in DOMAIN queue :
                 \/ queue'[j].hit = queue[j].hit /\ queue'[j].missed = queue[j].missed
                 \/ /\ queue[j].status = "collecting"
                    /\ health = "down" \/ queue'[j].missed # "missed"
          BY <4>8, <4>9, Zenon
        <4>11. Len(handed') = Len(queue') /\ Len(queue) <= Len(queue') /\ handed' \in Seq(Reason)
          BY <1>0, <4>6, <4>9 DEF CollectionTypes
        <4>12. \A j \in DOMAIN queue : queue'[j].room = queue[j].room /\ queue'[j].status = queue[j].status
          BY <4>7, <4>9
        <4>13. DOMAIN queue' = DOMAIN queue BY <4>6
        <4>. QED BY <4>6, <4>9, <4>10, <4>11, <4>12, <4>13, Zenon
      <3>2. CASE C!Reusable(r) = {}
        <4>1. new \in RowType /\ new.status = "queued" /\ new.missed = "no" BY DEF RowType, RowStatus
        <4>2. queue' = Append(queue, new) /\ handed' = Append(handed, "none")
          BY <2>1, <3>2 DEF C!Collect
        <4>3. "none" \in Reason BY DEF Reason
        <4>. HIDE DEF new
        <4>4. /\ queue' \in Seq(RowType) /\ Len(queue') = Len(queue) + 1
              /\ \A j \in DOMAIN queue : queue'[j] = queue[j]
              /\ queue'[Len(queue) + 1] = new
          BY <4>1, <4>2 DEF CollectionTypes
        <4>5. /\ handed' \in Seq(Reason) /\ Len(handed') = Len(handed) + 1
              /\ \A j \in DOMAIN handed : handed'[j] = handed[j]
          BY <4>2, <4>3 DEF CollectionTypes
        <4>6. DOMAIN handed = DOMAIN queue /\ Len(handed) = Len(queue) BY DEF CollectionTypes
        <4>7. DOMAIN queue' = 1..(Len(queue) + 1) BY <4>4
        <4>8. DOMAIN queue' \ DOMAIN queue = {Len(queue) + 1} BY <1>0, <4>7
        <4>9. Len(handed') = Len(queue') /\ Len(queue) <= Len(queue') BY <1>0, <4>4, <4>5, <4>6
        <4>10. \A j \in DOMAIN queue : queue'[j] = queue[j] /\ handed'[j] = handed[j] BY <4>4, <4>5, <4>6
        <4>11. \A j \in DOMAIN queue' \ DOMAIN queue : queue'[j].status = "queued" /\ queue'[j].missed = "no"
          BY <4>1, <4>4, <4>8
        <4>. QED BY <4>4, <4>5, <4>9, <4>10, <4>11, Zenon
      <3>. QED BY <3>1, <3>2
    <2>3. C!Start(p, w) BY <2>1 DEF C!Collect
    <2>4. Len(queue') \in Nat BY <2>2
    <2>5. w \in WorkType(Len(queue')) /\ w.at = "promote" BY <2>4 DEF WorkType
    <2>. HIDE DEF w
    <2>6. /\ work' \in [C!Worker -> WorkType(Len(queue'))]
          /\ \A q \in C!Worker : work'[q] = IF q = p THEN w ELSE work[q]
          /\ sideways' \in BOOLEAN /\ work[p].at = "idle" /\ UNCHANGED <<bot, health, forgiven>>
          /\ ~sideways' => ~sideways /\ \A q \in C!Worker \ {p} : work[q].at = "idle"
      BY <2>2, <2>3, <2>4, <2>5, StartTypes
    <2>7. CollectionTypes' BY <2>2, <2>6 DEF CollectionTypes
    <2>8. work'[p].at = "promote" /\ \A q \in C!Worker : q # p => work'[q] = work[q] BY <2>5, <2>6
    <2>9. ASSUME NEW j \in DOMAIN queue PROVE Owed(j)' => Owed(j)
      <3>1. queue'[j].status = queue[j].status /\ health' = health BY <2>2, <2>6
      <3>2. CASE queue'[j].hit = queue[j].hit /\ queue'[j].missed = queue[j].missed
        BY <3>1, <3>2, Zenon DEF Owed, WrittenOff, Unheard
      <3>3. CASE queue[j].status = "collecting" /\ (health = "down" \/ queue'[j].missed # "missed")
        BY <3>1, <3>3 DEF Owed, WrittenOff, Unheard
      <3>. QED BY <2>2, <3>2, <3>3
    <2>10. \A j \in DOMAIN queue' \ DOMAIN queue : ~Owed(j)' BY <2>2 DEF Owed, WrittenOff, Unheard
    <2>. QED BY <2>2, <2>6, <2>7, <2>8, <2>9, <2>10, Zenon DEF Begun
  <1>. QED BY <1>1, <1>2, <1>3

\* Meetings, clocks and the account move no row and bring no bot in.
Around ==
  /\ UNCHANGED <<work, sideways, handed>> /\ forgiven \subseteq forgiven'
  /\ Len(queue') = Len(queue)
  /\ \A j \in DOMAIN queue : /\ queue'[j].room = queue[j].room /\ queue'[j].status = queue[j].status
                             /\ Owed(j)' => Owed(j)
  /\ \A r \in Room : bot'[r].status = "active" => bot[r].status = "active"

\* Every row is written anew, its room and its status kept.
LEMMA RowsRewritten ==
  ASSUME CollectionTypes, queue' = [i \in DOMAIN queue |-> queue'[i]],
         \A i \in DOMAIN queue :
           /\ queue'[i] \in RowType /\ queue'[i].room = queue[i].room /\ queue'[i].status = queue[i].status
           /\ \/ queue'[i].hit = queue[i].hit /\ queue'[i].missed = queue[i].missed /\ health' = health
              \/ health' = "down" /\ (queue'[i].missed = queue[i].missed \/ queue[i].status \in C!Active)
              \/ queue'[i].missed # "missed"
              \/ queue'[i].missed = queue[i].missed /\ (queue'[i].hit \/ queue[i].status = "imported")
  PROVE  /\ queue' \in Seq(RowType) /\ Len(queue') = Len(queue)
         /\ \A j \in DOMAIN queue : /\ queue'[j].room = queue[j].room /\ queue'[j].status = queue[j].status
                                    /\ Owed(j)' => Owed(j)
  <1>0. Len(queue) \in Nat /\ DOMAIN queue = 1..Len(queue) BY DEF CollectionTypes
  <1>1. queue' = [i \in 1..Len(queue) |-> queue'[i]] /\ DOMAIN queue' = 1..Len(queue) BY <1>0
  <1>2. \A i \in 1..Len(queue) : queue'[i] \in RowType BY <1>0
  <1>4. queue' \in Seq(RowType) /\ Len(queue') = Len(queue)
    BY <1>0, <1>1, <1>2, IsASeq, LenProperties
  <1>5. ASSUME NEW j \in DOMAIN queue PROVE Owed(j)' => Owed(j)
    BY <1>5 DEF Owed, WrittenOff, Unheard, C!Active
  <1>. QED BY <1>4, <1>5

LEMMA WorldKeeps ==
  ASSUME CollectionTypes,
         \/ C!AccountFalls \/ C!AccountStaysDown \/ C!AccountReturns
         \/ \E r \in Room : C!Speak(r) \/ C!SpeakInVain(r) \/ C!MeetingEnds(r) \/ C!BotDies(r)
         \/ \E i \in DOMAIN queue : C!TimePasses(i)
  PROVE  CollectionTypes' /\ Around
  <1>0. Len(queue) \in Nat /\ DOMAIN queue = 1..Len(queue) /\ {} \in SUBSET Room
    BY DEF CollectionTypes
  <1>1. CASE C!AccountFalls \/ C!AccountStaysDown
    <2>. DEFINE row(i) == [queue[i] EXCEPT !.hit = queue[i].hit \/ queue[i].status # "queued"]
    <2>1. queue' = [i \in DOMAIN queue |-> row(i)] /\ UNCHANGED <<bot, handed, work>> /\ health' = "down"
      BY <1>1, Zenon DEF C!AccountFalls, C!AccountStaysDown, C!SeenDown
    <2>2. ASSUME NEW i \in DOMAIN queue
          PROVE  /\ row(i) \in RowType /\ row(i).room = queue[i].room /\ row(i).status = queue[i].status
                 /\ row(i).missed = queue[i].missed
      <3>1. queue[i] \in RowType BY DEF CollectionTypes
      <3>2. (queue[i].hit \/ queue[i].status # "queued") \in BOOLEAN OBVIOUS
      <3>3. row(i) \in RowType BY <3>1, <3>2, RowWrites, Zenon
      <3>4. row(i).room = queue[i].room /\ row(i).status = queue[i].status /\ row(i).missed = queue[i].missed
        BY <3>1 DEF RowType
      <3>. QED BY <3>3, <3>4, Zenon
    <2>. HIDE DEF row
    <2>3. /\ queue' \in Seq(RowType) /\ Len(queue') = Len(queue)
          /\ \A j \in DOMAIN queue : /\ queue'[j].room = queue[j].room /\ queue'[j].status = queue[j].status
                                     /\ Owed(j)' => Owed(j)
      <3>1. \A i \in DOMAIN queue : queue'[i] = row(i) BY <2>1
      <3>. QED BY <2>1, <2>2, <3>1, RowsRewritten
    <2>4. C!Upset({}) \/ UNCHANGED C!history BY <1>1 DEF C!AccountFalls, C!AccountStaysDown
    <2>5. forgiven' \subseteq Room /\ sideways' \in BOOLEAN /\ sideways' = sideways /\ forgiven \subseteq forgiven'
      BY <1>0, <2>4, UpsetTypes
    <2>7. CollectionTypes' BY <2>1, <2>3, <2>5 DEF CollectionTypes
    <2>. QED BY <2>1, <2>3, <2>5, <2>7, Zenon DEF Around
  <1>4. CASE C!AccountReturns
    <2>. DEFINE row(i) == IF queue[i].hit \/ queue[i].status = "imported" THEN queue[i] ELSE C!Forgotten(queue[i])
    <2>1. queue' = [i \in DOMAIN queue |-> row(i)] /\ UNCHANGED <<bot, handed, work>> /\ health' = "ok"
      BY <1>4, Zenon DEF C!AccountReturns
    <2>2. ASSUME NEW i \in DOMAIN queue
          PROVE  /\ row(i) \in RowType /\ row(i).room = queue[i].room /\ row(i).status = queue[i].status
                 /\ \/ row(i).missed # "missed"
                    \/ row(i).missed = queue[i].missed /\ (row(i).hit \/ queue[i].status = "imported")
      <3>1. queue[i] \in RowType BY DEF CollectionTypes
      <3>2. CASE queue[i].hit \/ queue[i].status = "imported" BY <3>1, <3>2, Zenon
      <3>3. CASE ~(queue[i].hit \/ queue[i].status = "imported")
        <4>1. row(i) = C!Forgotten(queue[i]) BY <3>3, Zenon
        <4>. QED BY <3>1, <4>1, RowWrites, Zenon
      <3>. QED BY <3>2, <3>3, Zenon
    <2>. HIDE DEF row
    <2>3. /\ queue' \in Seq(RowType) /\ Len(queue') = Len(queue)
          /\ \A j \in DOMAIN queue : /\ queue'[j].room = queue[j].room /\ queue'[j].status = queue[j].status
                                     /\ Owed(j)' => Owed(j)
      <3>1. \A i \in DOMAIN queue : queue'[i] = row(i) BY <2>1
      <3>. QED BY <2>1, <2>2, <3>1, RowsRewritten
    <2>4. UNCHANGED <<forgiven, sideways>> BY <1>4 DEF C!AccountReturns, C!history
    <2>5. CollectionTypes' BY <2>1, <2>3, <2>4 DEF CollectionTypes
    <2>. QED BY <2>1, <2>3, <2>4, <2>5, Zenon DEF Around
  <1>5. ASSUME NEW r \in Room, C!Speak(r) PROVE CollectionTypes' /\ Around
    <2>. DEFINE row(i) == IF i \in C!AtWorkIn(r) THEN [queue[i] EXCEPT !.quiet = "no"] ELSE queue[i]
    <2>1. queue' = [i \in DOMAIN queue |-> row(i)] /\ UNCHANGED <<handed, health, work, sideways, forgiven>>
      BY <1>5, Zenon DEF C!Speak, C!history
    <2>2. ASSUME NEW i \in DOMAIN queue
          PROVE  /\ row(i) \in RowType /\ row(i).room = queue[i].room /\ row(i).status = queue[i].status
                 /\ row(i).hit = queue[i].hit /\ row(i).missed = queue[i].missed
      <3>1. queue[i] \in RowType BY DEF CollectionTypes
      <3>2. [queue[i] EXCEPT !.quiet = "no"] \in RowType BY <3>1, RowWrites
      <3>. DEFINE z == [queue[i] EXCEPT !.quiet = "no"]
      <3>3. z.room = queue[i].room /\ z.status = queue[i].status /\ z.missed = queue[i].missed BY <3>1 DEF RowType
      <3>4. z.hit = queue[i].hit BY <3>1 DEF RowType
      <3>5. row(i) = z \/ row(i) = queue[i] OBVIOUS
      <3>. HIDE DEF z, row
      <3>6. z \in RowType BY <3>2 DEF z
      <3>. QED BY <3>1, <3>3, <3>4, <3>5, <3>6, Zenon
    <2>. HIDE DEF row
    <2>3. /\ queue' \in Seq(RowType) /\ Len(queue') = Len(queue)
          /\ \A j \in DOMAIN queue : /\ queue'[j].room = queue[j].room /\ queue'[j].status = queue[j].status
                                     /\ Owed(j)' => Owed(j)
      <3>1. \A i \in DOMAIN queue : queue'[i] = row(i) BY <2>1
      <3>. QED BY <2>1, <2>2, <3>1, RowsRewritten
    <2>4. bot[r] \in BotType BY DEF CollectionTypes
    <2>5. [bot[r] EXCEPT !.heard = bot[r].heard + 1] \in BotType BY <1>5, <2>4 DEF C!Speak, BotType
    <2>6. bot' = [bot EXCEPT ![r] = [bot[r] EXCEPT !.heard = bot[r].heard + 1]] /\ bot[r].status = "active"
      BY <1>5 DEF C!Speak
    <2>7. bot' \in [Room -> BotType] BY <2>5, <2>6 DEF CollectionTypes
    <2>8. \A s \in Room : bot'[s].status = "active" => bot[s].status = "active" BY <2>6 DEF CollectionTypes
    <2>9. CollectionTypes' BY <2>1, <2>3, <2>7 DEF CollectionTypes
    <2>. QED BY <2>1, <2>3, <2>8, <2>9, Zenon DEF Around
  <1>6. ASSUME NEW r \in Room, C!SpeakInVain(r) PROVE CollectionTypes' /\ Around
    <2>. DEFINE row(i) == IF i \in C!AtWorkIn(r) THEN [queue[i] EXCEPT !.missed = "missed"] ELSE queue[i]
    <2>1. /\ queue' = [i \in DOMAIN queue |-> row(i)] /\ UNCHANGED <<bot, handed, health, work, sideways, forgiven>>
          /\ health' = "down"
      BY <1>6, Zenon DEF C!SpeakInVain, C!history
    <2>2. ASSUME NEW i \in DOMAIN queue
          PROVE  /\ row(i) \in RowType /\ row(i).room = queue[i].room /\ row(i).status = queue[i].status
                 /\ row(i).missed = queue[i].missed \/ queue[i].status \in C!Active
      <3>1. queue[i] \in RowType BY DEF CollectionTypes
      <3>2. [queue[i] EXCEPT !.missed = "missed"] \in RowType BY <3>1, RowWrites
      <3>. DEFINE z == [queue[i] EXCEPT !.missed = "missed"]
      <3>3. z.room = queue[i].room /\ z.status = queue[i].status BY <3>1 DEF RowType
      <3>4. i \in C!AtWorkIn(r) => queue[i].status \in C!Active BY DEF C!AtWorkIn, C!WithStatus
      <3>5. (row(i) = z /\ i \in C!AtWorkIn(r)) \/ row(i) = queue[i] OBVIOUS
      <3>. HIDE DEF z, row
      <3>6. z \in RowType BY <3>2 DEF z
      <3>. QED BY <3>1, <3>3, <3>4, <3>5, <3>6, Zenon
    <2>. HIDE DEF row
    <2>3. /\ queue' \in Seq(RowType) /\ Len(queue') = Len(queue)
          /\ \A j \in DOMAIN queue : /\ queue'[j].room = queue[j].room /\ queue'[j].status = queue[j].status
                                     /\ Owed(j)' => Owed(j)
      <3>1. \A i \in DOMAIN queue : queue'[i] = row(i) BY <2>1
      <3>. QED BY <2>1, <2>2, <3>1, RowsRewritten
    <2>4. CollectionTypes' BY <2>1, <2>3 DEF CollectionTypes
    <2>. QED BY <2>1, <2>3, <2>4, Zenon DEF Around
  <1>2. ASSUME NEW r \in Room, C!MeetingEnds(r) \/ C!BotDies(r)
        PROVE  CollectionTypes' /\ Around
    <2>1. bot[r] \in BotType BY DEF CollectionTypes
    <2>2. UNCHANGED <<queue, handed, health, work>> BY <1>2 DEF C!MeetingEnds, C!BotDies
    <2>3. C!Upset({}) \/ UNCHANGED C!history BY <1>2 DEF C!MeetingEnds, C!BotDies
    <2>4. forgiven' \subseteq Room /\ sideways' \in BOOLEAN /\ sideways' = sideways /\ forgiven \subseteq forgiven'
      BY <1>0, <2>3, UpsetTypes
    <2>5. \E b \in BotType : bot' = [bot EXCEPT ![r] = b] /\ bot[r].status = "active"
      <3>1. \A s \in {"completed", "failed"} : [bot[r] EXCEPT !.status = s] \in BotType BY <2>1 DEF BotType
      <3>. QED BY <1>2, <3>1 DEF C!MeetingEnds, C!BotDies
    <2>6. bot' \in [Room -> BotType] BY <2>5 DEF CollectionTypes
    <2>7. \A s \in Room : bot'[s].status = "active" => bot[s].status = "active" BY <2>5 DEF CollectionTypes
    <2>8. \A j \in DOMAIN queue : Owed(j)' => Owed(j) BY <2>2 DEF Owed, WrittenOff, Unheard
    <2>. QED BY <2>2, <2>4, <2>6, <2>7, <2>8 DEF CollectionTypes, Around
  <1>3. ASSUME NEW i \in DOMAIN queue, C!TimePasses(i)
        PROVE  CollectionTypes' /\ Around
    <2>1. queue[i] \in RowType BY DEF CollectionTypes
    <2>2. UNCHANGED <<bot, handed, health, work, forgiven, sideways>> BY <1>3 DEF C!TimePasses, C!history
    <2>. DEFINE written(row) == row \in RowType /\ row.room = queue[i].room /\ row.status = queue[i].status
                                  /\ row.hit = queue[i].hit /\ row.missed = queue[i].missed
    <2>3. \E row : written(row) /\ queue' = [queue EXCEPT ![i] = row]
      <3>1. written([queue[i] EXCEPT !.late = TRUE])
        <4>1. [queue[i] EXCEPT !.late = TRUE] \in RowType BY <2>1, RowWrites, Zenon
        <4>2. [queue[i] EXCEPT !.late = TRUE].hit = queue[i].hit BY <2>1 DEF RowType
        <4>3. [queue[i] EXCEPT !.late = TRUE].room = queue[i].room /\ [queue[i] EXCEPT !.late = TRUE].status = queue[i].status
                /\ [queue[i] EXCEPT !.late = TRUE].missed = queue[i].missed
          BY <2>1 DEF RowType
        <4>. QED BY <4>1, <4>2, <4>3, Zenon
      <3>2. ASSUME NEW v \in {"no", "quiet", "ceiling"} PROVE written([queue[i] EXCEPT !.quiet = v])
        <4>1. [queue[i] EXCEPT !.quiet = v] \in RowType BY <2>1, RowWrites, Zenon
        <4>2. [queue[i] EXCEPT !.quiet = v].hit = queue[i].hit BY <2>1 DEF RowType
        <4>3. [queue[i] EXCEPT !.quiet = v].room = queue[i].room /\ [queue[i] EXCEPT !.quiet = v].status = queue[i].status
                /\ [queue[i] EXCEPT !.quiet = v].missed = queue[i].missed
          BY <2>1 DEF RowType
        <4>. QED BY <4>1, <4>2, <4>3, Zenon
      <3>3. \/ queue' = [queue EXCEPT ![i] = [queue[i] EXCEPT !.late = TRUE]]
            \/ queue' = [queue EXCEPT ![i] = [queue[i] EXCEPT !.quiet = "quiet"]]
            \/ queue' = [queue EXCEPT ![i] = [queue[i] EXCEPT !.quiet = "ceiling"]]
        BY <1>3 DEF C!TimePasses
      <3>4. "quiet" \in {"no", "quiet", "ceiling"} /\ "ceiling" \in {"no", "quiet", "ceiling"} OBVIOUS
      <3>. HIDE DEF written
      <3>. QED BY <3>1, <3>2, <3>3, <3>4, Zenon
    <2>4. PICK row : written(row) /\ queue' = [queue EXCEPT ![i] = row] BY <2>3
    <2>5. /\ queue' \in Seq(RowType) /\ Len(queue') = Len(queue)
          /\ queue'[i] = row /\ \A j \in DOMAIN queue : j # i => queue'[j] = queue[j]
      <3>1. row \in RowType BY <2>4
      <3>. QED BY <2>4, <3>1, OneRow
    <2>6. \A j \in DOMAIN queue : /\ queue'[j].room = queue[j].room /\ queue'[j].status = queue[j].status
                                  /\ queue'[j].hit = queue[j].hit /\ queue'[j].missed = queue[j].missed
      BY <2>4, <2>5, Zenon
    <2>7. CollectionTypes' BY <2>2, <2>5 DEF CollectionTypes
    <2>8. UNCHANGED <<work, sideways, handed>> /\ forgiven \subseteq forgiven' BY <2>2
    <2>9. \A r \in Room : bot'[r].status = "active" => bot[r].status = "active" BY <2>2
    <2>10. \A j \in DOMAIN queue : Owed(j)' => Owed(j) BY <2>2, <2>6, Zenon DEF Owed, WrittenOff, Unheard
    <2>. QED BY <2>5, <2>6, <2>7, <2>8, <2>9, <2>10, Zenon DEF Around
  <1>. QED BY <1>1, <1>2, <1>3, <1>4, <1>5, <1>6

-----------------------------------------------------------------------------
(* The collection: nothing said is lost on the way to the recovery. *)

OnItsWay(i) ==
  \/ handed[i] # "none" \/ queue[i].room \in forgiven
  \/ \E p \in C!Worker : work[p].at = "recover" /\ C!Min(work[p].todo) = i

Speech == \A i \in DOMAIN queue : Owed(i) => OnItsWay(i)

LEMMA SpeechKept ==
  ASSUME CollectionTypes, CollectionTypes', Speech, NEW p \in C!Worker, Kept(p),
         \A i \in DOMAIN queue : handed[i] # "none" => handed'[i] # "none",
         work[p].at = "recover" =>
           handed'[C!Min(work[p].todo)] # "none" \/ queue[C!Min(work[p].todo)].room \in forgiven',
         \A i \in DOMAIN queue : Owed(i)' =>
           Owed(i) \/ (work'[p].at = "recover" /\ C!Min(work'[p].todo) = i) \/ queue[i].room \in forgiven'
  PROVE  Speech'
  <1>1. DOMAIN queue' = DOMAIN queue
    BY DEF Kept, CollectionTypes
  <1>. QED BY <1>1 DEF Kept, Speech, OnItsWay

\* A step that writes no row off, and leaves the account and what it missed.
LEMMA SpeechQuiet ==
  ASSUME CollectionTypes, CollectionTypes', Speech, NEW p \in C!Worker, Kept(p), handed' = handed, work[p].at # "recover",
         \A i \in DOMAIN queue : \/ queue'[i] = queue[i]
                                 \/ /\ queue'[i].status \notin {"silent", "canceled", "imported"}
                                    /\ \/ queue'[i].missed # "missed"
                                       \/ queue'[i].missed = queue[i].missed /\ queue'[i].hit = queue[i].hit
  PROVE  Speech'
  <1>0. health' = health BY DEF Kept
  <1>1. \A i \in DOMAIN queue : Owed(i)' => Owed(i) BY <1>0, Zenon DEF Owed, WrittenOff, Unheard
  <1>. QED BY <1>1, SpeechKept

LEMMA SpeechStep ==
  ASSUME CollectionTypes, CollectionTypes', Speech, NEW p \in C!Worker, Kept(p), C!WorkerStep(p) \/ C!Crash(p)
  PROVE  Speech'
  <1>0. Len(queue) \in Nat /\ DOMAIN queue = 1..Len(queue) /\ work[p] \in WorkType(Len(queue))
    BY DEF CollectionTypes
  <1>1. CASE C!Expire(p)
    <2>1. work[p].todo \subseteq 1..Len(queue) /\ work[p].todo # {}
      BY <1>0, <1>1, WorkFields DEF C!Expire, C!At
    <2>2. C!RowOf(p) \in DOMAIN queue BY <2>1, LeastRow
    <2>3. C!SetStatus(C!RowOf(p), "failed") /\ "failed" \in RowStatus BY <1>1 DEF C!Expire, RowStatus
    <2>4. /\ queue'[C!RowOf(p)].status = "failed"
          /\ queue'[C!RowOf(p)].missed = queue[C!RowOf(p)].missed /\ queue'[C!RowOf(p)].hit = queue[C!RowOf(p)].hit
          /\ \A j \in DOMAIN queue : j # C!RowOf(p) => queue'[j] = queue[j]
      BY <2>2, <2>3, StatusSet
    <2>5. work[p].at # "recover" /\ handed' = handed BY <1>1 DEF C!Expire, C!At
    <2>. QED BY <2>4, <2>5, SpeechQuiet
  <1>2. CASE \/ C!ListQueued(p) \/ C!ListAgain(p) \/ C!Count(p) \/ C!SendBot(p)
             \/ C!Look(p) \/ C!StopBot(p) \/ C!StopForRequest(p) \/ C!ReadForRequest(p)
    <2>1. UNCHANGED <<queue, handed>> /\ work[p].at # "recover"
      BY <1>2 DEF C!ListQueued, C!ListAgain, C!Count, C!SendBot, C!Look, C!StopBot, C!StopForRequest, C!ReadForRequest, C!Stopped, C!At
    <2>. QED BY <2>1, SpeechQuiet
  <1>3. CASE C!RecordBot(p)
    <2>1. work[p].at \in Walking /\ work[p].at # "recover" /\ handed' = handed
      BY <1>3 DEF C!RecordBot, C!At, Walking
    <2>2. C!RowOf(p) \in DOMAIN queue /\ queue[C!RowOf(p)] \in RowType BY <2>1, RowAtHand
    <2>3. CASE C!SetStatus(C!RowOf(p), "failed")
      <3>1. /\ queue'[C!RowOf(p)].status = "failed"
            /\ queue'[C!RowOf(p)].missed = queue[C!RowOf(p)].missed /\ queue'[C!RowOf(p)].hit = queue[C!RowOf(p)].hit
            /\ \A j \in DOMAIN queue : j # C!RowOf(p) => queue'[j] = queue[j]
        BY <2>2, <2>3, StatusSet DEF RowStatus
      <3>. QED BY <2>1, <3>1, SpeechQuiet
    <2>4. CASE queue' = [queue EXCEPT ![C!RowOf(p)] = C!Recorded(queue[C!RowOf(p)])]
      <3>1. /\ queue'[C!RowOf(p)].status = "collecting" /\ queue'[C!RowOf(p)].missed # "missed"
            /\ \A j \in DOMAIN queue : j # C!RowOf(p) => queue'[j] = queue[j]
        <4>1. /\ C!Recorded(queue[C!RowOf(p)]) \in RowType /\ C!Recorded(queue[C!RowOf(p)]).status = "collecting"
              /\ C!Recorded(queue[C!RowOf(p)]).missed = "no"
          BY <2>2, RowWrites
        <4>2. /\ queue'[C!RowOf(p)] = C!Recorded(queue[C!RowOf(p)])
              /\ \A j \in DOMAIN queue : j # C!RowOf(p) => queue'[j] = queue[j]
          BY <2>2, <2>4, <4>1, OneRow
        <4>. QED BY <4>1, <4>2
      <3>. QED BY <2>1, <3>1, SpeechQuiet
    <2>. QED BY <1>3, <2>3, <2>4 DEF C!RecordBot
  <1>4. CASE C!FailRow(p) \/ C!MarkStopping(p)
    <2>1. work[p].at \in Walking \union Ending /\ work[p].at # "recover" /\ handed' = handed
      BY <1>4 DEF C!FailRow, C!MarkStopping, C!At, Walking, Ending
    <2>2. C!RowOf(p) \in DOMAIN queue BY <2>1, RowAtHand
    <2>3. PICK s \in {"failed", "stopping"} : C!SetStatus(C!RowOf(p), s) BY <1>4 DEF C!FailRow, C!MarkStopping
    <2>4. s \in RowStatus BY DEF RowStatus
    <2>5. /\ queue'[C!RowOf(p)].status = s
          /\ queue'[C!RowOf(p)].missed = queue[C!RowOf(p)].missed /\ queue'[C!RowOf(p)].hit = queue[C!RowOf(p)].hit
          /\ \A j \in DOMAIN queue : j # C!RowOf(p) => queue'[j] = queue[j]
      BY <2>2, <2>3, <2>4, StatusSet
    <2>. QED BY <2>1, <2>5, SpeechQuiet
  <1>5. CASE C!Silence(p) \/ C!CancelRow(p)
    <2>1. work[p].at \in Walking \union Ending /\ work[p].at # "recover" /\ handed' = handed
      BY <1>5 DEF C!Silence, C!CancelRow, C!At, Walking, Ending
    <2>2. C!RowOf(p) \in DOMAIN queue BY <2>1, RowAtHand
    <2>3. PICK s \in RowStatus : C!SetStatus(C!RowOf(p), s) BY <1>5 DEF C!Silence, C!CancelRow, RowStatus
    <2>4. \A j \in DOMAIN queue : j # C!RowOf(p) => queue'[j] = queue[j] BY <2>2, <2>3, StatusSet
    <2>5. work'[p].at = "recover" /\ work'[p].todo = work[p].todo
      BY <1>5, <2>1, HandTypes DEF C!Silence, C!CancelRow, Kept
    <2>6. health' = health BY DEF Kept
    <2>7. \A i \in DOMAIN queue : Owed(i)' =>
             Owed(i) \/ (work'[p].at = "recover" /\ C!Min(work'[p].todo) = i)
      BY <2>4, <2>5, <2>6, Zenon DEF Owed, WrittenOff, Unheard, C!RowOf
    <2>. QED BY <2>1, <2>7, SpeechKept
  <1>6. CASE C!Import(p)
    <2>1. work[p].at \in Walking \union Ending /\ work[p].at # "recover" /\ handed' = handed
      BY <1>6 DEF C!Import, C!At, Walking, Ending
    <2>2. C!RowOf(p) \in DOMAIN queue /\ queue[C!RowOf(p)] \in RowType BY <2>1, RowAtHand
    <2>3. CASE UNCHANGED queue BY <2>1, <2>3, SpeechQuiet
    <2>4. CASE C!SetStatus(C!RowOf(p), "imported")
      <3>0. health' = health BY DEF Kept
      <3>1. /\ queue'[C!RowOf(p)].status = "imported" /\ queue'[C!RowOf(p)].hit = queue[C!RowOf(p)].hit
            /\ queue'[C!RowOf(p)].missed = queue[C!RowOf(p)].missed
            /\ \A j \in DOMAIN queue : j # C!RowOf(p) => queue'[j] = queue[j]
        BY <2>2, <2>4, StatusSet DEF RowStatus
      <3>2. \A i \in DOMAIN queue : i # C!RowOf(p) => (Owed(i)' => Owed(i))
        BY <3>0, <3>1, Zenon DEF Owed, WrittenOff, Unheard
      <3>3. CASE ~C!Affected(queue[C!RowOf(p)])
        <4>1. Owed(C!RowOf(p)) \/ ~(queue[C!RowOf(p)].missed = "missed") BY <3>3 DEF Owed, Unheard, C!Affected
        <4>2. ASSUME NEW i \in DOMAIN queue, Owed(i)' PROVE Owed(i)
          BY <3>1, <3>2, <4>1, <4>2 DEF Owed, WrittenOff, Unheard
        <4>. QED BY <2>1, <4>2, SpeechKept
      <3>4. CASE C!Hand(p, "partial")
        <4>1. work'[p].at = "recover" /\ work'[p].todo = work[p].todo
          BY <2>1, <3>4, HandTypes DEF Kept
        <4>2. \A i \in DOMAIN queue : Owed(i)' =>
                Owed(i) \/ (work'[p].at = "recover" /\ C!Min(work'[p].todo) = i)
          BY <3>2, <4>1, Zenon DEF C!RowOf
        <4>. QED BY <2>1, <4>2, SpeechKept
      <3>5. CASE C!Upset({C!RoomOf(p)})
        <4>1. queue[C!RowOf(p)].room \in forgiven' BY <3>5 DEF C!Upset, C!RoomOf
        <4>2. \A i \in DOMAIN queue : Owed(i)' => Owed(i) \/ queue[i].room \in forgiven'
          BY <3>2, <4>1, Zenon
        <4>. QED BY <2>1, <4>2, SpeechKept
      <3>6. CASE UNCHANGED queue BY <2>1, <3>6, SpeechQuiet
      <3>. QED BY <1>6, <3>3, <3>4, <3>5, <3>6 DEF C!Import
    <2>. QED BY <1>6, <2>3, <2>4 DEF C!Import
  <1>7. CASE C!EnqueueRecovery(p)
    <2>. DEFINE i == C!RowOf(p)
    <2>1. work[p].at = "recover" /\ queue' = queue BY <1>7 DEF C!EnqueueRecovery, C!At
    <2>2. i \in DOMAIN queue /\ DOMAIN handed = DOMAIN queue BY <2>1, RowAtHand DEF CollectionTypes
    <2>3. work[p].reason # "none"
      <3>1. work[p].reason \in Reason \ {"none"} BY <1>0, <2>1, WorkFields
      <3>. QED BY <3>1
    <2>4. /\ \A j \in DOMAIN queue : handed[j] # "none" => handed'[j] # "none"
          /\ handed'[i] # "none" \/ queue[i].room \in forgiven'
      <3>1. CASE handed' = [handed EXCEPT ![i] = IF handed[i] = "none" THEN work[p].reason ELSE handed[i]]
        BY <2>2, <2>3, <3>1
      <3>2. CASE C!Upset({C!RoomOf(p)}) /\ UNCHANGED handed
        BY <3>2 DEF C!Upset, C!RoomOf
      <3>. QED BY <1>7, <3>1, <3>2 DEF C!EnqueueRecovery
    <2>5. \A j \in DOMAIN queue : Owed(j)' => Owed(j) BY <2>1 DEF Owed, WrittenOff, Unheard, Kept
    <2>. QED BY <2>4, <2>5, SpeechKept DEF C!RowOf
  <1>8. CASE C!Crash(p)
    <2>1. UNCHANGED <<queue, handed>> BY <1>8 DEF C!Crash
    <2>2. work[p].at = "recover" => C!RoomOf(p) \in forgiven'
      <3>. SUFFICES ASSUME work[p].at = "recover" PROVE C!RoomOf(p) \in forgiven' OBVIOUS
      <3>1. work[p] \in [at : {"recover"}, todo : Todo(Len(queue)), reason : Reason \ {"none"}]
        BY <1>0, WorkFields
      <3>2. "todo" \in DOMAIN work[p] /\ work[p].todo # {} BY <3>1 DEF Todo
      <3>. QED BY <1>8, <3>2 DEF C!Crash, C!Upset
    <2>3. \A j \in DOMAIN queue : Owed(j)' => Owed(j) BY <2>1 DEF Owed, WrittenOff, Unheard, Kept
    <2>. QED BY <2>1, <2>2, <2>3, SpeechKept DEF C!RowOf, C!RoomOf
  <1>. QED BY <1>1, <1>2, <1>3, <1>4, <1>5, <1>6, <1>7, <1>8 DEF C!WorkerStep

-----------------------------------------------------------------------------
(* The collection: work that is alone. *)

Act == {i \in DOMAIN queue : queue[i].status \in {"collecting", "stopping"}}

\* What a worker may count on at its step.
Ready(p) ==
  /\ work[p].at \in {"expire", "count", "send", "sent", "refused"} =>
       \A i \in work[p].todo : queue[i].status = "queued"
  /\ work[p].at = "stopping" => C!Min(work[p].todo) \in Act
  /\ work[p].at \in {"send", "sent"} => Cardinality(Act) < MaxConcurrent
  /\ work[p].at \in {"failed", "silence", "import", "read", "cancel"} =>
       \/ bot[queue[C!Min(work[p].todo)].room].status # "active"
       \/ queue[C!Min(work[p].todo)].room \in forgiven

Covered ==
  \A r \in Room : bot[r].status = "active" =>
    \/ r \in forgiven \/ \E i \in Act : queue[i].room = r
    \/ \E p \in C!Worker : work[p].at = "sent" /\ queue[C!Min(work[p].todo)].room = r

AloneInv ==
  /\ \A p, q \in C!Worker : work[p].at # "idle" /\ work[q].at # "idle" => p = q
  /\ \A p \in C!Worker : Ready(p)
  /\ Cardinality(Act) <= MaxConcurrent
  /\ Covered

LEMMA ActFinite ==
  ASSUME CollectionTypes
  PROVE  /\ IsFiniteSet(Act) /\ Cardinality(Act) \in Nat /\ Act = C!WithStatus(C!Active)
         /\ Act \subseteq DOMAIN queue
  <1>1. Len(queue) \in Nat /\ DOMAIN queue = 1..Len(queue) BY DEF CollectionTypes
  <1>2. IsFiniteSet(1..Len(queue)) BY <1>1, FS_Interval
  <1>3. Act \subseteq 1..Len(queue) BY <1>1 DEF Act
  <1>4. IsFiniteSet(Act) BY <1>2, <1>3, FS_Subset
  <1>. QED BY <1>1, <1>3, <1>4, FS_CardinalityType DEF Act, C!WithStatus, C!Active

\* The step of a worker that is alone: the others are idle before and after it.
LEMMA AloneKept ==
  ASSUME CollectionTypes, CollectionTypes', AloneInv, NEW p \in C!Worker, Kept(p), work[p].at # "idle",
         Ready(p)', Cardinality(Act') <= MaxConcurrent, Covered'
  PROVE  AloneInv'
  <1>1. \A q \in C!Worker : q # p => work'[q].at = "idle" BY DEF AloneInv, Kept
  <1>2. \A q \in C!Worker : q # p => Ready(q)' BY <1>1 DEF Ready
  <1>. QED BY <1>1, <1>2 DEF AloneInv

\* The rows at work shrink, and a room loses its row only when its bot is out.
LEMMA CoverKept ==
  ASSUME CollectionTypes, CollectionTypes', AloneInv, NEW p \in C!Worker, Kept(p),
         \A r \in Room : bot'[r].status = "active" => bot[r].status = "active",
         \A i \in Act : i \in Act' \/ bot'[queue[i].room].status # "active" \/ queue[i].room \in forgiven',
         work[p].at # "sent"
  PROVE  Covered'
  <1>1. ASSUME NEW r \in Room, bot'[r].status = "active"
        PROVE  \/ r \in forgiven' \/ \E i \in Act' : queue'[i].room = r
               \/ \E q \in C!Worker : work'[q].at = "sent" /\ queue'[C!Min(work'[q].todo)].room = r
    <2>1. bot[r].status = "active" BY <1>1
    <2>2. CASE r \in forgiven BY <2>2 DEF Kept
    <2>3. CASE \E i \in Act : queue[i].room = r
      <3>1. PICK i \in Act : queue[i].room = r BY <2>3
      <3>2. i \in DOMAIN queue /\ queue'[i].room = r BY <3>1 DEF Act, Kept
      <3>. QED BY <1>1, <3>1, <3>2
    <2>4. CASE \E q \in C!Worker : work[q].at = "sent" /\ queue[C!Min(work[q].todo)].room = r
      <3>1. PICK q \in C!Worker : work[q].at = "sent" /\ queue[C!Min(work[q].todo)].room = r BY <2>4
      <3>2. C!Min(work[q].todo) \in DOMAIN queue BY <3>1, RowAtHand DEF C!RowOf, Walking
      <3>. QED BY <3>1, <3>2 DEF Kept
    <2>. QED BY <2>1, <2>2, <2>3, <2>4 DEF AloneInv, Covered
  <1>. QED BY <1>1 DEF Covered

LEMMA FewerRows ==
  ASSUME CollectionTypes, AloneInv, Act' \subseteq Act
  PROVE  Cardinality(Act') <= Cardinality(Act) /\ Cardinality(Act') <= MaxConcurrent
  <1>1. IsFiniteSet(Act) /\ Cardinality(Act) \in Nat BY ActFinite
  <1>2. Cardinality(Act') \in Nat /\ Cardinality(Act') <= Cardinality(Act)
    BY <1>1, FS_Subset, FS_CardinalityType
  <1>. QED BY <1>1, <1>2, MeetingsAssumption DEF AloneInv

\* A worker that turns to the next row, or to the recovery, asks nothing of the rows.
LEMMA Indifferent ==
  ASSUME NEW p \in C!Worker, work'[p].at \in {"idle", "promote", "look", "stop", "stopBot", "fail", "recover"}
  PROVE  Ready(p)'
  BY DEF Ready

LEMMA AlonePromotes ==
  ASSUME CollectionTypes, CollectionTypes', AloneInv, NEW p \in C!Worker, Kept(p),
         C!ListQueued(p) \/ C!Expire(p) \/ C!ListAgain(p) \/ C!Count(p)
  PROVE  AloneInv'
  <1>0. /\ Len(queue) \in Nat /\ DOMAIN queue = 1..Len(queue) /\ DOMAIN queue' = DOMAIN queue
        /\ work[p] \in WorkType(Len(queue)) /\ p \in DOMAIN work /\ work[p].at # "idle"
    BY DEF CollectionTypes, Kept, C!ListQueued, C!Expire, C!ListAgain, C!Count, C!At
  <1>1. CASE C!Expire(p)
    <2>. DEFINE i == C!RowOf(p)
    <2>1. work[p] \in [at : {"expire", "count"}, todo : SUBSET (1..Len(queue))] /\ work[p].at = "expire"
      BY <1>0, <1>1, WorkFields DEF C!Expire, C!At
    <2>2. i \in DOMAIN queue /\ i \in work[p].todo BY <1>1, <2>1, LeastRow DEF C!Expire
    <2>3. C!SetStatus(i, "failed") /\ "failed" \in RowStatus BY <1>1 DEF C!Expire, RowStatus
    <2>4. queue'[i].status = "failed" /\ \A j \in DOMAIN queue : j # i => queue'[j] = queue[j]
      BY <2>2, <2>3, StatusSet
    <2>5. \A j \in work[p].todo : j \in DOMAIN queue /\ queue[j].status = "queued"
      BY <1>0, <2>1 DEF AloneInv, Ready
    <2>6. work'[p] = [work[p] EXCEPT !.todo = work[p].todo \ {i}] BY <1>0, <1>1 DEF C!Expire, C!Goto
    <2>7. work'[p].at = "expire" /\ work'[p].todo = work[p].todo \ {i} BY <2>1, <2>6
    <2>. HIDE DEF i
    <2>8. Act' = Act BY <1>0, <2>2, <2>4, <2>5 DEF Act
    <2>9. Ready(p)' BY <2>4, <2>5, <2>7 DEF Ready
    <2>10. Covered' BY <1>1, <2>8, CoverKept DEF C!Expire, C!At
    <2>. QED BY <1>0, <2>8, <2>9, <2>10, AloneKept DEF AloneInv
  <1>3. CASE C!ListQueued(p) \/ C!ListAgain(p)
    <2>1. UNCHANGED <<queue, bot, forgiven>> /\ Act' = Act
      BY <1>3 DEF C!ListQueued, C!ListAgain, C!history, Act
    <2>2. PICK s \in {"expire", "count"}, T \in SUBSET C!WithStatus({"queued"}) : C!Goto(p, [at |-> s, todo |-> T])
      BY <1>3 DEF C!ListQueued, C!ListAgain
    <2>3. work'[p].at = s /\ work'[p].todo = T BY <1>0, <2>2 DEF C!Goto
    <2>4. \A j \in T : queue[j].status = "queued" BY <2>2 DEF C!WithStatus
    <2>5. Ready(p)' BY <2>1, <2>3, <2>4 DEF Ready
    <2>6. Covered' BY <1>3, <2>1, CoverKept DEF C!ListQueued, C!ListAgain, C!At
    <2>. QED BY <1>0, <2>1, <2>5, <2>6, AloneKept DEF AloneInv
  <1>2. CASE C!Count(p)
    <2>1. UNCHANGED <<queue, bot, forgiven>> /\ Act' = Act BY <1>2 DEF C!Count, C!history, Act
    <2>2. Ready(p)'
      <3>1. CASE work[p].todo # {} /\ C!FreePlace
        <4>1. work[p] \in [at : {"expire", "count"}, todo : SUBSET (1..Len(queue))] BY <1>0, <1>2, WorkFields DEF C!Count, C!At
        <4>2. work'[p] = [work[p] EXCEPT !.at = "send"] BY <1>0, <1>2, <3>1 DEF C!Count, C!Goto
        <4>3. work'[p].at = "send" /\ work'[p].todo = work[p].todo /\ work[p].at = "count"
          BY <1>2, <4>1, <4>2 DEF C!Count, C!At
        <4>4. Cardinality(Act) < MaxConcurrent BY <3>1, SameCardinality, ActFinite DEF C!FreePlace
        <4>5. \A i \in work[p].todo : queue[i].status = "queued" BY <4>3 DEF AloneInv, Ready
        <4>. QED BY <2>1, <4>3, <4>4, <4>5 DEF Ready
      <3>2. CASE ~(work[p].todo # {} /\ C!FreePlace)
        <4>1. work'[p].at \in {"idle", "look"}
          BY <1>0, <1>2, <3>2 DEF C!Count, C!Promoted, C!Goto, C!Idle
        <4>. QED BY <4>1, Indifferent
      <3>. QED BY <3>1, <3>2
    <2>3. Covered' BY <1>2, <2>1, CoverKept DEF C!Count, C!At
    <2>. QED BY <1>0, <2>1, <2>2, <2>3, AloneKept DEF AloneInv
  <1>. QED BY <1>1, <1>2, <1>3

LEMMA AloneSends ==
  ASSUME CollectionTypes, CollectionTypes', AloneInv, NEW p \in C!Worker, Kept(p), C!SendBot(p)
  PROVE  AloneInv'
  <1>0. /\ work[p].at = "send" /\ work[p].at \in Walking /\ p \in DOMAIN work
        /\ UNCHANGED queue /\ work[p] \in WorkType(Len(queue))
    BY DEF C!SendBot, C!At, Walking, CollectionTypes
  <1>. DEFINE r == C!RoomOf(p)
  <1>1. r \in Room BY <1>0, RoomsAreRooms
  <1>2. work[p] \in [at : Walking, todo : Todo(Len(queue))] BY <1>0, WorkFields
  <1>3. \/ /\ bot' = [bot EXCEPT ![r] = [C!NoBot EXCEPT !.status = "active"]]
           /\ work' = [work EXCEPT ![p] = [work[p] EXCEPT !.at = "sent"]]
        \/ bot' = bot /\ work' = [work EXCEPT ![p] = [work[p] EXCEPT !.at = "refused"]]
        \/ /\ bot' = [bot EXCEPT ![r] = [C!NoBot EXCEPT !.status = "active"]] /\ r \in forgiven'
           /\ work' = [work EXCEPT ![p] = [work[p] EXCEPT !.at = "refused"]]
    BY DEF C!SendBot, C!Goto, C!Upset
  <1>4. work'[p].todo = work[p].todo /\ work'[p].at \in {"sent", "refused"} BY <1>0, <1>2, <1>3
  <1>5. Act' = Act BY <1>0 DEF Act
  <1>6. Ready(p)' BY <1>0, <1>4, <1>5 DEF AloneInv, Ready
  <1>7. Covered'
    <2>1. CASE bot' = bot BY <1>0, <1>5, <2>1, CoverKept
    <2>2. ASSUME bot' = [bot EXCEPT ![r] = [C!NoBot EXCEPT !.status = "active"]],
                 work'[p].at = "sent" \/ r \in forgiven',
                 NEW s \in Room, bot'[s].status = "active"
          PROVE  \/ s \in forgiven' \/ \E i \in Act' : queue'[i].room = s
                 \/ \E q \in C!Worker : work'[q].at = "sent" /\ queue'[C!Min(work'[q].todo)].room = s
      <3>1. CASE s = r BY <1>0, <1>4, <2>2, <3>1 DEF C!RoomOf, C!RowOf
      <3>2. CASE s # r
        <4>1. bot[s].status = "active" BY <2>2, <3>2, <1>1 DEF CollectionTypes
        <4>2. \A q \in C!Worker : work[q].at # "sent" BY <1>0 DEF AloneInv
        <4>3. s \in forgiven \/ \E i \in Act : queue[i].room = s BY <4>1, <4>2 DEF AloneInv, Covered
        <4>. QED BY <1>0, <1>5, <4>3 DEF Kept
      <3>. QED BY <3>1, <3>2
    <2>3. \/ bot' = bot
          \/ /\ bot' = [bot EXCEPT ![r] = [C!NoBot EXCEPT !.status = "active"]]
             /\ work'[p].at = "sent" \/ r \in forgiven'
      BY <1>0, <1>2, <1>3
    <2>. QED BY <2>1, <2>2, <2>3 DEF Covered
  <1>. QED BY <1>0, <1>5, <1>6, <1>7, AloneKept DEF AloneInv

LEMMA AloneRecords ==
  ASSUME CollectionTypes, CollectionTypes', AloneInv, NEW p \in C!Worker, Kept(p), C!RecordBot(p)
  PROVE  AloneInv'
  <1>0. /\ work[p].at \in {"refused", "sent"} /\ work[p].at \in Walking /\ p \in DOMAIN work
        /\ UNCHANGED bot /\ forgiven' = forgiven /\ DOMAIN queue' = DOMAIN queue
    BY DEF C!RecordBot, C!At, Walking, CollectionTypes, Kept, C!history
  <1>. DEFINE i == C!RowOf(p)
  <1>1. i \in DOMAIN queue /\ queue[i] \in RowType /\ i \in work[p].todo /\ work[p].todo \in Todo(Len(queue))
    BY <1>0, RowAtHand
  <1>2. work'[p] = [at |-> "count", todo |-> work[p].todo \ {i}] BY <1>0 DEF C!RecordBot, C!Goto
  <1>3. /\ \A j \in DOMAIN queue : j # i => queue'[j] = queue[j]
        /\ \/ work[p].at = "refused" /\ queue'[i].status = "failed"
           \/ work[p].at = "sent" /\ queue'[i].status = "collecting"
    <2>1. CASE work[p].at = "refused"
      <3>1. C!SetStatus(i, "failed") /\ "failed" \in RowStatus BY <2>1 DEF C!RecordBot, C!At, RowStatus
      <3>. QED BY <1>1, <2>1, <3>1, StatusSet
    <2>2. CASE work[p].at = "sent"
      <3>1. queue' = [queue EXCEPT ![i] = C!Recorded(queue[i])] BY <2>2 DEF C!RecordBot, C!At
      <3>2. C!Recorded(queue[i]) \in RowType /\ C!Recorded(queue[i]).status = "collecting" BY <1>1, RowWrites
      <3>3. queue'[i] = C!Recorded(queue[i]) /\ \A j \in DOMAIN queue : j # i => queue'[j] = queue[j]
        BY <1>1, <3>1, <3>2, OneRow
      <3>. QED BY <2>2, <3>2, <3>3
    <2>. QED BY <1>0, <2>1, <2>2
  <1>4. \A j \in work[p].todo : j \in DOMAIN queue /\ queue[j].status = "queued"
    <2>1. work[p].todo \subseteq DOMAIN queue BY <1>1 DEF Todo, CollectionTypes
    <2>. QED BY <1>0, <2>1 DEF AloneInv, Ready
  <1>5. Ready(p)'
    <2>. HIDE DEF i
    <2>. QED BY <1>2, <1>3, <1>4 DEF Ready
  <1>6. CASE work[p].at = "refused"
    <2>1. Act' = Act BY <1>0, <1>1, <1>3, <1>4, <1>6 DEF Act
    <2>2. Covered' BY <1>0, <1>6, <2>1, CoverKept
    <2>. QED BY <1>0, <1>5, <2>1, <2>2, AloneKept DEF AloneInv
  <1>7. CASE work[p].at = "sent"
    <2>1. Act' = Act \union {i} BY <1>0, <1>1, <1>3, <1>7 DEF Act
    <2>2. Cardinality(Act) < MaxConcurrent BY <1>7 DEF AloneInv, Ready
    <2>3. Cardinality(Act') <= MaxConcurrent
      <3>1. IsFiniteSet(Act) /\ Cardinality(Act) \in Nat BY ActFinite
      <3>2. Cardinality(Act \union {i}) = IF i \in Act THEN Cardinality(Act) ELSE Cardinality(Act) + 1
        BY <3>1, FS_AddElement
      <3>. QED BY <2>1, <2>2, <3>1, <3>2, MeetingsAssumption
    <2>4. Covered'
      <3>1. ASSUME NEW r \in Room, bot'[r].status = "active"
            PROVE  r \in forgiven' \/ \E j \in Act' : queue'[j].room = r
        <4>1. bot[r].status = "active" BY <1>0, <3>1
        <4>2. CASE r \in forgiven BY <1>0, <4>2
        <4>3. CASE \E j \in Act : queue[j].room = r
          BY <2>1, <4>3 DEF Kept, Act
        <4>4. CASE \E q \in C!Worker : work[q].at = "sent" /\ queue[C!Min(work[q].todo)].room = r
          <5>1. PICK q \in C!Worker : work[q].at = "sent" /\ queue[C!Min(work[q].todo)].room = r BY <4>4
          <5>2. q = p BY <1>7, <5>1 DEF AloneInv
          <5>3. queue[i].room = r BY <5>1, <5>2 DEF C!RowOf
          <5>. QED BY <1>1, <2>1, <5>3 DEF Kept
        <4>. QED BY <4>1, <4>2, <4>3, <4>4 DEF AloneInv, Covered
      <3>. QED BY <3>1 DEF Covered
    <2>. QED BY <1>0, <1>5, <2>3, <2>4, AloneKept
  <1>. QED BY <1>0, <1>6, <1>7

LEMMA AloneReads ==
  ASSUME CollectionTypes, CollectionTypes', AloneInv, NEW p \in C!Worker, Kept(p), C!Look(p) \/ C!ReadForRequest(p)
  PROVE  AloneInv'
  <1>0. /\ work[p].at \in {"look", "read"} /\ work[p].at \in Walking /\ p \in DOMAIN work
        /\ UNCHANGED <<queue, bot>> /\ work[p] \in WorkType(Len(queue))
    BY DEF C!Look, C!ReadForRequest, C!At, Walking, CollectionTypes
  <1>1. work[p] \in [at : Walking, todo : Todo(Len(queue))] BY <1>0, WorkFields
  <1>2. Act' = Act BY <1>0 DEF Act
  <1>3. Covered' BY <1>0, <1>2, CoverKept
  <1>4. Ready(p)'
    <2>. DEFINE r == C!RoomOf(p)
    <2>1. CASE C!Look(p)
      <3>1. CASE C!NextRow(p)
        <4>1. work'[p].at \in {"idle", "look"} BY <1>0, <3>1, NextRowTypes
        <4>. QED BY <4>1, Indifferent
      <3>2. ASSUME NEW v \in {"fail", "import", "stop"},
                   v = "import" => bot[r].status # "active",
                   C!Goto(p, [at |-> v, todo |-> work[p].todo, heard |-> bot[r].heard])
            PROVE  Ready(p)'
        <4>1. work'[p].at = v /\ work'[p].todo = work[p].todo BY <1>0, <3>2 DEF C!Goto
        <4>. QED BY <1>0, <3>2, <4>1 DEF Ready, C!RoomOf, C!RowOf
      <3>3. ASSUME NEW affected \in BOOLEAN, C!Judged(p, affected) PROVE Ready(p)'
        BY <3>1, <3>2, <3>3 DEF C!Judged, C!Verdict
      <3>4. C!Affected(queue[C!RowOf(p)]) \in BOOLEAN BY <1>0, RowAtHand DEF C!Affected, RowType
      <3>. QED BY <2>1, <3>1, <3>3, <3>4 DEF C!Look
    <2>2. CASE C!ReadForRequest(p)
      <3>1. work[p].at = "read" BY <2>2 DEF C!ReadForRequest, C!At
      <3>2. bot[queue[C!Min(work[p].todo)].room].status # "active" \/ queue[C!Min(work[p].todo)].room \in forgiven
        BY <3>1 DEF AloneInv, Ready
      <3>3. work'[p].at \in {"import", "cancel"} /\ work'[p].todo = work[p].todo
        BY <1>0, <1>1, <2>2 DEF C!ReadForRequest, C!Goto
      <3>. QED BY <1>0, <3>2, <3>3 DEF Ready, Kept
    <2>. QED BY <2>1, <2>2
  <1>. QED BY <1>0, <1>2, <1>3, <1>4, AloneKept DEF AloneInv

LEMMA AloneStops ==
  ASSUME CollectionTypes, CollectionTypes', AloneInv, NEW p \in C!Worker, Kept(p), C!StopBot(p) \/ C!StopForRequest(p)
  PROVE  AloneInv'
  <1>0. /\ work[p].at \in {"stop", "stopBot", "fail"} /\ work[p].at \in Walking \union Ending /\ p \in DOMAIN work
        /\ UNCHANGED queue /\ work[p] \in WorkType(Len(queue))
    BY DEF C!StopBot, C!StopForRequest, C!Stopped, C!At, Walking, Ending, CollectionTypes
  <1>. DEFINE r == C!RoomOf(p)
  <1>1. r \in Room BY <1>0, RoomsAreRooms
  <1>2. \E s \in {"silence", "import", "read", "failed"} : work' = [work EXCEPT ![p] = [work[p] EXCEPT !.at = s]]
    BY DEF C!StopBot, C!StopForRequest, C!Stopped, C!Goto
  <1>3. work'[p].at \in {"silence", "import", "read", "failed"} /\ work'[p].todo = work[p].todo
    BY <1>0, <1>2, WorkFields
  <1>4. /\ bot'[r].status # "active" \/ r \in forgiven'
        /\ \A s \in Room : bot'[s].status = "active" => bot[s].status = "active"
    <2>1. CASE bot' = [bot EXCEPT ![r] = [bot[r] EXCEPT !.status = IF bot[r].status = "active" THEN "completed"
                                                                   ELSE bot[r].status]]
      <3>1. bot[r] \in BotType BY <1>1 DEF CollectionTypes
      <3>. DEFINE b == [bot[r] EXCEPT !.status = IF bot[r].status = "active" THEN "completed" ELSE bot[r].status]
      <3>2. b.status # "active" BY <3>1 DEF BotType
      <3>3. bot' = [bot EXCEPT ![r] = b] BY <2>1
      <3>. HIDE DEF b, r
      <3>. QED BY <1>1, <3>2, <3>3 DEF CollectionTypes
    <2>2. CASE C!Upset({r}) /\ UNCHANGED bot BY <2>2 DEF C!Upset
    <2>. QED BY <2>1, <2>2 DEF C!StopBot, C!StopForRequest, C!Stopped
  <1>5. Ready(p)' BY <1>0, <1>3, <1>4 DEF Ready, C!RoomOf, C!RowOf
  <1>6. Act' = Act BY <1>0 DEF Act
  <1>7. Covered' BY <1>0, <1>4, <1>6, CoverKept
  <1>. QED BY <1>0, <1>5, <1>6, <1>7, AloneKept DEF AloneInv

LEMMA AloneEnds ==
  ASSUME CollectionTypes, CollectionTypes', AloneInv, NEW p \in C!Worker, Kept(p),
         C!FailRow(p) \/ C!Silence(p) \/ C!Import(p) \/ C!CancelRow(p)
  PROVE  AloneInv'
  <1>0. /\ work[p].at \in {"failed", "silence", "import", "cancel"} /\ work[p].at \in Walking \union Ending
        /\ UNCHANGED bot /\ DOMAIN queue' = DOMAIN queue
    BY DEF C!FailRow, C!Silence, C!Import, C!CancelRow, C!At, Walking, Ending, CollectionTypes, Kept
  <1>. DEFINE i == C!RowOf(p)
  <1>1. i \in DOMAIN queue /\ i = C!Min(work[p].todo) BY <1>0, RowAtHand DEF C!RowOf
  <1>2. bot[queue[i].room].status # "active" \/ queue[i].room \in forgiven
    BY <1>0, <1>1 DEF AloneInv, Ready
  <1>3. UNCHANGED queue \/ \E s \in {"failed", "silent", "imported", "canceled"} : C!SetStatus(i, s)
    BY DEF C!FailRow, C!Silence, C!Import, C!CancelRow
  <1>4. Act' \subseteq Act /\ \A j \in Act : j \in Act' \/ j = i
    <2>1. CASE UNCHANGED queue BY <2>1 DEF Act
    <2>2. ASSUME NEW s \in {"failed", "silent", "imported", "canceled"}, C!SetStatus(i, s)
          PROVE  Act' \subseteq Act /\ \A j \in Act : j \in Act' \/ j = i
      <3>1. s \in RowStatus BY DEF RowStatus
      <3>2. queue'[i].status = s /\ \A j \in DOMAIN queue : j # i => queue'[j] = queue[j]
        BY <1>1, <2>2, <3>1, StatusSet
      <3>. HIDE DEF i
      <3>. QED BY <1>0, <3>2 DEF Act
    <2>. QED BY <1>3, <2>1, <2>2
  <1>5. Covered'
    <2>. HIDE DEF i
    <2>. QED BY <1>0, <1>2, <1>4, CoverKept DEF Kept
  <1>6. work'[p].at \in {"idle", "look", "recover"}
    <2>1. C!NextRow(p) \/ C!Hand(p, "silent_room") \/ C!Hand(p, "partial")
      BY DEF C!FailRow, C!Silence, C!Import, C!CancelRow
    <2>2. Len(queue') = Len(queue) BY DEF Kept
    <2>. QED BY <1>0, <2>1, <2>2, NextRowTypes, HandTypes
  <1>. QED BY <1>0, <1>4, <1>5, <1>6, FewerRows, Indifferent, AloneKept

LEMMA AloneMarks ==
  ASSUME CollectionTypes, CollectionTypes', AloneInv, NEW p \in C!Worker, Kept(p), C!MarkStopping(p)
  PROVE  AloneInv'
  <1>0. /\ work[p].at = "stopping" /\ work[p].at \in Walking /\ p \in DOMAIN work /\ work[p] \in WorkType(Len(queue))
        /\ UNCHANGED bot /\ DOMAIN queue' = DOMAIN queue
    BY DEF C!MarkStopping, C!At, Walking, CollectionTypes, Kept
  <1>. DEFINE i == C!RowOf(p)
  <1>1. i \in DOMAIN queue /\ i = C!Min(work[p].todo) BY <1>0, RowAtHand DEF C!RowOf
  <1>2. C!SetStatus(i, "stopping") /\ "stopping" \in RowStatus BY DEF C!MarkStopping, RowStatus
  <1>3. queue'[i].status = "stopping" /\ \A j \in DOMAIN queue : j # i => queue'[j] = queue[j]
    BY <1>1, <1>2, StatusSet
  <1>4. i \in Act BY <1>0, <1>1 DEF AloneInv, Ready
  <1>5. Act' = Act
    <2>. HIDE DEF i
    <2>. QED BY <1>0, <1>1, <1>3, <1>4 DEF Act
  <1>6. Covered' BY <1>0, <1>5, CoverKept
  <1>7. work'[p].at = "stopBot" BY <1>0, WorkFields DEF C!MarkStopping, C!Goto
  <1>. QED BY <1>0, <1>5, <1>6, <1>7, Indifferent, AloneKept DEF AloneInv

LEMMA AloneHands ==
  ASSUME CollectionTypes, CollectionTypes', AloneInv, NEW p \in C!Worker, Kept(p), C!EnqueueRecovery(p) \/ C!Crash(p)
  PROVE  AloneInv'
  <1>0. /\ work[p].at # "idle" /\ p \in DOMAIN work /\ UNCHANGED <<queue, bot>> /\ work[p] \in WorkType(Len(queue))
    BY DEF C!EnqueueRecovery, C!Crash, C!At, CollectionTypes
  <1>1. Act' = Act BY <1>0 DEF Act
  <1>2. CASE C!EnqueueRecovery(p)
    <2>1. work[p].at = "recover" BY <1>2 DEF C!EnqueueRecovery, C!At
    <2>2. Covered' BY <1>0, <1>1, <2>1, CoverKept
    <2>3. work'[p].at \in {"idle", "look"} BY <1>0, <1>2, <2>1, NextRowTypes DEF C!EnqueueRecovery
    <2>. QED BY <1>0, <1>1, <2>2, <2>3, Indifferent, AloneKept DEF AloneInv
  <1>3. CASE C!Crash(p)
    <2>1. work'[p].at = "idle" BY <1>0, <1>3 DEF C!Crash, C!Goto, C!Idle
    <2>2. work[p].at = "sent" => C!RoomOf(p) \in forgiven'
      <3>. SUFFICES ASSUME work[p].at = "sent" PROVE C!RoomOf(p) \in forgiven' OBVIOUS
      <3>1. work[p].at \in Walking BY DEF Walking
      <3>2. work[p] \in [at : Walking, todo : Todo(Len(queue))] BY <1>0, <3>1, WorkFields
      <3>3. "todo" \in DOMAIN work[p] /\ work[p].todo # {} BY <3>2 DEF Todo
      <3>. QED BY <1>3, <3>3 DEF C!Crash, C!Upset
    <2>3. Covered'
      <3>1. ASSUME NEW r \in Room, bot'[r].status = "active"
            PROVE  r \in forgiven' \/ \E j \in Act' : queue'[j].room = r
        <4>1. bot[r].status = "active" BY <1>0, <3>1
        <4>2. CASE r \in forgiven BY <4>2 DEF Kept
        <4>3. CASE \E j \in Act : queue[j].room = r BY <1>0, <1>1, <4>3
        <4>4. CASE \E q \in C!Worker : work[q].at = "sent" /\ queue[C!Min(work[q].todo)].room = r
          <5>1. PICK q \in C!Worker : work[q].at = "sent" /\ queue[C!Min(work[q].todo)].room = r BY <4>4
          <5>2. q = p BY <1>0, <5>1 DEF AloneInv
          <5>. QED BY <2>2, <5>1, <5>2 DEF C!RoomOf, C!RowOf
        <4>. QED BY <4>1, <4>2, <4>3, <4>4 DEF AloneInv, Covered
      <3>. QED BY <3>1 DEF Covered
    <2>. QED BY <1>0, <1>1, <2>1, <2>3, Indifferent, AloneKept DEF AloneInv
  <1>. QED BY <1>2, <1>3

\* Work that begins while nobody else is at work.
LEMMA AloneBegins ==
  ASSUME CollectionTypes, CollectionTypes', AloneInv, NEW p \in C!Worker, Begun(p), ~sideways'
  PROVE  AloneInv'
  <1>1. \A q \in C!Worker : work[q].at = "idle" BY DEF Begun
  <1>2. \A q \in C!Worker : q # p => work'[q].at = "idle" BY <1>1 DEF Begun
  <1>3. DOMAIN queue \subseteq DOMAIN queue' BY DEF Begun, CollectionTypes
  <1>4. Act' = Act BY <1>3 DEF Begun, Act
  <1>5. Ready(p)' BY <1>3, <1>4 DEF Begun, Ready, Act, C!Active, C!RowOf
  <1>6. \A q \in C!Worker : q # p => Ready(q)' BY <1>2 DEF Ready
  <1>7. Covered'
    <2>1. ASSUME NEW r \in Room, bot'[r].status = "active"
          PROVE  r \in forgiven' \/ \E j \in Act' : queue'[j].room = r
      <3>1. bot[r].status = "active" /\ forgiven' = forgiven BY <2>1 DEF Begun
      <3>2. r \in forgiven \/ \E j \in Act : queue[j].room = r BY <1>1, <3>1 DEF AloneInv, Covered
      <3>. QED BY <1>4, <3>1, <3>2 DEF Begun, Act
    <2>. QED BY <2>1 DEF Covered
  <1>. QED BY <1>2, <1>4, <1>5, <1>6, <1>7 DEF AloneInv

LEMMA AloneAround ==
  ASSUME CollectionTypes, CollectionTypes', AloneInv, Around
  PROVE  AloneInv'
  <1>1. DOMAIN queue' = DOMAIN queue /\ work' = work BY DEF Around, CollectionTypes
  <1>2. Act' = Act BY <1>1 DEF Around, Act
  <1>3. ASSUME NEW p \in C!Worker PROVE Ready(p)'
    <2>1. Ready(p) BY DEF AloneInv
    <2>2. work[p].at \in {"expire", "count"} \union Walking \union Ending =>
            /\ work[p].todo \subseteq DOMAIN queue
      <3>1. work[p] \in WorkType(Len(queue)) /\ DOMAIN queue = 1..Len(queue) BY DEF CollectionTypes
      <3>. QED BY <3>1, WorkFields DEF Todo
    <2>3. work[p].at \in Walking \union Ending => C!Min(work[p].todo) \in DOMAIN queue /\ queue[C!Min(work[p].todo)].room \in Room
      BY RowAtHand DEF C!RowOf, RowType
    <2>4. work[p].at \in {"expire", "count", "send", "sent", "refused"} =>
            \A i \in work[p].todo : queue'[i].status = "queued"
      BY <2>1, <2>2 DEF Ready, Around, Walking
    <2>5. work[p].at \in {"failed", "silence", "import", "read", "cancel"} =>
            \/ bot'[queue'[C!Min(work[p].todo)].room].status # "active"
            \/ queue'[C!Min(work[p].todo)].room \in forgiven'
      BY <2>1, <2>3 DEF Ready, Around, Walking, Ending
    <2>. QED BY <1>1, <1>2, <2>1, <2>4, <2>5 DEF Ready
  <1>4. Covered'
    <2>1. ASSUME NEW r \in Room, bot'[r].status = "active"
          PROVE  \/ r \in forgiven' \/ \E i \in Act' : queue'[i].room = r
                 \/ \E q \in C!Worker : work'[q].at = "sent" /\ queue'[C!Min(work'[q].todo)].room = r
      <3>1. bot[r].status = "active" BY <2>1 DEF Around
      <3>2. CASE r \in forgiven BY <3>2 DEF Around
      <3>3. CASE \E i \in Act : queue[i].room = r BY <1>2, <3>3 DEF Around, Act
      <3>4. CASE \E q \in C!Worker : work[q].at = "sent" /\ queue[C!Min(work[q].todo)].room = r
        <4>1. PICK q \in C!Worker : work[q].at = "sent" /\ queue[C!Min(work[q].todo)].room = r BY <3>4
        <4>2. C!Min(work[q].todo) \in DOMAIN queue BY <4>1, RowAtHand DEF C!RowOf, Walking
        <4>. QED BY <1>1, <4>1, <4>2 DEF Around
      <3>. QED BY <3>1, <3>2, <3>3, <3>4 DEF AloneInv, Covered
    <2>. QED BY <2>1 DEF Covered
  <1>. QED BY <1>1, <1>2, <1>3, <1>4 DEF AloneInv

-----------------------------------------------------------------------------
(* The meetings' theorems. *)

CollectionInv == CollectionTypes /\ Speech /\ (sideways \/ AloneInv)

LEMMA SpeechElsewhere ==
  ASSUME CollectionTypes, CollectionTypes', Speech, Around \/ \E p \in C!Worker : Begun(p)
  PROVE  Speech'
  <1>1. CASE Around
    <2>1. DOMAIN queue' = DOMAIN queue BY <1>1 DEF Around, CollectionTypes
    <2>2. \A i \in DOMAIN queue : Owed(i)' => Owed(i) BY <1>1 DEF Around
    <2>3. \A i \in DOMAIN queue : OnItsWay(i) => OnItsWay(i)' BY <1>1 DEF Around, OnItsWay
    <2>. QED BY <2>1, <2>2, <2>3 DEF Speech
  <1>2. ASSUME NEW p \in C!Worker, Begun(p) PROVE Speech'
    <2>1. \A i \in DOMAIN queue : Owed(i)' => Owed(i) BY <1>2 DEF Begun
    <2>2. \A i \in DOMAIN queue : OnItsWay(i) => OnItsWay(i)' BY <1>2 DEF Begun, OnItsWay
    <2>3. \A i \in DOMAIN queue' \ DOMAIN queue : ~Owed(i)' BY <1>2 DEF Begun
    <2>. QED BY <2>1, <2>2, <2>3 DEF Speech
  <1>. QED BY <1>1, <1>2

LEMMA CollectionStep == CollectionInv /\ [C!Next]_(C!vars) => CollectionInv'
  <1>. SUFFICES ASSUME CollectionInv, [C!Next]_(C!vars) PROVE CollectionInv' OBVIOUS
  <1>. USE DEF CollectionInv
  <1>1. CASE UNCHANGED C!vars
    <2>1. CollectionTypes' BY <1>1 DEF C!vars, CollectionTypes
    <2>2. Speech' BY <1>1 DEF C!vars, Speech, Owed, WrittenOff, Unheard, OnItsWay
    <2>3. AloneInv => AloneInv' BY <1>1 DEF C!vars, AloneInv, Ready, Covered, Act
    <2>. QED BY <1>1, <2>1, <2>2, <2>3 DEF C!vars
  <1>2. ASSUME NEW p \in C!Worker,
               \/ \E r \in Room : C!Collect(p, r)
               \/ C!StartTick(p)
               \/ \E i \in DOMAIN queue : C!RequestStop(p, i)
        PROVE  CollectionInv'
    <2>1. CollectionTypes' /\ Begun(p) BY <1>2, StartKeeps
    <2>2. Speech' BY <2>1, SpeechElsewhere
    <2>3. ~sideways' => AloneInv' BY <2>1, AloneBegins DEF Begun
    <2>. QED BY <2>1, <2>2, <2>3
  <1>3. ASSUME NEW p \in C!Worker, C!WorkerStep(p) \/ C!Crash(p)
        PROVE  CollectionInv'
    <2>1. CollectionTypes' /\ Kept(p)
      BY <1>3, PromotionKeeps, BotKeeps, ReadingKeeps, StoppingKeeps, EndingKeeps, RecoveryKeeps DEF C!WorkerStep
    <2>2. Speech' BY <1>3, <2>1, SpeechStep
    <2>3. AloneInv => AloneInv'
      BY <1>3, <2>1, AlonePromotes, AloneSends, AloneRecords, AloneReads, AloneStops, AloneEnds, AloneMarks, AloneHands
      DEF C!WorkerStep
    <2>. QED BY <2>1, <2>2, <2>3 DEF Kept
  <1>4. CASE \/ C!AccountFalls \/ C!AccountStaysDown \/ C!AccountReturns
             \/ \E r \in Room : C!Speak(r) \/ C!SpeakInVain(r) \/ C!MeetingEnds(r) \/ C!BotDies(r)
             \/ \E i \in DOMAIN queue : C!TimePasses(i)
    <2>1. CollectionTypes' /\ Around BY <1>4, WorldKeeps
    <2>2. Speech' BY <2>1, SpeechElsewhere
    <2>3. AloneInv => AloneInv' BY <2>1, AloneAround
    <2>. QED BY <2>1, <2>2, <2>3 DEF Around
  <1>. QED BY <1>1, <1>2, <1>3, <1>4 DEF C!Next, C!Worker

LEMMA CollectionInit == InitMeetings => CollectionInv
  <1>. SUFFICES ASSUME InitMeetings PROVE CollectionInv OBVIOUS
  <1>1. /\ queue = <<>> /\ handed = <<>> /\ bot = [r \in Room |-> C!NoBot] /\ health = "ok"
        /\ work = [p \in C!Worker |-> C!Idle] /\ sideways = FALSE /\ forgiven = {}
    BY DEF InitMeetings, C!Init
  <1>2. C!Idle \in WorkType(0) /\ C!Idle.at = "idle" BY DEF WorkType, C!Idle
  <1>3. queue \in Seq(RowType) /\ handed \in Seq(Reason) /\ Len(queue) = 0 /\ Len(handed) = 0 /\ DOMAIN queue = {}
    BY <1>1, EmptySeq
  <1>4. C!NoBot \in BotType /\ C!NoBot.status # "active" BY DEF C!NoBot, BotType
  <1>5. CollectionTypes BY <1>1, <1>2, <1>3, <1>4 DEF CollectionTypes
  <1>6. Speech BY <1>3 DEF Speech
  <1>7. AloneInv
    <2>1. Cardinality(Act) <= MaxConcurrent BY <1>3, FS_EmptySet, MeetingsAssumption DEF Act
    <2>2. \A p \in C!Worker : work[p].at = "idle" BY <1>1, <1>2
    <2>3. \A p \in C!Worker : Ready(p) BY <2>2 DEF Ready
    <2>4. Covered BY <1>1, <1>4 DEF Covered
    <2>. QED BY <2>1, <2>2, <2>3, <2>4 DEF AloneInv
  <1>. QED BY <1>5, <1>6, <1>7 DEF CollectionInv

(* What the code keeps of collections, recoveries and digests holds from the
   start of every behaviour to its end. *)
THEOREM Invariance == SpecMeetings => [](CollectionInv /\ DigestInv)
  <1>1. InitMeetings => CollectionInv /\ DigestInv BY CollectionInit, DigestInit
  <1>2. (CollectionInv /\ DigestInv) /\ [NextMeetings]_<<part, scheduling, collecting, ended>>
          => (CollectionInv /\ DigestInv)'
    <2>. SUFFICES ASSUME CollectionInv, DigestInv, [NextMeetings]_<<part, scheduling, collecting, ended>>
                  PROVE  CollectionInv' /\ DigestInv'
      OBVIOUS
    <2>1. [C!Next]_(C!vars) BY DEF NextMeetings, collecting, C!vars
    <2>2. [D!Next]_(D!vars) BY DEF NextMeetings, ended, D!vars
    <2>. QED BY <2>1, <2>2, CollectionStep, DigestStep
  <1>. QED BY <1>1, <1>2, PTL DEF SpecMeetings

(* Collections, recoveries and digests keep their types. *)
THEOREM TypeCorrect == SpecMeetings => [](C!TypeOK /\ D!TypeOK)
  <1>1. CollectionInv => C!TypeOK
    <2>. SUFFICES ASSUME CollectionTypes PROVE C!TypeOK BY DEF CollectionInv
    <2>1. C!Range(handed) \subseteq Reason BY DEF CollectionTypes, C!Range
    <2>2. DOMAIN work = C!Worker BY DEF CollectionTypes
    <2>. QED BY <2>1, <2>2 DEF CollectionTypes, C!TypeOK, RowType, RowStatus, BotType, Reason, C!Active
  <1>2. DigestInv => D!TypeOK
    BY DEF DigestInv, DigestTypes, D!TypeOK, EpisodeType, SummaryType, RecoveryType
  <1>. QED BY <1>1, <1>2, Invariance, PTL

(* VEXA_MAX_CONCURRENT: whoever promotes the queue alone never has more bots at
   work than places, whatever fails or crashes between the count, the call to
   Vexa and the row that records it (promoteQueuedMeetings). *)
THEOREM PlacesAreKept == SpecMeetings => []CapKept
  <1>1. CollectionInv => CapKept
    <2>. SUFFICES ASSUME CollectionTypes, AloneInv PROVE Cardinality(Act) <= MaxConcurrent /\ Act = C!WithStatus(C!Active)
      BY SameCardinality DEF CollectionInv, CapKept, C!CapKept
    <2>. QED BY ActFinite DEF AloneInv
  <1>. QED BY <1>1, Invariance, PTL

(* A bot in a room has a row that will take it out, or a worker about to record
   or to end it, unless a crash, a swallowed failure, a lost answer of Vexa or
   overlapping work lost it (promoteQueuedMeetings, processCollectedMeeting, the stop route). *)
THEOREM BotsAreKnown == SpecMeetings => []NoOrphanBot
  <1>1. CollectionInv => NoOrphanBot
    <2>. SUFFICES ASSUME CollectionTypes, AloneInv, NEW r \in Room, bot[r].status = "active"
                  PROVE  \/ r \in forgiven
                         \/ \E i \in C!WithStatus(C!Active) : queue[i].room = r
                         \/ \E p \in C!Worker : work[p].at \in {"sent", "silence", "import"} /\ C!RoomOf(p) = r
      BY DEF CollectionInv, NoOrphanBot, C!NoOrphanBot
    <2>. QED BY ActFinite DEF AloneInv, Covered, C!RoomOf, C!RowOf
  <1>. QED BY <1>1, Invariance, PTL

(* A room written off as silent or cancelled, or imported though somebody spoke
   during an outage its started_at has not left behind, is handed to the recovery,
   however requests and ticks overlap and the account falls and returns
   (processCollectedMeeting, sttAffectedSince, enqueueRecovery). *)
THEOREM SpeechReachesRecovery == SpecMeetings => []SpeechIsNotLost
  <1>1. CollectionInv => SpeechIsNotLost
    <2>. SUFFICES ASSUME Speech, NEW i \in DOMAIN queue, WrittenOff(i) PROVE OnItsWay(i)
      BY DEF CollectionInv, SpeechIsNotLost, C!SpeechIsNotLost, WrittenOff, OnItsWay, C!At, C!RowOf
    <2>. QED BY DEF Speech, Owed
  <1>. QED BY <1>1, Invariance, PTL

(* The recording replaces the partial transcript it was asked to replace, and no
   other import undoes that (meetings-recover/service.ts). *)
THEOREM RecordingStays == SpecMeetings => []RecordingPrevails
  <1>1. DigestInv => RecordingPrevails BY DEF DigestInv, Forced, RecordingPrevails, D!RecordingPrevails
  <1>. QED BY <1>1, Invariance, PTL

(* A digest is only ever written of the revision the episode has at that moment,
   however late the model answers (finishSummaryJob). *)
THEOREM DigestsAreCurrent == SpecMeetings => DigestIsCurrent
  <1>1. DigestInv /\ [NextMeetings]_<<part, scheduling, collecting, ended>>
          => [episode'.digest # episode.digest => episode'.digest = episode.rev]_(D!vars)
    <2>. SUFFICES ASSUME DigestInv, D!Next, episode'.digest # episode.digest PROVE episode'.digest = episode.rev
      BY DEF NextMeetings, ended, D!vars
    <2>0. episode \in EpisodeType BY DEF DigestInv, DigestTypes
    <2>1. ASSUME NEW text, NEW audio, NEW force, D!InsertEpisode(text, audio, force)
          PROVE  episode'.digest = episode.digest
      BY <2>0, <2>1 DEF D!InsertEpisode, EpisodeType
    <2>2. ~D!Reimport /\ \A p \in D!Process : ~D!Recover(p) BY <2>1 DEF D!Reimport, D!Recover
    <2>3. ~D!ArchiveAudio BY <2>0 DEF D!ArchiveAudio, EpisodeType
    <2>4. PICK p \in D!Process : D!Save(p)
      BY <2>2, <2>3 DEF D!Next, D!Step, D!EnqueueAgain, D!LeaseRunsOut, D!PostponeRecovery, D!RecoveryFails, D!CloseEmpty,
                        D!SummaryFails, D!Crash, D!ClaimRecovery, D!NoSpeech, D!FinishRecovery, D!ClaimSummary, D!Load
    <2>5. episode.rev = hand[p].rev /\ episode' = [episode EXCEPT !.digest = hand[p].rev] BY <2>4 DEF D!Save
    <2>. QED BY <2>0, <2>5 DEF EpisodeType
  <1>. QED BY <1>1, Invariance, PTL DEF SpecMeetings, DigestIsCurrent, D!DigestIsCurrent
=============================================================================
