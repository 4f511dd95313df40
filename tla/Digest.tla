------------------------------- MODULE Digest -------------------------------
(***************************************************************************)
(* What happens to a collected meeting afterwards: the episode and its     *)
(* revisions (episodes/db.ts), the transcription from the recording when   *)
(* the live one failed (meetings-recover), the digest written by a model   *)
(* (meetings-summary) and the copy of the audio (meetings-audio). Both     *)
(* queues lease their job to a worker that may outlive the lease.          *)
(***************************************************************************)
EXTENDS Integers, FiniteSets

CONSTANTS Recoverer, Writer,   \* processes that poll either queue
          MaxAttempts,
          MaxRevisions,        \* bound: imports of the episode
          MaxUpsets            \* bound: failed calls, crashes, leases run out

VARIABLES
  episode,    \* [rev, text, digest, audio]; rev 0 is no episode, digest the revision summarised
  summary,    \* the row of meeting_summary_jobs: [status, rev, attempts]
  recovery,   \* the row of meeting_recovery_jobs: [status, reason, attempts]
  job,        \* what each process holds
  lapsed,     \* leases that have run out: subset of {"summary", "recovery"}
  upsets

vars == <<episode, summary, recovery, job, lapsed, upsets>>

Idle == [at |-> "idle"]
Process == Recoverer \union Writer
Goto(p, j) == job' = [job EXCEPT ![p] = j]
At(p, step) == job[p].at = step
Upset == upsets < MaxUpsets /\ upsets' = upsets + 1
Ended == {"done", "failed", "no_speech", "none"}

TypeOK ==
  /\ episode \in [rev : 0..MaxRevisions, text : {"none", "live", "recording"},
                  digest : 0..MaxRevisions, audio : BOOLEAN]
  /\ summary \in [status : {"none", "pending", "processing", "done", "failed"},
                  rev : 0..MaxRevisions, attempts : Nat]
  /\ recovery \in [status : {"none", "pending", "processing", "done", "no_speech", "failed"},
                   reason : {"silent_room", "partial"}, attempts : Nat]
  /\ DOMAIN job = Process /\ lapsed \subseteq {"summary", "recovery"} /\ upsets \in Nat

\* The collection ended in silence, or imported a transcript that may be partial.
Init ==
  /\ \/ /\ episode = [rev |-> 0, text |-> "none", digest |-> 0, audio |-> FALSE]
        /\ summary = [status |-> "none", rev |-> 0, attempts |-> 0]
        /\ recovery = [status |-> "pending", reason |-> "silent_room", attempts |-> 0]
     \/ /\ episode = [rev |-> 1, text |-> "live", digest |-> 0, audio |-> FALSE]
        /\ summary = [status |-> "pending", rev |-> 1, attempts |-> 0]
        /\ \E s \in {"none", "pending"} :
             recovery = [status |-> s, reason |-> "partial", attempts |-> 0]
  /\ job = [p \in Process |-> Idle] /\ lapsed = {} /\ upsets = 0

-----------------------------------------------------------------------------
(* insertEpisodeWithTurns, which enqueues the digest in its transaction. *)

InsertEpisode(text, audio, force) ==
  IF episode.rev > 0 /\ ~force THEN UNCHANGED <<episode, summary, lapsed>>
  ELSE /\ episode.rev < MaxRevisions
       /\ episode' = [episode EXCEPT !.rev = @ + 1, !.text = text, !.audio = audio]
       /\ summary' = [status |-> "pending", rev |-> episode.rev + 1, attempts |-> 0]
       /\ lapsed' = lapsed \ {"summary"}

\* An operator imports the meeting again with "force".
Reimport ==
  /\ episode.rev > 0 /\ InsertEpisode(episode.text, FALSE, TRUE)
  /\ UNCHANGED <<recovery, job, upsets>>

\* enqueuePendingEpisodes and enqueueOneEpisode, the backfill and its --redo.
EnqueueAgain ==
  /\ episode.rev > 0 /\ summary.status \in Ended /\ Upset
  /\ summary' = [status |-> "pending", rev |-> episode.rev, attempts |-> 0]
  /\ lapsed' = lapsed \ {"summary"}
  /\ UNCHANGED <<episode, recovery, job>>

\* The poller's pending list, the copy in R2, and a key that is set only once.
ArchiveAudio ==
  /\ episode.rev > 0 /\ ~episode.audio
  /\ episode' = [episode EXCEPT !.audio = TRUE]
  /\ UNCHANGED <<summary, recovery, job, lapsed, upsets>>

-----------------------------------------------------------------------------
(* meetings-recover *)

\* Mutant: a job that is being processed is nobody else's.
ClaimablePending(row, queue) == row.status = "pending"

Claimable(row, queue) == row.status = "pending" \/ (row.status = "processing" /\ queue \in lapsed)

ClaimRecovery(p) ==
  /\ p \in Recoverer /\ At(p, "idle") /\ Claimable(recovery, "recovery")
  /\ recovery' = [recovery EXCEPT !.status = "processing"]
  /\ Goto(p, [at |-> "recover", reason |-> recovery.reason, attempts |-> recovery.attempts])
  /\ lapsed' = lapsed \ {"recovery"}
  /\ UNCHANGED <<episode, summary, upsets>>

SettleRecovery(status, attempts) ==
  /\ recovery' = [recovery EXCEPT !.status = status, !.attempts = attempts]
  /\ lapsed' = lapsed \ {"recovery"}

\* The account is down, the recording is not there yet, or the environment fails: no attempt.
PostponeRecovery(p) ==
  /\ At(p, "recover") /\ Upset
  /\ SettleRecovery("pending", recovery.attempts) /\ Goto(p, Idle)
  /\ UNCHANGED <<episode, summary>>

\* The recording holds no conversation.
NoSpeech(p) ==
  /\ At(p, "recover")
  /\ SettleRecovery("no_speech", recovery.attempts) /\ Goto(p, Idle)
  /\ UNCHANGED <<episode, summary, upsets>>

\* No recording after a day, or a failure once too often.
RecoveryFails(p) ==
  /\ At(p, "recover") /\ Upset /\ Goto(p, Idle)
  /\ \/ SettleRecovery("failed", recovery.attempts)
     \/ job[p].attempts + 1 < MaxAttempts /\ SettleRecovery("pending", recovery.attempts + 1)
  /\ UNCHANGED <<episode, summary>>

\* Mutant: a transcript that is there already is kept.
RecoverUnforced(p) ==
  /\ At(p, "recover")
  /\ InsertEpisode("recording", TRUE, FALSE)
  /\ Goto(p, [at |-> "recovered"])
  /\ UNCHANGED <<recovery, upsets>>

Recover(p) ==
  /\ At(p, "recover")
  /\ InsertEpisode("recording", TRUE, job[p].reason = "partial")
  /\ Goto(p, [at |-> "recovered"])
  /\ UNCHANGED <<recovery, upsets>>

FinishRecovery(p) ==
  /\ At(p, "recovered")
  /\ SettleRecovery("done", recovery.attempts) /\ Goto(p, Idle)
  /\ UNCHANGED <<episode, summary, upsets>>

-----------------------------------------------------------------------------
(* meetings-summary *)

ClaimSummary(p) ==
  /\ p \in Writer /\ At(p, "idle") /\ Claimable(summary, "summary")
  /\ summary' = [summary EXCEPT !.status = "processing", !.attempts = @ + 1]
  /\ Goto(p, [at |-> "load", rev |-> summary.rev, attempts |-> summary.attempts + 1])
  /\ lapsed' = lapsed \ {"summary"}
  /\ UNCHANGED <<episode, recovery, upsets>>

\* A job claimed for a revision that is gone is dropped without a word.
Load(p) ==
  /\ At(p, "load")
  /\ Goto(p, IF episode.rev = job[p].rev THEN [job[p] EXCEPT !.at = "write"] ELSE Idle)
  /\ UNCHANGED <<episode, summary, recovery, lapsed, upsets>>

Settle(p, status, attempts) ==
  /\ summary' = [summary EXCEPT !.status = status, !.attempts = attempts]
  /\ lapsed' = lapsed \ {"summary"} /\ Goto(p, Idle)

\* Mutant: the digest is written whatever the revision.
SaveUnguarded(p) ==
  /\ At(p, "write")
  /\ episode' = [episode EXCEPT !.digest = job[p].rev]
  /\ Settle(p, "done", summary.attempts)
  /\ UNCHANGED <<recovery, upsets>>

\* finishSummaryJob: the digest and the job together, if the revision is still that.
Save(p) ==
  /\ At(p, "write")
  /\ IF episode.rev = job[p].rev
     THEN /\ episode' = [episode EXCEPT !.digest = job[p].rev]
          /\ Settle(p, IF summary.rev = job[p].rev THEN "done" ELSE summary.status, summary.attempts)
     ELSE Goto(p, Idle) /\ UNCHANGED <<episode, summary, lapsed>>
  /\ UNCHANGED <<recovery, upsets>>

\* closeSummaryJobEmpty: nothing to summarise, says the model.
CloseEmpty(p) ==
  /\ At(p, "write") /\ Upset
  /\ Settle(p, "done", summary.attempts)
  /\ UNCHANGED <<episode, recovery>>

\* nextJobOutcome after a failure: an outage takes back the attempt, up to an age.
SummaryFails(p) ==
  /\ At(p, "write") /\ Upset
  /\ \/ Settle(p, "pending", IF summary.attempts > 0 THEN summary.attempts - 1 ELSE 0)
     \/ job[p].attempts < MaxAttempts /\ Settle(p, "pending", summary.attempts)
     \/ Settle(p, "failed", summary.attempts)
  /\ UNCHANGED <<episode, recovery>>

-----------------------------------------------------------------------------

LeaseRunsOut ==
  \E q \in {"summary", "recovery"} \ lapsed :
    /\ (IF q = "summary" THEN summary.status ELSE recovery.status) = "processing"
    /\ lapsed' = lapsed \union {q}
    /\ \/ UNCHANGED upsets /\ \A p \in IF q = "summary" THEN Writer ELSE Recoverer : At(p, "idle")
       \/ Upset
    /\ UNCHANGED <<episode, summary, recovery, job>>

Crash(p) ==
  /\ ~At(p, "idle") /\ Upset /\ Goto(p, Idle)
  /\ UNCHANGED <<episode, summary, recovery, lapsed>>

Step(p) ==
  \/ ClaimRecovery(p) \/ NoSpeech(p) \/ Recover(p) \/ FinishRecovery(p)
  \/ ClaimSummary(p) \/ Load(p) \/ Save(p)

Next ==
  \/ Reimport \/ EnqueueAgain \/ ArchiveAudio \/ LeaseRunsOut
  \/ \E p \in Process : \/ Step(p) \/ PostponeRecovery(p) \/ RecoveryFails(p)
                        \/ CloseEmpty(p) \/ SummaryFails(p) \/ Crash(p)

Spec == Init /\ [][Next]_vars

\* Pollers tick, calls return, leases run out.
Fairness == WF_vars(LeaseRunsOut) /\ \A p \in Process : WF_vars(Step(p))
FairSpec == Spec /\ Fairness

-----------------------------------------------------------------------------
(* Properties. *)

(* finishSummaryJob: a digest is never written of a revision the episode has
   left behind, however late the model answers. *)
DigestIsCurrent == [][episode'.digest # episode.digest => episode'.digest = episode.rev]_vars

(* meetings-recover/service.ts: the recording replaces the live transcript it
   was asked to replace, and no other import undoes that. *)
RecordingPrevails == recovery.status = "done" /\ recovery.reason = "partial" => episode.text = "recording"

(* Either queue ends with every job it is given. *)
JobsEnd == []<>({recovery.status, summary.status} \subseteq Ended)

(* meetings-summary/db.ts:138, "o job ja foi reenfileirado pelo force e a revisao
   nova sera resumida": no outcome of an older revision ends the job of the new one. *)
NewRevisionIsKept ==
  [][\A p \in Writer : At(p, "write") /\ summary'.status \in {"done", "failed"} =>
       job'[p] = job[p] \/ job[p].rev = summary.rev]_vars
=============================================================================
