------------------------------ MODULE Receipts ------------------------------
(***************************************************************************)
(* The webhook receipts of receipts/db.ts: an inbox made idempotent by the *)
(* provider's event id, worked off under a 10-minute lease. It is the one  *)
(* queue of the system whose outcome is fenced: the UPDATE that records it *)
(* names the claim (claimed_by and attempt_count) it belongs to.           *)
(*                                                                         *)
(* No code of src/ calls the claim yet; Work, Crash and Stall are the      *)
(* worker the tests play: it marks each claim at most once, but the lease  *)
(* may run out under it, and the same worker may claim the row again.      *)
(***************************************************************************)
EXTENDS Integers, FiniteSets

CONSTANTS Receipt, Worker,
          Nobody,        \* claimed_by IS NULL
          MaxAttempts,   \* the maxAttempts argument
          BatchSize,     \* the batchSize argument
          MaxFaults      \* bound: crashes and leases outlived

ASSUME ReceiptsAssumption ==
  /\ Nobody \notin Worker
  /\ MaxAttempts \in Nat \ {0} /\ BatchSize \in Nat \ {0} /\ MaxFaults \in Nat

VARIABLES
  status,     \* webhook_receipts.status, "absent" before the row exists
  attempt,    \* attempt_count
  claimedBy,  \* claimed_by (never cleared by the code)
  leased,     \* claimed_at is set and younger than 10 minutes
  due,        \* next_attempt_at <= NOW()
  tasks,      \* claims being worked on: worker, receipt, row.attempt_count
  faults

vars == <<status, attempt, claimedBy, leased, due, tasks, faults>>

Claim == Worker \X Receipt \X Nat

TypeOK ==
  /\ status    \in [Receipt -> {"absent", "received", "failed", "processed", "dead"}]
  /\ attempt   \in [Receipt -> Nat]
  /\ claimedBy \in [Receipt -> Worker \union {Nobody}]
  /\ leased    \in [Receipt -> BOOLEAN]
  /\ due       \in [Receipt -> BOOLEAN]
  /\ tasks \subseteq Claim
  /\ faults \in Nat

Init ==
  /\ status = [r \in Receipt |-> "absent"] /\ attempt = [r \in Receipt |-> 0]
  /\ claimedBy = [r \in Receipt |-> Nobody]
  /\ leased = [r \in Receipt |-> FALSE] /\ due = [r \in Receipt |-> FALSE]
  /\ tasks = {} /\ faults = 0

\* A repeated delivery of the event finds the row and changes nothing.
InsertReceipt(r) ==
  /\ status[r] = "absent"
  /\ status' = [status EXCEPT ![r] = "received"]
  /\ due' = [due EXCEPT ![r] = TRUE]
  /\ UNCHANGED <<attempt, claimedBy, leased, tasks, faults>>

\* The backoff of a failed receipt has passed.
BecomeDue(r) ==
  /\ status[r] = "failed" /\ ~due[r]
  /\ due' = [due EXCEPT ![r] = TRUE]
  /\ UNCHANGED <<status, attempt, claimedBy, leased, tasks, faults>>

Held(r) == \E t \in tasks : t[2] = r /\ t[3] = attempt[r]

\* A lease nobody works under any more runs out.
LeaseExpires(r) ==
  /\ leased[r] /\ ~Held(r)
  /\ leased' = [leased EXCEPT ![r] = FALSE]
  /\ UNCHANGED <<status, attempt, claimedBy, due, tasks, faults>>

\* The lease runs out under a worker that is still at it.
Stall(r) ==
  /\ leased[r] /\ Held(r) /\ faults < MaxFaults
  /\ leased' = [leased EXCEPT ![r] = FALSE]
  /\ faults' = faults + 1
  /\ UNCHANGED <<status, attempt, claimedBy, due, tasks>>

\* Mutant: a claim that a crash lost is not taken over.
ClaimableUnclaimed == {r \in Receipt : /\ status[r] \in {"received", "failed"}
                                       /\ due[r] /\ claimedBy[r] = Nobody}

Claimable == {r \in Receipt : /\ status[r] \in {"received", "failed"}
                              /\ due[r] /\ ~leased[r]}

BatchOf(S) == {B \in SUBSET S : \/ B = S /\ Cardinality(S) <= BatchSize
                                \/ Cardinality(B) = BatchSize}

\* One UPDATE over FOR UPDATE SKIP LOCKED.
ClaimDueReceipts(w) ==
  /\ Claimable # {}
  /\ \E B \in BatchOf(Claimable) :
       /\ attempt' = [r \in Receipt |-> IF r \in B THEN attempt[r] + 1 ELSE attempt[r]]
       /\ claimedBy' = [r \in Receipt |-> IF r \in B THEN w ELSE claimedBy[r]]
       /\ leased' = [r \in Receipt |-> IF r \in B THEN TRUE ELSE leased[r]]
       /\ tasks' = tasks \union {<<w, r, attempt[r] + 1>> : r \in B}
  /\ UNCHANGED <<status, due, faults>>

\* Mutant: the fence without attempt_count.
FencedByWorker(t) == claimedBy[t[2]] = t[1]

\* WHERE id = $1 AND claimed_by = $2 AND attempt_count = $3.
Fenced(t) == claimedBy[t[2]] = t[1] /\ attempt[t[2]] = t[3]

MarkReceiptProcessed(t) ==
  /\ status' = IF Fenced(t) THEN [status EXCEPT ![t[2]] = "processed"] ELSE status
  /\ leased' = IF Fenced(t) THEN [leased EXCEPT ![t[2]] = FALSE] ELSE leased
  /\ UNCHANGED due

Outcome(n) == IF n >= MaxAttempts THEN "dead" ELSE "failed"

MarkReceiptRetryOrDead(t) ==
  /\ status' = IF Fenced(t) THEN [status EXCEPT ![t[2]] = Outcome(t[3])] ELSE status
  /\ leased' = IF Fenced(t) THEN [leased EXCEPT ![t[2]] = FALSE] ELSE leased
  /\ due' = IF Fenced(t) /\ t[3] < MaxAttempts THEN [due EXCEPT ![t[2]] = FALSE] ELSE due

\* The worker handles the receipt, or fails to, and marks its claim once.
Work(t) ==
  /\ MarkReceiptProcessed(t) \/ MarkReceiptRetryOrDead(t)
  /\ tasks' = tasks \ {t}
  /\ UNCHANGED <<attempt, claimedBy, faults>>

Crash(w) ==
  /\ faults < MaxFaults
  /\ \E t \in tasks : t[1] = w
  /\ tasks' = {t \in tasks : t[1] # w}
  /\ faults' = faults + 1
  /\ UNCHANGED <<status, attempt, claimedBy, leased, due>>

Next ==
  \/ \E r \in Receipt : InsertReceipt(r) \/ BecomeDue(r) \/ LeaseExpires(r) \/ Stall(r)
  \/ \E w \in Worker : ClaimDueReceipts(w) \/ Crash(w)
  \/ \E t \in tasks : Work(t)

Spec == Init /\ [][Next]_vars

\* The clock runs and some worker polls and finishes what it claimed.
Fairness ==
  /\ \A r \in Receipt : WF_vars(BecomeDue(r)) /\ WF_vars(LeaseExpires(r))
  /\ WF_vars(\E w \in Worker : ClaimDueReceipts(w))
  /\ WF_vars(\E t \in tasks : Work(t))

FairSpec == Spec /\ Fairness

-----------------------------------------------------------------------------
(* Properties. *)

(* db.ts:42-49, and the test "stale-write guard": a worker whose claim was taken
   over, even by itself, does not undo what the later claim recorded. *)
OutcomeStands ==
  \A r \in Receipt : status[r] \in {"processed", "dead"} => status'[r] = status[r]
OutcomeIsFinal == [][OutcomeStands]_vars

(* Every claim belongs to one worker, and the newest claim of a row is the one
   its fence lets through, as long as somebody works under it. *)
OneHolder ==
  \A s, t \in tasks : s[2] = t[2] /\ s[3] = t[3] => s = t
NewestMayWrite ==
  \A t \in tasks : t[3] = attempt[t[2]] =>
    Fenced(t) /\ status[t[2]] \in {"received", "failed"}
FenceIsExact == OneHolder /\ NewestMayWrite

(* Every receipt ends up processed or dead, whatever crashed on the way. *)
EventuallySettled ==
  \A r \in Receipt : status[r] = "received" ~> status[r] \in {"processed", "dead"}
=============================================================================
