----------------------------- MODULE QueueProofs -----------------------------
(***************************************************************************)
(* The three queues of MCQueues, for every set of workers, rows and ticks: *)
(*   - webhook receipts (receipts/db.ts): the fence lets a write through   *)
(*     only under the newest claim of the row; that claim belongs to one   *)
(*     worker, which still owes the row an outcome (FenceInv), however     *)
(*     many leases are outlived;                                           *)
(*   - notices (notify/notify-db.ts, flush.ts): claims of different        *)
(*     flushers are apart and what was sent without a mark is on account   *)
(*     of a fault (NoticeInv);                                             *)
(*   - transcription jobs (transcription/): a job in hand is pending, not  *)
(*     due, in one hand, and its attempts are accounted for (JobInv).      *)
(* The second and the third hold as long as a batch ends within its lease. *)
(***************************************************************************)
EXTENDS MCQueues, FiniteSetTheorems, SequenceTheorems, WellFoundedInduction, TLAPS

-----------------------------------------------------------------------------
(* Webhook receipts. *)

\* No claim is newer than the row's attempt_count, and the fence is exact.
FenceInv ==
  /\ \A t \in tasks : t[3] <= attempt[t[2]]
  /\ FenceIsExact

Inv == TypeOK /\ FenceInv

LEMMA InitInv == Init => Inv
  BY ReceiptsAssumption DEF Init, Inv, TypeOK, FenceInv, FenceIsExact, OneHolder, NewestMayWrite

\* One lemma per kind of step.

\* Steps that touch neither claims nor the fence, and settle no receipt.
LEMMA QuietStep ==
  ASSUME Inv, UNCHANGED <<attempt, claimedBy, tasks>>,
         TypeOK',
         \A r \in Receipt : status[r] \in {"received", "failed"} => status'[r] = status[r]
  PROVE  Inv'
  <1>1. FenceIsExact'
    <2>1. OneHolder' BY DEF Inv, FenceInv, FenceIsExact, OneHolder
    <2>2. NewestMayWrite'
      BY DEF Inv, FenceInv, FenceIsExact, NewestMayWrite, Fenced, TypeOK, Claim
    <2>. QED BY <2>1, <2>2 DEF FenceIsExact
  <1>. QED BY <1>1 DEF Inv, FenceInv

LEMMA InsertStep ==
  ASSUME Inv, NEW r \in Receipt, InsertReceipt(r)
  PROVE  Inv'
  <1>1. TypeOK' BY DEF Inv, TypeOK, InsertReceipt
  <1>. QED BY <1>1, QuietStep DEF Inv, TypeOK, InsertReceipt

LEMMA ClockStep ==
  ASSUME Inv, NEW r \in Receipt, BecomeDue(r) \/ LeaseExpires(r) \/ Stall(r)
  PROVE  Inv'
  <1>1. leased' \in [Receipt -> BOOLEAN] /\ due' \in [Receipt -> BOOLEAN]
    <2>1. \/ leased' = leased
          \/ leased' = [leased EXCEPT ![r] = FALSE]
      BY DEF BecomeDue, LeaseExpires, Stall
    <2>2. \/ due' = due
          \/ due' = [due EXCEPT ![r] = TRUE]
      BY DEF BecomeDue, LeaseExpires, Stall
    <2>. QED BY <2>1, <2>2 DEF Inv, TypeOK
  <1>2. UNCHANGED <<status, attempt, claimedBy, tasks>> /\ (faults' = faults \/ faults' = faults + 1)
    BY DEF BecomeDue, LeaseExpires, Stall
  <1>3. TypeOK' BY <1>1, <1>2 DEF Inv, TypeOK
  <1>. QED BY <1>3, QuietStep DEF BecomeDue, LeaseExpires, Stall

LEMMA CrashStep ==
  ASSUME Inv, NEW w \in Worker, Crash(w)
  PROVE  Inv'
  <1>1. TypeOK' BY DEF Inv, TypeOK, Crash
  <1>2. tasks' \subseteq tasks /\ UNCHANGED <<attempt, claimedBy, status>> BY DEF Crash
  <1>3. OneHolder' BY <1>2 DEF Inv, FenceInv, FenceIsExact, OneHolder
  <1>4. NewestMayWrite' BY <1>2 DEF Inv, FenceInv, FenceIsExact, NewestMayWrite, Fenced
  <1>. QED BY <1>1, <1>2, <1>3, <1>4 DEF Inv, FenceInv, FenceIsExact

LEMMA ClaimStep ==
  ASSUME Inv, NEW w \in Worker, ClaimDueReceipts(w)
  PROVE  Inv'
  <1>1. PICK B \in BatchOf(Claimable) :
          /\ attempt' = [r \in Receipt |-> IF r \in B THEN attempt[r] + 1 ELSE attempt[r]]
          /\ claimedBy' = [r \in Receipt |-> IF r \in B THEN w ELSE claimedBy[r]]
          /\ leased' = [r \in Receipt |-> IF r \in B THEN TRUE ELSE leased[r]]
          /\ tasks' = tasks \union {<<w, r, attempt[r] + 1>> : r \in B}
    BY DEF ClaimDueReceipts
  <1>2. UNCHANGED <<status, due, faults>> BY DEF ClaimDueReceipts
  <1>3. B \subseteq Claimable BY DEF BatchOf
  <1>4. \A r \in B : r \in Receipt /\ status[r] \in {"received", "failed"}
    BY <1>3 DEF Claimable
  <1>5. TypeOK'
    <2>1. attempt' \in [Receipt -> Nat] BY <1>1 DEF Inv, TypeOK
    <2>2. claimedBy' \in [Receipt -> Worker \union {Nobody}] BY <1>1 DEF Inv, TypeOK
    <2>3. leased' \in [Receipt -> BOOLEAN]
      <3>1. \A r \in Receipt : (IF r \in B THEN TRUE ELSE leased[r]) \in BOOLEAN
        BY Zenon DEF Inv, TypeOK
      <3>. QED BY <1>1, <3>1, Zenon
    <2>4. {<<w, r, attempt[r] + 1>> : r \in B} \subseteq Claim
      BY <1>4 DEF Inv, TypeOK, Claim
    <2>5. tasks' \subseteq Claim BY <1>1, <2>4, Zenon DEF Inv, TypeOK
    <2>. QED BY <1>2, <2>1, <2>2, <2>3, <2>5 DEF Inv, TypeOK
  \* A claim is an old one, or a new one of a claimed row.
  <1>6. ASSUME NEW t \in tasks'
        PROVE  \/ t \in tasks
               \/ t[2] \in B /\ t[1] = w /\ t[3] = attempt[t[2]] + 1
    BY <1>1
  <1>7. \A t \in tasks : t \in Claim /\ t[2] \in Receipt /\ t[3] \in Nat /\ t[3] <= attempt[t[2]]
    BY DEF Inv, TypeOK, Claim, FenceInv
  <1>8. \A r \in Receipt : attempt[r] \in Nat BY DEF Inv, TypeOK
  <1>9. \A t \in tasks' : t[3] <= attempt'[t[2]]
    BY <1>1, <1>4, <1>6, <1>7, <1>8
  <1>10. OneHolder'
    <2>. SUFFICES ASSUME NEW s \in tasks', NEW t \in tasks', s[2] = t[2], s[3] = t[3]
                  PROVE  s = t
      BY DEF OneHolder
    <2>1. s \in Claim /\ t \in Claim BY <1>5 DEF TypeOK
    <2>2. CASE s \in tasks /\ t \in tasks
      BY <2>2 DEF Inv, FenceInv, FenceIsExact, OneHolder
    <2>3. CASE s \in tasks /\ t \notin tasks
      BY <2>3, <1>6, <1>7, <1>8, <1>4
    <2>4. CASE s \notin tasks /\ t \in tasks
      BY <2>4, <1>6, <1>7, <1>8, <1>4
    <2>5. CASE s \notin tasks /\ t \notin tasks
      <3>1. s[1] = w /\ t[1] = w BY <2>5, <1>6
      <3>. QED BY <3>1, <2>1 DEF Claim
    <2>. QED BY <2>2, <2>3, <2>4, <2>5
  <1>11. NewestMayWrite'
    <2>. SUFFICES ASSUME NEW t \in tasks', t[3] = attempt'[t[2]]
                  PROVE  Fenced(t)' /\ status'[t[2]] \in {"received", "failed"}
      BY DEF NewestMayWrite
    <2>1. CASE t[2] \in B
      <3>1. t \notin tasks BY <2>1, <1>1, <1>4, <1>7, <1>8
      <3>. QED BY <3>1, <2>1, <1>1, <1>2, <1>4, <1>6, <1>8 DEF Fenced
    <2>2. CASE t[2] \notin B
      <3>1. t \in tasks /\ t[3] = attempt[t[2]] BY <2>2, <1>1, <1>6, <1>7
      <3>2. Fenced(t) /\ status[t[2]] \in {"received", "failed"}
        BY <3>1 DEF Inv, FenceInv, FenceIsExact, NewestMayWrite
      <3>. QED BY <3>1, <3>2, <2>2, <1>1, <1>2, <1>7 DEF Fenced
    <2>. QED BY <2>1, <2>2
  <1>. QED BY <1>5, <1>9, <1>10, <1>11 DEF Inv, FenceInv, FenceIsExact

\* Marking a claim settles at most its own row, and only under the newest claim.
LEMMA MarkWrites ==
  ASSUME Inv, NEW t \in tasks, Work(t)
  PROVE  /\ t \in Claim
         /\ UNCHANGED <<attempt, claimedBy, faults>> /\ tasks' = tasks \ {t}
         /\ TypeOK'
         /\ \/ status' = status
            \/ /\ Fenced(t)
               /\ \A r \in Receipt : r # t[2] => status'[r] = status[r]
  <1>1. t \in Claim /\ t[2] \in Receipt /\ t[3] \in Nat BY DEF Inv, TypeOK, Claim
  <1>2. UNCHANGED <<attempt, claimedBy, faults>> /\ tasks' = tasks \ {t} BY DEF Work
  <1>3. CASE MarkReceiptProcessed(t)
    <2>1. status' \in [Receipt -> {"absent", "received", "failed", "processed", "dead"}]
      BY <1>1, <1>3 DEF MarkReceiptProcessed, Inv, TypeOK
    <2>2. leased' \in [Receipt -> BOOLEAN] /\ due' \in [Receipt -> BOOLEAN]
      BY <1>1, <1>3 DEF MarkReceiptProcessed, Inv, TypeOK
    <2>3. TypeOK' BY <1>2, <2>1, <2>2 DEF Inv, TypeOK
    <2>. QED BY <1>1, <1>2, <1>3, <2>3 DEF MarkReceiptProcessed, Inv, TypeOK
  <1>4. CASE MarkReceiptRetryOrDead(t)
    <2>1. status' \in [Receipt -> {"absent", "received", "failed", "processed", "dead"}]
      BY <1>1, <1>4 DEF MarkReceiptRetryOrDead, Outcome, Inv, TypeOK
    <2>2. leased' \in [Receipt -> BOOLEAN] /\ due' \in [Receipt -> BOOLEAN]
      BY <1>1, <1>4 DEF MarkReceiptRetryOrDead, Inv, TypeOK
    <2>3. TypeOK' BY <1>2, <2>1, <2>2 DEF Inv, TypeOK
    <2>. QED BY <1>1, <1>2, <1>4, <2>3 DEF MarkReceiptRetryOrDead, Inv, TypeOK
  <1>. QED BY <1>3, <1>4 DEF Work

LEMMA WorkStep ==
  ASSUME Inv, NEW t \in tasks, Work(t)
  PROVE  Inv'
  <1>1. /\ t \in Claim
        /\ UNCHANGED <<attempt, claimedBy, faults>> /\ tasks' = tasks \ {t}
        /\ TypeOK'
        /\ \/ status' = status
           \/ /\ Fenced(t)
              /\ \A r \in Receipt : r # t[2] => status'[r] = status[r]
    BY MarkWrites
  <1>2. OneHolder' BY <1>1 DEF Inv, FenceInv, FenceIsExact, OneHolder
  <1>3. NewestMayWrite'
    <2>. SUFFICES ASSUME NEW s \in tasks', s[3] = attempt'[s[2]]
                  PROVE  Fenced(s)' /\ status'[s[2]] \in {"received", "failed"}
      BY DEF NewestMayWrite
    <2>1. s \in tasks /\ s # t /\ s \in Claim /\ s[2] \in Receipt /\ s[3] = attempt[s[2]]
      BY <1>1 DEF Inv, TypeOK, Claim
    <2>2. Fenced(s) /\ status[s[2]] \in {"received", "failed"}
      BY <2>1 DEF Inv, FenceInv, FenceIsExact, NewestMayWrite
    <2>3. Fenced(s)' BY <2>2, <1>1 DEF Fenced
    <2>4. CASE status' = status BY <2>2, <2>3, <2>4
    <2>5. CASE /\ Fenced(t)
               /\ \A r \in Receipt : r # t[2] => status'[r] = status[r]
      \* Two claims of one row cannot both be the newest.
      <3>1. s[2] # t[2] BY <2>1, <2>5 DEF Fenced, Inv, FenceInv, FenceIsExact, OneHolder
      <3>. QED BY <2>1, <2>2, <2>3, <2>5, <3>1
    <2>. QED BY <1>1, <2>4, <2>5
  <1>4. \A s \in tasks' : s[3] <= attempt'[s[2]] BY <1>1 DEF Inv, FenceInv
  <1>. QED BY <1>1, <1>2, <1>3, <1>4 DEF Inv, FenceInv, FenceIsExact

LEMMA InvStep == Inv /\ [Next]_vars => Inv'
  <1>. SUFFICES ASSUME Inv, [Next]_vars PROVE Inv'
    OBVIOUS
  <1>1. CASE UNCHANGED vars
    BY <1>1 DEF vars, Inv, TypeOK, FenceInv, FenceIsExact, OneHolder, NewestMayWrite, Fenced
  <1>2. ASSUME NEW r \in Receipt, InsertReceipt(r) PROVE Inv' BY <1>2, InsertStep
  <1>3. ASSUME NEW r \in Receipt, BecomeDue(r) \/ LeaseExpires(r) \/ Stall(r) PROVE Inv'
    BY <1>3, ClockStep
  <1>4. ASSUME NEW w \in Worker, ClaimDueReceipts(w) PROVE Inv' BY <1>4, ClaimStep
  <1>5. ASSUME NEW w \in Worker, Crash(w) PROVE Inv' BY <1>5, CrashStep
  <1>6. ASSUME NEW t \in tasks, Work(t) PROVE Inv' BY <1>6, WorkStep
  <1>. QED BY <1>1, <1>2, <1>3, <1>4, <1>5, <1>6 DEF Next

LEMMA InvHolds == Spec => []Inv
  BY InitInv, InvStep, PTL DEF Spec

(* The row and the workers' claims keep their types (receipts/db.ts). *)
THEOREM TypeCorrect == Spec => []TypeOK
  <1>1. Inv => TypeOK BY DEF Inv
  <1>. QED BY <1>1, InvHolds, PTL

(* WHERE claimed_by = $2 AND attempt_count = $3 lets exactly the newest claim of
   a row through, and only one worker has it (receipts/db.ts:42-69). *)
THEOREM FenceExact == Spec => []FenceIsExact
  <1>1. Inv => FenceIsExact BY DEF Inv, FenceInv
  <1>. QED BY <1>1, InvHolds, PTL

(* What has been recorded as processed or dead is never rewritten, however many
   leases are outlived: the fence needs no help from the lease. *)
THEOREM OutcomesAreFinal == Spec => OutcomeIsFinal
  <1>1. Inv /\ [Next]_vars => [OutcomeStands]_vars
    <2>. SUFFICES ASSUME Inv, Next, NEW r \in Receipt, status[r] \in {"processed", "dead"}
                  PROVE  status'[r] = status[r]
      BY DEF OutcomeStands
    <2>1. ASSUME NEW q \in Receipt,
                 InsertReceipt(q) \/ BecomeDue(q) \/ LeaseExpires(q) \/ Stall(q)
          PROVE  status'[r] = status[r]
      BY <2>1 DEF Inv, TypeOK, InsertReceipt, BecomeDue, LeaseExpires, Stall
    <2>2. ASSUME NEW w \in Worker, ClaimDueReceipts(w) \/ Crash(w)
          PROVE  status'[r] = status[r]
      BY <2>2 DEF ClaimDueReceipts, Crash
    <2>3. ASSUME NEW t \in tasks, Work(t)
          PROVE  status'[r] = status[r]
      <3>1. \/ status' = status
            \/ /\ Fenced(t)
               /\ \A q \in Receipt : q # t[2] => status'[q] = status[q]
        BY <2>3, MarkWrites
      <3>2. Fenced(t) => status[t[2]] \in {"received", "failed"}
        BY DEF Fenced, Inv, FenceInv, FenceIsExact, NewestMayWrite
      <3>. QED BY <3>1, <3>2
    <2>. QED BY <2>1, <2>2, <2>3 DEF Next
  <1>. QED BY <1>1, InvHolds, PTL DEF Spec, OutcomeIsFinal

-----------------------------------------------------------------------------
(* Notices to the operator. *)

\* A flusher has claimed notices only between its claim and its mark; they are
\* leased and not yet sent, and nobody else has them.
ClaimsApart ==
  /\ \A w \in Worker :
       /\ batch[w] # {} => phase[w] \in {"template", "text", "sent", "failed"}
       /\ batch[w] \subseteq claimed \ sent
  /\ \A v, w \in Worker : v # w => batch[v] \intersect batch[w] = {}

\* WhatsApp accepted a message with the notice, and the flusher knows.
Credited(n) == n \in sent \/ \E w \in Worker : phase[w] = "sent" /\ n \in batch[w]

\* A message with a notice is the one it was sent with, or a fault came after it.
Counted == \A n \in Notice : reached[n] <= mishaps + (IF Credited(n) THEN 1 ELSE 0)

NoticeInv == O!TypeOK /\ ClaimsApart /\ Counted

LEMMA NoticeCardinality == \A S : O!Cardinality(S) = Cardinality(S)
  BY Zenon DEF Cardinality, O!Cardinality

LEMMA NoticeInit == O!Init => NoticeInv
  <1>. SUFFICES ASSUME O!Init PROVE NoticeInv OBVIOUS
  <1>1. O!TypeOK
    <2>1. rows \in Seq(Notice) /\ Len(rows) = 0 /\ O!IsInjective(rows)
      BY EmptySeq DEF O!Init, O!IsInjective
    <2>2. Cardinality({}) = 0 BY FS_EmptySet
    <2>3. \A w \in Worker : O!Cardinality(batch[w]) <= BatchLimit
      BY <2>2, NoticeCardinality, NoticesAssumption DEF O!Init
    <2>. QED BY <2>1, <2>3 DEF O!Init, O!TypeOK
  <1>. QED BY <1>1 DEF O!Init, NoticeInv, ClaimsApart, Counted, Credited

\* A batch is made of pending notices, and is no larger than its limit.
LEMMA OldestArePending ==
  ASSUME O!TypeOK
  PROVE  /\ O!Oldest \subseteq O!Pending /\ O!Pending \subseteq Notice
         /\ O!Cardinality(O!Oldest) <= BatchLimit
  <1>1. \A i \in 1..Len(rows) : rows[i] \in Notice BY DEF O!TypeOK
  <1>2. O!Oldest \subseteq O!Pending /\ O!Pending \subseteq Notice
    BY <1>1 DEF O!Oldest, O!Pending, O!Queued, O!TypeOK, O!ToSet
  <1>3. Cardinality(O!Oldest) <= BatchLimit
    <2>. DEFINE I == {k \in 1..Len(rows) : rows[k] \in O!Pending /\ O!Cardinality(O!Ahead(k)) < BatchLimit}
    <2>1. Len(rows) \in Nat BY DEF O!TypeOK
    <2>2. IsFiniteSet(1..Len(rows)) BY <2>1, FS_Interval
    <2>3. IsFiniteSet(I) BY <2>2, FS_Subset
    <2>4. Cardinality(I) <= BatchLimit
      <3>1. CASE I = {} BY <3>1, FS_EmptySet, NoticesAssumption
      <3>2. CASE I # {}
        <4>1. PICK m \in I : \A k \in I : k <= m
          <5>. DEFINE J == {Len(rows) - k : k \in I}
          <5>1. J \subseteq Nat /\ J # {} BY <3>2, <2>1
          <5>. DEFINE R == OpToRel(<, Nat)
          <5>a. IsWellFoundedOn(R, Nat) BY NatLessThanWellFounded
          <5>b. \A k, n \in Nat : k < n => <<k, n>> \in R BY DEF OpToRel
          <5>. HIDE DEF R, J
          <5>2. \E n \in J : \A k \in J : ~(<<k, n>> \in R)
            BY <5>1, <5>a, WFMin, Zenon
          <5>. PICK n \in J : \A k \in J : ~(<<k, n>> \in R) BY <5>2, Zenon
          <5>3. ASSUME NEW k \in J PROVE n <= k
            <6>1. k \in Nat /\ n \in Nat BY <5>1
            <6>2. ~(k < n) BY <6>1, <5>b, Zenon
            <6>. QED BY <6>1, <6>2
          <5>4. PICK m \in I : n = Len(rows) - m BY DEF J
          <5>5. \A k \in I : Len(rows) - k \in J BY DEF J
          <5>6. \A k \in I : k \in 1..Len(rows) OBVIOUS
          <5>. HIDE DEF I
          <5>7. ASSUME NEW k \in I PROVE k <= m BY <5>3, <5>4, <5>5, <5>6, <2>1
          <5>. QED BY <5>7
        <4>2. I \ {m} \subseteq O!Ahead(m)
          BY <4>1 DEF O!Ahead
        <4>3. O!Ahead(m) \subseteq 1..Len(rows) BY <4>1, <2>1 DEF O!Ahead
        <4>4. IsFiniteSet(O!Ahead(m)) BY <4>3, <2>2, FS_Subset
        <4>5. Cardinality(I \ {m}) <= Cardinality(O!Ahead(m)) BY <4>2, <4>4, FS_Subset
        <4>6. Cardinality(I \ {m}) = Cardinality(I) - 1 BY <4>1, <2>3, FS_RemoveElement
        <4>7. Cardinality(O!Ahead(m)) < BatchLimit BY <4>1, NoticeCardinality
        <4>8. Cardinality(I) \in Nat /\ Cardinality(O!Ahead(m)) \in Nat
          BY <2>3, <4>4, FS_CardinalityType
        <4>. HIDE DEF I
        <4>. QED BY <4>5, <4>6, <4>7, <4>8, NoticesAssumption
      <3>. QED BY <3>1, <3>2
    <2>5. O!Oldest = {rows[i] : i \in I} BY DEF O!Oldest
    <2>6. IsFiniteSet(O!Oldest) /\ Cardinality(O!Oldest) <= Cardinality(I)
      <3>. DEFINE f == [i \in I |-> rows[i]]
      <3>. HIDE DEF I
      <3>1. f \in Surjection(I, O!Oldest) BY <2>5 DEF Surjection
      <3>. QED BY <3>1, <2>3, FS_Surjection
    <2>7. Cardinality(I) \in Nat /\ Cardinality(O!Oldest) \in Nat BY <2>3, <2>6, FS_CardinalityType
    <2>. HIDE DEF I
    <2>. QED BY <2>4, <2>6, <2>7, NoticesAssumption
  <1>. QED BY <1>2, <1>3, NoticeCardinality

LEMMA NoticeType == O!TypeOK /\ [O!Next]_(O!vars) => O!TypeOK'
  <1>. SUFFICES ASSUME O!TypeOK, [O!Next]_(O!vars) PROVE O!TypeOK' OBVIOUS
  <1>. USE DEF O!TypeOK
  <1>a. Cardinality({}) = 0 /\ O!Cardinality({}) = 0 /\ 0 <= BatchLimit
    BY FS_EmptySet, NoticeCardinality, NoticesAssumption
  <1>b. \A w \in Worker : batch' = [batch EXCEPT ![w] = {}] =>
          /\ batch' \in [Worker -> SUBSET Notice]
          /\ \A v \in Worker : O!Cardinality(batch'[v]) <= BatchLimit
    BY <1>a
  <1>1. ASSUME NEW n \in Notice, O!EnqueueOps(n) PROVE O!TypeOK'
    <2>1. rows' \in Seq(Notice) /\ Len(rows') = Len(rows) + 1
      BY <1>1, AppendProperties DEF O!EnqueueOps
    <2>2. O!IsInjective(rows')
      <3>1. \A i \in 1..Len(rows) : rows[i] # n
        BY <1>1 DEF O!EnqueueOps, O!Queued, O!ToSet
      <3>2. \A i \in 1..Len(rows') : rows'[i] = IF i <= Len(rows) THEN rows[i] ELSE n
        BY <1>1, <2>1, AppendProperties DEF O!EnqueueOps
      <3>3. DOMAIN rows = 1..Len(rows) /\ DOMAIN rows' = 1..Len(rows') /\ Len(rows) \in Nat
        BY <2>1, LenProperties
      <3>a. \A i, k \in 1..Len(rows) : rows[i] = rows[k] => i = k
        BY <3>3 DEF O!IsInjective
      <3>4. ASSUME NEW i \in 1..Len(rows'), NEW k \in 1..Len(rows'), rows'[i] = rows'[k] PROVE i = k
        <4>1. CASE i <= Len(rows) /\ k <= Len(rows)
          <5>1. i \in 1..Len(rows) /\ k \in 1..Len(rows) BY <4>1, <3>3
          <5>. QED BY <5>1, <4>1, <3>a, <3>2, <3>4
        <4>2. CASE i <= Len(rows) /\ k > Len(rows)
          <5>1. rows'[k] = n /\ i \in 1..Len(rows) /\ rows'[i] = rows[i] BY <4>2, <3>2, <3>3
          <5>. QED BY <5>1, <3>1, <3>4
        <4>3. CASE i > Len(rows) /\ k <= Len(rows)
          <5>1. rows'[i] = n /\ k \in 1..Len(rows) /\ rows'[k] = rows[k] BY <4>3, <3>2, <3>3
          <5>. QED BY <5>1, <3>1, <3>4
        <4>4. CASE i > Len(rows) /\ k > Len(rows)
          BY <4>4, <2>1, <3>3
        <4>. QED BY <4>1, <4>2, <4>3, <4>4, <3>3
      <3>. QED BY <3>3, <3>4 DEF O!IsInjective
    <2>. QED BY <1>1, <2>1, <2>2 DEF O!EnqueueOps
  <1>2. ASSUME NEW n \in Notice, O!LeaseExpires(n) PROVE O!TypeOK'
    BY <1>2 DEF O!LeaseExpires
  <1>3. CASE O!SlotPasses BY <1>3 DEF O!SlotPasses
  <1>4. CASE O!WindowPasses BY <1>4 DEF O!WindowPasses
  <1>5. ASSUME NEW w \in Worker, O!Boot(w) \/ O!Decide(w) \/ O!DecideIdle(w) \/ O!SendRefused(w)
        PROVE  O!TypeOK'
    BY <1>5 DEF O!Boot, O!Decide, O!DecideIdle, O!SendRefused, O!Goto, O!After, O!rowVars
  <1>6. ASSUME NEW w \in Worker, O!ClaimBatch(w) PROVE O!TypeOK'
    <2>1. O!Oldest \subseteq Notice /\ O!Pending \subseteq Notice /\ O!Cardinality(O!Oldest) <= BatchLimit
      BY OldestArePending
    <2>2. \A v \in Worker : O!Cardinality(batch'[v]) <= BatchLimit
      BY <1>6, <2>1 DEF O!ClaimBatch
    <2>3. batch' \in [Worker -> SUBSET Notice] /\ claimed' \subseteq Notice
      BY <1>6, <2>1 DEF O!ClaimBatch
    <2>4. remainder' \in [Worker -> SUBSET Notice]
      BY <1>6, <2>1 DEF O!ClaimBatch
    <2>5. phase' \in [Worker -> {"down", "idle", "claim", "template", "text", "sent", "failed"}]
      BY <1>6 DEF O!ClaimBatch, O!Goto
    <2>6. /\ rows' = rows /\ sent' = sent /\ before' = before /\ ripe' = ripe
          /\ slotted' = slotted /\ reached' = reached /\ mishaps' = mishaps
      BY <1>6 DEF O!ClaimBatch
    <2>. QED BY <2>2, <2>3, <2>4, <2>5, <2>6
  <1>7. ASSUME NEW w \in Worker, O!SendAccepted(w) \/ O!AnswerLost(w) PROVE O!TypeOK'
    <2>1. reached' \in [Notice -> Nat]
      BY <1>7 DEF O!SendAccepted, O!AnswerLost, O!Reach
    <2>2. phase' \in [Worker -> {"down", "idle", "claim", "template", "text", "sent", "failed"}]
      BY <1>7 DEF O!SendAccepted, O!AnswerLost, O!Goto, O!After
    <2>3. mishaps' \in Nat /\ UNCHANGED <<rows, sent, claimed, before, ripe, slotted, batch, remainder>>
      BY <1>7 DEF O!SendAccepted, O!AnswerLost, O!rowVars
    <2>. QED BY <2>1, <2>2, <2>3
  <1>8. ASSUME NEW w \in Worker, O!MarkSent(w) \/ O!MarkFailed(w) \/ O!TickFails(w) \/ O!Crash(w)
        PROVE  O!TypeOK'
    <2>1. batch' = [batch EXCEPT ![w] = {}]
      BY <1>8 DEF O!MarkSent, O!MarkFailed, O!TickFails, O!Crash, O!Drop
    <2>2. batch' \in [Worker -> SUBSET Notice] /\ \A v \in Worker : O!Cardinality(batch'[v]) <= BatchLimit
      BY <2>1, <1>b
    <2>3. phase' \in [Worker -> {"down", "idle", "claim", "template", "text", "sent", "failed"}]
      BY <1>8 DEF O!MarkSent, O!MarkFailed, O!TickFails, O!Crash, O!Goto
    <2>4. /\ sent' \subseteq Notice /\ remainder' \in [Worker -> SUBSET Notice] /\ mishaps' \in Nat
          /\ UNCHANGED <<rows, claimed, before, ripe, slotted, reached>>
      BY <1>8 DEF O!MarkSent, O!MarkFailed, O!TickFails, O!Crash, O!rowVars
    <2>. QED BY <2>2, <2>3, <2>4
  <1>9. CASE UNCHANGED O!vars BY <1>9 DEF O!vars
  <1>. QED BY <1>1, <1>2, <1>3, <1>4, <1>5, <1>6, <1>7, <1>8, <1>9 DEF O!Next

LEMMA NoticeApart ==
  ASSUME ~MayStall, O!TypeOK, ClaimsApart, [O!Next]_(O!vars)
  PROVE  ClaimsApart'
  <1>. USE DEF O!TypeOK, ClaimsApart
  <1>1. ASSUME NEW n \in Notice, O!EnqueueOps(n) PROVE ClaimsApart'
    BY <1>1 DEF O!EnqueueOps
  <1>2. ASSUME NEW n \in Notice, O!LeaseExpires(n) PROVE ClaimsApart'
    BY <1>2 DEF O!LeaseExpires
  <1>3. CASE O!SlotPasses BY <1>3 DEF O!SlotPasses
  <1>4. CASE O!WindowPasses BY <1>4 DEF O!WindowPasses
  <1>5. ASSUME NEW w \in Worker,
               O!Boot(w) \/ O!Decide(w) \/ O!DecideIdle(w) \/ O!SendRefused(w) \/ O!SendAccepted(w) \/ O!AnswerLost(w)
        PROVE  ClaimsApart'
    <2>1. UNCHANGED <<batch, claimed, sent>>
      BY <1>5 DEF O!Boot, O!Decide, O!DecideIdle, O!SendRefused, O!SendAccepted, O!AnswerLost, O!rowVars
    <2>2. \A v \in Worker : batch[v] # {} => phase'[v] \in {"template", "text", "sent", "failed"}
      BY <1>5 DEF O!Boot, O!Decide, O!DecideIdle, O!SendRefused, O!SendAccepted, O!AnswerLost, O!Goto, O!After
    <2>. QED BY <2>1, <2>2
  <1>6. ASSUME NEW w \in Worker, O!ClaimBatch(w) PROVE ClaimsApart'
    <2>1. O!Oldest \subseteq O!Pending BY OldestArePending
    <2>2. O!Oldest \intersect (sent \union claimed) = {} BY <2>1 DEF O!Pending
    <2>3. /\ batch' = [batch EXCEPT ![w] = O!Oldest] /\ claimed' = claimed \union O!Oldest /\ sent' = sent
          /\ phase' = [phase EXCEPT ![w] = IF O!Oldest = {} THEN "idle" ELSE "template"]
      BY <1>6 DEF O!ClaimBatch, O!Goto
    <2>4. \A v \in Worker : batch'[v] = IF v = w THEN O!Oldest ELSE batch[v] BY <2>3
    <2>5. \A v \in Worker : phase'[v] = IF v # w THEN phase[v] ELSE IF O!Oldest = {} THEN "idle" ELSE "template"
      BY <2>3
    <2>. QED BY <2>2, <2>3, <2>4, <2>5
  <1>8. ASSUME NEW w \in Worker, O!MarkSent(w) \/ O!MarkFailed(w) \/ O!TickFails(w) \/ O!Crash(w)
        PROVE  ClaimsApart'
    <2>1. /\ batch' = [batch EXCEPT ![w] = {}] /\ claimed' = claimed
          /\ sent' = sent \/ sent' = sent \union batch[w]
          /\ \A v \in Worker : v # w => phase'[v] = phase[v]
      BY <1>8 DEF O!MarkSent, O!MarkFailed, O!TickFails, O!Crash, O!Drop, O!Goto, O!rowVars
    <2>2. \A v \in Worker : batch'[v] = IF v = w THEN {} ELSE batch[v] BY <2>1
    <2>. QED BY <2>1, <2>2
  <1>9. CASE UNCHANGED O!vars BY <1>9 DEF O!vars
  <1>. QED BY <1>1, <1>2, <1>3, <1>4, <1>5, <1>6, <1>8, <1>9 DEF O!Next

\* Acceptances are counted when they are known, or with the fault that hid them.
LEMMA NoticeCounted ==
  ASSUME O!TypeOK, ClaimsApart, Counted, [O!Next]_(O!vars)
  PROVE  Counted'
  <1>. USE DEF O!TypeOK, ClaimsApart
  <1>. SUFFICES ASSUME NEW n \in Notice
                PROVE  reached'[n] <= mishaps' + (IF Credited(n)' THEN 1 ELSE 0)
    BY DEF Counted
  <1>0. /\ reached[n] \in Nat /\ mishaps \in Nat
        /\ reached[n] <= mishaps + 1 /\ (~Credited(n) => reached[n] <= mishaps)
    BY DEF Counted
  \* Nothing is accepted, and what was credited is still credited, or a fault is counted.
  <1>1. ASSUME reached' = reached,
               \/ mishaps' = mishaps /\ (Credited(n) => Credited(n)')
               \/ mishaps' = mishaps + 1
        PROVE  reached'[n] <= mishaps' + (IF Credited(n)' THEN 1 ELSE 0)
    BY <1>0, <1>1
  <1>2. ASSUME UNCHANGED <<reached, mishaps, sent, batch>>,
               \A w \in Worker : phase[w] = "sent" => phase'[w] = "sent"
        PROVE  reached'[n] <= mishaps' + (IF Credited(n)' THEN 1 ELSE 0)
    <2>1. Credited(n) => Credited(n)' BY <1>2 DEF Credited
    <2>. QED BY <1>1, <1>2, <2>1
  <1>3. ASSUME NEW m \in Notice, O!EnqueueOps(m) \/ O!LeaseExpires(m)
        PROVE  reached'[n] <= mishaps' + (IF Credited(n)' THEN 1 ELSE 0)
    BY <1>3, <1>2 DEF O!EnqueueOps, O!LeaseExpires
  <1>4. CASE O!SlotPasses \/ O!WindowPasses
    BY <1>4, <1>2 DEF O!SlotPasses, O!WindowPasses
  <1>5. ASSUME NEW w \in Worker, O!Boot(w) \/ O!Decide(w) \/ O!DecideIdle(w) \/ O!SendRefused(w)
        PROVE  reached'[n] <= mishaps' + (IF Credited(n)' THEN 1 ELSE 0)
    BY <1>5, <1>2 DEF O!Boot, O!Decide, O!DecideIdle, O!SendRefused, O!Goto, O!After, O!rowVars
  <1>6. ASSUME NEW w \in Worker, O!ClaimBatch(w)
        PROVE  reached'[n] <= mishaps' + (IF Credited(n)' THEN 1 ELSE 0)
    <2>1. batch[w] = {} BY <1>6 DEF O!ClaimBatch
    <2>2. Credited(n) => Credited(n)' BY <1>6, <2>1 DEF O!ClaimBatch, O!Goto, Credited
    <2>. QED BY <1>1, <1>6, <2>2 DEF O!ClaimBatch
  <1>7. ASSUME NEW w \in Worker, O!SendAccepted(w)
        PROVE  reached'[n] <= mishaps' + (IF Credited(n)' THEN 1 ELSE 0)
    <2>1. /\ phase[w] \in {"template", "text"} /\ phase' = [phase EXCEPT ![w] = "sent"]
          /\ reached'[n] = IF n \in batch[w] THEN reached[n] + 1 ELSE reached[n]
          /\ UNCHANGED <<sent, batch, mishaps>>
      BY <1>7 DEF O!SendAccepted, O!Goto, O!Reach, O!rowVars
    <2>2. CASE n \in batch[w]
      <3>1. Credited(n)' BY <2>1, <2>2 DEF Credited
      <3>2. ~Credited(n) BY <2>1, <2>2 DEF Credited
      <3>. QED BY <1>0, <2>1, <2>2, <3>1, <3>2
    <2>3. CASE n \notin batch[w]
      <3>1. Credited(n) => Credited(n)' BY <2>1, <2>3 DEF Credited
      <3>. QED BY <1>0, <2>1, <2>3, <3>1
    <2>. QED BY <2>2, <2>3
  <1>8. ASSUME NEW w \in Worker, O!AnswerLost(w)
        PROVE  reached'[n] <= mishaps' + (IF Credited(n)' THEN 1 ELSE 0)
    <2>1. /\ phase[w] \in {"template", "text"} /\ mishaps' = mishaps + 1
          /\ phase' = [phase EXCEPT ![w] = O!After(phase[w])]
          /\ reached'[n] = IF n \in batch[w] THEN reached[n] + 1 ELSE reached[n]
          /\ UNCHANGED <<sent, batch>>
      BY <1>8 DEF O!AnswerLost, O!Goto, O!Reach, O!rowVars
    <2>2. Credited(n) => n \notin batch[w] \/ Credited(n)' BY <2>1 DEF Credited
    <2>. QED BY <1>0, <2>1, <2>2
  <1>9. ASSUME NEW w \in Worker, O!MarkSent(w)
        PROVE  reached'[n] <= mishaps' + (IF Credited(n)' THEN 1 ELSE 0)
    <2>1. Credited(n) => Credited(n)'
      BY <1>9 DEF O!MarkSent, O!Drop, O!Goto, Credited
    <2>. QED BY <1>1, <1>9, <2>1 DEF O!MarkSent
  <1>10. ASSUME NEW w \in Worker, O!MarkFailed(w)
         PROVE  reached'[n] <= mishaps' + (IF Credited(n)' THEN 1 ELSE 0)
    <2>1. Credited(n) => Credited(n)'
      BY <1>10 DEF O!MarkFailed, O!Drop, O!Goto, O!rowVars, Credited
    <2>. QED BY <1>1, <1>10, <2>1 DEF O!MarkFailed
  <1>11. ASSUME NEW w \in Worker, O!TickFails(w) \/ O!Crash(w)
         PROVE  reached'[n] <= mishaps' + (IF Credited(n)' THEN 1 ELSE 0)
    BY <1>11, <1>1 DEF O!TickFails, O!Crash
  <1>12. CASE UNCHANGED O!vars BY <1>12, <1>2 DEF O!vars
  <1>. QED BY <1>3, <1>4, <1>5, <1>6, <1>7, <1>8, <1>9, <1>10, <1>11, <1>12 DEF O!Next

(* With sends shorter than the lease the operator gets a notice twice only where a
   crash, a failed query or a lost answer came between (queue.ts:43-44), for any
   number of containers, notices and any batch limit. *)
THEOREM RepeatsAreFaults == ~MayStall => (O!Spec => []NoSecondMessage)
  <1>. SUFFICES ASSUME ~MayStall PROVE O!Spec => []NoSecondMessage OBVIOUS
  <1>1. NoticeInv /\ [O!Next]_(O!vars) => NoticeInv'
    BY NoticeType, NoticeApart, NoticeCounted DEF NoticeInv
  <1>2. NoticeInv => NoSecondMessage
    <2>. SUFFICES ASSUME NoticeInv, NEW n \in Notice PROVE reached[n] <= 1 + mishaps
      BY DEF NoSecondMessage, O!NoSecondMessage
    <2>1. reached[n] \in Nat /\ mishaps \in Nat /\ reached[n] <= mishaps + (IF Credited(n) THEN 1 ELSE 0)
      BY DEF NoticeInv, O!TypeOK, Counted
    <2>. QED BY <2>1
  <1>. QED BY <1>1, <1>2, NoticeInit, PTL DEF O!Spec

-----------------------------------------------------------------------------
(* Transcription jobs. *)

\* What a tick has claimed, and what of it is still owed an outcome.
InHand(t) == todo[t] \union cur[t]
Working(t) == todo[t] \union (IF step[t] \in {"work", "close"} THEN cur[t] ELSE {})

\* A tick has jobs in hand only while it runs, and processes one at a time.
Serial(t) ==
  /\ cur[t] # {} => step[t] \in {"work", "close", "give up", "trigger"}
  /\ todo[t] # {} => step[t] # "idle"
  /\ todo[t] \intersect cur[t] = {}
  /\ \A i, j \in cur[t] : i = j

\* A job in hand waits for its outcome and cannot be claimed again, or it has the
\* outcome that the tick is carrying out.
Owed(t) ==
  /\ \A j \in Working(t) : /\ state[j] = "pending" /\ ~scheduled[j]
                           /\ copy[t][j].attempts = attempts[j]
  /\ \A j \in cur[t] : /\ step[t] = "close" => text[j] = "too long"
                       /\ step[t] = "give up" => state[j] = "failed"
                       /\ step[t] = "trigger" => state[j] # "pending"

HandsApart == \A s, t \in Tick : s # t => InHand(s) \intersect InHand(t) = {}

HandInv == (\A t \in Tick : Serial(t) /\ Owed(t)) /\ HandsApart

\* Only a job that is done was paid for, once.
PaidInv ==
  \A j \in Job : /\ metrics[j] <= 1
                 /\ state[j] # "done" => metrics[j] = 0
                 /\ state[j] = "done" => text[j] \in {"transcript", "too long"}

\* The attempts of an open job are its own errors, the claims that were lost, and
\* the claim that somebody works on.
Busy(j) == \E t \in Tick : j \in Working(t)
ChargedInv ==
  \A j \in Job :
    /\ state[j] = "pending" => attempts[j] <= errors[j] + lost[j] + (IF Busy(j) THEN 1 ELSE 0)
    /\ state[j] = "failed" /\ ~old[j] => errors[j] + lost[j] >= MaxAttempts

JobInv == T!TypeOK /\ HandInv /\ PaidInv /\ ChargedInv

LEMMA JobCardinality == \A S : T!Cardinality(S) = Cardinality(S)
  BY Zenon DEF Cardinality, T!Cardinality

LEMMA OneJob == T!Cardinality({}) <= 1 /\ \A j : T!Cardinality({j}) <= 1
  <1>1. Cardinality({}) = 0 /\ \A j : Cardinality({j}) = 1 BY FS_EmptySet, FS_Singleton
  <1>. QED BY <1>1, JobCardinality

LEMMA JobInit == T!Init => JobInv
  <1>. SUFFICES ASSUME T!Init PROVE JobInv OBVIOUS
  <1>1. T!TypeOK BY OneJob DEF T!Init, T!TypeOK, T!NoCopy
  <1>2. HandInv BY DEF T!Init, HandInv, Serial, Owed, HandsApart, InHand, Working
  <1>3. PaidInv BY DEF T!Init, PaidInv
  <1>4. ChargedInv BY DEF T!Init, ChargedInv, Busy, Working
  <1>. QED BY <1>1, <1>2, <1>3, <1>4 DEF JobInv

-----------------------------------------------------------------------------
(* The types of the jobs and of the ticks. *)

NumberTypes ==
  /\ attempts \in [Job -> Nat] /\ metrics \in [Job -> Nat]
  /\ errors \in [Job -> Nat] /\ lost \in [Job -> Nat]
  /\ failures \in Nat

FlagTypes ==
  /\ scheduled \in [Job -> BOOLEAN] /\ envelope \in [Job -> BOOLEAN] /\ old \in [Job -> BOOLEAN]
  /\ open \in BOOLEAN

WordTypes ==
  /\ state \in [Job -> {"pending", "done", "failed"}]
  /\ text \in [Job -> {"none", "transcript", "too long", "unavailable"}]
  /\ triggered \subseteq Job /\ cut \subseteq Job

JobTypeOK == NumberTypes /\ FlagTypes /\ WordTypes

TickTypeOK ==
  /\ todo \in [Tick -> SUBSET Job] /\ cur \in [Tick -> SUBSET Job]
  /\ \A t \in Tick : T!Cardinality(cur[t]) <= 1
  /\ step \in [Tick -> {"idle", "next", "work", "close", "give up", "trigger"}]
  /\ copy \in [Tick -> [Job -> [attempts : Nat, envelope : BOOLEAN]]]

LEMMA TypesSplit == T!TypeOK <=> JobTypeOK /\ TickTypeOK
  BY DEF T!TypeOK, JobTypeOK, NumberTypes, FlagTypes, WordTypes, TickTypeOK

LEMMA TickStill ==
  ASSUME TickTypeOK, UNCHANGED <<todo, cur, step, copy>>
  PROVE  TickTypeOK'
  BY DEF TickTypeOK

\* A tick takes a step, with a job in hand or none.
LEMMA TickGoes ==
  ASSUME TickTypeOK, NEW t \in Tick,
         NEW s \in {"idle", "next", "work", "close", "give up", "trigger"}, T!Goto(t, s),
         copy' = copy \/ copy' = [copy EXCEPT ![t] = T!NoCopy],
         todo' = todo \/ \E B \in SUBSET Job : todo' = [todo EXCEPT ![t] = B],
         cur' = cur \/ cur' = [cur EXCEPT ![t] = {}] \/ \E j \in Job : cur' = [cur EXCEPT ![t] = {j}]
  PROVE  TickTypeOK'
  <1>. USE DEF TickTypeOK
  <1>1. step' \in [Tick -> {"idle", "next", "work", "close", "give up", "trigger"}] BY DEF T!Goto
  <1>2. copy' \in [Tick -> [Job -> [attempts : Nat, envelope : BOOLEAN]]]
    <2>1. T!NoCopy \in [Job -> [attempts : Nat, envelope : BOOLEAN]] BY DEF T!NoCopy
    <2>. QED BY <2>1
  <1>3. todo' \in [Tick -> SUBSET Job]
    <2>1. ASSUME NEW B \in SUBSET Job, todo' = [todo EXCEPT ![t] = B] PROVE todo' \in [Tick -> SUBSET Job]
      BY <2>1
    <2>. QED BY <2>1
  <1>4. cur' \in [Tick -> SUBSET Job] /\ \A u \in Tick : T!Cardinality(cur'[u]) <= 1
    <2>1. CASE cur' = cur BY <2>1
    <2>2. CASE cur' = [cur EXCEPT ![t] = {}] BY <2>2, OneJob
    <2>3. ASSUME NEW j \in Job, cur' = [cur EXCEPT ![t] = {j}]
          PROVE  cur' \in [Tick -> SUBSET Job] /\ \A u \in Tick : T!Cardinality(cur'[u]) <= 1
      BY <2>3, OneJob
    <2>. QED BY <2>1, <2>2, <2>3
  <1>. QED BY <1>1, <1>2, <1>3, <1>4

LEMMA TicksStop ==
  ASSUME TickTypeOK, NEW S \in SUBSET Tick, T!Abandon(S)
  PROVE  TickTypeOK'
  <1>. USE DEF TickTypeOK
  <1>1. /\ todo' = [t \in Tick |-> IF t \in S THEN {} ELSE todo[t]]
        /\ cur' = [t \in Tick |-> IF t \in S THEN {} ELSE cur[t]]
        /\ step' = [t \in Tick |-> IF t \in S THEN "idle" ELSE step[t]]
        /\ copy' = [t \in Tick |-> IF t \in S THEN T!NoCopy ELSE copy[t]]
    BY DEF T!Abandon
  <1>2. todo' \in [Tick -> SUBSET Job] /\ cur' \in [Tick -> SUBSET Job] BY <1>1
  <1>3. \A u \in Tick : T!Cardinality(cur'[u]) <= 1 BY <1>1, OneJob
  <1>4. step' \in [Tick -> {"idle", "next", "work", "close", "give up", "trigger"}] BY <1>1
  <1>5. T!NoCopy \in [Job -> [attempts : Nat, envelope : BOOLEAN]] BY DEF T!NoCopy
  <1>6. copy' \in [Tick -> [Job -> [attempts : Nat, envelope : BOOLEAN]]] BY <1>1, <1>5
  <1>. QED BY <1>2, <1>3, <1>4, <1>6

\* A claim, seen from the jobs it takes.
LEMMA Claimed ==
  ASSUME NEW t \in Tick, T!ClaimDueTranscriptionJobs(t)
  PROVE  \E B \in SUBSET {j \in Job : state[j] = "pending" /\ scheduled[j]} :
           /\ attempts' = [j \in Job |-> IF j \in B THEN attempts[j] + 1 ELSE attempts[j]]
           /\ scheduled' = [j \in Job |-> IF j \in B THEN FALSE ELSE scheduled[j]]
           /\ todo' = [todo EXCEPT ![t] = B]
           /\ copy' = [copy EXCEPT ![t] = [j \in Job |->
                        IF j \in B THEN [attempts |-> attempts[j] + 1, envelope |-> envelope[j]]
                        ELSE T!NoCopy[j]]]
  <1>1. \A B \in T!BatchOf(T!DueJobs) : B \in SUBSET {j \in Job : state[j] = "pending" /\ scheduled[j]}
    BY DEF T!BatchOf, T!DueJobs
  <1>. QED BY <1>1 DEF T!ClaimDueTranscriptionJobs

LEMMA TickTypes ==
  ASSUME JobTypeOK, TickTypeOK, [T!Next]_(T!vars)
  PROVE  TickTypeOK'
  <1>. USE DEF T!tickVars
  <1>a. \A t \in Tick : cur[t] \subseteq Job /\ todo[t] \subseteq Job BY DEF TickTypeOK
  <1>1. CASE T!CoolDown BY <1>1, TickStill DEF T!CoolDown
  <1>2. CASE T!Crash BY <1>2, TicksStop DEF T!Crash
  <1>3. ASSUME NEW j \in Job, T!BecomeDue(j) \/ T!GrowOld(j) PROVE TickTypeOK'
    BY <1>3, TickStill DEF T!BecomeDue, T!GrowOld
  <1>4. ASSUME NEW t \in Tick, T!ClaimDueTranscriptionJobs(t) PROVE TickTypeOK'
    <2>1. PICK B \in SUBSET Job :
            /\ todo' = [todo EXCEPT ![t] = B]
            /\ copy' = [copy EXCEPT ![t] = [j \in Job |->
                         IF j \in B THEN [attempts |-> attempts[j] + 1, envelope |-> envelope[j]]
                         ELSE T!NoCopy[j]]]
      BY <1>4, Claimed
    <2>2. step' = [step EXCEPT ![t] = "next"] /\ cur' = cur BY <1>4 DEF T!ClaimDueTranscriptionJobs, T!Goto
    <2>3. [j \in Job |-> IF j \in B THEN [attempts |-> attempts[j] + 1, envelope |-> envelope[j]]
                         ELSE T!NoCopy[j]] \in [Job -> [attempts : Nat, envelope : BOOLEAN]]
      <3>1. \A j \in Job : [attempts |-> attempts[j] + 1, envelope |-> envelope[j]] \in [attempts : Nat, envelope : BOOLEAN]
        BY DEF JobTypeOK, NumberTypes, FlagTypes
      <3>2. \A j \in Job : T!NoCopy[j] \in [attempts : Nat, envelope : BOOLEAN] BY DEF T!NoCopy
      <3>. QED BY <3>1, <3>2
    <2>4. copy' \in [Tick -> [Job -> [attempts : Nat, envelope : BOOLEAN]]] BY <2>1, <2>3 DEF TickTypeOK
    <2>. QED BY <2>1, <2>2, <2>4 DEF TickTypeOK
  <1>5. ASSUME NEW t \in Tick, T!Advance(t) PROVE TickTypeOK'
    <2>1. CASE T!StartJob(t)
      <3>1. PICK j \in todo[t] : cur' = [cur EXCEPT ![t] = {j}] /\ todo' = [todo EXCEPT ![t] = todo[t] \ {j}]
        BY <2>1 DEF T!StartJob
      <3>2. j \in Job /\ todo[t] \ {j} \in SUBSET Job BY <1>a
      <3>. QED BY <2>1, <3>1, <3>2, TickGoes DEF T!StartJob
    <2>2. CASE T!ReleaseTranscriptionClaims(t)
      BY <2>2 DEF T!ReleaseTranscriptionClaims, TickTypeOK
    <2>3. CASE T!EndTick(t) BY <2>3, TickGoes DEF T!EndTick
    <2>4. CASE T!Complete(t) BY <2>4, TickGoes DEF T!Complete
    <2>5. CASE T!TooLong(t) BY <2>5, TickGoes DEF T!TooLong
    <2>6. CASE T!MarkTranscriptionDone(t) BY <2>6, TickGoes DEF T!MarkTranscriptionDone, T!NextJob
    <2>7. ASSUME NEW systemic \in BOOLEAN, T!MarkTranscriptionRetryOrFail(t, systemic) PROVE TickTypeOK'
      <3>1. todo' = todo /\ copy' = copy /\ ((T!Goto(t, "give up") /\ cur' = cur) \/ T!NextJob(t))
        BY <2>7 DEF T!MarkTranscriptionRetryOrFail
      <3>. QED BY <3>1, TickGoes DEF T!NextJob
    <2>8. CASE T!GiveUp(t) BY <2>8, TickGoes DEF T!GiveUp
    <2>9. CASE T!MaybeTrigger(t) BY <2>9, TickGoes DEF T!MaybeTrigger, T!NextJob
    <2>. QED BY <1>5, <2>1, <2>2, <2>3, <2>4, <2>5, <2>6, <2>7, <2>8, <2>9 DEF T!Advance
  <1>6. ASSUME NEW t \in Tick, T!TriggerFails(t) PROVE TickTypeOK'
    BY <1>6, TickGoes DEF T!TriggerFails, T!NextJob
  <1>7. ASSUME NEW t \in Tick, T!TickAborts(t) PROVE TickTypeOK'
    BY <1>7, TicksStop DEF T!TickAborts
  <1>8. CASE UNCHANGED T!vars BY <1>8, TickStill DEF T!vars
  <1>. QED BY <1>1, <1>2, <1>3, <1>4, <1>5, <1>6, <1>7, <1>8 DEF T!Next

LEMMA NumbersTyped ==
  ASSUME NumberTypes, TickTypeOK, [T!Next]_(T!vars)
  PROVE  NumberTypes'
  <1>. USE DEF NumberTypes, T!jobVars, T!histVars
  <1>a. \A t \in Tick : cur[t] \subseteq Job /\ todo[t] \subseteq Job BY DEF TickTypeOK
  <1>b. \A j \in Job : T!GiveBack(j) \in Nat BY DEF T!GiveBack
  <1>c. ASSUME NEW S \in SUBSET Tick, T!Abandon(S) PROVE lost' \in [Job -> Nat]
    <2>1. \E L : lost' = [j \in Job |-> IF j \in L THEN lost[j] + 1 ELSE lost[j]] BY <1>c DEF T!Abandon
    <2>. QED BY <2>1
  <1>1. CASE T!CoolDown BY <1>1 DEF T!CoolDown
  <1>2. CASE T!Crash BY <1>2, <1>c DEF T!Crash
  <1>3. ASSUME NEW j \in Job, T!BecomeDue(j) \/ T!GrowOld(j) PROVE NumberTypes'
    BY <1>3 DEF T!BecomeDue, T!GrowOld
  <1>4. ASSUME NEW t \in Tick, T!ClaimDueTranscriptionJobs(t) PROVE NumberTypes'
    BY <1>4, Claimed DEF T!ClaimDueTranscriptionJobs
  <1>5. ASSUME NEW t \in Tick, T!Advance(t) PROVE NumberTypes'
    <2>1. CASE T!StartJob(t) BY <2>1 DEF T!StartJob
    <2>2. CASE T!ReleaseTranscriptionClaims(t)
      BY <2>2, <1>b DEF T!ReleaseTranscriptionClaims
    <2>3. CASE T!EndTick(t) BY <2>3 DEF T!EndTick
    <2>4. CASE T!Complete(t) BY <2>4, <1>a DEF T!Complete
    <2>5. CASE T!TooLong(t) BY <2>5, <1>a DEF T!TooLong
    <2>6. CASE T!MarkTranscriptionDone(t) BY <2>6, <1>a DEF T!MarkTranscriptionDone
    <2>7. ASSUME NEW systemic \in BOOLEAN, T!MarkTranscriptionRetryOrFail(t, systemic) PROVE NumberTypes'
      <3>1. PICK j \in Job :
              /\ errors' = errors \/ errors' = [errors EXCEPT ![j] = errors[j] + 1]
              /\ attempts' = attempts \/ attempts' = [attempts EXCEPT ![j] = T!GiveBack(j)]
        BY <2>7, <1>a DEF T!MarkTranscriptionRetryOrFail
      <3>2. errors' \in [Job -> Nat] BY <3>1
      <3>3. attempts' \in [Job -> Nat] BY <3>1, <1>b
      <3>. QED BY <2>7, <3>2, <3>3 DEF T!MarkTranscriptionRetryOrFail
    <2>8. CASE T!GiveUp(t) BY <2>8, <1>a DEF T!GiveUp
    <2>9. CASE T!MaybeTrigger(t) BY <2>9, <1>a DEF T!MaybeTrigger
    <2>. QED BY <1>5, <2>1, <2>2, <2>3, <2>4, <2>5, <2>6, <2>7, <2>8, <2>9 DEF T!Advance
  <1>6. ASSUME NEW t \in Tick, T!TriggerFails(t) PROVE NumberTypes'
    BY <1>6, <1>a DEF T!TriggerFails
  <1>7. ASSUME NEW t \in Tick, T!TickAborts(t) PROVE NumberTypes'
    <2>1. {t} \in SUBSET Tick /\ T!Abandon({t}) BY <1>7 DEF T!TickAborts
    <2>2. lost' \in [Job -> Nat] BY <2>1, <1>c
    <2>3. failures' = failures + 1 /\ UNCHANGED <<attempts, metrics, errors>> BY <1>7 DEF T!TickAborts
    <2>. QED BY <2>2, <2>3
  <1>8. CASE UNCHANGED T!vars BY <1>8 DEF T!vars
  <1>. QED BY <1>1, <1>2, <1>3, <1>4, <1>5, <1>6, <1>7, <1>8 DEF T!Next

LEMMA FlagsTyped ==
  ASSUME FlagTypes, TickTypeOK, [T!Next]_(T!vars)
  PROVE  FlagTypes'
  <1>. USE DEF FlagTypes, T!jobVars, T!histVars
  <1>a. \A t \in Tick : cur[t] \subseteq Job /\ todo[t] \subseteq Job BY DEF TickTypeOK
  <1>1. CASE T!CoolDown BY <1>1 DEF T!CoolDown
  <1>2. CASE T!Crash BY <1>2 DEF T!Crash
  <1>3. ASSUME NEW j \in Job, T!BecomeDue(j) \/ T!GrowOld(j) PROVE FlagTypes'
    BY <1>3 DEF T!BecomeDue, T!GrowOld
  <1>4. ASSUME NEW t \in Tick, T!ClaimDueTranscriptionJobs(t) PROVE FlagTypes'
    <2>1. PICK B \in SUBSET Job : scheduled' = [j \in Job |-> IF j \in B THEN FALSE ELSE scheduled[j]]
      BY <1>4, Claimed
    <2>2. \A j \in Job : (IF j \in B THEN FALSE ELSE scheduled[j]) \in BOOLEAN BY Zenon
    <2>3. scheduled' \in [Job -> BOOLEAN] BY <2>1, <2>2, Zenon
    <2>. QED BY <1>4, <2>3 DEF T!ClaimDueTranscriptionJobs
  <1>5. ASSUME NEW t \in Tick, T!Advance(t) PROVE FlagTypes'
    <2>1. CASE T!StartJob(t) BY <2>1 DEF T!StartJob
    <2>2. CASE T!ReleaseTranscriptionClaims(t)
      <3>1. PICK R : scheduled' = [j \in Job |-> IF j \in R THEN FALSE ELSE scheduled[j]]
        BY <2>2 DEF T!ReleaseTranscriptionClaims
      <3>2. \A j \in Job : (IF j \in R THEN FALSE ELSE scheduled[j]) \in BOOLEAN BY Zenon
      <3>3. scheduled' \in [Job -> BOOLEAN] BY <3>1, <3>2, Zenon
      <3>. QED BY <2>2, <3>3 DEF T!ReleaseTranscriptionClaims
    <2>3. CASE T!EndTick(t) BY <2>3 DEF T!EndTick
    <2>4. CASE T!Complete(t) BY <2>4, <1>a DEF T!Complete
    <2>5. CASE T!TooLong(t) BY <2>5, <1>a DEF T!TooLong
    <2>6. CASE T!MarkTranscriptionDone(t) BY <2>6, <1>a DEF T!MarkTranscriptionDone
    <2>7. ASSUME NEW systemic \in BOOLEAN, T!MarkTranscriptionRetryOrFail(t, systemic) PROVE FlagTypes'
      BY <2>7, <1>a DEF T!MarkTranscriptionRetryOrFail
    <2>8. CASE T!GiveUp(t) BY <2>8, <1>a DEF T!GiveUp
    <2>9. CASE T!MaybeTrigger(t) BY <2>9, <1>a DEF T!MaybeTrigger
    <2>. QED BY <1>5, <2>1, <2>2, <2>3, <2>4, <2>5, <2>6, <2>7, <2>8, <2>9 DEF T!Advance
  <1>6. ASSUME NEW t \in Tick, T!TriggerFails(t) PROVE FlagTypes'
    BY <1>6, <1>a DEF T!TriggerFails
  <1>7. ASSUME NEW t \in Tick, T!TickAborts(t) PROVE FlagTypes' BY <1>7 DEF T!TickAborts
  <1>8. CASE UNCHANGED T!vars BY <1>8 DEF T!vars
  <1>. QED BY <1>1, <1>2, <1>3, <1>4, <1>5, <1>6, <1>7, <1>8 DEF T!Next

LEMMA WordsTyped ==
  ASSUME WordTypes, TickTypeOK, [T!Next]_(T!vars)
  PROVE  WordTypes'
  <1>. USE DEF WordTypes, T!jobVars, T!histVars
  <1>a. \A t \in Tick : cur[t] \subseteq Job /\ todo[t] \subseteq Job BY DEF TickTypeOK
  <1>1. CASE T!CoolDown BY <1>1 DEF T!CoolDown
  <1>2. CASE T!Crash BY <1>2 DEF T!Crash, T!Abandon
  <1>3. ASSUME NEW j \in Job, T!BecomeDue(j) \/ T!GrowOld(j) PROVE WordTypes'
    BY <1>3 DEF T!BecomeDue, T!GrowOld
  <1>4. ASSUME NEW t \in Tick, T!ClaimDueTranscriptionJobs(t) PROVE WordTypes'
    BY <1>4 DEF T!ClaimDueTranscriptionJobs
  <1>5. ASSUME NEW t \in Tick, T!Advance(t) PROVE WordTypes'
    <2>1. CASE T!StartJob(t) BY <2>1 DEF T!StartJob
    <2>2. CASE T!ReleaseTranscriptionClaims(t)
      BY <2>2 DEF T!ReleaseTranscriptionClaims
    <2>3. CASE T!EndTick(t) BY <2>3 DEF T!EndTick
    <2>4. CASE T!Complete(t)
      <3>1. PICK j \in Job : text' = [text EXCEPT ![j] = "transcript"] /\ state' = [state EXCEPT ![j] = "done"]
        BY <2>4, <1>a DEF T!Complete
      <3>. QED BY <2>4, <3>1 DEF T!Complete
    <2>5. CASE T!TooLong(t) BY <2>5, <1>a DEF T!TooLong
    <2>6. CASE T!MarkTranscriptionDone(t) BY <2>6, <1>a DEF T!MarkTranscriptionDone
    <2>7. ASSUME NEW systemic \in BOOLEAN, T!MarkTranscriptionRetryOrFail(t, systemic) PROVE WordTypes'
      BY <2>7, <1>a DEF T!MarkTranscriptionRetryOrFail
    <2>8. CASE T!GiveUp(t) BY <2>8, <1>a DEF T!GiveUp
    <2>9. CASE T!MaybeTrigger(t) BY <2>9, <1>a DEF T!MaybeTrigger
    <2>. QED BY <1>5, <2>1, <2>2, <2>3, <2>4, <2>5, <2>6, <2>7, <2>8, <2>9 DEF T!Advance
  <1>6. ASSUME NEW t \in Tick, T!TriggerFails(t) PROVE WordTypes'
    BY <1>6, <1>a DEF T!TriggerFails
  <1>7. ASSUME NEW t \in Tick, T!TickAborts(t) PROVE WordTypes' BY <1>7 DEF T!TickAborts, T!Abandon
  <1>8. CASE UNCHANGED T!vars BY <1>8 DEF T!vars
  <1>. QED BY <1>1, <1>2, <1>3, <1>4, <1>5, <1>6, <1>7, <1>8 DEF T!Next

LEMMA JobTypes == T!TypeOK /\ [T!Next]_(T!vars) => T!TypeOK'
  <1>1. T!TypeOK /\ [T!Next]_(T!vars) => JobTypeOK' /\ TickTypeOK'
    BY TypesSplit, NumbersTyped, FlagsTyped, WordsTyped, TickTypes DEF JobTypeOK
  <1>. QED BY <1>1 DEF T!TypeOK, JobTypeOK, NumberTypes, FlagTypes, WordTypes, TickTypeOK

-----------------------------------------------------------------------------
(* Hands. *)

\* What is in hand is owed as long as nothing about it changes.
LEMMA OwedStays ==
  ASSUME NEW u \in Tick, Owed(u),
         todo'[u] = todo[u], cur'[u] = cur[u], step'[u] = step[u], copy'[u] = copy[u],
         \A j \in InHand(u) : /\ state'[j] = state[j] /\ attempts'[j] = attempts[j] /\ text'[j] = text[j]
                              /\ ~scheduled[j] => ~scheduled'[j]
  PROVE  Owed(u)' /\ InHand(u)' = InHand(u) /\ Working(u)' = Working(u)
  <1>1. /\ InHand(u)' = InHand(u) /\ Working(u)' = Working(u)
        /\ Working(u) \subseteq InHand(u) /\ cur[u] \subseteq InHand(u)
    BY DEF InHand, Working
  <1>2. ASSUME NEW j \in Working(u) PROVE state'[j] = "pending" /\ ~scheduled'[j] /\ copy'[u][j].attempts = attempts'[j]
    <2>1. state[j] = "pending" /\ ~scheduled[j] /\ copy[u][j].attempts = attempts[j] BY <1>2 DEF Owed
    <2>2. j \in InHand(u) BY <1>1
    <2>3. copy'[u][j].attempts = copy[u][j].attempts OBVIOUS
    <2>. QED BY <2>1, <2>2, <2>3
  <1>3. ASSUME NEW j \in cur[u] PROVE /\ step'[u] = "close" => text'[j] = "too long"
                                      /\ step'[u] = "give up" => state'[j] = "failed"
                                      /\ step'[u] = "trigger" => state'[j] # "pending"
    <2>1. j \in InHand(u) BY <1>1
    <2>. QED BY <2>1, <1>3 DEF Owed
  <1>. QED BY <1>1, <1>2, <1>3 DEF Owed

LEMMA SerialStays ==
  ASSUME NEW u \in Tick, Serial(u), todo'[u] = todo[u], cur'[u] = cur[u], step'[u] = step[u]
  PROVE  Serial(u)'
  BY DEF Serial

\* A step of one tick leaves the hands of the others alone.
LEMMA TickAlone ==
  ASSUME TickTypeOK, HandInv, NEW t \in Tick,
         \A u \in Tick : u # t => /\ todo'[u] = todo[u] /\ cur'[u] = cur[u]
                                  /\ step'[u] = step[u] /\ copy'[u] = copy[u],
         InHand(t)' \subseteq InHand(t),
         \A j \in Job : j \notin InHand(t) =>
           /\ state'[j] = state[j] /\ attempts'[j] = attempts[j] /\ text'[j] = text[j]
           /\ ~scheduled[j] => ~scheduled'[j],
         Serial(t)', Owed(t)'
  PROVE  HandInv'
  <1>1. ASSUME NEW u \in Tick, u # t PROVE Serial(u)' /\ Owed(u)' /\ InHand(u)' = InHand(u)
    <2>1. /\ todo'[u] = todo[u] /\ cur'[u] = cur[u] /\ step'[u] = step[u] /\ copy'[u] = copy[u]
      BY <1>1
    <2>2. Serial(u) /\ Owed(u) /\ InHand(u) \intersect InHand(t) = {} BY <1>1 DEF HandInv, HandsApart
    <2>3. InHand(u) \subseteq Job BY DEF InHand, TickTypeOK
    <2>4. \A j \in InHand(u) : j \in Job /\ j \notin InHand(t) BY <2>2, <2>3
    <2>. QED BY <2>1, <2>2, <2>4, OwedStays, SerialStays
  <1>2. HandsApart' BY <1>1 DEF HandInv, HandsApart
  <1>. QED BY <1>1, <1>2 DEF HandInv

\* Nothing but flags of the jobs and of the breaker moves.
LEMMA HandsStill ==
  ASSUME HandInv, UNCHANGED <<todo, cur, step, copy, state, attempts, text>>,
         \A t \in Tick : \A j \in InHand(t) : ~scheduled[j] => ~scheduled'[j]
  PROVE  HandInv'
  <1>1. ASSUME NEW t \in Tick PROVE Serial(t)' /\ Owed(t)' /\ InHand(t)' = InHand(t)
    <2>1. Serial(t) /\ Owed(t) BY DEF HandInv
    <2>. QED BY <2>1, SerialStays, OwedStays
  <1>. QED BY <1>1 DEF HandInv, HandsApart

\* Ticks that stop have nothing in hand.
LEMMA HandsDropped ==
  ASSUME TickTypeOK, HandInv, NEW S \in SUBSET Tick, T!Abandon(S),
         UNCHANGED <<state, attempts, scheduled, text>>
  PROVE  HandInv'
  <1>1. \A t \in Tick : /\ todo'[t] = IF t \in S THEN {} ELSE todo[t]
                        /\ cur'[t] = IF t \in S THEN {} ELSE cur[t]
                        /\ step'[t] = IF t \in S THEN "idle" ELSE step[t]
                        /\ copy'[t] = IF t \in S THEN T!NoCopy ELSE copy[t]
    BY DEF T!Abandon
  <1>2. ASSUME NEW t \in Tick PROVE Serial(t)' /\ Owed(t)'
    <2>1. CASE t \in S BY <1>1, <2>1 DEF Serial, Owed, Working
    <2>2. CASE t \notin S
      <3>1. Serial(t) /\ Owed(t) BY DEF HandInv
      <3>. QED BY <1>1, <2>2, <3>1, SerialStays, OwedStays
    <2>. QED BY <2>1, <2>2
  <1>4. \A t \in Tick : InHand(t)' \subseteq InHand(t) BY <1>1 DEF InHand
  <1>. QED BY <1>2, <1>4 DEF HandInv, HandsApart

\* A claim takes jobs that are due, so in nobody's hand.
LEMMA HandsClaim ==
  ASSUME JobTypeOK, TickTypeOK, HandInv, NEW t \in Tick, T!ClaimDueTranscriptionJobs(t)
  PROVE  HandInv'
  <1>1. PICK B \in SUBSET {j \in Job : state[j] = "pending" /\ scheduled[j]} :
          /\ attempts' = [j \in Job |-> IF j \in B THEN attempts[j] + 1 ELSE attempts[j]]
          /\ scheduled' = [j \in Job |-> IF j \in B THEN FALSE ELSE scheduled[j]]
          /\ todo' = [todo EXCEPT ![t] = B]
          /\ copy' = [copy EXCEPT ![t] = [j \in Job |->
                       IF j \in B THEN [attempts |-> attempts[j] + 1, envelope |-> envelope[j]]
                       ELSE T!NoCopy[j]]]
    BY Claimed
  <1>2. /\ step[t] = "idle" /\ step' = [step EXCEPT ![t] = "next"]
        /\ UNCHANGED <<cur, state, text>>
    BY DEF T!ClaimDueTranscriptionJobs, T!Goto
  <1>3. cur[t] = {} /\ todo[t] = {} BY <1>2 DEF HandInv, Serial
  <1>4. \A u \in Tick : /\ u # t => todo'[u] = todo[u] /\ step'[u] = step[u] /\ copy'[u] = copy[u]
                        /\ u = t => todo'[u] = B /\ step'[u] = "next"
    BY <1>1, <1>2 DEF TickTypeOK
  <1>5. \A j \in B : /\ copy'[t][j].attempts = attempts[j] + 1 /\ attempts'[j] = attempts[j] + 1
                     /\ ~scheduled'[j] /\ state[j] = "pending" /\ scheduled[j] /\ j \in Job
    BY <1>1 DEF TickTypeOK
  <1>6. \A j \in Job : j \notin B => attempts'[j] = attempts[j] /\ scheduled'[j] = scheduled[j]
    BY <1>1
  <1>7. Serial(t)' /\ Owed(t)' BY <1>2, <1>3, <1>4, <1>5 DEF Serial, Owed, Working
  <1>8. ASSUME NEW u \in Tick, u # t PROVE Serial(u)' /\ Owed(u)' /\ InHand(u) \intersect B = {}
    <2>1. Serial(u) /\ Owed(u) BY DEF HandInv
    <2>2. InHand(u) \subseteq Job BY DEF InHand, TickTypeOK
    <2>3. InHand(u) \intersect B = {}
      <3>1. ASSUME NEW j \in InHand(u), j \in B PROVE FALSE
        <4>1. state[j] = "pending" /\ scheduled[j] BY <3>1, <1>5
        <4>. QED BY <4>1, <2>1 DEF Serial, Owed, Working, InHand
      <3>. QED BY <3>1
    <2>4. \A j \in InHand(u) : /\ state'[j] = state[j] /\ attempts'[j] = attempts[j] /\ text'[j] = text[j]
                               /\ ~scheduled[j] => ~scheduled'[j]
      BY <1>2, <1>6, <2>2, <2>3
    <2>. QED BY <1>2, <1>4, <1>8, <2>1, <2>3, <2>4, SerialStays, OwedStays
  <1>9. HandsApart'
    <2>1. \A u \in Tick : u # t => InHand(u)' = InHand(u) BY <1>2, <1>4 DEF InHand
    <2>2. InHand(t)' = B BY <1>2, <1>3, <1>4 DEF InHand
    <2>. QED BY <1>8, <2>1, <2>2 DEF HandInv, HandsApart
  <1>. QED BY <1>7, <1>8, <1>9 DEF HandInv

\* One lemma for what a tick does with the job it is processing.
LEMMA HandsWork ==
  ASSUME JobTypeOK, TickTypeOK, HandInv, NEW t \in Tick, T!Advance(t) \/ T!TriggerFails(t)
  PROVE  HandInv'
  <1>. USE DEF T!jobVars, T!tickVars, T!histVars
  <1>a. Serial(t) /\ Owed(t) /\ todo[t] \subseteq Job /\ cur[t] \subseteq Job
    BY DEF HandInv, TickTypeOK
  <1>b. /\ todo \in [Tick -> SUBSET Job] /\ cur \in [Tick -> SUBSET Job] /\ DOMAIN step = Tick /\ DOMAIN copy = Tick
        /\ DOMAIN state = Job /\ DOMAIN text = Job /\ DOMAIN attempts = Job /\ DOMAIN scheduled = Job
    BY DEF TickTypeOK, JobTypeOK, NumberTypes, FlagTypes, WordTypes
  \* The current job leaves the hand.
  <1>c. ASSUME T!NextJob(t), todo' = todo, copy' = copy,
               \A j \in Job : j \notin cur[t] =>
                 /\ state'[j] = state[j] /\ attempts'[j] = attempts[j] /\ text'[j] = text[j]
                 /\ ~scheduled[j] => ~scheduled'[j]
        PROVE  HandInv'
    <2>1. /\ \A u \in Tick : u # t => step'[u] = step[u] /\ cur'[u] = cur[u]
          /\ step'[t] = "next" /\ cur'[t] = {}
      BY <1>b, <1>c DEF T!NextJob, T!Goto
    <2>2. Serial(t)' BY <1>a, <1>c, <2>1 DEF Serial
    <2>3. \A j \in todo[t] : j \in Job /\ j \notin cur[t] BY <1>a DEF Serial
    <2>4. Working(t)' = todo[t] /\ todo[t] \subseteq Working(t) BY <1>c, <2>1 DEF Working
    <2>5. Owed(t)' BY <1>a, <1>c, <2>1, <2>3, <2>4 DEF Owed
    <2>6. InHand(t)' \subseteq InHand(t) BY <1>c, <2>1 DEF InHand
    <2>. QED BY <1>c, <2>1, <2>2, <2>5, <2>6, TickAlone DEF InHand
  \* It stays, and the tick goes on with it.
  <1>d. ASSUME NEW s \in {"close", "give up", "trigger"}, T!Goto(t, s), UNCHANGED <<todo, cur, copy>>,
               \A j \in Job : j \notin cur[t] => state'[j] = state[j] /\ text'[j] = text[j],
               UNCHANGED <<attempts, scheduled>>,
               s = "close" => UNCHANGED state /\ step[t] = "work",
               \A j \in cur[t] : /\ s = "close" => text'[j] = "too long"
                                 /\ s = "give up" => state'[j] = "failed"
                                 /\ s = "trigger" => state'[j] # "pending",
               step[t] \notin {"idle", "next"}
        PROVE  HandInv'
    <2>1. (\A u \in Tick : u # t => step'[u] = step[u]) /\ step'[t] = s
      BY <1>b, <1>d DEF T!Goto
    <2>2. Serial(t)' BY <1>a, <1>d, <2>1 DEF Serial
    <2>3. \A j \in todo[t] : j \in Job /\ j \notin cur[t] BY <1>a DEF Serial
    <2>4. /\ Working(t)' = todo[t] \union (IF s = "close" THEN cur[t] ELSE {})
          /\ todo[t] \subseteq Working(t)
          /\ s = "close" => Working(t)' = Working(t)
      BY <1>d, <2>1 DEF Working
    <2>5. ASSUME NEW j \in Working(t)'
          PROVE  state'[j] = "pending" /\ ~scheduled'[j] /\ copy'[t][j].attempts = attempts'[j]
      <3>1. j \in Working(t) /\ state'[j] = state[j] BY <2>5, <2>3, <2>4, <1>d
      <3>2. state[j] = "pending" /\ ~scheduled[j] /\ copy[t][j].attempts = attempts[j] BY <3>1, <1>a DEF Owed
      <3>. QED BY <3>1, <3>2, <1>d
    <2>6. Owed(t)' BY <1>d, <2>1, <2>5 DEF Owed
    <2>7. InHand(t)' \subseteq InHand(t) BY <1>d DEF InHand
    <2>. QED BY <1>d, <2>1, <2>2, <2>6, <2>7, TickAlone DEF InHand
  <1>1. CASE T!StartJob(t)
    <2>1. PICK j \in todo[t] : cur' = [cur EXCEPT ![t] = {j}] /\ todo' = [todo EXCEPT ![t] = todo[t] \ {j}]
      BY <1>1 DEF T!StartJob
    <2>2. /\ step[t] = "next" /\ step' = [step EXCEPT ![t] = "work"]
          /\ UNCHANGED <<copy, state, attempts, scheduled, text>>
      BY <1>1 DEF T!StartJob, T!Goto
    <2>3. cur[t] = {} BY <1>a, <2>2 DEF Serial
    <2>4. /\ \A u \in Tick : u # t => step'[u] = step[u] /\ cur'[u] = cur[u] /\ todo'[u] = todo[u]
          /\ step'[t] = "work" /\ cur'[t] = {j} /\ todo'[t] = todo[t] \ {j}
      BY <1>b, <2>1, <2>2
    <2>5. Serial(t)' BY <2>4 DEF Serial
    <2>6. Working(t)' = Working(t) BY <2>2, <2>3, <2>4 DEF Working
    <2>7. Owed(t)' BY <1>a, <2>2, <2>4, <2>6 DEF Owed
    <2>8. InHand(t)' \subseteq InHand(t) BY <2>4 DEF InHand
    <2>. QED BY <2>2, <2>4, <2>5, <2>7, <2>8, TickAlone
  <1>2. CASE T!ReleaseTranscriptionClaims(t)
    <2>. DEFINE R == {j \in todo[t] : state[j] = "pending"}
    <2>1. /\ attempts' = [j \in Job |-> IF j \in R THEN T!GiveBack(j) ELSE attempts[j]]
          /\ scheduled' = [j \in Job |-> IF j \in R THEN FALSE ELSE scheduled[j]]
          /\ step[t] = "next" /\ todo' = [todo EXCEPT ![t] = {}]
          /\ UNCHANGED <<cur, step, copy, state, text>>
      BY <1>2 DEF T!ReleaseTranscriptionClaims
    <2>2. cur[t] = {} /\ todo'[t] = {} /\ \A u \in Tick : u # t => todo'[u] = todo[u]
      BY <1>a, <1>b, <2>1 DEF Serial
    <2>3. \A j \in Job : j \notin InHand(t) => attempts'[j] = attempts[j] /\ (~scheduled[j] => ~scheduled'[j])
      <3>1. R \subseteq InHand(t) BY DEF InHand
      <3>. HIDE DEF R
      <3>. QED BY <2>1, <3>1
    <2>4. Serial(t)' /\ Owed(t)' BY <2>1, <2>2 DEF Serial, Owed, Working
    <2>5. InHand(t)' \subseteq InHand(t) BY <2>1, <2>2 DEF InHand
    <2>. QED BY <2>1, <2>2, <2>3, <2>4, <2>5, TickAlone
  <1>3. CASE T!EndTick(t)
    <2>1. /\ step[t] = "next" /\ todo[t] = {} /\ step' = [step EXCEPT ![t] = "idle"]
          /\ copy' = [copy EXCEPT ![t] = T!NoCopy]
          /\ UNCHANGED <<todo, cur, state, attempts, scheduled, text>>
      BY <1>3 DEF T!EndTick, T!Goto
    <2>2. cur[t] = {} /\ \A u \in Tick : u # t => step'[u] = step[u] /\ copy'[u] = copy[u]
      BY <1>a, <1>b, <2>1 DEF Serial
    <2>3. Serial(t)' /\ Owed(t)' BY <2>1, <2>2 DEF Serial, Owed, Working
    <2>4. InHand(t)' \subseteq InHand(t) BY <2>1 DEF InHand
    <2>. QED BY <2>1, <2>2, <2>3, <2>4, TickAlone
  <1>4. CASE T!Complete(t)
    <2>1. PICK j \in cur[t] : text' = [text EXCEPT ![j] = "transcript"] /\ state' = [state EXCEPT ![j] = "done"]
      BY <1>4 DEF T!Complete
    <2>2. /\ \A i \in Job : i \notin cur[t] => state'[i] = state[i] /\ text'[i] = text[i]
          /\ \A i \in cur[t] : state'[i] # "pending"
      BY <1>a, <1>b, <2>1 DEF Serial
    <2>. QED BY <1>4, <1>d, <2>2 DEF T!Complete
  <1>5. CASE T!TooLong(t)
    <2>1. PICK j \in cur[t] : text' = [text EXCEPT ![j] = "too long"]
      BY <1>5 DEF T!TooLong
    <2>2. /\ \A i \in Job : i \notin cur[t] => text'[i] = text[i]
          /\ \A i \in cur[t] : text'[i] = "too long"
      BY <1>a, <1>b, <2>1 DEF Serial
    <2>. QED BY <1>5, <1>d, <2>2 DEF T!TooLong
  <1>6. CASE T!MarkTranscriptionDone(t)
    <2>1. \A i \in Job : i \notin cur[t] => state'[i] = state[i] BY <1>b, <1>6 DEF T!MarkTranscriptionDone
    <2>. QED BY <1>6, <1>c, <2>1 DEF T!MarkTranscriptionDone
  <1>7. ASSUME NEW systemic \in BOOLEAN, T!MarkTranscriptionRetryOrFail(t, systemic) PROVE HandInv'
    <2>1. PICK j \in cur[t] :
            \/ /\ state' = [state EXCEPT ![j] = "failed"] /\ T!Goto(t, "give up")
               /\ UNCHANGED <<attempts, scheduled, cur>>
            \/ /\ state' = [state EXCEPT ![j] = "pending"]
               /\ attempts' = attempts \/ attempts' = [attempts EXCEPT ![j] = T!GiveBack(j)]
               /\ scheduled' = [scheduled EXCEPT ![j] = FALSE]
               /\ T!NextJob(t)
      BY <1>7 DEF T!MarkTranscriptionRetryOrFail
    <2>2. step[t] \in {"work", "close"} /\ UNCHANGED <<text, todo, copy>>
      BY <1>7 DEF T!MarkTranscriptionRetryOrFail
    <2>3. CASE /\ state' = [state EXCEPT ![j] = "failed"] /\ T!Goto(t, "give up")
               /\ UNCHANGED <<attempts, scheduled, cur>>
      <3>1. /\ \A i \in Job : i \notin cur[t] => state'[i] = state[i]
            /\ \A i \in cur[t] : state'[i] = "failed"
        BY <1>a, <1>b, <2>3 DEF Serial
      <3>. QED BY <1>d, <2>2, <2>3, <3>1
    <2>4. CASE /\ state' = [state EXCEPT ![j] = "pending"]
               /\ attempts' = attempts \/ attempts' = [attempts EXCEPT ![j] = T!GiveBack(j)]
               /\ scheduled' = [scheduled EXCEPT ![j] = FALSE]
               /\ T!NextJob(t)
      <3>1. \A i \in Job : i \notin cur[t] =>
              state'[i] = state[i] /\ attempts'[i] = attempts[i] /\ (~scheduled[i] => ~scheduled'[i])
        BY <1>b, <2>4
      <3>. QED BY <1>c, <2>2, <2>4, <3>1
    <2>. QED BY <2>1, <2>3, <2>4
  <1>8. CASE T!GiveUp(t)
    <2>1. \A i \in Job : i \notin cur[t] => text'[i] = text[i] BY <1>b, <1>8 DEF T!GiveUp
    <2>2. \A i \in cur[t] : state[i] = "failed" BY <1>a, <1>8 DEF Owed, T!GiveUp
    <2>. QED BY <1>8, <1>d, <2>1, <2>2 DEF T!GiveUp
  <1>9. CASE T!MaybeTrigger(t) BY <1>9, <1>c DEF T!MaybeTrigger
  <1>10. CASE T!TriggerFails(t) BY <1>10, <1>c DEF T!TriggerFails
  <1>. QED BY <1>1, <1>2, <1>3, <1>4, <1>5, <1>6, <1>7, <1>8, <1>9, <1>10 DEF T!Advance

LEMMA HandsStep ==
  ASSUME ~MayStall, JobTypeOK, TickTypeOK, HandInv, [T!Next]_(T!vars)
  PROVE  HandInv'
  <1>. USE DEF T!jobVars, T!tickVars, T!histVars
  <1>1. CASE T!CoolDown BY <1>1, HandsStill DEF T!CoolDown
  <1>2. CASE T!Crash BY <1>2, HandsDropped DEF T!Crash
  <1>3. ASSUME NEW j \in Job, T!BecomeDue(j) PROVE HandInv'
    <2>1. /\ scheduled' = [scheduled EXCEPT ![j] = TRUE]
          /\ UNCHANGED <<todo, cur, step, copy, state, attempts, text>>
      BY <1>3 DEF T!BecomeDue
    <2>2. \A t \in Tick : j \notin InHand(t) BY <1>3 DEF T!BecomeDue, T!Held, InHand
    <2>3. \A i : i # j => scheduled'[i] = scheduled[i] BY <2>1
    <2>. QED BY <2>1, <2>2, <2>3, HandsStill
  <1>4. ASSUME NEW j \in Job, T!GrowOld(j) PROVE HandInv' BY <1>4, HandsStill DEF T!GrowOld
  <1>5. ASSUME NEW t \in Tick, T!ClaimDueTranscriptionJobs(t) PROVE HandInv' BY <1>5, HandsClaim
  <1>6. ASSUME NEW t \in Tick, T!Advance(t) \/ T!TriggerFails(t) PROVE HandInv' BY <1>6, HandsWork
  <1>7. ASSUME NEW t \in Tick, T!TickAborts(t) PROVE HandInv' BY <1>7, HandsDropped DEF T!TickAborts
  <1>8. CASE UNCHANGED T!vars BY <1>8, HandsStill DEF T!vars
  <1>. QED BY <1>1, <1>2, <1>3, <1>4, <1>5, <1>6, <1>7, <1>8 DEF T!Next

-----------------------------------------------------------------------------
(* What a job costs. *)

\* The job a tick processes is open until its outcome is written.
LEMMA Processing ==
  ASSUME HandInv, NEW t \in Tick, NEW j \in cur[t]
  PROVE  /\ cur[t] = {j}
         /\ step[t] \in {"work", "close"} => /\ state[j] = "pending" /\ Busy(j)
                                             /\ copy[t][j].attempts = attempts[j]
         /\ step[t] = "close" => text[j] = "too long"
         /\ step[t] = "give up" => state[j] = "failed"
         /\ step[t] = "trigger" => state[j] # "pending"
  <1>1. Serial(t) /\ Owed(t) BY DEF HandInv
  <1>2. \E i : cur[t] \subseteq {i} BY <1>1, Zenon DEF Serial
  <1>3. cur[t] = {j} BY <1>2
  <1>4. step[t] \in {"work", "close"} => j \in Working(t) BY DEF Working
  <1>. QED BY <1>1, <1>3, <1>4 DEF Owed, Busy

LEMMA PaidStep ==
  ASSUME JobTypeOK, TickTypeOK, HandInv, PaidInv, [T!Next]_(T!vars)
  PROVE  PaidInv'
  <1>. USE DEF T!jobVars, T!tickVars, T!histVars
  <1>a. /\ DOMAIN state = Job /\ DOMAIN text = Job /\ metrics \in [Job -> Nat]
        /\ \A t \in Tick : cur[t] \subseteq Job
    BY DEF JobTypeOK, NumberTypes, WordTypes, TickTypeOK
  <1>b. ASSUME UNCHANGED <<state, text, metrics>> PROVE PaidInv' BY <1>b DEF PaidInv
  <1>1. CASE T!CoolDown BY <1>1, <1>b DEF T!CoolDown
  <1>2. CASE T!Crash BY <1>2, <1>b DEF T!Crash
  <1>3. ASSUME NEW j \in Job, T!BecomeDue(j) \/ T!GrowOld(j) PROVE PaidInv'
    BY <1>3, <1>b DEF T!BecomeDue, T!GrowOld
  <1>4. ASSUME NEW t \in Tick, T!ClaimDueTranscriptionJobs(t) \/ T!TriggerFails(t) \/ T!TickAborts(t) PROVE PaidInv'
    BY <1>4, <1>b DEF T!ClaimDueTranscriptionJobs, T!TriggerFails, T!TickAborts
  <1>5. ASSUME NEW t \in Tick, T!Advance(t) PROVE PaidInv'
    <2>1. CASE T!StartJob(t) \/ T!ReleaseTranscriptionClaims(t) \/ T!EndTick(t) \/ T!MaybeTrigger(t)
      BY <2>1, <1>b DEF T!StartJob, T!ReleaseTranscriptionClaims, T!EndTick, T!MaybeTrigger
    <2>2. CASE T!Complete(t)
      <3>1. PICK j \in cur[t] : /\ text' = [text EXCEPT ![j] = "transcript"] /\ state' = [state EXCEPT ![j] = "done"]
                                /\ metrics' = [metrics EXCEPT ![j] = metrics[j] + 1]
        BY <2>2 DEF T!Complete
      <3>2. state[j] = "pending" BY <2>2, Processing DEF T!Complete
      <3>3. j \in Job /\ metrics[j] = 0 BY <1>a, <3>2 DEF PaidInv
      <3>4. \A i \in Job : /\ state'[i] = IF i = j THEN "done" ELSE state[i]
                           /\ text'[i] = IF i = j THEN "transcript" ELSE text[i]
                           /\ metrics'[i] = IF i = j THEN 1 ELSE metrics[i]
        BY <1>a, <3>1, <3>3
      <3>5. ASSUME NEW i \in Job
            PROVE  /\ metrics'[i] <= 1 /\ (state'[i] # "done" => metrics'[i] = 0)
                   /\ state'[i] = "done" => text'[i] \in {"transcript", "too long"}
        <4>1. CASE i = j
          <5>1. state'[i] = "done" /\ text'[i] = "transcript" /\ metrics'[i] = 1 BY <3>4, <4>1
          <5>. QED BY <5>1
        <4>2. CASE i # j BY <3>4, <4>2 DEF PaidInv
        <4>. QED BY <4>1, <4>2
      <3>. QED BY <3>5 DEF PaidInv
    <2>3. CASE T!TooLong(t)
      <3>1. PICK j \in cur[t] : text' = [text EXCEPT ![j] = "too long"] BY <2>3 DEF T!TooLong
      <3>2. UNCHANGED <<state, metrics>> BY <2>3 DEF T!TooLong
      <3>. QED BY <1>a, <3>1, <3>2 DEF PaidInv
    <2>4. CASE T!MarkTranscriptionDone(t)
      <3>1. PICK j \in cur[t] : state' = [state EXCEPT ![j] = "done"] BY <2>4 DEF T!MarkTranscriptionDone
      <3>2. text[j] = "too long" BY <2>4, Processing DEF T!MarkTranscriptionDone
      <3>3. UNCHANGED <<text, metrics>> BY <2>4 DEF T!MarkTranscriptionDone
      <3>. QED BY <1>a, <3>1, <3>2, <3>3 DEF PaidInv
    <2>5. ASSUME NEW systemic \in BOOLEAN, T!MarkTranscriptionRetryOrFail(t, systemic) PROVE PaidInv'
      <3>1. PICK j \in cur[t] : state' = [state EXCEPT ![j] = "failed"] \/ state' = [state EXCEPT ![j] = "pending"]
        BY <2>5 DEF T!MarkTranscriptionRetryOrFail
      <3>2. state[j] = "pending" BY <2>5, Processing DEF T!MarkTranscriptionRetryOrFail
      <3>3. UNCHANGED <<text, metrics>> BY <2>5 DEF T!MarkTranscriptionRetryOrFail
      <3>. QED BY <1>a, <3>1, <3>2, <3>3 DEF PaidInv
    <2>6. CASE T!GiveUp(t)
      <3>1. PICK j \in cur[t] : text' = [text EXCEPT ![j] = "unavailable"] BY <2>6 DEF T!GiveUp
      <3>2. state[j] = "failed" BY <2>6, Processing DEF T!GiveUp
      <3>3. UNCHANGED <<state, metrics>> BY <2>6 DEF T!GiveUp
      <3>. QED BY <1>a, <3>1, <3>2, <3>3 DEF PaidInv
    <2>. QED BY <1>5, <2>1, <2>2, <2>3, <2>4, <2>5, <2>6 DEF T!Advance
  <1>6. CASE UNCHANGED T!vars BY <1>6, <1>b DEF T!vars
  <1>. QED BY <1>1, <1>2, <1>3, <1>4, <1>5, <1>6 DEF T!Next

Charged(j) ==
  /\ state[j] = "pending" => attempts[j] <= errors[j] + lost[j] + (IF Busy(j) THEN 1 ELSE 0)
  /\ state[j] = "failed" /\ ~old[j] => errors[j] + lost[j] >= MaxAttempts

\* Nothing about the job is charged, nor given up.
LEMMA ChargedStays ==
  ASSUME JobTypeOK, JobTypeOK', NEW j \in Job, Charged(j),
         state'[j] = state[j], attempts'[j] = attempts[j], errors'[j] = errors[j], lost'[j] = lost[j],
         old[j] => old'[j], state[j] = "pending" /\ Busy(j) => Busy(j)'
  PROVE  Charged(j)'
  <1>1. /\ attempts[j] \in Nat /\ errors[j] \in Nat /\ lost[j] \in Nat
    BY DEF JobTypeOK, NumberTypes
  <1>2. state'[j] = "pending" => attempts'[j] <= errors'[j] + lost'[j] + (IF Busy(j)' THEN 1 ELSE 0)
    BY <1>1 DEF Charged
  <1>3. state'[j] = "failed" /\ ~old'[j] => errors'[j] + lost'[j] >= MaxAttempts
    BY DEF Charged
  <1>. QED BY <1>2, <1>3 DEF Charged

\* A tick that stops loses the claims it worked on.
LEMMA ChargedDropped ==
  ASSUME JobTypeOK, JobTypeOK', TickTypeOK, NEW S \in SUBSET Tick, T!Abandon(S),
         UNCHANGED <<state, attempts, old, errors>>, NEW j \in Job, Charged(j)
  PROVE  Charged(j)'
  <1>1. lost'[j] = IF \E t \in S : j \in Working(t) THEN lost[j] + 1 ELSE lost[j]
    BY DEF T!Abandon, Working
  <1>2. CASE \E t \in S : j \in Working(t)
    <2>1. /\ attempts[j] \in Nat /\ errors[j] \in Nat /\ lost[j] \in Nat
      BY DEF JobTypeOK, NumberTypes
    <2>2. lost'[j] = lost[j] + 1 BY <1>1, <1>2
    <2>. QED BY <2>1, <2>2, ReceiptsAssumption DEF Charged
  <1>3. CASE ~\E t \in S : j \in Working(t)
    <2>1. lost'[j] = lost[j] BY <1>1, <1>3
    <2>2. ASSUME NEW t \in Tick, j \in Working(t) PROVE j \in Working(t)'
      <3>1. t \notin S BY <1>3, <2>2
      <3>2. todo'[t] = todo[t] /\ cur'[t] = cur[t] /\ step'[t] = step[t] BY <3>1 DEF T!Abandon
      <3>. QED BY <2>2, <3>2 DEF Working
    <2>3. Busy(j) => Busy(j)' BY <2>2 DEF Busy
    <2>. QED BY <2>1, <2>3, ChargedStays
  <1>. QED BY <1>2, <1>3

LEMMA ChargedStep ==
  ASSUME JobTypeOK, JobTypeOK', TickTypeOK, HandInv, [T!Next]_(T!vars), NEW j \in Job, Charged(j)
  PROVE  Charged(j)'
  <1>. USE DEF T!jobVars, T!tickVars, T!histVars
  <1>a. /\ DOMAIN step = Tick /\ DOMAIN cur = Tick /\ DOMAIN todo = Tick
        /\ DOMAIN state = Job /\ DOMAIN old = Job /\ DOMAIN attempts = Job /\ DOMAIN errors = Job
        /\ \A t \in Tick : cur[t] \subseteq Job
        /\ attempts[j] \in Nat /\ errors[j] \in Nat /\ lost[j] \in Nat
    BY DEF JobTypeOK, NumberTypes, FlagTypes, WordTypes, TickTypeOK
  <1>b. ASSUME UNCHANGED <<todo, cur, step>> PROVE Busy(j) => Busy(j)' BY <1>b DEF Busy, Working
  <1>1. CASE T!CoolDown BY <1>1, <1>b, ChargedStays DEF T!CoolDown
  <1>2. CASE T!Crash BY <1>2, ChargedDropped DEF T!Crash
  <1>3. ASSUME NEW i \in Job, T!BecomeDue(i) PROVE Charged(j)' BY <1>3, <1>b, ChargedStays DEF T!BecomeDue
  <1>4. ASSUME NEW i \in Job, T!GrowOld(i) PROVE Charged(j)'
    <2>1. old[j] => old'[j] BY <1>4, <1>a DEF T!GrowOld
    <2>. QED BY <1>4, <2>1, <1>b, ChargedStays DEF T!GrowOld
  <1>5. ASSUME NEW t \in Tick, T!ClaimDueTranscriptionJobs(t) PROVE Charged(j)'
    <2>1. PICK B \in SUBSET {i \in Job : state[i] = "pending" /\ scheduled[i]} :
            /\ attempts' = [i \in Job |-> IF i \in B THEN attempts[i] + 1 ELSE attempts[i]]
            /\ todo' = [todo EXCEPT ![t] = B]
      BY <1>5, Claimed
    <2>2. /\ step[t] = "idle" /\ step' = [step EXCEPT ![t] = "next"]
          /\ UNCHANGED <<cur, state, old, errors, lost>>
      BY <1>5 DEF T!ClaimDueTranscriptionJobs, T!Goto
    <2>3. Working(t) = {} BY <2>2 DEF HandInv, Serial, Working
    <2>4. ASSUME NEW u \in Tick, u # t PROVE Working(u)' = Working(u)
      BY <2>1, <2>2, <2>4, <1>a DEF Working
    <2>5. Busy(j) => Busy(j)' BY <2>3, <2>4 DEF Busy
    <2>6. CASE j \in B
      <3>1. scheduled[j] BY <2>6
      <3>2. ~Busy(j) BY <3>1 DEF Busy, HandInv, Owed
      <3>3. j \in Working(t)' BY <2>1, <2>6, <1>a DEF Working
      <3>4. Busy(j)' BY <3>3 DEF Busy
      <3>5. attempts'[j] = attempts[j] + 1 BY <2>1, <2>6
      <3>. QED BY <2>2, <3>2, <3>4, <3>5, <1>a DEF Charged
    <2>7. CASE j \notin B
      <3>1. attempts'[j] = attempts[j] BY <2>1, <2>7
      <3>. QED BY <2>2, <2>5, <3>1, ChargedStays
    <2>. QED BY <2>6, <2>7
  <1>6. ASSUME NEW t \in Tick, T!Advance(t) PROVE Charged(j)'
    \* Work of the others goes on, and so does what this tick keeps.
    <2>a. ASSUME \A u \in Tick : u # t => todo'[u] = todo[u] /\ cur'[u] = cur[u] /\ step'[u] = step[u],
                 j \in Working(t) => j \in Working(t)'
          PROVE  Busy(j) => Busy(j)'
      <3>1. ASSUME NEW u \in Tick, u # t PROVE Working(u)' = Working(u) BY <2>a, <3>1 DEF Working
      <3>. QED BY <2>a, <3>1 DEF Busy
    <2>b. ASSUME T!NextJob(t), todo' = todo, j \notin cur[t] \/ state[j] # "pending"
          PROVE  state[j] = "pending" /\ Busy(j) => Busy(j)'
      <3>1. \A u \in Tick : u # t => cur'[u] = cur[u] /\ step'[u] = step[u]
        BY <1>a, <2>b DEF T!NextJob, T!Goto
      <3>2. j \notin cur[t] => (j \in Working(t) => j \in Working(t)') BY <2>b DEF Working
      <3>. QED BY <2>a, <2>b, <3>1, <3>2
    <2>1. CASE T!StartJob(t)
      <3>1. PICK i \in todo[t] : cur' = [cur EXCEPT ![t] = {i}] /\ todo' = [todo EXCEPT ![t] = todo[t] \ {i}]
        BY <2>1 DEF T!StartJob
      <3>2. /\ step[t] = "next" /\ step' = [step EXCEPT ![t] = "work"]
            /\ UNCHANGED <<state, attempts, old, errors, lost>>
        BY <2>1 DEF T!StartJob, T!Goto
      <3>3. j \in Working(t) => j \in Working(t)' BY <1>a, <3>1, <3>2 DEF Working
      <3>4. \A u \in Tick : u # t => todo'[u] = todo[u] /\ cur'[u] = cur[u] /\ step'[u] = step[u]
        BY <3>1, <3>2
      <3>. QED BY <2>a, <3>2, <3>3, <3>4, ChargedStays
    <2>2. CASE T!ReleaseTranscriptionClaims(t)
      <3>1. /\ step[t] = "next" /\ todo' = [todo EXCEPT ![t] = {}]
            /\ attempts'[j] = IF j \in todo[t] /\ state[j] = "pending" THEN T!GiveBack(j) ELSE attempts[j]
            /\ UNCHANGED <<cur, step, state, old, errors, lost>>
        BY <2>2 DEF T!ReleaseTranscriptionClaims
      <3>2. CASE j \in todo[t]
        <4>1. state[j] = "pending" BY <3>2 DEF HandInv, Owed, Working
        <4>2. attempts'[j] = T!GiveBack(j) BY <3>1, <3>2, <4>1
        <4>3. attempts'[j] <= errors[j] + lost[j] BY <1>a, <4>1, <4>2 DEF T!GiveBack, Charged
        <4>4. attempts'[j] \in Nat BY DEF JobTypeOK, NumberTypes
        <4>. QED BY <1>a, <3>1, <4>1, <4>3, <4>4 DEF Charged
      <3>3. CASE j \notin todo[t]
        <4>1. Busy(j) => Busy(j)'
          <5>1. \A u \in Tick : u # t => todo'[u] = todo[u] BY <3>1
          <5>2. j \in Working(t) => j \in Working(t)' BY <1>a, <3>1, <3>3 DEF Working
          <5>. QED BY <2>a, <3>1, <5>1, <5>2
        <4>. QED BY <3>1, <3>3, <4>1, ChargedStays
      <3>. QED BY <3>2, <3>3
    <2>3. CASE T!EndTick(t)
      <3>1. /\ step[t] = "next" /\ step' = [step EXCEPT ![t] = "idle"]
            /\ UNCHANGED <<todo, cur, state, attempts, old, errors, lost>>
        BY <2>3 DEF T!EndTick, T!Goto
      <3>2. j \in Working(t) => j \in Working(t)' BY <3>1 DEF Working
      <3>3. \A u \in Tick : u # t => step'[u] = step[u] BY <3>1
      <3>. QED BY <2>a, <3>1, <3>2, <3>3, ChargedStays
    <2>4. CASE T!Complete(t)
      <3>1. PICK i \in cur[t] : state' = [state EXCEPT ![i] = "done"] BY <2>4 DEF T!Complete
      <3>2. /\ step[t] = "work" /\ step' = [step EXCEPT ![t] = "trigger"]
            /\ UNCHANGED <<todo, cur, attempts, old, errors, lost>>
        BY <2>4 DEF T!Complete, T!Goto
      <3>3. CASE j = i BY <1>a, <3>1, <3>3 DEF Charged
      <3>4. CASE j # i
        <4>1. j \notin cur[t] BY <3>4, Processing
        <4>2. j \in Working(t) => j \in Working(t)' BY <3>2, <4>1 DEF Working
        <4>3. \A u \in Tick : u # t => step'[u] = step[u] BY <3>2
        <4>4. state'[j] = state[j] BY <1>a, <3>1, <3>4
        <4>. QED BY <2>a, <3>2, <4>2, <4>3, <4>4, ChargedStays
      <3>. QED BY <3>3, <3>4
    <2>5. CASE T!TooLong(t)
      <3>1. /\ step[t] = "work" /\ step' = [step EXCEPT ![t] = "close"]
            /\ UNCHANGED <<todo, cur, state, attempts, old, errors, lost>>
        BY <2>5 DEF T!TooLong, T!Goto
      <3>2. j \in Working(t) => j \in Working(t)' BY <1>a, <3>1 DEF Working
      <3>3. \A u \in Tick : u # t => step'[u] = step[u] BY <3>1
      <3>. QED BY <2>a, <3>1, <3>2, <3>3, ChargedStays
    <2>6. CASE T!MarkTranscriptionDone(t)
      <3>1. PICK i \in cur[t] : state' = [state EXCEPT ![i] = "done"] BY <2>6 DEF T!MarkTranscriptionDone
      <3>2. T!NextJob(t) /\ UNCHANGED <<todo, attempts, old, errors, lost>> BY <2>6 DEF T!MarkTranscriptionDone
      <3>3. CASE j = i BY <1>a, <3>1, <3>3 DEF Charged
      <3>4. CASE j # i
        <4>1. j \notin cur[t] BY <3>4, Processing
        <4>2. state'[j] = state[j] BY <1>a, <3>1, <3>4
        <4>. QED BY <2>b, <3>2, <4>1, <4>2, ChargedStays
      <3>. QED BY <3>3, <3>4
    <2>7. ASSUME NEW systemic \in BOOLEAN, T!MarkTranscriptionRetryOrFail(t, systemic) PROVE Charged(j)'
      <3>1. PICK i \in cur[t] :
              /\ errors' = IF systemic THEN errors ELSE [errors EXCEPT ![i] = errors[i] + 1]
              /\ \/ /\ T!GivesUp(t, i, systemic)
                    /\ state' = [state EXCEPT ![i] = "failed"]
                    /\ T!Goto(t, "give up")
                    /\ UNCHANGED <<attempts, cur>>
                 \/ /\ state' = [state EXCEPT ![i] = "pending"]
                    /\ attempts' = IF systemic THEN [attempts EXCEPT ![i] = T!GiveBack(i)] ELSE attempts
                    /\ T!NextJob(t)
        BY <2>7 DEF T!MarkTranscriptionRetryOrFail
      <3>2. step[t] \in {"work", "close"} /\ UNCHANGED <<old, todo, lost>>
        BY <2>7 DEF T!MarkTranscriptionRetryOrFail
      <3>3. i \in Job /\ cur[t] = {i} /\ state[i] = "pending" /\ copy[t][i].attempts = attempts[i]
        <4>1. cur[t] = {i} /\ i \in Job BY <1>a, Processing
        <4>2. state[i] = "pending" BY <3>2, Processing
        <4>3. copy[t][i].attempts = attempts[i] BY <3>2, Processing
        <4>. QED BY <4>1, <4>2, <4>3
      <3>4. CASE j = i
        <4>1. attempts[j] <= errors[j] + lost[j] + 1 BY <1>a, <3>3, <3>4 DEF Charged
        <4>2. errors'[j] = IF systemic THEN errors[j] ELSE errors[j] + 1 BY <1>a, <3>1, <3>4
        <4>3. CASE /\ T!GivesUp(t, i, systemic)
                   /\ state' = [state EXCEPT ![i] = "failed"]
          <5>1. state'[j] = "failed" BY <1>a, <3>4, <4>3
          <5>2. CASE systemic
            <6>1. old'[j] BY <3>2, <3>4, <4>3, <5>2 DEF T!GivesUp
            <6>. QED BY <5>1, <6>1 DEF Charged
          <5>3. CASE ~systemic
            <6>1. attempts[j] >= MaxAttempts BY <3>3, <3>4, <4>3, <5>3 DEF T!GivesUp
            <6>2. errors'[j] + lost'[j] >= MaxAttempts BY <1>a, <3>2, <4>1, <4>2, <5>3, <6>1, ReceiptsAssumption
            <6>. QED BY <5>1, <6>2 DEF Charged
          <5>. QED BY <5>2, <5>3
        <4>4. CASE /\ state' = [state EXCEPT ![i] = "pending"]
                   /\ attempts' = IF systemic THEN [attempts EXCEPT ![i] = T!GiveBack(i)] ELSE attempts
          <5>1. state'[j] = "pending" BY <1>a, <3>4, <4>4
          <5>2. attempts'[j] = IF systemic THEN T!GiveBack(j) ELSE attempts[j] BY <1>a, <3>4, <4>4
          <5>3. attempts'[j] \in Nat /\ attempts'[j] <= errors'[j] + lost'[j]
            BY <1>a, <3>2, <4>1, <4>2, <5>2 DEF T!GiveBack
          <5>4. errors'[j] \in Nat /\ lost'[j] \in Nat BY DEF JobTypeOK, NumberTypes
          <5>. QED BY <5>1, <5>3, <5>4 DEF Charged
        <4>. QED BY <3>1, <4>3, <4>4
      <3>5. CASE j # i
        <4>1. j \notin cur[t] BY <3>3, <3>5
        <4>2. state'[j] = state[j] /\ attempts'[j] = attempts[j] /\ errors'[j] = errors[j]
          BY <1>a, <3>1, <3>5
        <4>3. CASE T!Goto(t, "give up") /\ cur' = cur
          <5>1. j \in Working(t) => j \in Working(t)' BY <3>2, <4>1, <4>3 DEF Working
          <5>2. \A u \in Tick : u # t => step'[u] = step[u] BY <1>a, <4>3 DEF T!Goto
          <5>. QED BY <2>a, <3>2, <4>2, <4>3, <5>1, <5>2, ChargedStays
        <4>4. CASE T!NextJob(t) BY <2>b, <3>2, <4>1, <4>2, <4>4, ChargedStays
        <4>. QED BY <3>1, <4>3, <4>4
      <3>. QED BY <3>4, <3>5
    <2>8. CASE T!GiveUp(t)
      <3>1. /\ step[t] = "give up" /\ step' = [step EXCEPT ![t] = "trigger"]
            /\ UNCHANGED <<todo, cur, state, attempts, old, errors, lost>>
        BY <2>8 DEF T!GiveUp, T!Goto
      <3>2. j \in Working(t) => j \in Working(t)'
        <4>1. j \in Working(t) => j \in todo[t] BY <3>1 DEF Working
        <4>2. j \in todo'[t] => j \in Working(t)' BY DEF Working
        <4>. QED BY <3>1, <4>1, <4>2
      <3>3. \A u \in Tick : u # t => step'[u] = step[u] BY <1>a, <3>1
      <3>. QED BY <2>a, <3>1, <3>2, <3>3, ChargedStays
    <2>9. CASE T!MaybeTrigger(t)
      <3>1. j \notin cur[t] \/ state[j] # "pending" BY <2>9, Processing DEF T!MaybeTrigger
      <3>. QED BY <2>9, <2>b, <3>1, ChargedStays DEF T!MaybeTrigger
    <2>. QED BY <1>6, <2>1, <2>2, <2>3, <2>4, <2>5, <2>6, <2>7, <2>8, <2>9 DEF T!Advance
  <1>7. ASSUME NEW t \in Tick, T!TriggerFails(t) PROVE Charged(j)'
    <2>1. j \notin cur[t] \/ state[j] # "pending" BY <1>7, Processing DEF T!TriggerFails
    <2>2. \A u \in Tick : u # t => cur'[u] = cur[u] /\ step'[u] = step[u]
      BY <1>a, <1>7 DEF T!TriggerFails, T!NextJob, T!Goto
    <2>3. todo' = todo BY <1>7 DEF T!TriggerFails
    <2>4. ASSUME NEW u \in Tick, u # t PROVE Working(u)' = Working(u) BY <2>2, <2>3, <2>4 DEF Working
    <2>5. j \notin cur[t] => (j \in Working(t) => j \in Working(t)') BY <2>3 DEF Working
    <2>6. state[j] = "pending" /\ Busy(j) => Busy(j)' BY <2>1, <2>4, <2>5 DEF Busy
    <2>. QED BY <1>7, <2>6, ChargedStays DEF T!TriggerFails
  <1>8. ASSUME NEW t \in Tick, T!TickAborts(t) PROVE Charged(j)' BY <1>8, ChargedDropped DEF T!TickAborts
  <1>9. CASE UNCHANGED T!vars BY <1>9, <1>b, ChargedStays DEF T!vars
  <1>. QED BY <1>1, <1>2, <1>3, <1>4, <1>5, <1>6, <1>7, <1>8, <1>9 DEF T!Next

LEMMA JobStep == ~MayStall /\ JobInv /\ [T!Next]_(T!vars) => JobInv'
  <1>. SUFFICES ASSUME ~MayStall, JobInv, [T!Next]_(T!vars) PROVE JobInv' OBVIOUS
  <1>1. JobTypeOK /\ TickTypeOK BY TypesSplit DEF JobInv
  <1>2. T!TypeOK' BY JobTypes DEF JobInv
  <1>3. JobTypeOK' BY <1>2 DEF T!TypeOK, JobTypeOK, NumberTypes, FlagTypes, WordTypes
  <1>4. HandInv' BY <1>1, HandsStep DEF JobInv
  <1>5. PaidInv' BY <1>1, PaidStep DEF JobInv
  <1>6. \A j \in Job : Charged(j) BY DEF JobInv, ChargedInv, Charged
  <1>7. \A j \in Job : Charged(j)' BY <1>1, <1>3, <1>6, ChargedStep DEF JobInv
  <1>8. ChargedInv' BY <1>7 DEF ChargedInv, Charged
  <1>. QED BY <1>2, <1>4, <1>5, <1>8 DEF JobInv

(* The transaction leaves neither a duplicated cost nor a job that is done without
   its text (service.ts:90-91), in as many overlapping ticks as there may be. *)
THEOREM PaidOnce == ~MayStall => (T!Spec => []DoneOnce)
  <1>. SUFFICES ASSUME ~MayStall PROVE T!Spec => []DoneOnce OBVIOUS
  <1>1. JobInv /\ [T!Next]_(T!vars) => JobInv' BY JobStep
  <1>2. JobInv => DoneOnce BY DEF JobInv, PaidInv, DoneOnce, T!DoneOnce
  <1>. QED BY <1>1, <1>2, JobInit, PTL DEF T!Spec

(* An outage of the provider costs a job no attempt (error-class.ts:16-19): a job
   that failed before the age cap used up its attempts in errors of its own, or in
   claims lost with a batch. *)
THEOREM OutagesAreFree == ~MayStall => (T!Spec => []OutageBurnsNoJob)
  <1>. SUFFICES ASSUME ~MayStall PROVE T!Spec => []OutageBurnsNoJob OBVIOUS
  <1>1. JobInv /\ [T!Next]_(T!vars) => JobInv' BY JobStep
  <1>2. JobInv => OutageBurnsNoJob BY DEF JobInv, ChargedInv, OutageBurnsNoJob, T!OutageBurnsNoJob
  <1>. QED BY <1>1, <1>2, JobInit, PTL DEF T!Spec

(* A job that reached done or failed stays there (service.ts:124-125): without a
   lease outlived no tick comes back to it. *)
THEOREM OutcomesStand == ~MayStall => (T!Spec => T!OutcomeIsDurable)
  <1>. SUFFICES ASSUME ~MayStall PROVE T!Spec => T!OutcomeIsDurable OBVIOUS
  <1>1. JobInv /\ [T!Next]_(T!vars) => JobInv' BY JobStep
  <1>2. JobInv /\ [T!Next]_(T!vars) => [\A j \in Job : state[j] # "pending" => state'[j] = state[j]]_(T!vars)
    <2>. USE DEF T!jobVars, T!tickVars
    <2>. SUFFICES ASSUME JobInv, T!Next, NEW j \in Job, state[j] # "pending" PROVE state'[j] = state[j]
      OBVIOUS
    <2>1. JobTypeOK /\ HandInv BY TypesSplit DEF JobInv
    <2>3. CASE T!CoolDown \/ T!Crash BY <2>3 DEF T!CoolDown, T!Crash
    <2>4. ASSUME NEW i \in Job, T!BecomeDue(i) \/ T!GrowOld(i) PROVE state'[j] = state[j]
      BY <2>4 DEF T!BecomeDue, T!GrowOld
    <2>5. ASSUME NEW t \in Tick, T!ClaimDueTranscriptionJobs(t) \/ T!TriggerFails(t) \/ T!TickAborts(t)
          PROVE  state'[j] = state[j]
      BY <2>5 DEF T!ClaimDueTranscriptionJobs, T!TriggerFails, T!TickAborts
    <2>6. ASSUME NEW t \in Tick, T!Advance(t) PROVE state'[j] = state[j]
      <3>1. CASE \/ T!StartJob(t) \/ T!ReleaseTranscriptionClaims(t) \/ T!EndTick(t)
                 \/ T!TooLong(t) \/ T!GiveUp(t) \/ T!MaybeTrigger(t)
        BY <3>1 DEF T!StartJob, T!ReleaseTranscriptionClaims, T!EndTick, T!TooLong, T!GiveUp, T!MaybeTrigger
      <3>2. ASSUME step[t] \in {"work", "close"},
                   \E i \in cur[t] : \E s \in {"done", "failed", "pending"} : state' = [state EXCEPT ![i] = s]
            PROVE  state'[j] = state[j]
        <4>1. PICK i \in cur[t] : \E s \in {"done", "failed", "pending"} : state' = [state EXCEPT ![i] = s]
          BY <3>2
        <4>2. state[i] = "pending" BY <2>1, <3>2, Processing
        <4>. QED BY <4>1, <4>2
      <3>3. CASE T!Complete(t) \/ T!MarkTranscriptionDone(t)
        BY <3>2, <3>3 DEF T!Complete, T!MarkTranscriptionDone
      <3>4. ASSUME NEW systemic \in BOOLEAN, T!MarkTranscriptionRetryOrFail(t, systemic)
            PROVE  state'[j] = state[j]
        BY <3>2, <3>4 DEF T!MarkTranscriptionRetryOrFail
      <3>. QED BY <2>6, <3>1, <3>3, <3>4 DEF T!Advance
    <2>. QED BY <2>3, <2>4, <2>5, <2>6 DEF T!Next
  <1>. QED BY <1>1, <1>2, JobInit, PTL DEF T!Spec, T!OutcomeIsDurable
=============================================================================
