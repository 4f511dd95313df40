------------------------------- MODULE Memory -------------------------------
(***************************************************************************)
(* The facts of one workspace and type: what the extraction of an episode  *)
(* does to the facts the memory holds. The candidates of an episode are    *)
(* first compared with one another, without the database; then a           *)
(* transaction retires the facts of the earlier revision, compares each    *)
(* survivor with the facts in force, and inserts, supersedes or flags.     *)
(* Several episodes are extracted at once, and their transactions see only *)
(* what the others have committed. The ledger that hands out episodes is   *)
(* LuaProcessing: here a revision is committed once.                       *)
(***************************************************************************)
EXTENDS Integers, Sequences

CONSTANTS Worker,        \* drain loops, of the night and of a bootstrap
          Episode,
          Occurs,        \* Occurs[e]: occurred_at of an episode
          Talks,         \* what an extraction may return: sequences of candidates
                         \* [turn, value, hint, sure]; hint is 0 or a time
          Clashes,       \* verdicts of the judge on two different values
          Imports,       \* bound: Imports[e], the imports of an episode
          MaxAttempts,   \* LUA max attempts of an episode
          MaxOps,        \* bound: resolutions of a fact by a person
          MaxFaults      \* bound: failed transactions

VARIABLES
  facts,   \* committed rows of facts, in order of their ids
  ids,     \* ids handed out by the sequence
  cited,   \* facts cited by the rules of the active conduta
  done, attempts,  \* revision committed, failures of the current one
  task,    \* what each worker holds
  commits, \* transactions committed
  ops, faults

vars == <<facts, ids, cited, done, attempts, task, commits, ops, faults>>

Idle == [at |-> "idle"]
Reason == {"none", "superseded", "revision_reprocessed", "manual"}
InForce(rows) == {i \in DOMAIN rows : rows[i].reason = "none"}

Value == UNION {{talk[i].value : i \in DOMAIN talk} : talk \in Talks}
Candidate == [turn : Nat, value : Value, sure : BOOLEAN, valid : Nat,
              review : BOOLEAN, alive : BOOLEAN, stale : BOOLEAN]
(* next is superseded_by_fact_id; told marks facts that another candidate of
   their own episode superseded, vetted those that a person confirmed; read and
   born number the commits before the neighbours were searched, and the one that
   made the row visible. *)
FactRow == [episode : Episode, revision : Nat \ {0}, value : Value, valid : Nat, sure : BOOLEAN,
            review : BOOLEAN, told : BOOLEAN, next : Nat, reason : Reason, vetted : BOOLEAN,
            read : Nat, born : Nat]
Rows(f) == /\ f \in [DOMAIN f -> FactRow] /\ DOMAIN f \subseteq 1..ids
           /\ \A i \in DOMAIN f : /\ f[i].next \in 0..ids
                                  /\ f[i].next # 0 \/ f[i].told => f[i].reason # "none"

TypeOK ==
  /\ ids \in Nat /\ commits \in Nat
  /\ Rows(facts) /\ \A i \in DOMAIN facts : facts[i].read < facts[i].born /\ facts[i].born <= commits
  /\ cited \subseteq DOMAIN facts
  /\ done \in [Episode -> Nat] /\ attempts \in [Episode -> 0..MaxAttempts]
  /\ DOMAIN task = Worker
  /\ \A w \in Worker : task[w] # Idle =>
       LET t == task[w] IN
       /\ t.at \in {"pairs", "search", "apply", "finish"}
       /\ t.episode \in Episode /\ t.revision \in Nat \ {0} /\ t.read \in 0..commits
       /\ t.cands \in Seq(Candidate) /\ t.pair \in (Nat \ {0}) \X (Nat \ {0})
       /\ t.pairs \subseteq (DOMAIN t.cands) \X (DOMAIN t.cands)
       /\ t.left \subseteq DOMAIN t.cands
       /\ DOMAIN t.id \subseteq (DOMAIN t.cands) \ t.left
       /\ t.id \in [DOMAIN t.id -> {-1} \cup DOMAIN t.draft]
       /\ t.seen \subseteq [id : 1..ids, valid : Nat, verdict : {"duplicate"} \cup Clashes]
       /\ Rows(t.draft)

Init ==
  /\ facts = <<>> /\ ids = 0 /\ cited = {}
  /\ done = [e \in Episode |-> 0] /\ attempts = done
  /\ task = [w \in Worker |-> Idle] /\ commits = 0 /\ ops = 0 /\ faults = 0

-----------------------------------------------------------------------------
(* Candidates against one another, before the transaction. *)

\* valid_at: the hint counts only if it lies before the episode.
ResolveValidAt(e, hint) == IF hint # 0 /\ hint < Occurs[e] THEN hint ELSE Occurs[e]

Prepared(e, talk) ==
  [i \in DOMAIN talk |->
     [turn |-> talk[i].turn, value |-> talk[i].value, sure |-> talk[i].sure,
      valid |-> ResolveValidAt(e, talk[i].hint), review |-> ~talk[i].sure,
      alive |-> TRUE, stale |-> FALSE]]

Extract(w, e) ==
  /\ task[w] = Idle /\ done[e] < Imports[e] /\ attempts[e] < MaxAttempts
  /\ ~ \E v \in Worker : task[v] # Idle /\ task[v].episode = e
  /\ \E talk \in Talks :
       task' = [task EXCEPT ![w] =
         [at |-> "pairs", episode |-> e, revision |-> done[e] + 1, cands |-> Prepared(e, talk),
          pair |-> <<1, 2>>, pairs |-> {}, left |-> {}, id |-> <<>>, seen |-> {},
          read |-> commits, draft |-> <<>>]]
  /\ UNCHANGED <<facts, ids, cited, done, attempts, commits, ops, faults>>

Verdict(a, b, clash) == IF a.value = b.value THEN "duplicate" ELSE clash

\* The later turn wins, unless it is a guess: then both are kept for review.
Earlier(c, i, j) == IF c[i].turn <= c[j].turn THEN i ELSE j
Later(c, i, j) == IF c[i].turn <= c[j].turn THEN j ELSE i
Wins(c, i, j, verdict) == verdict = "supersedes" /\ c[Later(c, i, j)].sure
ReconcilePair(c, i, j, verdict) ==
  IF verdict = "duplicate"
  THEN [c EXCEPT ![i].turn = IF c[j].turn < @ THEN c[j].turn ELSE @,
                 ![i].sure = @ \/ c[j].sure, ![j].alive = FALSE]
  ELSE IF Wins(c, i, j, verdict) THEN [c EXCEPT ![Earlier(c, i, j)].stale = TRUE]
  ELSE [c EXCEPT ![i].review = TRUE, ![j].review = TRUE]

\* One pair at a time, j running inside i.
NextPair(t) == IF t.pair[2] < Len(t.cands) THEN <<t.pair[1], t.pair[2] + 1>>
               ELSE <<t.pair[1] + 1, t.pair[1] + 2>>
JudgePair(w) ==
  LET t == task[w]  c == t.cands  i == t.pair[1]  j == t.pair[2] IN
  /\ t.at = "pairs" /\ j <= Len(c)
  /\ IF c[i].alive /\ c[j].alive
     THEN \E clash \in Clashes :
            LET verdict == Verdict(c[i], c[j], clash) IN
            task' = [task EXCEPT ![w].pair = NextPair(t), ![w].cands = ReconcilePair(c, i, j, verdict),
              ![w].pairs = IF Wins(c, i, j, verdict) THEN @ \cup {<<Earlier(c, i, j), Later(c, i, j)>>}
                           ELSE @]
     ELSE task' = [task EXCEPT ![w].pair = NextPair(t)]
  /\ UNCHANGED <<facts, ids, cited, done, attempts, commits, ops, faults>>

-----------------------------------------------------------------------------
(* The transaction. draft holds the rows it wrote, seen by nobody else. *)

View(t) == [i \in DOMAIN t.draft \cup DOMAIN facts |->
              IF i \in DOMAIN t.draft THEN t.draft[i] ELSE facts[i]]
Writing(w) == IF task[w] = Idle THEN {} ELSE DOMAIN task[w].draft
Free(w, rows) == \A v \in Worker \ {w} : rows \cap Writing(v) = {}

\* The facts of the earlier revision: retired, unless the active conduta cites them.
PriorOf(e, revision) ==
  {i \in InForce(facts) : facts[i].episode = e /\ facts[i].revision < revision}
InvalidatePriorRevisionFacts(prior) ==
  [i \in prior |-> IF i \in cited THEN [facts[i] EXCEPT !.review = TRUE]
                   ELSE [facts[i] EXCEPT !.reason = "revision_reprocessed"]]

Begin(w) ==
  LET t == task[w]  prior == PriorOf(t.episode, t.revision) IN
  /\ t.at = "pairs" /\ t.pair[2] > Len(t.cands)
  /\ Free(w, prior)
  /\ task' = [task EXCEPT ![w].at = "search", ![w].draft = InvalidatePriorRevisionFacts(prior),
                         ![w].left = {i \in DOMAIN t.cands : t.cands[i].alive}]
  /\ UNCHANGED <<facts, ids, cited, done, attempts, commits, ops, faults>>

\* The survivors' turns come in the order of the candidates.
Current(t) == CHOOSE i \in t.left : \A j \in t.left : i <= j

\* The neighbours of the next candidate, and the judge's verdict on each.
SearchNeighbors(w) ==
  LET t == task[w]  near == InForce(View(t)) IN
  /\ t.at = "search"
  /\ IF t.left = {} THEN task' = [task EXCEPT ![w].at = "finish"]
     ELSE \E clash \in [near -> Clashes] :
            task' = [task EXCEPT ![w].at = "apply", ![w].read = commits,
              ![w].seen = {[id |-> i, valid |-> View(t)[i].valid,
                            verdict |-> Verdict(t.cands[Current(t)], View(t)[i], clash[i])] : i \in near}]
  /\ UNCHANGED <<facts, ids, cited, done, attempts, commits, ops, faults>>

Row(t, cand, review, next) ==
  [episode |-> t.episode, revision |-> t.revision, value |-> cand.value, valid |-> cand.valid,
   sure |-> cand.sure, review |-> review, told |-> cand.stale, next |-> next,
   reason |-> IF next # 0 \/ cand.stale THEN "superseded" ELSE "none", vetted |-> FALSE,
   read |-> t.read, born |-> 0]

With(t, verdict) == {n \in t.seen : n.verdict = verdict}
IdsOf(seen) == {n.id : n \in seen}
\* Mutant: every neighbour is taken for an older one.
EveryNeighbor(seen, cand) == seen
\* Mutant: of facts that hold from one instant, the later processed wins.
NotNewer(seen, cand) == {n \in seen : n.valid <= cand.valid}
Older(seen, cand) == {n \in seen : n.valid < cand.valid}
Newer(seen, cand) == {n \in seen : n.valid > cand.valid}
\* Mutant: nothing is said of them.
SameInstantIgnored(seen, cand) == {}
SameInstant(seen, cand) == {n \in seen : n.valid = cand.valid}
\* The successor of a late fact is the oldest of the newer ones.
Successor(newer) ==
  IF newer = {} THEN {0} ELSE {n.id : n \in {m \in newer : \A o \in newer : m.valid <= o.valid}}

\* What the verdicts on the neighbours make of a candidate: the rows it
\* supersedes, those it flags, and the fact that supersedes it.
TemporalRule(t, cand) ==
  LET supersedes == With(t, "supersedes")
      contradicts == IdsOf(With(t, "contradicts"))
  IN IF cand.sure
     THEN [old |-> IdsOf(Older(supersedes, cand)), next |-> Successor(Newer(supersedes, cand)),
           flag |-> IdsOf(SameInstant(supersedes, cand)) \cup contradicts]
     ELSE [old |-> {}, next |-> {0}, flag |-> IdsOf(supersedes) \cup contradicts]

\* The candidate is dealt with: it has an id, -1 when it was not inserted.
Settled(t, id, draft) ==
  LET c == Current(t) IN
  [t EXCEPT !.at = "search", !.left = @ \ {c}, !.draft = draft,
            !.id = [i \in DOMAIN t.id \cup {c} |-> IF i = c THEN id ELSE t.id[i]]]

Insert(w, rule, next) ==
  LET t == task[w]
      cand == t.cands[Current(t)]
      id == ids + 1
      draft == [i \in DOMAIN t.draft \cup rule.old \cup rule.flag \cup {id} |->
                  IF i = id THEN Row(t, cand, cand.review \/ rule.flag # {}, next)
                  ELSE IF i \in rule.old
                    THEN [View(t)[i] EXCEPT !.reason = "superseded", !.next = id]
                  ELSE IF i \in rule.flag THEN [View(t)[i] EXCEPT !.review = TRUE]
                  ELSE t.draft[i]]
  IN /\ Free(w, rule.old \cup rule.flag)
     /\ ids' = id /\ task' = [task EXCEPT ![w] = Settled(t, id, draft)]

\* A candidate that a neighbour duplicates is not inserted; its id is -1.
Collapse(w, dup) ==
  LET t == task[w]
      draft == [i \in DOMAIN t.draft \cup {dup} |->
                  IF i = dup THEN [View(t)[dup] EXCEPT !.sure = TRUE] ELSE t.draft[i]]
  IN /\ IF t.cands[Current(t)].sure /\ ~View(t)[dup].sure
        THEN Free(w, {dup}) /\ task' = [task EXCEPT ![w] = Settled(t, -1, draft)]
        ELSE task' = [task EXCEPT ![w] = Settled(t, -1, t.draft)]
     /\ UNCHANGED ids

NoRule == [old |-> {}, next |-> {0}, flag |-> {}]
ApplyNeighborVerdicts(w) ==
  LET t == task[w]
      cand == t.cands[Current(t)]
      dups == IdsOf(With(t, "duplicate"))
      rule == TemporalRule(t, cand)
  IN /\ t.at = "apply"
     /\ IF cand.stale THEN Insert(w, NoRule, 0)
        ELSE IF dups # {} THEN \E dup \in dups : Collapse(w, dup)
        ELSE \E next \in rule.next : Insert(w, rule, next)
     /\ UNCHANGED <<facts, cited, done, attempts, commits, ops, faults>>

\* The pairs of the episode whose two candidates have ids.
Linked(t) == {p \in t.pairs : {p[1], p[2]} \subseteq DOMAIN t.id}
Linkable(t) == \A p \in Linked(t) : t.id[p[2]] # -1
LaterOf(t, i) == {t.id[p[2]] : p \in {q \in Linked(t) : t.id[q[1]] = i}}

\* The last UPDATE of a row wins; the pairs come in the order they were judged.
Link(t) ==
  [i \in DOMAIN t.draft |->
     IF LaterOf(t, i) = {} THEN t.draft[i]
     ELSE [t.draft[i] EXCEPT !.next = CHOOSE l \in LaterOf(t, i) : \A m \in LaterOf(t, i) : m <= l]]

Commit(w) ==
  LET t == task[w] IN
  /\ t.at = "finish" /\ Linkable(t)
  /\ facts' = [i \in DOMAIN t.draft \cup DOMAIN facts |->
                 IF i \notin DOMAIN t.draft THEN facts[i]
                 ELSE IF i \in DOMAIN facts THEN Link(t)[i]
                 ELSE [Link(t)[i] EXCEPT !.born = commits + 1]]
  /\ done' = [done EXCEPT ![t.episode] = t.revision]
  /\ attempts' = [attempts EXCEPT ![t.episode] = 0]
  /\ task' = [task EXCEPT ![w] = Idle] /\ commits' = commits + 1
  /\ UNCHANGED <<ids, cited, ops, faults>>

Fail(w) ==
  /\ attempts' = [attempts EXCEPT ![task[w].episode] = @ + 1]
  /\ task' = [task EXCEPT ![w] = Idle]
  /\ UNCHANGED <<facts, ids, cited, done, commits, ops>>

\* superseded_by_fact_id = -1 breaks the foreign key: the transaction fails.
LinkFails(w) == task[w].at = "finish" /\ ~Linkable(task[w]) /\ Fail(w) /\ UNCHANGED faults

TransactionFails(w) ==
  /\ task[w] # Idle /\ faults < MaxFaults /\ Fail(w) /\ faults' = faults + 1

-----------------------------------------------------------------------------
(* People: the resolution of a fact, and condutas that come into force. *)

Confirm(i) == facts' = [facts EXCEPT ![i].review = FALSE, ![i].vetted = TRUE]
Invalidate(i) == facts' = [facts EXCEPT ![i].review = FALSE, ![i].reason = "manual"]
SupersedeBy(i, j) ==
  facts' = [facts EXCEPT ![i].review = FALSE, ![i].reason = "manual", ![i].next = j]

ResolveFact(i) ==
  /\ ops < MaxOps /\ \A w \in Worker : i \notin Writing(w)
  /\ Confirm(i) \/ Invalidate(i) \/ \E j \in DOMAIN facts : SupersedeBy(i, j)
  /\ ops' = ops + 1
  /\ UNCHANGED <<ids, cited, done, attempts, task, commits, faults>>

Approve ==
  /\ cited = {} /\ \E rules \in SUBSET InForce(facts) : rules # {} /\ cited' = rules
  /\ UNCHANGED <<facts, ids, done, attempts, task, commits, ops, faults>>

Step(w) ==
  \/ \E e \in Episode : Extract(w, e)
  \/ JudgePair(w)
  \/ Begin(w)
  \/ SearchNeighbors(w)
  \/ ApplyNeighborVerdicts(w)
  \/ Commit(w)
  \/ LinkFails(w)
Next ==
  \/ \E w \in Worker : Step(w) \/ TransactionFails(w)
  \/ \E i \in DOMAIN facts : ResolveFact(i)
  \/ Approve
Spec == Init /\ [][Next]_vars

-----------------------------------------------------------------------------
(* Properties. *)

(* Supersession follows time, never the order of processing: a superseded fact
   points at one that holds from a later instant, whoever was imported, claimed
   or committed first (reconcile.ts, temporal rule). Facts superseded within
   their own episode follow the order of speech instead. *)
SupersededByNewer ==
  \A i \in DOMAIN facts :
    facts[i].reason = "superseded" /\ ~facts[i].told =>
      /\ facts[i].next \in DOMAIN facts
      /\ facts[facts[i].next].valid > facts[i].valid

(* Two facts in force that say different things of one matter were never meant
   to be silent: one of them is flagged for review or was confirmed by a person,
   unless neither transaction could see the other's fact. *)
Coherent ==
  \A i, j \in InForce(facts) :
    facts[i].value # facts[j].value =>
      \/ \E k \in {i, j} : facts[k].review \/ facts[k].vetted
      \/ facts[i].read < facts[j].born /\ facts[j].read < facts[i].born

(* The memory never falls silent on a matter by itself: once a fact is in force,
   one stays in force, unless a person retired the last, or its own episode was
   imported again, or the successors of every one that was in force lead to one
   that had lost its force in these ways meanwhile; not even when episodes
   supersede each other concurrently (reconcile.ts, temporal rule;
   supersedeFactTx does not lock the successor). *)
Retired(i) == facts[i].reason \in {"manual", "revision_reprocessed"}
LeadsToRetired(i) ==
  \A chain \in SUBSET DOMAIN facts :
    i \in chain /\ (\A j \in chain : facts[j].reason = "superseded" => facts[j].next \in chain) =>
      \E j \in chain : Retired(j)
VoiceKept ==
  [][ InForce(facts) # {} /\ InForce(facts)' = {} =>
        \/ \E i \in InForce(facts) : facts'[i].reason = "manual"
        \/ \E e \in Episode : done[e] > 0 /\ done'[e] > done[e]
        \/ \A i \in InForce(facts) : LeadsToRetired(i)' ]_vars

(* "ids resolvidos depois do INSERT (ambos sao inseridos)", says the pass over
   the candidates of an episode (reconcile.ts:258-259): by the end of the
   transaction both facts of a pair have a row to point from and to. *)
BothAreInserted == \A w \in Worker : task[w].at = "finish" => Linkable(task[w])
=============================================================================
