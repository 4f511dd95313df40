------------------------------- MODULE MCLua -------------------------------
(***************************************************************************)
(* One run for three parts of the memory that meet in a call only: the     *)
(* ledger, the facts, the nights with their condutas. A behaviour follows  *)
(* one of them.                                                            *)
(***************************************************************************)
EXTENDS LuaProcessing, Sequences

CONSTANTS FactEpisode, Occurs, Imports, Talks, Clashes, FactAttempts, Container, Fact, Nights, Mondays

VARIABLES
  part,  \* what the behaviour follows
  rows, ids, cited, done, attempts, task, commits,
  known, condutas, today, night, published, recaps, run

Cand(turn, value, hint, sure) == [turn |-> turn, value |-> value, hint |-> hint, sure |-> sure]
\* Something, a correction of something told earlier, and a guess.
Spoken == {<<Cand(1, "a", 0, TRUE)>>, <<Cand(1, "a", 1, TRUE), Cand(2, "b", 0, TRUE)>>,
           <<Cand(1, "b", 0, FALSE)>>}
OccursAt == <<2, 3, 2>>
FirstTwice == <<2, 1, 1>>

M == INSTANCE Memory WITH Episode <- FactEpisode, MaxAttempts <- FactAttempts, facts <- rows
\* The judge is asked about facts of one matter: two values of it clash.
ASSUME MemoryAssumption ==
  /\ Occurs \in [FactEpisode -> Nat] /\ FactAttempts \in Nat
  /\ Talks \subseteq Seq([turn : Nat, value : M!Value, hint : Nat, sure : BOOLEAN])
  /\ Clashes \subseteq {"supersedes", "contradicts"}

C == INSTANCE Condutas WITH facts <- known, status <- published

ledger == <<rev, status, attempt, due, holder, expired, chunks, facts, phase, job, text, seen,
            batches, reopens>>
memory == <<rows, ids, cited, done, attempts, task, commits>>
nights == <<known, condutas, today, night, published, recaps, run>>

\* The run may also begin where earlier failures have buried the first revision
\* of the first episode, before its facts were extracted; or where people and
\* failures have done their part.
Buried(people, failures) ==
  /\ rev = [e \in Episode |-> IF e = 1 THEN 1 ELSE 0]
  /\ status = [r \in Row |-> IF r = <<1, 1>> THEN "dead" ELSE "absent"]
  /\ attempt = [r \in Row |-> IF r = <<1, 1>> THEN MaxAttempts ELSE 0]
  /\ due = [r \in Row |-> FALSE]
  /\ holder = [r \in Row |-> Nobody] /\ expired = [r \in Row |-> FALSE]
  /\ chunks = [e \in Episode |-> <<0, 0>>] /\ facts = [e \in Episode |-> {}]
  /\ phase = [w \in Worker |-> "idle"] /\ job = [w \in Worker |-> NoRow]
  /\ text = [w \in Worker |-> 0] /\ seen = [w \in Worker |-> 0]
  /\ batches = [r \in Row |-> 0] /\ reopens = [r \in Row |-> 0]
  /\ ops = people /\ faults = failures

\* The first import of the first episode is over: it said nothing, or one thing.
\* When people have decisions left, the third episode is over as well, and said nothing.
First == [M!Row([episode |-> 1, revision |-> 1, read |-> 0],
                M!Prepared(1, <<Cand(1, "b", 0, TRUE)>>)[1], FALSE, 0) EXCEPT !.born = 1]
Imported(said, quiet) ==
  /\ rows = said /\ ids = Len(said) /\ cited = {}
  /\ done = [e \in FactEpisode |-> IF e \in quiet THEN 1 ELSE 0]
  /\ attempts = [e \in FactEpisode |-> 0] /\ task = [w \in Worker |-> M!Idle] /\ commits = 1

\* An earlier night has published the first fact and proposed a conduta on it.
Proposed ==
  /\ known = [f \in Fact |-> [state |-> IF f = 1 THEN "live" ELSE "unborn", kills |-> {},
                              marks |-> {}, review |-> FALSE, fresh |-> f # 1]]
  /\ condutas = <<[status |-> "proposed", cites |-> {1}, flagged |-> {}, blind |-> {}]>>
  /\ today = 1 /\ night = [d \in 1..Nights |-> "none"]
  /\ published = {1} /\ recaps = {} /\ run = [w \in Container |-> C!Idle]

InitPast ==
  /\ Proposed
  /\ \/ part = "ledger" /\ (Init \/ Buried(0, MaxFaults)) /\ Imported(<<>>, FactEpisode)
     \/ part = "nights" /\ (Buried(0, MaxFaults) \/ Buried(MaxOps, 0)) /\ Imported(<<>>, FactEpisode)
     \/ part = "memory" /\ Buried(0, MaxFaults) /\ Imported(<<First>>, {1, 3})
     \/ part = "memory" /\ Buried(MaxOps, 0) /\ (Imported(<<>>, {1}) \/ Imported(<<First>>, {1}))

NextPart ==
  \/ part = "ledger" /\ Next /\ UNCHANGED <<part, memory, nights>>
  \/ part = "memory" /\ M!Next /\ UNCHANGED <<part, ledger, nights>>
  \/ part = "nights" /\ C!Next /\ UNCHANGED <<part, ledger, memory>>

SpecPast ==
  InitPast /\ [][NextPart]_<<part, ledger, memory, nights, ops, faults>> /\ Fairness

(* The properties of Memory and Condutas. *)
SupersededByNewer == M!SupersededByNewer
Coherent == M!Coherent
VoiceKept == M!VoiceKept
BothAreInserted == M!BothAreInserted
RulesFollowFacts == C!RulesFollowFacts
StatusFollowsNight == C!StatusFollowsNight
=============================================================================
