---------------------------- MODULE NumbersProofs ----------------------------
(***************************************************************************)
(* The numbers of MCNumbers, for every set of probe loops and watchers and *)
(* every bound:                                                            *)
(*   - outages (down-notify*.ts): what the health row and the outages      *)
(*     table say agree (AgreeInv), and each notice that was accepted is on *)
(*     account of a count of the row, a lost answer, a late give-back or a *)
(*     count forgotten at a repeated "open" (Counted);                     *)
(*   - probes (connection-probe*.ts): a verdict stands, an episode of a    *)
(*     probe rests on the verdict "down" of a pair whose first probe was   *)
(*     repeated, and a receipt finds someone to close it (ProbeInv).       *)
(***************************************************************************)
EXTENDS MCNumbers, FiniteSetTheorems, SequenceTheorems, TLAPS

-----------------------------------------------------------------------------
(* Outages and their notices. *)

WatchType == {N!Idle, [at |-> "down"]} \cup N!Recording \cup N!Deciding \cup N!Calling
RowType == [down : {"none", "state", "probe"}, off : BOOLEAN, suspect : {"no", "fresh", "due", "stale"},
            start : 0..MaxMessages, own : 0..MaxMessages, count : 0..MaxNotices, due : BOOLEAN, aged : BOOLEAN]

(* What closeProbeEpisode and the reconnect route need besides EpisodesAgree: the
   outage behind a system's probe episode is the probe's. *)
ProbesOwn == kind = "system" /\ row.down = "probe" => outage = "probe"

AgreeInv == N!TypeOK /\ N!EpisodesAgree /\ ProbesOwn

(* The watchers that may still have notice n of this episode accepted, or give it
   back; a notice counted by the row was claimed once more than it was given back. *)
Holders(n) == {w \in Watcher \ late : watch[w].at \in {"send", "release"} /\ watch[w].count = n - 1}
Covered(n) == IF row.count >= n THEN 1 ELSE 0
Counted == \A n \in N!Notice : said[n] + Cardinality(Holders(n)) <= lost + undone + Covered(n)

NoticeInv == AgreeInv /\ Counted

\* A watcher's step sends it to a place of its type.
LEMMA WatchMoves ==
  ASSUME N!TypeOK, NEW w \in Watcher, NEW j \in WatchType, N!Goto(w, j)
  PROVE  watch' \in [Watcher -> WatchType]
  BY DEF N!TypeOK, N!Goto, WatchType

LEMMA AtFields ==
  ASSUME N!TypeOK, NEW w \in Watcher
  PROVE  /\ watch[w] \in WatchType
         /\ N!At(w, "record") => watch[w] \in N!Recording
         /\ N!At(w, "decide") => watch[w] \in N!Deciding
         /\ watch[w].at \in {"claim", "send", "release"} => watch[w] \in N!Calling
  <1>1. watch[w] \in WatchType BY DEF N!TypeOK, WatchType
  <1>. QED BY <1>1 DEF WatchType, N!At, N!Idle, N!Recording, N!Deciding, N!Calling

\* What the code writes in a health row keeps it one.
LEMMA RowWrites ==
  ASSUME NEW r \in RowType, NEW s \in 0..MaxMessages
  PROVE  /\ N!Ended(r) \in RowType
         /\ \A v \in {"none", "state", "probe"} : [r EXCEPT !.down = v] \in RowType
         /\ \A v \in {"no", "fresh", "due", "stale"} :
              [r EXCEPT !.suspect = v] \in RowType /\ [r EXCEPT !.suspect = v, !.own = s] \in RowType
         /\ \A v \in {"state", "probe"}, b \in BOOLEAN :
              [r EXCEPT !.down = v, !.start = s, !.aged = b] \in RowType
         /\ \A c \in 0..MaxNotices, b \in BOOLEAN : [r EXCEPT !.count = c, !.due = b] \in RowType
         /\ [r EXCEPT !.due = TRUE] \in RowType /\ [r EXCEPT !.aged = TRUE] \in RowType
  <1>1. 0 \in 0..MaxMessages /\ 0 \in 0..MaxNotices BY ProbesAssumption, NoticesAssumption
  <1>2. N!Ended(r) \in RowType BY <1>1, Zenon DEF N!Ended, RowType
  <1>3. \A v \in {"none", "state", "probe"} : [r EXCEPT !.down = v] \in RowType BY DEF RowType
  <1>4. \A v \in {"no", "fresh", "due", "stale"} :
          [r EXCEPT !.suspect = v] \in RowType /\ [r EXCEPT !.suspect = v, !.own = s] \in RowType
    BY Zenon DEF RowType
  <1>5. \A v \in {"state", "probe"}, b \in BOOLEAN : [r EXCEPT !.down = v, !.start = s, !.aged = b] \in RowType
    BY Zenon DEF RowType
  <1>6. \A c \in 0..MaxNotices, b \in BOOLEAN : [r EXCEPT !.count = c, !.due = b] \in RowType BY Zenon DEF RowType
  <1>7. [r EXCEPT !.due = TRUE] \in RowType /\ [r EXCEPT !.aged = TRUE] \in RowType BY Zenon DEF RowType
  <1>. QED BY <1>2, <1>3, <1>4, <1>5, <1>6, <1>7

LEMMA NoticeType ==
  ASSUME N!TypeOK, [N!Next]_(N!vars)
  PROVE  N!TypeOK'
  <1>. USE ProbesAssumption, NoticesAssumption
  <1>0. row \in RowType /\ late \subseteq Watcher /\ watch \in [Watcher -> WatchType]
    BY DEF N!TypeOK, RowType, WatchType
  <1>h. N!Forget \/ UNCHANGED N!history =>
          late' \subseteq Watcher /\ said' \in [N!Notice -> Nat] /\ lost' \in Nat /\ undone' \in Nat
    BY DEF N!Forget, N!history, N!TypeOK, N!Unsaid
  <1>z. 0 \in 0..MaxMessages OBVIOUS
  <1>e. N!Ended(row) \in RowType BY <1>0, <1>z, RowWrites
  <1>1. ASSUME NEW w \in Watcher, N!Observe(w) PROVE N!TypeOK'
    <2>1. [at |-> "record", state |-> state, store |-> store] \in WatchType
      BY DEF N!TypeOK, WatchType, N!Recording
    <2>2. watch' \in [Watcher -> WatchType] BY <1>1, <2>1, WatchMoves DEF N!Observe
    <2>. QED BY <1>1, <2>2 DEF N!Observe, N!TypeOK, WatchType, N!world, N!history
  <1>2. ASSUME NEW w \in Watcher, N!Record(w) PROVE N!TypeOK'
    <2>1. watch[w] \in N!Recording BY <1>2, AtFields DEF N!Record
    <2>2. row' \in RowType
      <3>. DEFINE seen == watch[w]
                  down == seen.state # "open"
                  read == [row EXCEPT !.suspect = IF down THEN "fresh" ELSE "no", !.own = seen.store]
      <3>. HIDE DEF down
      <3>0. seen.store \in 0..MaxMessages BY <2>1 DEF N!Recording
      <3>1. read \in RowType
        <4>1. (IF down THEN "fresh" ELSE "no") \in {"no", "fresh", "due", "stale"} OBVIOUS
        <4>. QED BY <1>0, <3>0, <4>1, RowWrites
      <3>2. N!Ended(read) \in RowType BY <3>0, <3>1, RowWrites
      <3>3. \A plan : [read EXCEPT !.down = N!NextDownSource(plan, seen.state)] \in RowType
        <4>1. row.down \in {"none", "state", "probe"} BY <1>0 DEF RowType
        <4>2. \A plan : N!NextDownSource(plan, seen.state) \in {"none", "state", "probe"}
          BY <4>1 DEF N!NextDownSource
        <4>. QED BY <3>0, <3>1, <4>2, RowWrites
      <3>4. \A aged \in BOOLEAN :
              [N!Ended(read) EXCEPT !.down = "state", !.start = seen.store, !.aged = aged] \in RowType
        BY <3>0, <3>2, RowWrites
      <3>. HIDE DEF read
      <3>. QED BY <1>0, <1>2, <3>1, <3>2, <3>3, <3>4 DEF N!Record, read, down
    <2>3. outage' \in {"none", "webhook", "watch", "probe"} BY <1>2 DEF N!Record, N!TypeOK
    <2>4. watch' \in [Watcher -> WatchType]
      <3>1. [at |-> "decide", count |-> row'.count, due |-> row'.due /\ row'.aged] \in WatchType
        BY <2>2 DEF WatchType, RowType, N!Deciding
      <3>2. N!Idle \in WatchType BY DEF WatchType
      <3>. QED BY <1>2, <3>1, <3>2, WatchMoves DEF N!Record
    <2>5. N!Forget \/ UNCHANGED N!history BY <1>2 DEF N!Record, N!Remember
    <2>. QED BY <1>2, <1>h, <2>2, <2>3, <2>4, <2>5 DEF N!Record, N!TypeOK, WatchType, RowType, N!world
  <1>3. ASSUME NEW w \in Watcher, N!ListDownNumbers(w) PROVE N!TypeOK'
    <2>1. [at |-> "decide", count |-> row.count, due |-> row.due /\ row.aged] \in WatchType
      BY <1>0 DEF WatchType, RowType, N!Deciding
    <2>2. watch' \in [Watcher -> WatchType] BY <1>3, <2>1, WatchMoves DEF N!ListDownNumbers
    <2>. QED BY <1>3, <2>2 DEF N!ListDownNumbers, N!TypeOK, WatchType, N!world, N!history
  <1>4. ASSUME NEW w \in Watcher, N!Decide(w) PROVE N!TypeOK'
    <2>1. watch[w] \in N!Deciding BY <1>4, AtFields DEF N!Decide
    <2>2. watch' \in [Watcher -> WatchType]
      <3>1. N!ShouldNotify(watch[w]) => [at |-> "claim", count |-> watch[w].count] \in WatchType
        BY <2>1 DEF N!ShouldNotify, WatchType, N!Deciding, N!Calling
      <3>2. N!Idle \in WatchType BY DEF WatchType
      <3>. QED BY <1>4, <3>1, <3>2, WatchMoves DEF N!Decide
    <2>. QED BY <1>4, <2>2 DEF N!Decide, N!TypeOK, WatchType, N!world, N!history
  <1>5. ASSUME NEW w \in Watcher, N!ClaimNotification(w) PROVE N!TypeOK'
    <2>1. watch[w] \in N!Calling BY <1>5, AtFields DEF N!ClaimNotification, N!At
    <2>2. row' \in RowType
      <3>1. N!Claimable(watch[w].count) => row.count + 1 \in 0..MaxNotices
        BY <2>1 DEF N!Claimable, N!Calling
      <3>2. CASE N!Claimable(watch[w].count)
        <4>1. row' = [row EXCEPT !.count = @ + 1, !.due = FALSE] BY <1>5, <3>2 DEF N!ClaimNotification
        <4>2. [row EXCEPT !.count = row.count + 1, !.due = FALSE] \in RowType BY <1>0, <1>z, <3>1, <3>2, RowWrites
        <4>. QED BY <4>1, <4>2
      <3>. QED BY <1>0, <1>5, <3>2 DEF N!ClaimNotification
    <2>3. watch' \in [Watcher -> WatchType]
      <3>1. [at |-> "send", count |-> watch[w].count] \in WatchType /\ N!Idle \in WatchType
        BY <2>1 DEF WatchType, N!Calling
      <3>. QED BY <1>5, <3>1, WatchMoves DEF N!ClaimNotification
    <2>. QED BY <1>5, <2>2, <2>3 DEF N!ClaimNotification, N!TypeOK, WatchType, RowType, N!world, N!history
  <1>6. ASSUME NEW w \in Watcher, N!Send(w) PROVE N!TypeOK'
    <2>1. watch[w] \in N!Calling BY <1>6, AtFields DEF N!Send, N!At
    <2>2. PICK o \in N!Outcome :
            /\ mishaps' = IF o.then = "release" \/ o.unanswered = 1 THEN mishaps + 1 ELSE mishaps
            /\ IF w \in late THEN UNCHANGED <<said, lost>>
               ELSE /\ said' = [said EXCEPT ![watch[w].count + 1] = @ + o.accepted]
                    /\ lost' = lost + o.unanswered
            /\ IF o.then = "idle" THEN N!Goto(w, N!Idle) /\ late' = late \ {w}
               ELSE N!Goto(w, [watch[w] EXCEPT !.at = "release"]) /\ UNCHANGED late
      BY <1>6 DEF N!Send
    <2>3. watch' \in [Watcher -> WatchType]
      <3>1. [watch[w] EXCEPT !.at = "release"] \in WatchType /\ N!Idle \in WatchType
        BY <2>1 DEF WatchType, N!Calling
      <3>. QED BY <2>2, <3>1, WatchMoves
    <2>4. said' \in [N!Notice -> Nat] /\ lost' \in Nat
      BY <2>2 DEF N!TypeOK, N!Outcome
    <2>5. late' \subseteq Watcher /\ mishaps' \in Nat BY <1>0, <2>2 DEF N!TypeOK
    <2>. QED BY <1>6, <2>3, <2>4, <2>5 DEF N!Send, N!TypeOK, WatchType, N!world
  <1>7. ASSUME NEW w \in Watcher, N!Release(w) PROVE N!TypeOK'
    <2>1. watch[w] \in N!Calling BY <1>7, AtFields DEF N!Release, N!At
    <2>2. row' \in RowType
      <3>1. watch[w].count \in 0..MaxNotices BY <2>1 DEF N!Calling
      <3>. QED BY <1>0, <1>7, <1>z, <3>1, RowWrites DEF N!Release
    <2>3. watch' \in [Watcher -> WatchType]
      <3>1. N!Idle \in WatchType BY DEF WatchType
      <3>. QED BY <1>7, <3>1, WatchMoves DEF N!Release
    <2>4. undone' \in Nat BY <1>7 DEF N!Release, N!TypeOK
    <2>. QED BY <1>0, <1>7, <2>2, <2>3, <2>4 DEF N!Release, N!TypeOK, WatchType, RowType, N!world
  <1>8. ASSUME NEW w \in Watcher, N!Crash(w) PROVE N!TypeOK'
    <2>1. watch' \in [Watcher -> WatchType]
      <3>1. N!Idle \in WatchType BY DEF WatchType
      <3>. QED BY <1>8, <3>1, WatchMoves DEF N!Crash
    <2>. QED BY <1>0, <1>8, <2>1 DEF N!Crash, N!TypeOK, WatchType, N!world
  <1>9. CASE N!ConnectionEvent
    <2>1. row' \in RowType BY <1>0, <1>9, <1>e DEF N!ConnectionEvent, RowType
    <2>2. N!Forget \/ UNCHANGED N!history BY <1>9 DEF N!ConnectionEvent, N!Remember
    <2>. QED BY <1>9, <1>h, <2>1, <2>2 DEF N!ConnectionEvent, N!TypeOK, RowType, N!world
  <1>10. CASE N!ProbeConfirms BY <1>10 DEF N!ProbeConfirms, N!TypeOK, N!history
  <1>11. CASE N!OpenProbeEpisode
    <2>1. row' \in RowType
      <3>1. probe.start \in 0..MaxMessages BY <1>11 DEF N!OpenProbeEpisode, N!TypeOK, N!Idle
      <3>. QED BY <1>0, <1>11, <1>e, <3>1 DEF N!OpenProbeEpisode, RowType
    <2>2. N!Forget \/ UNCHANGED N!history BY <1>11 DEF N!OpenProbeEpisode, N!Remember
    <2>. QED BY <1>11, <1>h, <2>1, <2>2 DEF N!OpenProbeEpisode, N!TypeOK, RowType, N!world
  <1>12. CASE N!CloseProbeEpisode
    <2>1. row' \in RowType BY <1>0, <1>12, <1>e DEF N!CloseProbeEpisode, RowType
    <2>. QED BY <1>12, <1>h, <2>1 DEF N!CloseProbeEpisode, N!TypeOK, RowType, N!world
  <1>13. CASE N!Reconnect
    <2>1. row' \in RowType BY <1>0, <1>13 DEF N!Reconnect, RowType
    <2>. QED BY <1>13, <2>1 DEF N!Reconnect, N!TypeOK, RowType, N!history
  <1>14. CASE N!StateChanges \/ N!MessageArrives
    BY <1>14 DEF N!StateChanges, N!MessageArrives, N!TypeOK, N!history
  <1>15. CASE N!SuspicionAges \/ N!DebouncePasses \/ N!NoticeDue
    <2>1. row' \in RowType
      <3>1. N!SuspicionAges => N!Older[row.suspect] \in {"no", "fresh", "due", "stale"} /\ row' = [row EXCEPT !.suspect = N!Older[@]]
        BY DEF N!SuspicionAges, N!Older
      <3>2. \A v \in {"no", "fresh", "due", "stale"} : [row EXCEPT !.suspect = v] \in RowType
        BY <1>0, <1>z, RowWrites
      <3>3. N!SuspicionAges => row' \in RowType BY <3>1, <3>2
      <3>. QED BY <1>0, <1>15, <1>z, <3>3, RowWrites DEF N!DebouncePasses, N!NoticeDue
    <2>. QED BY <1>15, <2>1 DEF N!SuspicionAges, N!DebouncePasses, N!NoticeDue, N!TypeOK, RowType, N!world, N!history
  <1>16. CASE UNCHANGED N!vars BY <1>16 DEF N!vars, N!TypeOK
  <1>17. CASE N!RepeatedOpen
    <2>1. row' \in RowType
      <3>1. 0 \in 0..MaxNotices OBVIOUS
      <3>2. row' = [row EXCEPT !.count = 0, !.due = TRUE] BY <1>17 DEF N!RepeatedOpen
      <3>. QED BY <1>0, <1>z, <3>1, <3>2, RowWrites
    <2>2. undone' \in Nat /\ mishaps' \in Nat BY <1>17 DEF N!RepeatedOpen, N!TypeOK
    <2>. QED BY <1>17, <2>1, <2>2 DEF N!RepeatedOpen, N!TypeOK, RowType, N!world
  <1>. QED BY <1>1, <1>2, <1>3, <1>4, <1>5, <1>6, <1>7, <1>8, <1>9, <1>10, <1>11, <1>12, <1>13, <1>14, <1>15, <1>16,
              <1>17
           DEF N!Next, N!Step

\* The row and the outages table change together.
LEMMA AgreeStep ==
  ASSUME AgreeInv, [N!Next]_(N!vars)
  PROVE  N!EpisodesAgree' /\ ProbesOwn'
  <1>. USE DEF AgreeInv, N!EpisodesAgree, ProbesOwn
  <1>0. row \in RowType BY DEF N!TypeOK, RowType
  <1>1. ASSUME UNCHANGED <<kind, outage>>, row'.down = row.down PROVE N!EpisodesAgree' /\ ProbesOwn'
    BY <1>1
  <1>e. N!Ended(row).down = "none" BY <1>0 DEF N!Ended, RowType
  <1>2. ASSUME NEW w \in Watcher, N!Record(w) PROVE N!EpisodesAgree' /\ ProbesOwn'
    <2>. DEFINE seen == watch[w]
                down == seen.state # "open"
                traffic == row.down # "none" /\ seen.store > row.start /\ seen.store > row.own
                plan == N!PlanEpisode(down, traffic)
                read == [row EXCEPT !.suspect = IF down THEN "fresh" ELSE "no", !.own = seen.store]
    <2>. HIDE DEF down, traffic
    <2>1. DOMAIN read = DOMAIN row /\ read.down = row.down /\ "down" \in DOMAIN row BY <1>0 DEF RowType
    <2>2. /\ row'.down = CASE plan = "hold" -> row.down
                          [] plan = "keep" -> N!NextDownSource(plan, seen.state)
                          [] plan = "open" -> "state"
                          [] OTHER -> "none"
          /\ outage' = CASE plan = "open" /\ outage = "none" -> "watch"
                         [] plan = "close" -> "none"
                         [] OTHER -> outage
          /\ UNCHANGED kind
      <3>1. /\ \A v : [read EXCEPT !.down = v].down = v
            /\ N!Ended(read).down = "none"
            /\ \A s, a : [N!Ended(read) EXCEPT !.down = "state", !.start = s, !.aged = a].down = "state"
        BY <2>1 DEF N!Ended
      <3>. HIDE DEF read, plan
      <3>. QED BY <1>2, <3>1 DEF N!Record, N!world, read, plan, down, traffic
    <2>3. plan \in {"close", "keep", "healthy", "suspect", "hold", "open"} BY DEF N!PlanEpisode
    <2>4. /\ plan \in {"healthy", "suspect", "hold"} => row.down = "none"
          /\ plan = "keep" => row.down # "none"
          /\ plan = "open" => row.down = "none"
      BY DEF N!PlanEpisode
    <2>. HIDE DEF plan
    <2>5. plan = "keep" => row'.down # "none" /\ (row'.down = "probe" => row.down = "probe")
      BY <2>2, <2>4 DEF N!NextDownSource
    <2>. QED BY <2>2, <2>3, <2>4, <2>5
  <1>3. CASE N!ConnectionEvent
    <2>1. CASE state = "open"
      <3>1. row'.down = "none" BY <1>0, <1>3, <2>1 DEF N!ConnectionEvent, N!Ended, RowType
      <3>. QED BY <1>3, <2>1, <3>1 DEF N!ConnectionEvent, N!world
    <2>2. CASE state # "open"
      <3>1. row'.down # "none" BY <1>0, <1>3, <2>2 DEF N!ConnectionEvent, RowType
      <3>. QED BY <1>3, <2>2, <3>1 DEF N!ConnectionEvent, N!world
    <2>. QED BY <2>1, <2>2
  <1>4. CASE N!OpenProbeEpisode
    <2>1. row.down = "none" => row'.down = "probe"
      BY <1>0, <1>4 DEF N!OpenProbeEpisode, N!Ended, RowType
    <2>2. row.down # "none" => row'.down = row.down BY <1>4 DEF N!OpenProbeEpisode
    <2>. QED BY <1>4, <2>1, <2>2 DEF N!OpenProbeEpisode, N!world
  <1>5. CASE N!CloseProbeEpisode
    <2>1. CASE kind = "number"
      <3>1. outage # "probe" => row' = row BY <1>5, <2>1 DEF N!CloseProbeEpisode
      <3>. QED BY <1>5, <2>1, <3>1 DEF N!CloseProbeEpisode, N!world
    <2>2. CASE kind # "number"
      <3>1. kind = "system" BY <2>2 DEF N!TypeOK
      <3>2. row'.down = "none" BY <1>5, <1>e, <2>2 DEF N!CloseProbeEpisode
      <3>. QED BY <1>5, <3>1, <3>2 DEF N!CloseProbeEpisode, N!world
    <2>. QED BY <2>1, <2>2
  <1>6. CASE N!Reconnect
    <2>1. kind = "number" => row'.down = row.down BY <1>0, <1>6 DEF N!Reconnect, RowType
    <2>2. kind # "number" => row'.down = IF row.down = "probe" THEN "state" ELSE row.down
      BY <1>0, <1>6 DEF N!Reconnect, RowType
    <2>. QED BY <1>6, <2>1, <2>2 DEF N!Reconnect
  <1>7. ASSUME NEW w \in Watcher, N!ClaimNotification(w) \/ N!Release(w)
        PROVE  UNCHANGED <<kind, outage>> /\ row'.down = row.down
    BY <1>0, <1>7 DEF N!ClaimNotification, N!Release, N!world, RowType
  <1>8. ASSUME NEW w \in Watcher, N!Observe(w) \/ N!ListDownNumbers(w) \/ N!Decide(w) \/ N!Send(w) \/ N!Crash(w)
        PROVE  UNCHANGED <<kind, outage, row>>
    BY <1>8 DEF N!Observe, N!ListDownNumbers, N!Decide, N!Send, N!Crash, N!world
  <1>9. CASE N!SuspicionAges \/ N!DebouncePasses \/ N!NoticeDue
    <2>1. UNCHANGED <<kind, outage>> /\ row'.down = row.down
      BY <1>0, <1>9 DEF N!SuspicionAges, N!DebouncePasses, N!NoticeDue, N!world, RowType
    <2>. QED BY <1>1, <2>1
  <1>10. CASE N!ProbeConfirms \/ N!StateChanges \/ N!MessageArrives \/ UNCHANGED N!vars
    BY <1>1, <1>10 DEF N!ProbeConfirms, N!StateChanges, N!MessageArrives, N!vars
  <1>11. CASE N!RepeatedOpen
    <2>1. UNCHANGED <<kind, outage>> /\ row'.down = row.down BY <1>0, <1>11 DEF N!RepeatedOpen, N!world, RowType
    <2>. QED BY <1>1, <2>1
  <1>. QED BY <1>1, <1>2, <1>3, <1>4, <1>5, <1>6, <1>7, <1>8, <1>9, <1>10, <1>11 DEF N!Next, N!Step

LEMMA HoldersFinite == \A n : IsFiniteSet(Holders(n)) /\ Cardinality(Holders(n)) \in Nat
  BY NoticesAssumption, FS_Subset, FS_CardinalityType DEF Holders

\* Nothing of the count is touched, or an episode begins or ends.
LEMMA QuietCount ==
  ASSUME N!TypeOK, Counted, row'.count = row.count \/ N!Forget,
         N!Forget \/ UNCHANGED N!history,
         \A v \in Watcher : watch'[v].at \in {"send", "release"} => watch'[v] = watch[v]
  PROVE  Counted'
  <1>. SUFFICES ASSUME NEW n \in N!Notice
                PROVE  said'[n] + Cardinality(Holders(n)') <= lost' + undone' + Covered(n)'
    BY DEF Counted
  <1>1. CASE N!Forget
    <2>1. Holders(n)' = {} BY <1>1 DEF Holders, N!Forget
    <2>2. Cardinality(Holders(n)') = 0 BY <2>1, FS_EmptySet
    <2>. QED BY <1>1, <2>2 DEF N!Forget, N!Unsaid, Covered
  <1>2. CASE UNCHANGED N!history /\ row'.count = row.count
    <2>1. Holders(n)' \subseteq Holders(n) BY <1>2 DEF Holders, N!history
    <2>2. Cardinality(Holders(n)') <= Cardinality(Holders(n)) /\ Cardinality(Holders(n)') \in Nat
      BY <2>1, HoldersFinite, FS_Subset, FS_CardinalityType
    <2>3. said[n] + Cardinality(Holders(n)) <= lost + undone + Covered(n) BY DEF Counted
    <2>4. said[n] \in Nat /\ lost \in Nat /\ undone \in Nat /\ Covered(n) \in Nat BY DEF N!TypeOK, Covered
    <2>5. Covered(n)' = Covered(n) BY <1>2 DEF Covered
    <2>. QED BY <1>2, <2>2, <2>3, <2>4, <2>5, HoldersFinite DEF N!history
  <1>. QED BY <1>1, <1>2

LEMMA Untouched ==
  ASSUME N!TypeOK, NEW w \in Watcher, NEW j \in WatchType, N!Goto(w, j), j.at \notin {"send", "release"}
  PROVE  \A v \in Watcher : watch'[v].at \in {"send", "release"} => watch'[v] = watch[v]
  BY DEF N!Goto, N!TypeOK

LEMMA CountStep ==
  ASSUME NoticeInv, [N!Next]_(N!vars)
  PROVE  Counted'
  <1>. USE NoticesAssumption
  <1>0. N!TypeOK /\ Counted /\ row \in RowType BY DEF NoticeInv, AgreeInv, N!TypeOK, RowType
  <1>1. N!TypeOK' BY <1>0, NoticeType
  <1>2. ASSUME UNCHANGED watch, row'.count = row.count \/ N!Forget, N!Forget \/ UNCHANGED N!history
        PROVE  Counted'
    BY <1>0, <1>2, QuietCount
  <1>3. CASE N!ConnectionEvent
    <2>1. row'.count = row.count \/ N!Forget BY <1>0, <1>3 DEF N!ConnectionEvent, RowType
    <2>. QED BY <1>2, <1>3, <2>1 DEF N!ConnectionEvent, N!Remember
  <1>4. CASE N!OpenProbeEpisode BY <1>2, <1>4 DEF N!OpenProbeEpisode, N!Remember
  <1>5. CASE N!CloseProbeEpisode BY <1>2, <1>5 DEF N!CloseProbeEpisode
  <1>6. CASE \/ N!Reconnect \/ N!SuspicionAges \/ N!DebouncePasses \/ N!NoticeDue
             \/ N!ProbeConfirms \/ N!StateChanges \/ N!MessageArrives \/ UNCHANGED N!vars
    <2>1. row'.count = row.count
      BY <1>0, <1>6 DEF N!Reconnect, N!SuspicionAges, N!DebouncePasses, N!NoticeDue, N!ProbeConfirms, N!StateChanges,
                        N!MessageArrives, N!vars, RowType
    <2>. QED BY <1>2, <1>6, <2>1 DEF N!Reconnect, N!SuspicionAges, N!DebouncePasses, N!NoticeDue, N!ProbeConfirms,
                        N!StateChanges, N!MessageArrives, N!vars, N!history
  <1>7. ASSUME NEW w \in Watcher, N!Observe(w) \/ N!ListDownNumbers(w) \/ N!Decide(w) PROVE Counted'
    <2>1. \A v \in Watcher : watch'[v].at \in {"send", "release"} => watch'[v] = watch[v]
      BY <1>0, <1>7 DEF N!Observe, N!ListDownNumbers, N!Decide, N!Goto, N!Idle, N!TypeOK
    <2>. QED BY <1>0, <1>7, <2>1, QuietCount DEF N!Observe, N!ListDownNumbers, N!Decide
  <1>8. ASSUME NEW w \in Watcher, N!Record(w) PROVE Counted'
    <2>1. \A v \in Watcher : watch'[v].at \in {"send", "release"} => watch'[v] = watch[v]
      BY <1>0, <1>8 DEF N!Record, N!Goto, N!Idle, N!TypeOK
    <2>2. row'.count = row.count \/ N!Forget
      BY <1>0, <1>8 DEF N!Record, RowType
    <2>3. N!Forget \/ UNCHANGED N!history BY <1>8 DEF N!Record, N!Remember
    <2>. QED BY <1>0, <2>1, <2>2, <2>3, QuietCount
  <1>10. ASSUME NEW w \in Watcher, N!ClaimNotification(w) PROVE Counted'
    <2>1. watch[w] \in N!Calling /\ watch[w].at = "claim"
      BY <1>0, <1>10, AtFields DEF N!ClaimNotification, N!At
    <2>2. CASE ~N!Claimable(watch[w].count)
      <3>1. \A v \in Watcher : watch'[v].at \in {"send", "release"} => watch'[v] = watch[v]
        BY <1>0, <1>10, <2>2 DEF N!ClaimNotification, N!Goto, N!Idle, N!TypeOK
      <3>. QED BY <1>0, <1>10, <2>2, <3>1, QuietCount DEF N!ClaimNotification
    <2>3. CASE N!Claimable(watch[w].count)
      <3>1. row.count = watch[w].count /\ row'.count = row.count + 1 /\ UNCHANGED N!history
        BY <1>0, <1>10, <2>3 DEF N!ClaimNotification, N!Claimable, RowType
      <3>2. watch' = [watch EXCEPT ![w] = [at |-> "send", count |-> watch[w].count]]
        BY <1>10, <2>3 DEF N!ClaimNotification, N!Goto
      <3>. SUFFICES ASSUME NEW n \in N!Notice
                    PROVE  said'[n] + Cardinality(Holders(n)') <= lost' + undone' + Covered(n)'
        BY DEF Counted
      <3>3. said[n] + Cardinality(Holders(n)) <= lost + undone + Covered(n) BY <1>0 DEF Counted
      <3>4. /\ said[n] \in Nat /\ lost \in Nat /\ undone \in Nat /\ row.count \in Nat /\ n \in Nat
            /\ watch[w].count \in Nat
        BY <1>0, <2>1 DEF N!TypeOK, RowType, N!Notice, N!Calling
      <3>5. CASE n = watch[w].count + 1
        <4>1. Holders(n)' \subseteq Holders(n) \cup {w} /\ w \notin Holders(n)
          BY <1>0, <2>1, <3>1, <3>2, <3>4 DEF Holders, N!history, N!TypeOK
        <4>2. Cardinality(Holders(n) \cup {w}) = Cardinality(Holders(n)) + 1 /\ IsFiniteSet(Holders(n) \cup {w})
          BY <4>1, HoldersFinite, FS_AddElement
        <4>3. Cardinality(Holders(n)') <= Cardinality(Holders(n)) + 1 /\ Cardinality(Holders(n)') \in Nat
          BY <4>1, <4>2, FS_Subset, FS_CardinalityType
        <4>4. Covered(n) = 0 /\ Covered(n)' = 1 BY <3>1, <3>4, <3>5 DEF Covered
        <4>. QED BY <3>1, <3>3, <3>4, <4>3, <4>4, HoldersFinite DEF N!history
      <3>6. CASE n # watch[w].count + 1
        <4>1. Holders(n)' = Holders(n)
          BY <1>0, <2>1, <3>1, <3>2, <3>4, <3>6 DEF Holders, N!history, N!TypeOK
        <4>2. Covered(n)' = Covered(n) BY <3>1, <3>4, <3>6 DEF Covered
        <4>. QED BY <3>1, <3>3, <4>1, <4>2 DEF N!history
      <3>. QED BY <3>5, <3>6
    <2>. QED BY <2>2, <2>3
  <1>11. ASSUME NEW w \in Watcher, N!Send(w) PROVE Counted'
    <2>1. watch[w] \in N!Calling /\ watch[w].at = "send"
      BY <1>0, <1>11, AtFields DEF N!Send, N!At
    <2>2. PICK o \in N!Outcome :
            /\ IF w \in late THEN UNCHANGED <<said, lost>>
               ELSE /\ said' = [said EXCEPT ![watch[w].count + 1] = @ + o.accepted]
                    /\ lost' = lost + o.unanswered
            /\ IF o.then = "idle" THEN N!Goto(w, N!Idle) /\ late' = late \ {w}
               ELSE N!Goto(w, [watch[w] EXCEPT !.at = "release"]) /\ UNCHANGED late
      BY <1>11 DEF N!Send
    <2>3. UNCHANGED <<row, undone>> BY <1>11 DEF N!Send
    <2>. SUFFICES ASSUME NEW n \in N!Notice
                  PROVE  said'[n] + Cardinality(Holders(n)') <= lost' + undone' + Covered(n)'
      BY DEF Counted
    <2>4. said[n] + Cardinality(Holders(n)) <= lost + undone + Covered(n) BY <1>0 DEF Counted
    <2>5. /\ said[n] \in Nat /\ lost \in Nat /\ undone \in Nat /\ row.count \in Nat /\ n \in Nat
          /\ watch[w].count \in Nat /\ Covered(n) \in Nat
      BY <1>0, <2>1 DEF N!TypeOK, RowType, N!Notice, N!Calling, Covered
    <2>6. Covered(n)' = Covered(n) BY <2>3 DEF Covered
    <2>7. \A v \in Watcher \ {w} : watch'[v] = watch[v] /\ (v \in late <=> v \in late')
      BY <1>0, <2>2 DEF N!Goto, N!TypeOK
    <2>8. o.then = "idle" => watch'[w] = N!Idle BY <1>0, <2>2 DEF N!Goto, N!TypeOK
    <2>9. o.then # "idle" => /\ watch'[w].at = "release" /\ watch'[w].count = watch[w].count
                             /\ (w \in late <=> w \in late')
      BY <1>0, <2>1, <2>2 DEF N!Goto, N!TypeOK, N!Calling
    <2>10. Holders(n)' \subseteq Holders(n) BY <2>1, <2>7, <2>8, <2>9 DEF Holders, N!Idle
    <2>11. Cardinality(Holders(n)') <= Cardinality(Holders(n)) /\ Cardinality(Holders(n)') \in Nat
      BY <2>10, HoldersFinite, FS_Subset, FS_CardinalityType
    <2>12. CASE w \in late \/ n # watch[w].count + 1
      <3>1. said'[n] = said[n] BY <1>0, <2>2, <2>12 DEF N!TypeOK
      <3>2. lost' \in Nat /\ lost' >= lost BY <2>2, <2>5 DEF N!Outcome
      <3>. QED BY <2>3, <2>4, <2>5, <2>6, <2>11, <3>1, <3>2, HoldersFinite
    <2>13. CASE w \notin late /\ n = watch[w].count + 1
      <3>1. said'[n] = said[n] + o.accepted /\ lost' = lost + o.unanswered BY <1>0, <2>2, <2>13 DEF N!TypeOK
      <3>2. CASE o.then = "idle"
        <4>1. w \in Holders(n) BY <2>1, <2>5, <2>13 DEF Holders
        <4>2. Holders(n)' \subseteq Holders(n) \ {w} BY <2>8, <2>10, <3>2 DEF Holders, N!Idle
        <4>3. Cardinality(Holders(n) \ {w}) = Cardinality(Holders(n)) - 1 /\ IsFiniteSet(Holders(n) \ {w})
          BY <4>1, HoldersFinite, FS_RemoveElement
        <4>4. Cardinality(Holders(n)') <= Cardinality(Holders(n)) - 1 BY <4>2, <4>3, FS_Subset
        <4>5. o.accepted \in Nat /\ o.unanswered \in Nat /\ o.accepted <= o.unanswered + 1 BY DEF N!Outcome
        <4>. QED BY <2>3, <2>4, <2>5, <2>6, <2>11, <3>1, <4>4, <4>5, HoldersFinite
      <3>3. CASE o.then # "idle"
        <4>1. o.accepted = o.unanswered /\ o.accepted \in Nat BY <3>3 DEF N!Outcome
        <4>. QED BY <2>3, <2>4, <2>5, <2>6, <2>11, <3>1, <4>1, HoldersFinite
      <3>. QED BY <3>2, <3>3
    <2>. QED BY <2>12, <2>13
  <1>12. ASSUME NEW w \in Watcher, N!Release(w) PROVE Counted'
    <2>1. watch[w] \in N!Calling /\ watch[w].at = "release"
      BY <1>0, <1>12, AtFields DEF N!Release, N!At
    <2>2. \A v \in Watcher : watch'[v].at \in {"send", "release"} =>
             watch'[v] = watch[v] /\ v # w /\ (v \in late <=> v \in late')
      BY <1>0, <1>12 DEF N!Release, N!Goto, N!Idle, N!TypeOK
    <2>3. UNCHANGED <<said, lost>> BY <1>12 DEF N!Release
    <2>. SUFFICES ASSUME NEW n \in N!Notice
                  PROVE  said'[n] + Cardinality(Holders(n)') <= lost' + undone' + Covered(n)'
      BY DEF Counted
    <2>4. said[n] + Cardinality(Holders(n)) <= lost + undone + Covered(n) BY <1>0 DEF Counted
    <2>5. /\ said[n] \in Nat /\ lost \in Nat /\ undone \in Nat /\ row.count \in Nat /\ n \in Nat
          /\ watch[w].count \in Nat /\ Covered(n) \in Nat
      BY <1>0, <2>1 DEF N!TypeOK, RowType, N!Notice, N!Calling, Covered
    <2>6. Holders(n)' \subseteq Holders(n) \ {w} BY <2>2 DEF Holders
    <2>7. Cardinality(Holders(n)') <= Cardinality(Holders(n)) /\ Cardinality(Holders(n)') \in Nat
      BY <2>6, HoldersFinite, FS_Subset, FS_CardinalityType
    <2>8. w \in Holders(n) => Cardinality(Holders(n)') <= Cardinality(Holders(n)) - 1
      <3>. SUFFICES ASSUME w \in Holders(n) PROVE Cardinality(Holders(n)') <= Cardinality(Holders(n)) - 1 OBVIOUS
      <3>1. Cardinality(Holders(n) \ {w}) = Cardinality(Holders(n)) - 1 /\ IsFiniteSet(Holders(n) \ {w})
        BY HoldersFinite, FS_RemoveElement
      <3>. QED BY <2>6, <3>1, FS_Subset
    <2>9. CASE row.count = watch[w].count + 1 /\ n = row.count
      <3>1. row' = [row EXCEPT !.count = watch[w].count, !.due = TRUE] BY <1>12, <2>9 DEF N!Release
      <3>5. row'.count = watch[w].count BY <1>0, <3>1 DEF RowType
      <3>2. Covered(n) = 1 /\ Covered(n)' = 0 BY <2>5, <2>9, <3>5 DEF Covered
      <3>3. CASE w \in late
        <4>1. undone' = undone + 1 BY <1>12, <2>9, <3>3 DEF N!Release
        <4>. QED BY <2>3, <2>4, <2>5, <2>7, <3>2, <4>1, HoldersFinite
      <3>4. CASE w \notin late
        <4>1. w \in Holders(n) BY <2>1, <2>5, <2>9, <3>4 DEF Holders
        <4>2. undone' = undone BY <1>12, <3>4 DEF N!Release
        <4>. QED BY <2>3, <2>4, <2>5, <2>7, <2>8, <3>2, <4>1, <4>2, HoldersFinite
      <3>. QED BY <3>3, <3>4
    <2>10. CASE row.count # watch[w].count + 1 \/ n # row.count
      <3>1. Covered(n)' = Covered(n)
        <4>1. CASE row.count = watch[w].count + 1
          <5>1. row' = [row EXCEPT !.count = watch[w].count, !.due = TRUE] BY <1>12, <4>1 DEF N!Release
          <5>2. row'.count = watch[w].count BY <1>0, <5>1 DEF RowType
          <5>. QED BY <2>5, <2>10, <4>1, <5>2 DEF Covered
        <4>2. CASE row.count # watch[w].count + 1 BY <1>12, <4>2 DEF N!Release, Covered
        <4>. QED BY <4>1, <4>2
      <3>2. undone' \in Nat /\ undone' >= undone BY <1>12, <2>5 DEF N!Release
      <3>. QED BY <2>3, <2>4, <2>5, <2>7, <3>1, <3>2, HoldersFinite
    <2>. QED BY <2>9, <2>10
  <1>13. ASSUME NEW w \in Watcher, N!Crash(w) PROVE Counted'
    <2>1. UNCHANGED <<row, said, lost, undone>> BY <1>13 DEF N!Crash
    <2>. SUFFICES ASSUME NEW n \in N!Notice
                  PROVE  said'[n] + Cardinality(Holders(n)') <= lost' + undone' + Covered(n)'
      BY DEF Counted
    <2>2. said[n] + Cardinality(Holders(n)) <= lost + undone + Covered(n) BY <1>0 DEF Counted
    <2>3. said[n] \in Nat /\ lost \in Nat /\ undone \in Nat /\ Covered(n) \in Nat BY <1>0 DEF N!TypeOK, Covered
    <2>4. Holders(n)' \subseteq Holders(n)
      BY <1>0, <1>13 DEF N!Crash, N!Goto, N!Idle, N!TypeOK, Holders
    <2>5. Cardinality(Holders(n)') <= Cardinality(Holders(n)) /\ Cardinality(Holders(n)') \in Nat
      BY <2>4, HoldersFinite, FS_Subset, FS_CardinalityType
    <2>6. Covered(n)' = Covered(n) BY <2>1 DEF Covered
    <2>. QED BY <2>1, <2>2, <2>3, <2>5, <2>6, HoldersFinite
  <1>9. CASE N!RepeatedOpen
    <2>1. UNCHANGED <<watch, late, said, lost>> /\ undone' = undone + 1 BY <1>9 DEF N!RepeatedOpen
    <2>. SUFFICES ASSUME NEW n \in N!Notice
                  PROVE  said'[n] + Cardinality(Holders(n)') <= lost' + undone' + Covered(n)'
      BY DEF Counted
    <2>2. said[n] + Cardinality(Holders(n)) <= lost + undone + Covered(n) BY <1>0 DEF Counted
    <2>3. said[n] \in Nat /\ lost \in Nat /\ undone \in Nat BY <1>0 DEF N!TypeOK
    <2>4. Holders(n)' = Holders(n) BY <2>1 DEF Holders
    <2>5. Covered(n) \in 0..1 /\ Covered(n)' \in 0..1 BY DEF Covered
    <2>. QED BY <2>1, <2>2, <2>3, <2>4, <2>5, HoldersFinite
  <1>. QED BY <1>3, <1>4, <1>5, <1>6, <1>7, <1>8, <1>9, <1>10, <1>11, <1>12, <1>13 DEF N!Next, N!Step

LEMMA NoticeStep == NoticeInv /\ [N!Next]_(N!vars) => NoticeInv'
  BY NoticeType, AgreeStep, CountStep DEF NoticeInv, AgreeInv

-----------------------------------------------------------------------------
(* Probes. *)

Statuses == {"connected", "disconnected"}
Verdicts == {"none", "alive", "repeated", "pipeline_broken", "down", "send_failed", "inconclusive"}
ProbeRow == [parent : 0..MaxProbes, mark : 0..MaxMessages, sent : {"no", "yes", "failed"}, out : BOOLEAN,
             stored : BOOLEAN, cloud : {"none", "delivered", "failed"}, age : {"young", "waited", "late"},
             received : BOOLEAN, verdict : Verdicts]
Outage == [source : {"none", "webhook", "probe"}, start : 0..MaxMessages, by : 0..MaxProbes]

\* What a probe loop is at, and what it carries from one statement to the next.
Between == [at : {"idle", "down", "traffic", "trigger"}]
Staging == [at : {"state"}, was : Statuses]
Judging == [at : {"judge"}, was : Statuses, probe : 1..MaxProbes, verdict : Verdicts \ {"none"}]
Settling == [at : {"store", "recheck"}, was : Statuses, probe : 1..MaxProbes]
Opening == [at : {"open"}, was : Statuses, probe : 1..MaxProbes, start : 0..MaxMessages]
Closing == [at : {"close"}, was : Statuses, probe : 0..MaxProbes, then : {"state", "trigger"}]
Creating == [at : {"create"}, was : Statuses, parent : 0..MaxProbes, then : {"state", "idle"}]
Sending == [at : {"send", "mark_sent", "mark_failed"}, was : Statuses, probe : 1..MaxProbes, then : {"state", "idle"}]
Reconciling == [at : {"status"}, to : Statuses, then : {"traffic", "idle"}]
LoopType == Between \cup Staging \cup Judging \cup Settling \cup Opening \cup Closing
              \cup Creating \cup Sending \cup Reconciling

WorldOK ==
  /\ session \in [state : {"open", "connecting", "close"}, alive : BOOLEAN]
  /\ session.alive => session.state = "open"
  /\ last \in 0..MaxMessages
  /\ receipt \in [1..MaxProbes -> {"none", "children", "close"}]
  /\ events \subseteq Statuses /\ panel \in {"idle", "logged_out", "rest"} /\ abandoned \in BOOLEAN

(* One probe is open at a time, and the repetition of a probe follows the verdict
   "repeated" on that probe. *)
RowsOK ==
  /\ probes \in Seq(ProbeRow) /\ Len(probes) <= MaxProbes
  /\ \A i \in DOMAIN probes :
       /\ probes[i].parent < i
       /\ probes[i].parent # 0 => probes[probes[i].parent].verdict = "repeated"
  /\ \A i, j \in Open : i = j

(* A loop about to open or to look again has seen the verdict "down", one about to
   repeat a probe the verdict "repeated". *)
Led(rows, j) ==
  /\ j.at \in {"judge", "send", "mark_sent", "mark_failed"} => j.probe \in DOMAIN rows
  /\ j.at \in {"store", "open", "recheck"} => j.probe \in DOMAIN rows /\ rows[j.probe].verdict = "down"
  /\ j.at = "create" /\ j.parent # 0 => j.parent \in DOMAIN rows /\ rows[j.parent].verdict = "repeated"

LoopOK == loop \in [Loop -> LoopType] /\ \A p \in Loop : Led(probes, loop[p])

OutageOK ==
  /\ number \in [status : Statuses, outage : Outage]
  /\ number.outage.source = "probe" =>
       number.outage.by \in DOMAIN probes /\ probes[number.outage.by].verdict = "down"

ProbeInv == WorldOK /\ RowsOK /\ LoopOK /\ OutageOK /\ ReceivedIsNotDown

(* What every step does to the probes: VerdictStands, and no receipt is undone. *)
Stands ==
  \A i \in DOMAIN probes :
    /\ probes[i].verdict # "none" => probes'[i].verdict = probes[i].verdict
    /\ probes[i].received /\ probes[i].verdict = "none" => probes'[i].verdict \in {"none", "alive"}
Grows ==
  /\ DOMAIN probes \subseteq DOMAIN probes' /\ Stands
  /\ \A i \in DOMAIN probes : probes'[i].parent = probes[i].parent
Unheard == \A i \in DOMAIN probes : probes'[i].received = probes[i].received

LEMMA ProbesSeq ==
  ASSUME RowsOK
  PROVE  /\ DOMAIN probes = 1..Len(probes) /\ Len(probes) \in Nat
         /\ \A i \in DOMAIN probes : probes[i] \in ProbeRow /\ i \in 1..MaxProbes /\ FirstOf(i) \in DOMAIN probes
         /\ \A i \in DOMAIN probes : FirstOf(i) # i => probes[FirstOf(i)].verdict = "repeated"
  <1>. USE ProbesAssumption
  <1>1. DOMAIN probes = 1..Len(probes) /\ Len(probes) \in Nat BY DEF RowsOK
  <1>2. \A i \in DOMAIN probes : probes[i] \in ProbeRow BY <1>1 DEF RowsOK
  <1>3. \A i \in DOMAIN probes : i \in 1..MaxProbes BY <1>1 DEF RowsOK
  <1>4. \A i \in DOMAIN probes : FirstOf(i) \in DOMAIN probes
    BY <1>1, <1>2 DEF RowsOK, FirstOf, ProbeRow
  <1>5. \A i \in DOMAIN probes : FirstOf(i) # i => probes[FirstOf(i)].verdict = "repeated"
    BY DEF RowsOK, FirstOf
  <1>. QED BY <1>1, <1>2, <1>3, <1>4, <1>5

LEMMA SameProbes == ASSUME RowsOK, UNCHANGED probes PROVE RowsOK' /\ Grows /\ Unheard
  BY DEF RowsOK, Grows, Stands, Unheard, Open

\* One row is written: its parent stays, and its verdict once given.
LEMMA OneWritten ==
  ASSUME RowsOK, NEW i \in DOMAIN probes, NEW r \in ProbeRow, probes' = [probes EXCEPT ![i] = r],
         r.parent = probes[i].parent,
         probes[i].verdict # "none" => r.verdict = probes[i].verdict,
         probes[i].received /\ probes[i].verdict = "none" => r.verdict \in {"none", "alive"}
  PROVE  RowsOK' /\ Grows /\ DOMAIN probes' = DOMAIN probes
  <1>1. DOMAIN probes = 1..Len(probes) /\ Len(probes) \in Nat BY ProbesSeq
  <1>2. probes' \in Seq(ProbeRow) /\ Len(probes') = Len(probes) /\ DOMAIN probes' = DOMAIN probes
    BY <1>1 DEF RowsOK
  <1>3. \A j \in DOMAIN probes : probes'[j] = IF j = i THEN r ELSE probes[j] BY DEF RowsOK
  <1>4. Grows BY <1>2, <1>3 DEF Grows, Stands
  <1>5. \A j, k \in Open' : j = k
    <2>1. Open' \subseteq Open BY <1>2, <1>3 DEF Open
    <2>. QED BY <2>1 DEF RowsOK
  <1>6. ASSUME NEW j \in DOMAIN probes'
        PROVE  /\ probes'[j].parent < j
               /\ probes'[j].parent # 0 => probes'[probes'[j].parent].verdict = "repeated"
    <2>1. probes'[j].parent = probes[j].parent /\ j \in DOMAIN probes BY <1>2, <1>4 DEF Grows
    <2>2. probes[j].parent < j /\ (probes[j].parent # 0 => probes[probes[j].parent].verdict = "repeated")
      BY <2>1 DEF RowsOK
    <2>3. probes[j].parent # 0 => probes[j].parent \in DOMAIN probes
      BY <2>1, ProbesSeq DEF FirstOf
    <2>. QED BY <1>4, <2>1, <2>2, <2>3 DEF Grows, Stands
  <1>. QED BY <1>2, <1>4, <1>5, <1>6 DEF RowsOK

LEMMA LoopGoes ==
  ASSUME RowsOK, LoopOK, Grows, NEW p \in Loop, NEW j \in LoopType, Goto(p, j), Led(probes', j)
  PROVE  LoopOK'
  <1>1. loop' \in [Loop -> LoopType] BY DEF LoopOK, Goto
  <1>2. ASSUME NEW q \in Loop PROVE Led(probes', loop'[q])
    <2>1. CASE q = p BY <2>1 DEF LoopOK, Goto
    <2>2. CASE q # p
      <3>1. loop'[q] = loop[q] BY <2>2 DEF LoopOK, Goto
      <3>2. Led(probes, loop[q]) BY DEF LoopOK
      <3>. QED BY <3>1, <3>2 DEF Led, Grows, Stands
    <2>. QED BY <2>1, <2>2
  <1>. QED BY <1>1, <1>2 DEF LoopOK

LEMMA LoopStays ==
  ASSUME RowsOK, LoopOK, Grows, UNCHANGED loop
  PROVE  LoopOK'
  <1>1. ASSUME NEW q \in Loop PROVE Led(probes', loop'[q])
    <2>1. Led(probes, loop[q]) BY DEF LoopOK
    <2>. QED BY <2>1 DEF Led, Grows, Stands
  <1>. QED BY <1>1 DEF LoopOK

LEMMA OutageStays ==
  ASSUME RowsOK, OutageOK, Grows, UNCHANGED number
  PROVE  OutageOK'
  BY DEF OutageOK, Grows, Stands

\* Whoever was about to close the episode still is, or a fault cut it short.
LEMMA NotDownStays ==
  ASSUME RowsOK, OutageOK, ReceivedIsNotDown, Grows, Unheard,
         number'.outage.source = "probe" => number'.outage = number.outage,
         UNCHANGED receipt, abandoned => abandoned',
         \A q \in Loop : loop[q].at \in {"recheck", "close"} => loop'[q] = loop[q] \/ abandoned'
  PROVE  ReceivedIsNotDown'
  <1>. SUFFICES ASSUME number'.outage.source = "probe", Received(number.outage.by)'
                PROVE  \/ \E q \in Loop : loop'[q].at \in {"recheck", "close"} /\ loop'[q].probe = number'.outage.by
                       \/ receipt'[number'.outage.by] # "none" \/ receipt[FirstOf(number.outage.by)]' # "none"
                       \/ abandoned'
    BY DEF ReceivedIsNotDown
  <1>. DEFINE i == number.outage.by
  <1>1. number'.outage.by = i /\ number.outage.source = "probe" OBVIOUS
  <1>2. i \in DOMAIN probes BY <1>1 DEF OutageOK
  <1>3. FirstOf(i) \in DOMAIN probes BY <1>2, ProbesSeq
  <1>4. FirstOf(number.outage.by)' = FirstOf(i) BY <1>1, <1>2 DEF FirstOf, Grows
  <1>5. probes'[i].received = probes[i].received /\ probes'[FirstOf(i)].received = probes[FirstOf(i)].received
    BY <1>2, <1>3 DEF Unheard
  <1>6. Received(i) BY <1>1, <1>4, <1>5 DEF Received
  <1>7. \/ \E q \in Loop : loop[q].at \in {"recheck", "close"} /\ loop[q].probe = i
        \/ receipt[i] # "none" \/ receipt[FirstOf(i)] # "none"
        \/ abandoned
    BY <1>1, <1>6 DEF ReceivedIsNotDown
  <1>. QED BY <1>1, <1>4, <1>7

\* A loop goes on, and nothing but its probes changes.
LEMMA QuietTick ==
  ASSUME ProbeInv, NEW p \in Loop, NEW j \in LoopType, Goto(p, j), Led(probes', j),
         RowsOK', Grows, Unheard, loop[p].at \notin {"recheck", "close"},
         UNCHANGED <<world, number, receipt, abandoned>>
  PROVE  ProbeInv'
  <1>1. WorldOK' BY DEF ProbeInv, WorldOK, world
  <1>2. LoopOK' BY LoopGoes DEF ProbeInv
  <1>3. OutageOK' BY OutageStays DEF ProbeInv
  <1>4. ReceivedIsNotDown'
    <2>1. \A q \in Loop : loop[q].at \in {"recheck", "close"} => loop'[q] = loop[q]
      BY DEF Goto, ProbeInv, LoopOK
    <2>. QED BY <2>1, NotDownStays DEF ProbeInv
  <1>. QED BY <1>1, <1>2, <1>3, <1>4 DEF ProbeInv

LEMMA QuietWorld ==
  ASSUME ProbeInv, WorldOK', RowsOK', Grows, Unheard, UNCHANGED <<loop, number, receipt, abandoned>>
  PROVE  ProbeInv'
  <1>1. LoopOK' BY LoopStays DEF ProbeInv
  <1>2. OutageOK' BY OutageStays DEF ProbeInv
  <1>3. ReceivedIsNotDown' BY NotDownStays DEF ProbeInv
  <1>. QED BY <1>1, <1>2, <1>3 DEF ProbeInv

\* What a loop at a given step carries.
LEMMA Carries ==
  ASSUME LoopOK, NEW p \in Loop
  PROVE  /\ loop[p] \in LoopType /\ Led(probes, loop[p])
         /\ loop[p].at = "state" => loop[p] \in Staging
         /\ loop[p].at = "judge" => loop[p] \in Judging
         /\ loop[p].at \in {"store", "recheck"} => loop[p] \in Settling
         /\ loop[p].at = "open" => loop[p] \in Opening
         /\ loop[p].at = "close" => loop[p] \in Closing
         /\ loop[p].at = "create" => loop[p] \in Creating
         /\ loop[p].at \in {"send", "mark_sent", "mark_failed"} => loop[p] \in Sending
         /\ loop[p].at = "status" => loop[p] \in Reconciling
  <1>1. loop[p] \in LoopType /\ Led(probes, loop[p]) BY DEF LoopOK
  <1>2. \A j \in LoopType :
          /\ j.at = "state" => j \in Staging
          /\ j.at = "judge" => j \in Judging
          /\ j.at \in {"store", "recheck"} => j \in Settling
          /\ j.at = "open" => j \in Opening
          /\ j.at = "close" => j \in Closing
          /\ j.at = "create" => j \in Creating
          /\ j.at \in {"send", "mark_sent", "mark_failed"} => j \in Sending
          /\ j.at = "status" => j \in Reconciling
    BY DEF LoopType, Between, Staging, Judging, Settling, Opening, Closing, Creating, Sending, Reconciling
  <1>. QED BY <1>1, <1>2

\* The steps that lead nowhere in particular.
LEMMA Plain ==
  /\ \A a \in {"idle", "down", "traffic", "trigger"} : [at |-> a] \in LoopType /\ Led(probes', [at |-> a])
  /\ \A s \in Statuses : [at |-> "state", was |-> s] \in LoopType /\ Led(probes', [at |-> "state", was |-> s])
  BY DEF LoopType, Between, Staging, Led

LEMMA Returns ==
  ASSUME NEW p \in Loop, loop[p].was \in Statuses, loop[p].then \in {"state", "trigger", "idle"}
  PROVE  Return(p) \in LoopType /\ Led(probes', Return(p))
  BY Plain DEF Return, NextStage

-----------------------------------------------------------------------------
(* The tick of a probe loop, statement by statement. *)

LEMMA LookStep ==
  ASSUME ProbeInv, NEW p \in Loop, Look(p)
  PROVE  ProbeInv' /\ Grows
  <1>1. RowsOK' /\ Grows /\ Unheard BY SameProbes DEF ProbeInv, Look
  <1>. DEFINE i == Min(Open)
              v == DecideVerdict(probes[i], probes[i].sent # "no" /\ probes[i].stored)
              j == IF Open = {} \/ v = "wait" THEN [at |-> "state", was |-> number.status]
                   ELSE [at |-> "judge", was |-> number.status, probe |-> i, verdict |-> v]
  <1>2. number.status \in Statuses BY DEF ProbeInv, OutageOK
  <1>3. Open # {} => i \in Open
    <2>. SUFFICES ASSUME NEW k \in Open PROVE i \in Open OBVIOUS
    <2>1. \A x \in Open : k <= x BY ProbesSeq DEF ProbeInv, RowsOK, Open
    <2>. QED BY <2>1 DEF Min
  <1>4. v \in (Verdicts \ {"none"}) \cup {"wait"} BY DEF DecideVerdict, Verdicts
  <1>. HIDE DEF i, v
  <1>5. j \in LoopType /\ Led(probes', j)
    <2>1. CASE Open = {} \/ v = "wait"
      <3>1. j = [at |-> "state", was |-> number.status] BY <2>1
      <3>. QED BY <1>2, <3>1, Plain
    <2>2. CASE Open # {} /\ v # "wait"
      <3>1. i \in DOMAIN probes /\ i \in 1..MaxProbes BY <1>3, <2>2, ProbesSeq DEF Open, ProbeInv
      <3>2. j = [at |-> "judge", was |-> number.status, probe |-> i, verdict |-> v] BY <2>2
      <3>3. j \in Judging BY <1>2, <1>4, <2>2, <3>1, <3>2 DEF Judging
      <3>. QED BY <1>1, <3>1, <3>2, <3>3 DEF LoopType, Led, Grows
    <2>. QED BY <2>1, <2>2
  <1>6. Goto(p, j) BY DEF Look, j, i, v
  <1>. HIDE DEF j
  <1>. QED BY <1>1, <1>5, <1>6, QuietTick DEF Look, At

\* A verdict is given once.
LEMMA ClosedRow ==
  ASSUME NEW r \in ProbeRow, NEW v \in Verdicts
  PROVE  /\ Closed(r, v) \in ProbeRow
         /\ Closed(r, v).parent = r.parent /\ Closed(r, v).received = r.received
         /\ Closed(r, v).verdict = IF r.verdict # "none" THEN r.verdict ELSE v
  <1>1. CASE r.verdict # "none" \/ v = "none" BY <1>1 DEF Closed
  <1>2. CASE r.verdict = "none" /\ v # "none"
    <2>1. Closed(r, v) = [r EXCEPT !.verdict = v, !.age = "young", !.cloud = "none"] BY <1>2 DEF Closed
    <2>2. [r EXCEPT !.verdict = v, !.age = "young", !.cloud = "none"] \in ProbeRow BY Zenon DEF ProbeRow, Verdicts
    <2>. QED BY <1>2, <2>1, <2>2 DEF ProbeRow
  <1>. QED BY <1>1, <1>2

LEMMA JudgeStep ==
  ASSUME ProbeInv, NEW p \in Loop, Judge(p)
  PROVE  ProbeInv' /\ Grows
  <1>. DEFINE i == loop[p].probe
              v == Materialised(i, loop[p].verdict)
              r == Closed(probes[i], v)
  <1>1. loop[p] \in Judging /\ i \in DOMAIN probes /\ i \in 1..MaxProbes
    BY Carries DEF ProbeInv, Judge, At, Led, Judging
  <1>2. probes[i] \in ProbeRow BY <1>1, ProbesSeq DEF ProbeInv
  <1>3. v \in Verdicts \ {"none"} BY <1>1 DEF Materialised, Judging, Verdicts
  <1>4. r \in ProbeRow /\ r.parent = probes[i].parent /\ r.received = probes[i].received
        /\ r.verdict = IF probes[i].verdict # "none" THEN probes[i].verdict ELSE v
    <2>. HIDE DEF v
    <2>. QED BY <1>2, <1>3, ClosedRow
  <1>5. probes' = [probes EXCEPT ![i] = r] BY DEF Judge, SetVerdict
  <1>6. probes[i].received => v = "alive" BY DEF Materialised
  <1>. HIDE DEF r, v
  <1>7. RowsOK' /\ Grows /\ DOMAIN probes' = DOMAIN probes BY <1>1, <1>4, <1>5, <1>6, OneWritten DEF ProbeInv
  <1>8. probes'[i] = r BY <1>1, <1>5
  <1>9. Unheard BY <1>1, <1>4, <1>5 DEF Unheard
  <1>10. ASSUME probes[i].verdict = "none" \/ loop[p].verdict = "alive", NEW next \in After(p, i, v)
         PROVE  next \in LoopType /\ Led(probes', next)
    <2>0. loop[p].was \in Statuses BY <1>1 DEF Judging
    <2>1. CASE v = "alive" BY <1>1, <1>10, <2>0, <2>1 DEF After, LoopType, Closing, Led
    <2>2. CASE v # "alive"
      <3>1. probes'[i].verdict = v BY <1>3, <1>4, <1>8, <1>10, <2>2 DEF Materialised, v
      <3>2. CASE v = "repeated"
        <4>1. next = NextStage(p) \/ next = [at |-> "create", was |-> loop[p].was, parent |-> i, then |-> "state"]
          BY <1>10, <3>2 DEF After
        <4>2. [at |-> "create", was |-> loop[p].was, parent |-> i, then |-> "state"] \in Creating
          BY <1>1, <2>0 DEF Creating
        <4>. QED BY <1>1, <1>7, <2>0, <3>1, <3>2, <4>1, <4>2, Plain DEF NextStage, LoopType, Led
      <3>3. CASE v = "down"
        <4>1. next = [at |-> "store", was |-> loop[p].was, probe |-> i] BY <1>10, <3>3 DEF After
        <4>2. next \in Settling BY <1>1, <2>0, <4>1 DEF Settling
        <4>. QED BY <1>1, <1>7, <3>1, <3>3, <4>1, <4>2 DEF LoopType, Led
      <3>4. CASE v \notin {"alive", "repeated", "down"}
        BY <1>10, <2>0, <3>4, Plain DEF After, NextStage
      <3>. QED BY <2>2, <3>2, <3>3, <3>4
    <2>. QED BY <2>1, <2>2
  <1>11. PICK j : j \in LoopType /\ Led(probes', j) /\ Goto(p, j)
    <2>1. CASE probes[i].verdict = "none" \/ loop[p].verdict = "alive"
      BY <1>10, <2>1 DEF Judge, v
    <2>2. CASE ~(probes[i].verdict = "none" \/ loop[p].verdict = "alive")
      <3>1. loop[p].was \in Statuses BY <1>1 DEF Judging
      <3>. QED BY <2>2, <3>1, Plain DEF Judge, NextStage
    <2>. QED BY <2>1, <2>2
  <1>. QED BY <1>7, <1>9, <1>11, QuietTick DEF Judge, At

LEMMA StoreStep ==
  ASSUME ProbeInv, NEW p \in Loop, Store(p)
  PROVE  ProbeInv' /\ Grows
  <1>1. RowsOK' /\ Grows /\ Unheard BY SameProbes DEF ProbeInv, Store
  <1>. DEFINE i == loop[p].probe
  <1>2. /\ loop[p] \in Settling /\ loop[p].was \in Statuses
        /\ i \in DOMAIN probes /\ i \in 1..MaxProbes /\ probes[i].verdict = "down"
    BY Carries DEF ProbeInv, Store, At, Led, Settling
  <1>3. last \in 0..MaxMessages /\ probes[FirstOf(i)].mark \in 0..MaxMessages
    BY <1>2, ProbesSeq DEF ProbeInv, WorldOK, ProbeRow
  <1>4. ASSUME NEW start \in 0..MaxMessages,
               Goto(p, [at |-> "open", was |-> loop[p].was, probe |-> i, start |-> start])
        PROVE  ProbeInv'
    <2>. DEFINE j == [at |-> "open", was |-> loop[p].was, probe |-> i, start |-> start]
    <2>1. j \in Opening BY <1>2 DEF Opening
    <2>2. j \in LoopType /\ Led(probes', j) BY <1>1, <1>2, <2>1 DEF LoopType, Led, Grows, Stands
    <2>. QED BY <1>1, <1>4, <2>2, QuietTick DEF Store, At
  <1>5. ASSUME Goto(p, NextStage(p)) PROVE ProbeInv'
    <2>1. NextStage(p) \in LoopType /\ Led(probes', NextStage(p)) BY <1>2, Plain DEF NextStage
    <2>. QED BY <1>1, <1>5, <2>1, QuietTick DEF Store, At
  <1>. QED BY <1>1, <1>3, <1>4, <1>5 DEF Store

LEMMA OpenStep ==
  ASSUME ProbeInv, NEW p \in Loop, OpenNumberProbeEpisode(p)
  PROVE  ProbeInv' /\ Grows
  <1>1. RowsOK' /\ Grows /\ Unheard BY SameProbes DEF ProbeInv, OpenNumberProbeEpisode
  <1>. DEFINE i == loop[p].probe
              j == [at |-> "recheck", was |-> loop[p].was, probe |-> i]
  <1>2. /\ loop[p] \in Opening /\ i \in DOMAIN probes /\ i \in 1..MaxProbes /\ probes[i].verdict = "down"
    BY Carries DEF ProbeInv, OpenNumberProbeEpisode, At, Led, Opening
  <1>3. j \in Settling BY <1>2 DEF Settling, Opening
  <1>4. j \in LoopType /\ Led(probes', j) BY <1>1, <1>2, <1>3 DEF LoopType, Led, Grows, Stands
  <1>5. LoopOK' BY <1>1, <1>4, LoopGoes DEF ProbeInv, OpenNumberProbeEpisode
  <1>6. WorldOK' BY DEF ProbeInv, WorldOK, OpenNumberProbeEpisode, world
  <1>7. CASE number.outage # NoOutage
    <2>1. UNCHANGED number BY <1>7 DEF OpenNumberProbeEpisode
    <2>2. OutageOK' BY <1>1, <2>1, OutageStays DEF ProbeInv
    <2>3. \A q \in Loop : loop[q].at \in {"recheck", "close"} => loop'[q] = loop[q]
      BY DEF ProbeInv, LoopOK, OpenNumberProbeEpisode, Goto, At
    <2>4. ReceivedIsNotDown' BY <1>1, <2>1, <2>3, NotDownStays DEF ProbeInv, OpenNumberProbeEpisode
    <2>. QED BY <1>1, <1>5, <1>6, <2>2, <2>4 DEF ProbeInv
  <1>8. CASE number.outage = NoOutage
    <2>1. number' = [number EXCEPT !.outage = [source |-> "probe", start |-> loop[p].start, by |-> i]]
      BY <1>8 DEF OpenNumberProbeEpisode
    <2>2. [source |-> "probe", start |-> loop[p].start, by |-> i] \in Outage BY <1>2 DEF Outage, Opening
    <2>3. OutageOK' BY <1>1, <1>2, <2>1, <2>2 DEF ProbeInv, OutageOK, Grows, Stands
    <2>4. number'.outage.by = i BY <2>1 DEF ProbeInv, OutageOK
    <2>5. loop'[p].at = "recheck" /\ loop'[p].probe = i
      BY DEF ProbeInv, LoopOK, OpenNumberProbeEpisode, Goto
    <2>6. ReceivedIsNotDown' BY <2>4, <2>5 DEF ReceivedIsNotDown
    <2>. QED BY <1>1, <1>5, <1>6, <2>3, <2>6 DEF ProbeInv
  <1>. QED BY <1>1, <1>7, <1>8

\* The repeated look: whoever was received is on the way to closing.
LEMMA RecheckStep ==
  ASSUME ProbeInv, NEW p \in Loop, Recheck(p)
  PROVE  ProbeInv' /\ Grows
  <1>1. RowsOK' /\ Grows /\ Unheard BY SameProbes DEF ProbeInv, Recheck
  <1>. DEFINE i == loop[p].probe
              j == IF Received(i) THEN [at |-> "close", was |-> loop[p].was, probe |-> i, then |-> "state"]
                   ELSE NextStage(p)
  <1>2. /\ loop[p] \in Settling /\ i \in DOMAIN probes /\ i \in 1..MaxProbes /\ loop[p].was \in Statuses
    BY Carries DEF ProbeInv, Recheck, At, Led, Settling
  <1>3. j \in LoopType /\ Led(probes', j)
    <2>1. CASE Received(i)
      <3>1. j = [at |-> "close", was |-> loop[p].was, probe |-> i, then |-> "state"] BY <2>1
      <3>2. j \in Closing BY <1>2, <3>1 DEF Closing
      <3>. QED BY <3>1, <3>2 DEF LoopType, Led
    <2>2. CASE ~Received(i) BY <1>2, <2>2, Plain DEF NextStage
    <2>. QED BY <2>1, <2>2
  <1>4. Goto(p, j) BY DEF Recheck
  <1>5. loop' = [loop EXCEPT ![p] = j] BY <1>4 DEF Goto
  <1>6. Received(i) => j.at = "close" /\ j.probe = i OBVIOUS
  <1>. HIDE DEF j
  <1>7. LoopOK' BY <1>1, <1>3, <1>4, LoopGoes DEF ProbeInv
  <1>8. WorldOK' BY DEF ProbeInv, WorldOK, Recheck, world
  <1>9. OutageOK' BY <1>1, OutageStays DEF ProbeInv, Recheck
  <1>10. ReceivedIsNotDown'
    <2>1. UNCHANGED <<number, probes, receipt, abandoned>> BY DEF Recheck
    <2>2. \A k : Received(k)' = Received(k) BY <2>1 DEF Received, FirstOf
    <2>. SUFFICES ASSUME number.outage.source = "probe", Received(number.outage.by)
                  PROVE  \/ \E q \in Loop : loop'[q].at \in {"recheck", "close"} /\ loop'[q].probe = number.outage.by
                         \/ receipt[number.outage.by] # "none" \/ receipt[FirstOf(number.outage.by)] # "none"
                         \/ abandoned
      BY <2>1 DEF ReceivedIsNotDown, Received, FirstOf
    <2>3. CASE \E q \in Loop : loop[q].at \in {"recheck", "close"} /\ loop[q].probe = number.outage.by
      <3>1. PICK q \in Loop : loop[q].at \in {"recheck", "close"} /\ loop[q].probe = number.outage.by BY <2>3
      <3>2. CASE q = p
        <4>1. loop'[q] = j BY <1>5, <3>2 DEF ProbeInv, LoopOK
        <4>. QED BY <1>6, <3>1, <3>2, <4>1
      <3>3. CASE q # p
        <4>1. loop'[q] = loop[q] BY <1>5, <3>3 DEF ProbeInv, LoopOK
        <4>. QED BY <3>1, <4>1
      <3>. QED BY <3>2, <3>3
    <2>. QED BY <2>3 DEF ProbeInv, ReceivedIsNotDown
  <1>. QED BY <1>1, <1>7, <1>8, <1>9, <1>10 DEF ProbeInv

\* Once it is closed, no episode is the probe's.
LEMMA Closes ==
  ASSUME OutageOK, CloseProbeEpisode
  PROVE  number'.outage.source # "probe" /\ number' \in [status : Statuses, outage : Outage]
  BY ProbesAssumption DEF OutageOK, CloseProbeEpisode, NoOutage, Outage

LEMMA CloseStep ==
  ASSUME ProbeInv, NEW p \in Loop, Close(p)
  PROVE  ProbeInv' /\ Grows
  <1>1. RowsOK' /\ Grows /\ Unheard BY SameProbes DEF ProbeInv, Close
  <1>2. number'.outage.source # "probe" /\ number' \in [status : Statuses, outage : Outage]
    BY Closes DEF ProbeInv, Close
  <1>3. Return(p) \in LoopType /\ Led(probes', Return(p))
    <2>1. loop[p] \in Closing BY Carries DEF ProbeInv, Close, At
    <2>. QED BY <2>1, Returns DEF Closing
  <1>4. LoopOK' BY <1>1, <1>3, LoopGoes DEF ProbeInv, Close
  <1>5. WorldOK' BY DEF ProbeInv, WorldOK, Close, world
  <1>. QED BY <1>1, <1>2, <1>4, <1>5 DEF ProbeInv, OutageOK, ReceivedIsNotDown

LEMMA CreateStep ==
  ASSUME ProbeInv, NEW p \in Loop, Create(p)
  PROVE  ProbeInv' /\ Grows
  <1>. USE ProbesAssumption
  <1>1. /\ loop[p] \in Creating
        /\ loop[p].parent # 0 => loop[p].parent \in DOMAIN probes /\ probes[loop[p].parent].verdict = "repeated"
    BY Carries DEF ProbeInv, Create, At, Led
  <1>2. CASE Open # {} \/ Len(probes) = MaxProbes
    <2>1. RowsOK' /\ Grows /\ Unheard BY <1>2, SameProbes DEF ProbeInv, Create
    <2>2. Return(p) \in LoopType /\ Led(probes', Return(p)) BY <1>1, Returns DEF Creating
    <2>. QED BY <1>2, <2>1, <2>2, QuietTick DEF Create, At
  <1>3. CASE ~(Open # {} \/ Len(probes) = MaxProbes)
    <2>. DEFINE n == Len(probes) + 1
                r == [parent |-> loop[p].parent, mark |-> last, sent |-> "no", out |-> FALSE,
                      stored |-> FALSE, cloud |-> "none", age |-> "young", received |-> FALSE, verdict |-> "none"]
                j == [at |-> "send", was |-> loop[p].was, probe |-> n, then |-> loop[p].then]
    <2>1. probes' = Append(probes, r) /\ Goto(p, j) BY <1>3 DEF Create
    <2>2. r \in ProbeRow BY <1>1 DEF ProbeRow, Creating, ProbeInv, WorldOK, Verdicts
    <2>3. r.parent = loop[p].parent /\ r.verdict = "none" OBVIOUS
    <2>4. loop[p].parent \in 0..MaxProbes /\ loop[p].was \in Statuses /\ loop[p].then \in {"state", "idle"}
      BY <1>1 DEF Creating
    <2>. HIDE DEF r
    <2>5. probes \in Seq(ProbeRow) /\ Len(probes) \in Nat /\ n <= MaxProbes /\ DOMAIN probes = 1..Len(probes)
      BY <1>3, ProbesSeq DEF ProbeInv, RowsOK
    <2>6. /\ probes' \in Seq(ProbeRow) /\ Len(probes') = n /\ DOMAIN probes' = 1..n
          /\ \A i \in 1..Len(probes) : probes'[i] = probes[i]
          /\ probes'[n] = r
      BY <2>1, <2>2, <2>5
    <2>7. Grows /\ Unheard BY <2>5, <2>6 DEF Grows, Stands, Unheard
    <2>8. RowsOK'
      <3>1. ASSUME NEW i \in DOMAIN probes'
            PROVE  /\ probes'[i].parent < i
                   /\ probes'[i].parent # 0 => probes'[probes'[i].parent].verdict = "repeated"
        <4>1. CASE i = n BY <1>1, <2>3, <2>4, <2>5, <2>6, <4>1
        <4>2. CASE i # n
          <5>1. i \in DOMAIN probes /\ probes'[i] = probes[i] BY <2>5, <2>6, <4>2
          <5>2. probes[i].parent < i /\ (probes[i].parent # 0 => probes[probes[i].parent].verdict = "repeated")
            BY <5>1 DEF ProbeInv, RowsOK
          <5>3. probes[i].parent # 0 => probes[i].parent \in DOMAIN probes
            BY <5>1, ProbesSeq DEF ProbeInv, FirstOf
          <5>. QED BY <2>5, <2>6, <5>1, <5>2, <5>3
        <4>. QED BY <4>1, <4>2
      <3>2. \A i, k \in Open' : i = k
        <4>1. ASSUME NEW k \in Open', k # n PROVE FALSE
          <5>1. k \in 1..Len(probes) /\ probes'[k].verdict = "none" BY <2>5, <2>6, <4>1 DEF Open
          <5>2. probes'[k] = probes[k] BY <2>6, <5>1
          <5>. QED BY <1>3, <2>5, <5>1, <5>2 DEF Open
        <4>. QED BY <4>1
      <3>. QED BY <2>5, <2>6, <3>1, <3>2 DEF RowsOK
    <2>9. j \in LoopType /\ Led(probes', j)
      <3>1. n \in 1..MaxProbes BY <2>5
      <3>2. j \in Sending BY <2>4, <3>1 DEF Sending
      <3>. QED BY <2>5, <2>6, <3>2 DEF LoopType, Led
    <2>. QED BY <2>1, <2>7, <2>8, <2>9, QuietTick DEF Create, At
  <1>. QED BY <1>2, <1>3

\* One row changes in a field that neither verdict nor parent is.
LEMMA FieldWritten ==
  ASSUME ProbeInv, NEW i \in DOMAIN probes,
         \/ \E v \in BOOLEAN : probes' = [probes EXCEPT ![i].out = v]
         \/ probes' = [probes EXCEPT ![i].stored = TRUE]
         \/ \E v \in {"delivered", "failed"} : probes' = [probes EXCEPT ![i].cloud = v]
         \/ \E v \in {"waited", "late"} : probes' = [probes EXCEPT ![i].age = v]
  PROVE  RowsOK' /\ Grows /\ Unheard
  <1>. DEFINE r == probes[i]
  <1>1. r \in ProbeRow BY ProbesSeq DEF ProbeInv
  <1>2. PICK x : /\ probes' = [probes EXCEPT ![i] = x]
                 /\ \/ \E v \in BOOLEAN : x = [r EXCEPT !.out = v]
                    \/ x = [r EXCEPT !.stored = TRUE]
                    \/ \E v \in {"delivered", "failed"} : x = [r EXCEPT !.cloud = v]
                    \/ \E v \in {"waited", "late"} : x = [r EXCEPT !.age = v]
    OBVIOUS
  <1>. HIDE DEF r
  <1>3. x \in ProbeRow BY <1>1, <1>2 DEF ProbeRow
  <1>4. x.parent = r.parent /\ x.received = r.received /\ x.verdict = r.verdict BY <1>1, <1>2 DEF ProbeRow
  <1>5. RowsOK' /\ Grows BY <1>2, <1>3, <1>4, OneWritten DEF ProbeInv, r
  <1>6. Unheard BY <1>2, <1>4 DEF Unheard, r
  <1>. QED BY <1>5, <1>6

LEMMA SendStep ==
  ASSUME ProbeInv, NEW p \in Loop, SendProbe(p)
  PROVE  ProbeInv' /\ Grows
  <1>1. loop[p] \in Sending /\ loop[p].probe \in DOMAIN probes
    BY Carries DEF ProbeInv, SendProbe, At, Led
  <1>2. PICK out \in BOOLEAN, ok \in BOOLEAN :
          /\ probes' = [probes EXCEPT ![loop[p].probe].out = out]
          /\ Goto(p, [loop[p] EXCEPT !.at = IF ok THEN "mark_sent" ELSE "mark_failed"])
    BY DEF SendProbe
  <1>3. RowsOK' /\ Grows /\ Unheard BY <1>1, <1>2, FieldWritten
  <1>4. PICK j : j = [loop[p] EXCEPT !.at = IF ok THEN "mark_sent" ELSE "mark_failed"] OBVIOUS
  <1>5. j \in Sending /\ j.probe = loop[p].probe BY <1>1, <1>4 DEF Sending
  <1>6. j \in LoopType /\ Led(probes', j) BY <1>1, <1>3, <1>5 DEF LoopType, Led, Sending, Grows
  <1>. QED BY <1>2, <1>3, <1>4, <1>6, QuietTick DEF SendProbe, At

LEMMA MarkStep ==
  ASSUME ProbeInv, NEW p \in Loop, MarkProbeSent(p)
  PROVE  ProbeInv' /\ Grows
  <1>. DEFINE i == loop[p].probe
              failed == At(p, "mark_failed")
              x == [probes[i] EXCEPT !.sent = IF failed THEN "failed" ELSE "yes", !.mark = last, !.age = "young"]
              v == IF failed /\ ~probes[i].received THEN "send_failed" ELSE "none"
              r == Closed(x, v)
  <1>1. loop[p] \in Sending /\ i \in DOMAIN probes
    BY Carries DEF ProbeInv, MarkProbeSent, Led
  <1>2. probes[i] \in ProbeRow /\ last \in 0..MaxMessages BY <1>1, ProbesSeq DEF ProbeInv, WorldOK
  <1>. HIDE DEF i
  <1>3. x \in ProbeRow
    <2>1. (IF failed THEN "failed" ELSE "yes") \in {"no", "yes", "failed"} OBVIOUS
    <2>. HIDE DEF failed
    <2>. QED BY <1>2, <2>1, Zenon DEF ProbeRow
  <1>4. x.parent = probes[i].parent /\ x.received = probes[i].received /\ x.verdict = probes[i].verdict
    BY <1>2 DEF ProbeRow
  <1>5. v \in Verdicts BY DEF Verdicts
  <1>6. probes' = [probes EXCEPT ![i] = r]
    <2>1. probes' = [probes EXCEPT ![i] = Sent(@, failed)] BY DEF MarkProbeSent, i
    <2>. QED BY <2>1 DEF Sent
  <1>7. probes[i].received => v = "none" OBVIOUS
  <1>. HIDE DEF x, v
  <1>8. r \in ProbeRow /\ r.parent = x.parent /\ r.received = x.received
        /\ r.verdict = IF x.verdict # "none" THEN x.verdict ELSE v
    BY <1>3, <1>5, ClosedRow
  <1>. HIDE DEF r
  <1>9. RowsOK' /\ Grows BY <1>1, <1>4, <1>6, <1>7, <1>8, OneWritten DEF ProbeInv
  <1>10. Unheard BY <1>4, <1>6, <1>8 DEF Unheard
  <1>11. Return(p) \in LoopType /\ Led(probes', Return(p)) BY <1>1, Returns DEF Sending
  <1>. QED BY <1>9, <1>10, <1>11, QuietTick DEF MarkProbeSent

LEMMA StateStep ==
  ASSUME ProbeInv, NEW p \in Loop, State(p)
  PROVE  ProbeInv' /\ Grows
  <1>1. RowsOK' /\ Grows /\ Unheard BY SameProbes DEF ProbeInv, State
  <1>. DEFINE to == ReconcileStatus(loop[p].was)
              then == IF session.state = "open" THEN "traffic" ELSE "idle"
              j == IF to # "none" THEN [at |-> "status", to |-> to, then |-> then]
                   ELSE IF then = "idle" THEN Idle ELSE [at |-> "traffic"]
  <1>2. to \in Statuses \cup {"none"} /\ then \in {"traffic", "idle"} BY DEF ReconcileStatus, Statuses
  <1>3. Goto(p, j) BY DEF State
  <1>. HIDE DEF to, then
  <1>4. j \in LoopType /\ Led(probes', j)
    <2>1. CASE to # "none"
      <3>1. j = [at |-> "status", to |-> to, then |-> then] BY <2>1
      <3>2. j \in Reconciling BY <1>2, <2>1, <3>1 DEF Reconciling
      <3>. QED BY <3>1, <3>2 DEF LoopType, Led
    <2>2. CASE to = "none" BY <2>2, Plain DEF Idle
    <2>. QED BY <2>1, <2>2
  <1>. HIDE DEF j
  <1>. QED BY <1>1, <1>3, <1>4, QuietTick DEF State, At

\* A status opens no probe's episode.
LEMMA Updates ==
  ASSUME ProbeInv, NEW status \in Statuses, UpdateNumberStatus(status), Grows
  PROVE  OutageOK' /\ (number'.outage.source = "probe" => number'.outage = number.outage)
  <1>1. number'.outage = number.outage \/ (number'.outage \in Outage /\ number'.outage.source # "probe")
    <2>1. NoOutage \in Outage /\ NoOutage.source # "probe" BY ProbesAssumption DEF NoOutage, Outage
    <2>2. [source |-> "webhook", start |-> last, by |-> 0] \in Outage
      BY ProbesAssumption DEF ProbeInv, WorldOK, Outage
    <2>. QED BY <2>1, <2>2 DEF UpdateNumberStatus
  <1>2. number' \in [status : Statuses, outage : Outage]
    BY <1>1 DEF ProbeInv, OutageOK, UpdateNumberStatus
  <1>. QED BY <1>1, <1>2 DEF ProbeInv, OutageOK, Grows, Stands

LEMMA StatusStep ==
  ASSUME ProbeInv, NEW p \in Loop, Status(p)
  PROVE  ProbeInv' /\ Grows
  <1>1. RowsOK' /\ Grows /\ Unheard BY SameProbes DEF ProbeInv, Status
  <1>2. loop[p] \in Reconciling BY Carries DEF ProbeInv, Status, At
  <1>3. OutageOK' /\ (number'.outage.source = "probe" => number'.outage = number.outage)
    BY <1>1, <1>2, Updates DEF Status, Reconciling
  <1>4. [at |-> loop[p].then] \in LoopType /\ Led(probes', [at |-> loop[p].then])
    BY <1>2, Plain DEF Reconciling
  <1>5. LoopOK' BY <1>1, <1>4, LoopGoes DEF ProbeInv, Status
  <1>6. WorldOK' BY DEF ProbeInv, WorldOK, Status, world
  <1>7. \A q \in Loop : loop[q].at \in {"recheck", "close"} => loop'[q] = loop[q]
    BY DEF ProbeInv, LoopOK, Status, Goto, At
  <1>8. ReceivedIsNotDown' BY <1>1, <1>3, <1>7, NotDownStays DEF ProbeInv, Status
  <1>. QED BY <1>1, <1>3, <1>5, <1>6, <1>8 DEF ProbeInv

LEMMA TrafficStep ==
  ASSUME ProbeInv, NEW p \in Loop, Traffic(p) \/ Trigger(p)
  PROVE  ProbeInv' /\ Grows
  <1>1. RowsOK' /\ Grows /\ Unheard BY SameProbes DEF ProbeInv, Traffic, Trigger
  <1>2. ASSUME NEW j, Goto(p, j),
               j \in {[at |-> "close", was |-> "connected", probe |-> 0, then |-> "trigger"],
                      [at |-> "create", was |-> "connected", parent |-> 0, then |-> "idle"]}
        PROVE  ProbeInv'
    <2>1. j \in Closing \cup Creating BY <1>2, ProbesAssumption DEF Closing, Creating, Statuses
    <2>2. j \in LoopType /\ Led(probes', j) BY <1>2, <2>1 DEF LoopType, Led
    <2>. QED BY <1>1, <1>2, <2>2, QuietTick DEF Traffic, Trigger, At
  <1>3. ASSUME NEW j, Goto(p, j), j \in {Idle, [at |-> "trigger"]} PROVE ProbeInv'
    <2>1. j \in LoopType /\ Led(probes', j) BY <1>3, Plain DEF Idle
    <2>. QED BY <1>1, <1>3, <2>1, QuietTick DEF Traffic, Trigger, At
  <1>. QED BY <1>1, <1>2, <1>3 DEF Traffic, Trigger

LEMMA FailStep ==
  ASSUME ProbeInv, NEW p \in Loop, StepFails(p)
  PROVE  ProbeInv' /\ Grows
  <1>1. RowsOK' /\ Grows /\ Unheard BY SameProbes DEF ProbeInv, StepFails
  <1>2. PICK j : Goto(p, j) /\ j \in LoopType /\ Led(probes', j)
    <2>1. Idle \in LoopType /\ Led(probes', Idle) BY Plain DEF Idle
    <2>2. loop[p].at \in {"judge", "store", "open", "recheck"} =>
            NextStage(p) \in LoopType /\ Led(probes', NextStage(p))
      <3>1. loop[p].at \in {"judge", "store", "open", "recheck"} => loop[p].was \in Statuses
        BY Carries DEF ProbeInv, Judging, Settling, Opening
      <3>. QED BY <3>1, Plain DEF NextStage
    <2>. QED BY <2>1, <2>2 DEF StepFails
  <1>3. LoopOK' BY <1>1, <1>2, LoopGoes DEF ProbeInv
  <1>4. OutageOK' BY <1>1, OutageStays DEF ProbeInv, StepFails
  <1>5. WorldOK' BY DEF ProbeInv, WorldOK, StepFails, world
  <1>6. \A q \in Loop : loop[q].at \in {"recheck", "close"} => loop'[q] = loop[q] \/ abandoned'
    BY <1>2 DEF ProbeInv, LoopOK, Goto, StepFails
  <1>7. ReceivedIsNotDown'
    <2>1. abandoned => abandoned' BY DEF StepFails
    <2>. QED BY <1>1, <1>6, <2>1, NotDownStays DEF ProbeInv, StepFails
  <1>. QED BY <1>1, <1>3, <1>4, <1>5, <1>7 DEF ProbeInv

-----------------------------------------------------------------------------
(* Webhooks, the reconnect route and the session. *)

\* A receipt of a probe, or of its first, keeps its handler from the episode's end.
LEMMA ReceiptStep ==
  ASSUME ProbeInv, NEW i \in DOMAIN probes, RecordProbeReceipt(i)
  PROVE  ProbeInv' /\ Grows
  <1>. DEFINE r == [probes[i] EXCEPT !.received = TRUE]
              k == number.outage.by
  <1>1. probes[i] \in ProbeRow /\ i \in 1..MaxProbes BY ProbesSeq DEF ProbeInv
  <1>2. /\ r \in ProbeRow /\ r.parent = probes[i].parent /\ r.verdict = probes[i].verdict
        /\ probes' = [probes EXCEPT ![i] = r]
    BY <1>1 DEF ProbeRow, RecordProbeReceipt
  <1>3. probes[i].verdict = "none" => r.verdict \in {"none", "alive"} BY <1>2
  <1>. HIDE DEF r
  <1>4. RowsOK' /\ Grows BY <1>2, <1>3, OneWritten DEF ProbeInv
  <1>5. LoopOK' /\ OutageOK' BY <1>4, LoopStays, OutageStays DEF ProbeInv, RecordProbeReceipt
  <1>6. WorldOK' BY <1>1 DEF ProbeInv, WorldOK, RecordProbeReceipt, world
  <1>7. ASSUME number.outage.source = "probe", Received(number.outage.by)'
        PROVE  \/ \E q \in Loop : loop[q].at \in {"recheck", "close"} /\ loop[q].probe = k
               \/ receipt'[k] # "none" \/ receipt'[FirstOf(k)] # "none"
               \/ abandoned
    <2>1. k \in DOMAIN probes /\ probes[k].verdict = "down" BY <1>7 DEF ProbeInv, OutageOK
    <2>2. FirstOf(k) \in DOMAIN probes /\ (FirstOf(k) # k => probes[FirstOf(k)].verdict = "repeated")
      BY <2>1, ProbesSeq DEF ProbeInv
    <2>3. \A n \in DOMAIN probes : n # i => probes'[n] = probes[n] BY <1>2
    <2>4. \A n \in DOMAIN probes : n # i => receipt'[n] = receipt[n] BY <1>1, ProbesSeq DEF RecordProbeReceipt, ProbeInv, WorldOK
    <2>5. CASE i \in {k, FirstOf(k)}
      <3>1. receipt'[i] # "none"
        BY <1>1, <2>1, <2>2, <2>5 DEF RecordProbeReceipt, ProbeInv, WorldOK
      <3>. QED BY <2>5, <3>1
    <2>6. CASE i \notin {k, FirstOf(k)}
      <3>1. FirstOf(number.outage.by)' = FirstOf(k) BY <2>1, <1>4 DEF FirstOf, Grows, RecordProbeReceipt
      <3>2. Received(k) BY <1>7, <2>1, <2>2, <2>3, <2>6, <3>1 DEF Received, RecordProbeReceipt
      <3>3. \/ \E q \in Loop : loop[q].at \in {"recheck", "close"} /\ loop[q].probe = k
            \/ receipt[k] # "none" \/ receipt[FirstOf(k)] # "none"
            \/ abandoned
        BY <1>7, <3>2 DEF ProbeInv, ReceivedIsNotDown
      <3>. QED BY <2>1, <2>2, <2>4, <2>6, <3>3
    <2>. QED BY <2>5, <2>6
  <1>8. ReceivedIsNotDown'
    <2>1. UNCHANGED <<number, loop, abandoned>> BY DEF RecordProbeReceipt
    <2>2. number.outage.source = "probe" => FirstOf(number.outage.by)' = FirstOf(k)
      BY <1>4, <2>1 DEF FirstOf, Grows, ProbeInv, OutageOK
    <2>. QED BY <1>7, <2>1, <2>2 DEF ReceivedIsNotDown
  <1>. QED BY <1>4, <1>5, <1>6, <1>8 DEF ProbeInv

\* The handler goes on: what it still owes the probe is owed until it is done.
LEMMA ReviveStep ==
  ASSUME ProbeInv, NEW i \in DOMAIN probes, ReviveChildren(i)
  PROVE  ProbeInv' /\ Grows
  <1>0. DOMAIN probes = 1..Len(probes) /\ Len(probes) \in Nat /\ i \in 1..MaxProbes
    BY ProbesSeq DEF ProbeInv
  <1>1. probes' = [j \in DOMAIN probes |-> IF probes[j].parent = i THEN Closed(probes[j], "alive") ELSE probes[j]]
    BY DEF ReviveChildren
  <1>2. ASSUME NEW j \in DOMAIN probes
        PROVE  /\ probes'[j] \in ProbeRow
               /\ probes'[j].parent = probes[j].parent /\ probes'[j].received = probes[j].received
               /\ probes'[j].verdict \in {probes[j].verdict, IF probes[j].verdict = "none" THEN "alive" ELSE probes[j].verdict}
    <2>1. probes[j] \in ProbeRow BY ProbesSeq DEF ProbeInv
    <2>2. "alive" \in Verdicts BY DEF Verdicts
    <2>. QED BY <1>1, <2>1, <2>2, ClosedRow
  <1>3. DOMAIN probes' = DOMAIN probes BY <1>1
  <1>4. Grows /\ Unheard BY <1>2, <1>3 DEF Grows, Stands, Unheard
  <1>5. RowsOK'
    <2>1. probes' \in Seq(ProbeRow) /\ Len(probes') = Len(probes)
      <3>1. probes' \in [1..Len(probes) -> ProbeRow] BY <1>0, <1>1, <1>2
      <3>. QED BY <1>0, <3>1
    <2>2. \A j, k \in Open' : j = k
      <3>1. Open' \subseteq Open BY <1>2, <1>3 DEF Open
      <3>. QED BY <3>1 DEF ProbeInv, RowsOK
    <2>3. ASSUME NEW j \in DOMAIN probes
          PROVE  /\ probes'[j].parent < j
                 /\ probes'[j].parent # 0 => probes'[probes'[j].parent].verdict = "repeated"
      <3>1. probes[j].parent < j /\ (probes[j].parent # 0 => probes[probes[j].parent].verdict = "repeated")
        BY DEF ProbeInv, RowsOK
      <3>2. probes[j].parent # 0 => probes[j].parent \in DOMAIN probes BY ProbesSeq DEF ProbeInv, FirstOf
      <3>. QED BY <1>2, <1>4, <3>1, <3>2 DEF Grows, Stands
    <2>. QED BY <1>3, <2>1, <2>2, <2>3 DEF ProbeInv, RowsOK
  <1>6. LoopOK' /\ OutageOK' BY <1>4, LoopStays, OutageStays DEF ProbeInv, ReviveChildren
  <1>7. WorldOK' BY <1>0 DEF ProbeInv, WorldOK, ReviveChildren, world
  <1>8. ReceivedIsNotDown'
    <2>1. UNCHANGED <<number, loop, abandoned>> BY DEF ReviveChildren
    <2>2. \A k \in 1..MaxProbes : receipt[k] # "none" => receipt'[k] # "none"
      BY DEF ReviveChildren, ProbeInv, WorldOK
    <2>. SUFFICES ASSUME number.outage.source = "probe", Received(number.outage.by)'
                  PROVE  \/ \E q \in Loop : loop[q].at \in {"recheck", "close"} /\ loop[q].probe = number.outage.by
                         \/ receipt'[number.outage.by] # "none" \/ receipt[FirstOf(number.outage.by)]' # "none"
                         \/ abandoned
      BY <2>1 DEF ReceivedIsNotDown
    <2>. DEFINE k == number.outage.by
    <2>3. k \in DOMAIN probes BY DEF ProbeInv, OutageOK
    <2>4. FirstOf(k) \in DOMAIN probes /\ k \in 1..MaxProbes /\ FirstOf(k) \in 1..MaxProbes
      BY <2>3, ProbesSeq DEF ProbeInv
    <2>5. FirstOf(number.outage.by)' = FirstOf(k) BY <1>2, <2>1, <2>3 DEF FirstOf
    <2>6. Received(k) BY <1>2, <2>1, <2>3, <2>4, <2>5 DEF Received
    <2>7. \/ \E q \in Loop : loop[q].at \in {"recheck", "close"} /\ loop[q].probe = k
          \/ receipt[k] # "none" \/ receipt[FirstOf(k)] # "none"
          \/ abandoned
      BY <2>6 DEF ProbeInv, ReceivedIsNotDown
    <2>. QED BY <2>2, <2>4, <2>5, <2>7
  <1>. QED BY <1>4, <1>5, <1>6, <1>7, <1>8 DEF ProbeInv

LEMMA LateStep ==
  ASSUME ProbeInv, NEW i \in DOMAIN probes, CloseLate(i) \/ ReceiptFails(i)
  PROVE  ProbeInv' /\ Grows
  <1>1. RowsOK' /\ Grows /\ Unheard BY SameProbes DEF ProbeInv, CloseLate, ReceiptFails
  <1>2. LoopOK' BY <1>1, LoopStays DEF ProbeInv, CloseLate, ReceiptFails
  <1>3. WorldOK'
    <2>1. i \in 1..MaxProbes BY ProbesSeq DEF ProbeInv
    <2>. QED BY <2>1 DEF ProbeInv, WorldOK, CloseLate, ReceiptFails, world
  <1>4. CASE CloseLate(i)
    <2>1. number'.outage.source # "probe" /\ number' \in [status : Statuses, outage : Outage]
      BY <1>4, Closes DEF ProbeInv, CloseLate
    <2>. QED BY <1>1, <1>2, <1>3, <2>1 DEF ProbeInv, OutageOK, ReceivedIsNotDown
  <1>5. CASE ReceiptFails(i)
    <2>1. OutageOK' BY <1>1, <1>5, OutageStays DEF ProbeInv, ReceiptFails
    <2>2. ReceivedIsNotDown' BY <1>5 DEF ReceiptFails, ReceivedIsNotDown
    <2>. QED BY <1>1, <1>2, <1>3, <2>1, <2>2 DEF ProbeInv
  <1>. QED BY <1>4, <1>5

\* Fields of a probe, written by delivery statuses, the store and the clock.
LEMMA FieldStep ==
  ASSUME ProbeInv, NEW i \in DOMAIN probes, RecordCloudStatus(i) \/ ProbeArrives(i) \/ TimePasses(i)
  PROVE  ProbeInv' /\ Grows
  <1>1. RowsOK' /\ Grows /\ Unheard
    <2>1. CASE RecordCloudStatus(i) BY <2>1, FieldWritten DEF RecordCloudStatus
    <2>2. CASE ProbeArrives(i) BY <2>2, FieldWritten DEF ProbeArrives
    <2>3. CASE TimePasses(i) BY <2>3, FieldWritten DEF TimePasses
    <2>. QED BY <2>1, <2>2, <2>3
  <1>2. WorldOK' BY DEF ProbeInv, WorldOK, RecordCloudStatus, ProbeArrives, TimePasses, world
  <1>. QED BY <1>1, <1>2, QuietWorld DEF RecordCloudStatus, ProbeArrives, TimePasses

LEMMA EventStep ==
  ASSUME ProbeInv, HandleConnectionEvent \/ MarkLoggedOut
  PROVE  ProbeInv' /\ Grows
  <1>1. RowsOK' /\ Grows /\ Unheard BY SameProbes DEF ProbeInv, HandleConnectionEvent, MarkLoggedOut
  <1>2. LoopOK' BY <1>1, LoopStays DEF ProbeInv, HandleConnectionEvent, MarkLoggedOut
  <1>3. WorldOK' BY DEF ProbeInv, WorldOK, HandleConnectionEvent, MarkLoggedOut
  <1>4. OutageOK' /\ (number'.outage.source = "probe" => number'.outage = number.outage)
    <2>1. CASE \E status \in Statuses : UpdateNumberStatus(status) BY <1>1, <2>1, Updates
    <2>2. CASE UNCHANGED number BY <1>1, <2>2, OutageStays DEF ProbeInv
    <2>. QED BY <2>1, <2>2 DEF HandleConnectionEvent, MarkLoggedOut, ProbeInv, WorldOK, Statuses
  <1>5. ReceivedIsNotDown' BY <1>1, <1>4, NotDownStays DEF ProbeInv, HandleConnectionEvent, MarkLoggedOut
  <1>. QED BY <1>1, <1>2, <1>3, <1>4, <1>5 DEF ProbeInv

LEMMA SessionStep ==
  ASSUME ProbeInv, ReconnectLink \/ SessionFails \/ SessionOpens \/ MessageArrives \/ UNCHANGED vars
  PROVE  ProbeInv' /\ Grows
  <1>1. RowsOK' /\ Grows /\ Unheard
    BY SameProbes DEF ProbeInv, ReconnectLink, SessionFails, SessionOpens, MessageArrives, Turn, vars
  <1>2. WorldOK'
    <2>0. \A s : s \in {"open", "connecting", "close"} =>
            /\ [state |-> s, alive |-> FALSE] \in [state : {"open", "connecting", "close"}, alive : BOOLEAN]
            /\ [state |-> s, alive |-> FALSE].alive = FALSE
      OBVIOUS
    <2>1. CASE ReconnectLink
      <3>1. session' = [state |-> "close", alive |-> FALSE] BY <2>1 DEF ReconnectLink
      <3>. QED BY <2>0, <2>1, <3>1 DEF ProbeInv, WorldOK, ReconnectLink, Statuses
    <2>2. CASE SessionFails
      <3>1. /\ session' \in [state : {"open", "connecting", "close"}, alive : BOOLEAN]
            /\ session'.alive = FALSE
        BY <2>0, <2>2 DEF ProbeInv, WorldOK, SessionFails, Turn
      <3>2. session'.alive => session'.state = "open" BY <3>1
      <3>3. events' \subseteq Statuses BY <2>2 DEF ProbeInv, WorldOK, SessionFails, Turn, Statuses
      <3>4. UNCHANGED <<last, receipt, panel, abandoned>> BY <2>2 DEF SessionFails, Turn
      <3>5. /\ last' \in 0..MaxMessages /\ receipt' \in [1..MaxProbes -> {"none", "children", "close"}]
            /\ panel' \in {"idle", "logged_out", "rest"} /\ abandoned' \in BOOLEAN
        BY <3>4 DEF ProbeInv, WorldOK
      <3>. QED BY <3>1, <3>2, <3>3, <3>5, Zenon DEF WorldOK
    <2>3. CASE SessionOpens
      <3>1. PICK a \in BOOLEAN : session' = [state |-> "open", alive |-> a]
        BY <2>3 DEF SessionOpens, Turn
      <3>2. session' \in [state : {"open", "connecting", "close"}, alive : BOOLEAN] /\ session'.state = "open"
        BY <3>1
      <3>3. events' \subseteq Statuses BY <2>3 DEF ProbeInv, WorldOK, SessionOpens, Turn, Statuses
      <3>4. UNCHANGED <<last, receipt, panel, abandoned>> BY <2>3 DEF SessionOpens, Turn
      <3>5. /\ last' \in 0..MaxMessages /\ receipt' \in [1..MaxProbes -> {"none", "children", "close"}]
            /\ panel' \in {"idle", "logged_out", "rest"} /\ abandoned' \in BOOLEAN
        BY <3>4 DEF ProbeInv, WorldOK
      <3>. QED BY <3>2, <3>3, <3>5, Zenon DEF WorldOK
    <2>4. CASE MessageArrives BY <2>4, ProbesAssumption DEF ProbeInv, WorldOK, MessageArrives
    <2>5. CASE UNCHANGED vars BY <2>5 DEF ProbeInv, WorldOK, vars
    <2>. QED BY <2>1, <2>2, <2>3, <2>4, <2>5
  <1>. QED BY <1>1, <1>2, QuietWorld DEF ReconnectLink, SessionFails, SessionOpens, MessageArrives, Turn, vars

LEMMA ProbeStep == ProbeInv /\ [Next]_vars => ProbeInv' /\ Grows
  BY LookStep, JudgeStep, StoreStep, OpenStep, RecheckStep, CloseStep, CreateStep, SendStep, MarkStep, StateStep,
     StatusStep, TrafficStep, FailStep, ReceiptStep, ReviveStep, LateStep, FieldStep, EventStep, SessionStep
  DEF Next, Tick

-----------------------------------------------------------------------------
(* The run's specification. *)

LEMMA InitNotices == ASSUME N!Init \/ Fallen \/ Unwatched PROVE NoticeInv
  <1>. USE ProbesAssumption, NoticesAssumption
  <1>1. 0 \in 0..MaxMessages /\ 0 \in 0..MaxNotices OBVIOUS
  <1>2. N!TypeOK
    <2>1. N!Healthy \in RowType BY <1>1 DEF N!Healthy, RowType
    <2>2. \A b \in BOOLEAN : [N!Healthy EXCEPT !.down = "state", !.off = b, !.aged = TRUE] \in RowType
      BY <1>1, Zenon DEF N!Healthy, RowType
    <2>3. row \in RowType BY <2>1, <2>2 DEF N!Init, Fallen, Unwatched
    <2>4. N!Unsaid \in [N!Notice -> Nat] BY DEF N!Unsaid
    <2>. QED BY <1>1, <2>3, <2>4 DEF N!Init, Fallen, Unwatched, N!TypeOK, RowType
  <1>3. N!EpisodesAgree /\ ProbesOwn
    <2>1. N!Healthy.down = "none" /\ \A b : [N!Healthy EXCEPT !.down = "state", !.off = b, !.aged = TRUE].down = "state"
      BY DEF N!Healthy
    <2>. QED BY <2>1 DEF N!Init, Fallen, Unwatched, N!EpisodesAgree, ProbesOwn
  <1>4. Counted
    <2>. SUFFICES ASSUME NEW n \in N!Notice
                  PROVE  said[n] + Cardinality(Holders(n)) <= lost + undone + Covered(n)
      BY DEF Counted
    <2>1. Holders(n) = {} BY DEF N!Init, Fallen, Unwatched, N!Idle, Holders
    <2>2. Cardinality(Holders(n)) = 0 BY <2>1, FS_EmptySet
    <2>3. said[n] = 0 /\ lost = 0 /\ undone = 0 BY DEF N!Init, Fallen, Unwatched, N!Unsaid
    <2>. QED BY <2>2, <2>3 DEF Covered
  <1>. QED BY <1>2, <1>3, <1>4 DEF NoticeInv, AgreeInv

LEMMA InitProbes == ASSUME InitPast \/ Resting PROVE ProbeInv
  <1>. USE ProbesAssumption
  <1>1. WorldOK
    <2>1. /\ session \in [state : {"open", "connecting", "close"}, alive : BOOLEAN]
          /\ session.alive => session.state = "open"
      <3>1. session \in {[state |-> "open", alive |-> TRUE], [state |-> "close", alive |-> FALSE]}
        BY DEF InitPast, Fresh, Hearing, Failing, Deploy, Begin, Resting
      <3>2. session \in [state : {"open", "connecting", "close"}, alive : BOOLEAN]
        <4>1. [state |-> "open", alive |-> TRUE] \in [state : {"open", "connecting", "close"}, alive : BOOLEAN] OBVIOUS
        <4>2. [state |-> "close", alive |-> FALSE] \in [state : {"open", "connecting", "close"}, alive : BOOLEAN] OBVIOUS
        <4>. QED BY <3>1, <4>1, <4>2, Zenon
      <3>3. session.state = "open" \/ session.alive = FALSE BY <3>1
      <3>. QED BY <3>2, <3>3
    <2>2. last \in {0, MaxMessages} /\ receipt = [i \in 1..MaxProbes |-> "none"] /\ events = {}
      BY DEF InitPast, Fresh, Hearing, Failing, Deploy, Begin, Resting
    <2>3. panel \in {"idle", "rest"} /\ abandoned = FALSE
      BY DEF InitPast, Fresh, Hearing, Failing, Deploy, Begin, Resting
    <2>4. last \in 0..MaxMessages /\ receipt \in [1..MaxProbes -> {"none", "children", "close"}] BY <2>2
    <2>5. events \subseteq Statuses BY <2>2
    <2>6. panel \in {"idle", "logged_out", "rest"} /\ abandoned \in BOOLEAN BY <2>3
    <2>. QED BY <2>1, <2>4, <2>5, <2>6, Zenon DEF WorldOK
  <1>2. probes = <<>> \/ probes = <<Begun>>
    BY DEF InitPast, Fresh, Hearing, Failing, Deploy, Begin, Resting
  <1>3. Begun \in ProbeRow /\ Begun.parent = 0 /\ Begun.verdict = "repeated"
    BY DEF Begun, ProbeRow, Verdicts
  <1>. HIDE DEF Begun
  <1>4. RowsOK
    <2>1. CASE probes = <<>> BY <2>1 DEF RowsOK, Open
    <2>2. CASE probes = <<Begun>>
      <3>1. probes \in Seq(ProbeRow) /\ Len(probes) = 1 /\ DOMAIN probes = {1} /\ probes[1] = Begun BY <1>3, <2>2
      <3>. QED BY <1>3, <3>1 DEF RowsOK, Open
    <2>. QED BY <1>2, <2>1, <2>2
  <1>5. LoopOK
    <2>1. \A a \in {"idle", "down"} : [at |-> a] \in LoopType /\ Led(probes, [at |-> a])
      BY DEF LoopType, Between, Led
    <2>2. Repeating \in Creating BY DEF Repeating, Creating, Statuses
    <2>3. probes = <<Begun>> => Led(probes, Repeating)
      BY <1>3 DEF Led, Repeating
    <2>4. Repeating \in LoopType BY <2>2 DEF LoopType
    <2>5. \/ /\ probes = <<Begun>>
             /\ \E up : loop = [p \in Loop |-> IF p \notin up THEN [at |-> "down"] ELSE IF p = p1 THEN Repeating ELSE Idle]
          \/ \E up : loop = [p \in Loop |-> IF p \notin up THEN [at |-> "down"] ELSE Idle]
      BY DEF InitPast, Fresh, Hearing, Failing, Deploy, Begin, Resting
    <2>. HIDE DEF Repeating
    <2>. QED BY <2>1, <2>3, <2>4, <2>5 DEF LoopOK, Idle
  <1>6. OutageOK /\ ReceivedIsNotDown
    BY DEF InitPast, Fresh, Hearing, Failing, Deploy, Begin, Resting, OutageOK, ReceivedIsNotDown, NoOutage, Outage, Statuses
  <1>. QED BY <1>1, <1>4, <1>5, <1>6 DEF ProbeInv

NumbersInv == ProbeInv /\ NoticeInv

LEMMA NumbersStep ==
  NumbersInv /\ [NextNumbers]_<<probing, watching>> => NumbersInv' /\ (Stands \/ UNCHANGED vars)
  <1>. SUFFICES ASSUME NumbersInv, [NextNumbers]_<<probing, watching>>
                PROVE  NumbersInv' /\ (Stands \/ UNCHANGED vars)
    OBVIOUS
  <1>1. [Next]_vars BY DEF NextNumbers, probing
  <1>2. [N!Next]_(N!vars) BY DEF NextNumbers, watching, N!vars
  <1>. QED BY <1>1, <1>2, ProbeStep, NoticeStep DEF NumbersInv, Grows

(* What the code keeps of probes and outages holds from the start of every
   behaviour to its end. *)
THEOREM Invariance == SpecNumbers => []NumbersInv
  <1>1. InitNumbers => NumbersInv BY InitNotices, InitProbes DEF InitNumbers, NumbersInv
  <1>2. NumbersInv /\ [NextNumbers]_<<probing, watching>> => NumbersInv' BY NumbersStep
  <1>. QED BY <1>1, <1>2, PTL DEF SpecNumbers

(* The probes and the outages keep their types, and the reconnect route of a run
   about outages rests. *)
THEOREM TypeCorrect == SpecNumbers => []((panel # "rest" => TypeOK) /\ N!TypeOK)
  <1>1. NumbersInv => (panel # "rest" => TypeOK) /\ N!TypeOK
    <2>. SUFFICES ASSUME NumbersInv, panel # "rest" PROVE TypeOK
      BY DEF NumbersInv, NoticeInv, AgreeInv
    <2>1. \A i \in DOMAIN probes : probes[i] \in ProbeRow /\ probes[i].parent \in 0..(i - 1)
      BY ProbesSeq DEF NumbersInv, ProbeInv, RowsOK, ProbeRow
    <2>2. \A i \in DOMAIN probes : probes[i] \in
            [parent : 0..(i - 1), mark : 0..MaxMessages, sent : {"no", "yes", "failed"}, out : BOOLEAN, stored : BOOLEAN,
             cloud : {"none", "delivered", "failed"}, age : {"young", "waited", "late"}, received : BOOLEAN,
             verdict : {"none", "alive", "repeated", "pipeline_broken", "down", "send_failed", "inconclusive"}]
      BY <2>1 DEF ProbeRow, Verdicts
    <2>. QED BY <2>2 DEF NumbersInv, ProbeInv, WorldOK, OutageOK, TypeOK, Outage, Statuses
  <1>. QED BY <1>1, Invariance, PTL

(* A number whose probe was received is not left down by that probe: a receipt
   finds the episode to close, or the opener finds the receipt
   (handleProbeReceipt, evaluateProbe). *)
THEOREM HeardIsNotDown == SpecNumbers => []ReceivedIsNotDown
  <1>1. NumbersInv => ReceivedIsNotDown BY DEF NumbersInv, ProbeInv
  <1>. QED BY <1>1, Invariance, PTL

(* No step takes a verdict back, and none gives a negative one to a probe that was
   received (setVerdict, markProbeSent). *)
THEOREM VerdictsStand == SpecNumbers => VerdictStands
  <1>1. NumbersInv /\ [NextNumbers]_<<probing, watching>> => [Stands]_vars BY NumbersStep
  <1>. QED BY <1>1, Invariance, PTL DEF SpecNumbers, VerdictStands, Stands

(* The health row and the outages table do not part (recordSystemHealth,
   openSystemProbeEpisode, closeProbeEpisode, updateNumberStatus). *)
THEOREM RowAndTableAgree == SpecNumbers => []EpisodesAgree
  <1>1. NumbersInv => EpisodesAgree BY DEF NumbersInv, NoticeInv, AgreeInv, EpisodesAgree
  <1>. QED BY <1>1, Invariance, PTL

(* However many watchers claim, fail and give back, a notice reaches the person
   once but for lost answers, late give-backs and counts that an "open" of a
   connected number made the row forget (claimNumberNotification,
   releaseNumberNotification, updateNumberStatus). *)
THEOREM NoticesReachOnce == SpecNumbers => []OneNoticeEach
  <1>1. NumbersInv => OneNoticeEach
    <2>. SUFFICES ASSUME NumbersInv, NEW n \in N!Notice PROVE said[n] <= 1 + lost + undone
      BY DEF OneNoticeEach, N!OneNoticeEach
    <2>1. said[n] + Cardinality(Holders(n)) <= lost + undone + Covered(n) BY DEF NumbersInv, NoticeInv, Counted
    <2>2. said[n] \in Nat /\ lost \in Nat /\ undone \in Nat BY DEF NumbersInv, NoticeInv, AgreeInv, N!TypeOK
    <2>. QED BY <2>1, <2>2, HoldersFinite DEF Covered
  <1>. QED BY <1>1, Invariance, PTL
=============================================================================
