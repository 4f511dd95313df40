# A TLA+ model of semente-platform-worker

The worker is one Node process (Fastify plus a dozen `setInterval` pollers) over one
Postgres. It receives WhatsApp webhooks, wakes agents, transcribes audio, collects
meetings, and keeps a memory of episodes ("Lua"). Its correctness lives in a family of
database queues: a row is inserted by a handler, claimed under a lease by a poller
(`FOR UPDATE SKIP LOCKED`), worked on over HTTP, and marked. A rolling deploy keeps two
containers alive on the same tables, so every queue has several workers, and every claim
may outlive the process that made it. Paths below are relative to the repository's root.

## Inventory

| Part (source) | State | Operations | Hard behaviour | Correct when |
|---|---|---|---|---|
| Event outbox (`src/events`) | `event_outbox`, `event_outbox_deliveries` | insert in the emitter's transaction, expand, claim, POST, mark, replay | two pollers, crash between any two steps, answer lost, lease outlived | no event lost, no delivery recorded that was not accepted, dead only when exhausted |
| Agent triggers (`src/triggers`, `src/db.ts`, `src/webhook`) | `webhook_logs`, `pending_triggers` | log, debounce upsert, reconcile rows, claim, fire, mark | a message joins a row that is being fired; reopening breaks the unique index; `Promise.all` ends a cycle early | every unread message has a trigger coming |
| Lua ledger and pipeline (`src/lua`, `src/episodes`) | `lua_processing`, `episode_chunks`, `facts`, `episodes.revision` | import, sweep, claim, TX1 chunks, TX2 facts, fail, replay, reprocess | re-import while processing, fences, stolen claims, unfenced failure | one extraction per row, facts in step with the ledger, memory never emptied |
| Lua stage C (`src/lua/reconcile.ts`, `condutas.ts`) | facts, recaps, `condutas` | supersede, propose, approve | proposals against approvals | one active conduta, one live fact per subject |
| Transcription (`src/transcription`, `src/db.ts`) | `transcription_jobs`, `messages`, `llm_metrics`, in-memory breaker | claim, process, complete, retry, give up, release, trigger | overlapping ticks, provider outages, aborted batches | paid once, no attempt burnt by an outage, lead never stuck |
| Operator notices (`src/ops-notify`) | `ops_notify_queue` | enqueue, decide, claim a batch, template then text, mark | crash after sending, lost answers, slot and window rules | nothing lost, repeats only where a fault came between |
| Receipts (`src/receipts`) | `webhook_receipts` | insert, claim, fenced marks | a stale worker marking a row claimed again | the newest claim alone writes |
| Scheduling (`src/goals/scheduling`) | `slot_holds`, `meetings`, the calendar | hold, book, reschedule, clean up, reconcile | cleanup against booking, two bookings, partial failure with the calendar | one event per meeting, no hold deleted after it was booked |
| Meetings (`src/meetings-*`) | collected meetings, recovery, summary and audio jobs | queue and promote bots, import, recover, summarise | cap on bots, long leases, re-imports | cap respected, newest revision summarised |
| WhatsApp numbers (`src/whatsapp/provision*`, `connection-*`, `down-notify*`) | numbers, links, probes, outages | provision, probe, notify, reap | claim and release of a notice, link consumption | one notice per outage, one number per link |
| WhatsApp CRM (`src/whatsapp/opportunit*`, `auto-loss.ts`, `ai-*`) | opportunities and their events | create, patch, sweeps, AI judgments | sweeps against the panel | one open opportunity per conversation |
| WhatsApp media (`src/whatsapp/media-*`) | `whatsapp_media_jobs` | as transcription | as transcription | as transcription |
| OpenAI account (`src/openai-health`) | the one row of `openai_health` | probe, read | a verdict read by others while it changes | bots keep no place for an account that answers nothing |
| Webhook ingestion, integrations, panel reads, admin, CLI, MCP | messages, tokens, configuration | request handlers, clients of external services | little of their own | - |

How they meet: the webhook handler writes the inbox and feeds the trigger queue or the
transcription queue; a finished transcription enqueues a trigger; an imported meeting is
an episode and emits an event in the same transaction; an episode of a new revision is
swept into the Lua ledger; the calendar reconciliation enqueues a `meeting_reconcile`
trigger; several parts notify the operator. All these calls are plain inserts, so each
queue is a module of its own whose environment is "somebody inserts a row".
The accepting and the losing side of a
bot (`meetings-collect` and Vexa), of an event (`goals/scheduling` and the calendar) and of
a number (`whatsapp` and the Evolution) are systems outside the repository: they are modelled
from how the code uses them. `PROJECT.json` lists every component, and every hazard at its
line.

## Modules

One module per queue or protocol. `EventDelivery` is the abstract specification that `Outbox`
implements. An `MC*` module gives values to constants and states in which a behaviour begins;
three of them put several components beside each other in one run (`MCQueues`, `MCMeetings`,
`MCNumbers`, and `MCLua` with three parts of the memory): the components share no row, so a
behaviour follows one of them, and the run asks the properties of all. In all modules:

* **Time** is a Boolean per row. `due` is `next_attempt_at <= NOW()` (or `scheduled_at`),
  `leased` and `expired` speak of the age of `claimed_at`, `aged` of a debounce; an action of
  the clock turns them. Where two times are compared with one another, as the reconciliation
  does with its slots, `Scheduling` keeps a clock `now` over the hours `Instants`. How long
  anything takes is thereby arbitrary, except that `MayStall = FALSE` forbids a lease to run out
  while its holder still works. The code's numbers justify it for most claims (10 s of HTTP
  against a 60 s lease), never for all (a long garbage collection, a suspended container, a
  batch of twenty audios); so what is claimed under the assumption and what without is kept
  apart, in the runs and in the theorems.
* **A database statement or transaction is one step**; two statements are two steps, and
  the process may stop between them. What a handler computes from its copy of a row
  (`seen`, `copy`, `text`, the record in `job` or `run`) is kept apart from the row.
* **Faults** (a crash, a query that throws, an answer lost after the other side
  accepted) are bounded by `MaxFaults`, `MaxUpsets` or a constant like them, decisions of
  people by `MaxReplays`, `MaxOps` or `MaxWrites`.
* **History** variables (`batches`, `reached`, `said`, `lost`, `undone`, `excused`,
  `overlapped`, `abandoned`, `absorbed`) are written by actions and read by properties only.
  They say what an exception of a property is: an event that a fault left behind is *excused*,
  nothing else is.
* Definitions marked *Mutant* are the bugs a property is tried against. They are not
  part of the specifications.

| Module | Code | Correspondence |
|---|---|---|
| `EventDelivery` | - | what the emitter of an event is owed: owe, try, accept, settle, give up, reopen |
| `Outbox` | `events/outbox.ts`, `events/dispatcher.ts` | `phase` is the cycle of one poller (`running` is `phase # "idle"`), `task` the `deliver` calls of `Promise.allSettled`, `seen` the `attempt_count` a claim returned, `config` the subscribers each container booted with |
| `TriggerQueue` | `db.ts`, `triggers/poller.ts`, `webhook/routes.ts` | one conversation; a row is named after the message that opened it; `fire` is `fireTrigger`; `MarkConflicts` is the unique violation of a reopened row; `AgentReads` is the agent outside the repository |
| `LuaProcessing` | `lua/db.ts`, `pipeline.ts`, `scheduler.ts`, `bootstrap.ts`, `episodes/db.ts` | a worker is one drain loop; TX1 and TX2 are one step each, loading the turns is another; `holder` stands for `claimed_by` with `claimed_at` |
| `Memory` | `lua/reconcile.ts`, `lua/db.ts` | `facts` in order of insertion (the index is the id); `Extract` and `JudgePair`, a pair at a time, are the pass within an episode; `Begin`, `SearchNeighbors`, `ApplyNeighborVerdicts` and `Commit` are the transaction, whose rows are a `draft` until then and locked against the others (`Free`); people confirm, invalidate and supersede |
| `Condutas` | `lua/narrativa.ts`, `condutas.ts`, `scheduler.ts`, `db.ts` | a container's `run` is one night; status, recap and proposal are steps of it; people approve, reject and resolve while it runs; `kills` are the facts an extraction not yet committed supersedes |
| `Transcription` | `transcription/*.ts`, `db.ts` | a `Tick` is one batch; several overlap for want of a running flag; `open` is the breaker |
| `OpsNotify` | `ops-notify/*.ts` | rows in order of creation; `before` and `ripe` count those older than the last slot and the urgent window |
| `Receipts` | `receipts/db.ts` | `tasks` are the claims somebody works on; nothing in `src/src` calls the claim yet, so the worker is that of `tests/receipts` |
| `Scheduling` | `goals/scheduling/*.ts`, `db.ts` | one lead: the holds and meetings, the `calendar` with the events ever created; a caller is one request of the agent with its hand on events, a loop the hourly cleaner or reconciler, which scans what lies within 48 hours of `now`; the organizer moves and deletes |
| `Collection` | `meetings-collect/*.ts`, `meetings-recover/db.ts` (enqueue), `openai-health/service.ts` | `rows` are the collected meetings in order of request, `bot` what is in each room, `job` what a request, a tick of the poller or a promotion is at; `missed` on a row is what was said in an outage of the account that its `started_at` still covers, or has left behind |
| `Digest` | `meetings-recover/*.ts`, `meetings-summary/*.ts`, `meetings-audio/service.ts`, `episodes/db.ts` | one meeting from its end: the episode's revision and text, the recovery row, the summary job, who holds each |
| `Probes` | `whatsapp/connection-probe*.ts`, `connection-events.ts`, `numbers.ts`, `provision-routes.ts` | one monitored number: probes and their receipts, verdicts, repetitions, the outage a verdict opens, the reconnect route |
| `Notices` | `whatsapp/down-notify*.ts`, `connection-probe-store.ts` | one instance, a system's or a number's: the counted row, the outage's row, watchers that claim, say and release |
| `Opportunities` | `whatsapp/opportunit*`, `auto-loss.ts`, `ai-judgment*`, `ai-sticky.ts`, `thread-meta.ts` | one conversation: its opportunities, triage, the sweeps of creation and loss, judges that list, read, ask and apply |
| `*Proofs` | - | theorems (below) |

Abstractions worth knowing. *Batch order*: an outbox, transcription or receipts batch is
any subset of the right size; the order of the queue matters to no property there. Where it
does it is kept: the Lua claim takes the earliest episode, a batch of notices the oldest, a
promotion the row requested first. *A Lua extraction* is one set of facts per (episode,
revision), maybe empty, in `LuaProcessing`, and a sequence of candidates with turn, value,
hint and certainty in `Memory`; `Condutas` takes the facts as given and moves them only the
ways `Memory` does. *A trigger batch* is any non-empty set of due rows, for rows of
other conversations compete for it. *The breaker's* three states are open or not. *A model's
judgment* (LLM) is any member of a small set that the code accepts.

## Runs

Each run is one question about a component, or about several that only meet in a call.

| Run | Instance | What it shows |
|---|---|---|
| `outbox` | one event, two subscribers, two pollers, 2 attempts, 1 fault, 1 replay; marks within the lease; a deploy removes one subscriber | `DispatchedHasDeliveries`, `SingleInFlight`, `DeliveredMeansAccepted`, `EventuallySettled`, and `Outbox` implements `EventDelivery` |
| `trigger` | two messages (one redelivered), one reconcile row, two pollers of which one has no `trigger_url`, leases outlived, 1 fault | `UnreadIsCovered` (with the exception finding 1 is about), `ReconcileToldOnce`, `EventuallyRead` |
| `lua` | *ledger*: a nightly and a bootstrap worker, one episode imported twice, also where the first revision is already buried; *memory*: three episodes of which one is imported again, two workers, a judge that finds clashes, and either decisions of people or a failed TX; *nights*: one container, two nights of which the first is from Sunday to Monday, three facts, one proposed conduta, a decision or a fault | `NoDoubleExtraction`, `DoneIsRemembered`, `EventuallyRemembered`; `SupersededByNewer`, `Coherent`, `VoiceKept`; `RulesFollowFacts`, `StatusFollowsNight` |
| `queues` | *receipts*: two, two workers, 2 faults, leases outlived; *notices*: one urgent, one digest, two flushers, batches of one, 1 fault; *jobs*: two, two overlapping ticks, batches of two, either both jobs or one job and the faults | `FenceIsExact`; `NoSecondMessage`; `OutageBurnsNoJob`, `DoneOnce`, `LeadNotStuck`; `QueuesDrain` |
| `meetings` | *scheduling*: one caller, cleaner and reconciler, two events, the clock at hour 9 and at hour 60, 1 upset; *collecting*: two meetings, one request worker, one tick, one place, two rows; *ended*: two recoverers, two writers, three revisions, 2 attempts | `NoStrayEvent`, `OneLiveMeeting`, `CalendarIsFollowed`; `CapKept`, `NoOrphanBot`, `SpeechIsNotLost`; `RecordingPrevails`, `DigestIsCurrent`; `EventuallySettled` |
| `numbers` | *probing*: two loops, two probes, one real message, begun at four points; *watching*: two watchers, two notices, calls that outlast an episode, one repeated "open" event, a system's or a number's instance | `ReceivedIsNotDown`, `VerdictStands`, `Reconciled`; `OneNoticeEach`, `EpisodesAgree`, `Announced` |
| `crm` | two judges, two opportunities, two messages, two decisions of people, 1 fault | `OneOpen`, `SaleStands`, `CascadesOnly` |
| `trigger_zero_loss` | two messages, no fault | **violated**: finding 1 |
| `lua_drain_empty` | one episode without turns | **violated**: finding 2 |
| `lua_pair` | the *memory* part of `lua` | **violated**: finding 3 |
| `scheduling_false_alarm` | the *scheduling* part of `meetings` | **violated**: finding 4 |
| `crm_human_prevails` | one judge, one opportunity, two decisions | **violated**: finding 5 |

Why the bounds are enough. Rows of a queue share nothing but a batch, so an anomaly of a
row needs that row, at most one neighbour in its batch (two deliveries, jobs, notices or
receipts), and two workers: one that is late and one that took over. `MaxAttempts = 2`
separates the first, the last-but-one and the last attempt. One fault is enough for a crash
anywhere, two for a crash during the recovery from one. Two revisions are a re-import, three a
re-import while another is being summarised. One place for two meetings makes a promotion
wait; two rows of one room are a second request after the first ended. Two calendar events are
a booking and its successor; the two slots are at hours 57 and 62, of which the scan sees the first
at hour 9 only and the second at hour 60 only. Rooms are alike, so a queue of requests begins
with the first (`RoomsAreAlike`). Two probes are a probe and its repetition. Two opportunities are
a closed one and the one that succeeds it, two judges an overlap of the automatic run with the
one a person starts. `trigger` is also where a reopened row meets a newer pending one
(`MarkConflicts`): that takes a lease outlived and an attempt left. The runs that begin in the
middle (`MCLua`, `MCTriggerQueue`, `MCQueues`, `MCNumbers`) do so in states that the same
module reaches with larger bounds; they trade one bound against another, never against an
action: every action fires in one of the passing runs. Each safety invariant of the table
is also proved, for every bound and from the beginning.

Deadlock is checked in `outbox` and `lua_drain_empty`, where the pollers tick for ever;
elsewhere used-up bounds or an empty queue leave nothing to do, and the configuration says so.

### Fairness

* *Weak fairness of the clock*: time passes, leases, backoffs and debounces run out.
* *Weak fairness of each step of a cycle*: database and HTTP calls return or throw (both
  have timeouts), the interval fires again, a dead container is restarted.
* *Strong fairness of `SendAccepted`* (`OpsNotify`): WhatsApp does not refuse every message
  for ever; a refused batch comes back after its lease, again and again, so weak fairness
  would promise nothing. Of the *claim* in `Transcription`: an outage may trip the breaker
  again each time it closes, and some tick meets it closed. Of `ClaimProcessing` in
  `LuaProcessing`: a night may end before the claim, but not every night.
* No fairness of faults, people, imports, messages, or of the organizer.

## Findings

1. **A message may lose its trigger without any fault** (`trigger_zero_loss`). The debounce
   upsert (`db.ts:485-495`) joins any pending row, also one that a poller has claimed and
   is firing: claimed rows stay `pending`. When the call returns, `markTriggerFired`
   (`db.ts:529`) closes the row by its id, with the new message in it. Unless the agent
   happens to read its inbox late enough, the message waits for the next one.
   `migrations/008_pending_triggers.sql:6-16` promises one trigger once the lead stops
   typing, and "zero perda". `UnreadIsCovered` and `EventuallyRead` hold for every message
   that did not arrive in that window.
2. **An episode without turns is processed for ever** (`lua_drain_empty`). No turns give no
   chunks; TX1 commits and releases the claim; `runEpisode` (`pipeline.ts:388`) takes the
   zero for a lost lease and returns; the row is `chunked`, due, and claimed again.
   `bootstrap.ts:259-260` says the loop drains the queue. `EventuallyRemembered` shows that
   it does when every episode has turns.
3. **A correction to what the memory already holds kills its episode** (`lua_pair`).
   `lua/reconcile.ts:258-259` says of the pairs within an episode that both are inserted. A
   later candidate that a neighbour duplicates is not, its id is -1
   (`reconcile.ts:490-497`), and the foreign key refuses it as a successor
   (`reconcile.ts:423-430`): the transaction fails as often as the extraction repeats itself.
4. **The agent is told that the organizer cancelled what it moved itself**
   (`scheduling_false_alarm`). The reconciliation (`reconcile.ts:46-83`) also scans rows with
   status `rescheduled`, which is what a rebooking leaves on the old row after deleting its
   event (`schedule-service.ts:191-205`); `index.ts:310` says it detects what the closer did.
5. **A judgment overwrites what a person set** (`crm_human_prevails`). `ai-sticky.ts:4-5` says
   the AI never writes a dimension that a person has written. The judgment's own patch
   respects that (`ai-judgment-apply.ts:302`), the kernel's consequences do not.
   `CascadesOnly` shows that these consequences are the only way but one: a judgment that listed
   the conversation before another ruled it out rules it out again, and so closes what a person
   reopened between the two.

Further disagreements between a comment and the code are stated in the modules. They are not
among the runs, and can be reproduced by adding them to a configuration (for a component of
a composed run, after naming it in the `MC*` module as the other properties are):

| Property | Comment | What happens | To reproduce |
|---|---|---|---|
| `DuplicateIsQueued` | `webhook/routes.ts:391-392` | the first request logged the message and failed to enqueue it; the redelivery is answered as a duplicate and triggers nothing | `trigger.cfg` |
| `TerminalIsTerminal` | `lua/scheduler.ts:154-155` | a late `failProcessing` has no fence and takes a row out of `done` or `skipped` | `lua.cfg` |
| `ChunkProvenance` | `migrations/021` on provenance | the turns are read before the transaction; a re-import in between | `lua.cfg` |
| `NoStranger` | `lua/bootstrap.ts:93-96` | the claim is global, whatever the scope of the sweep | `lua.cfg` with `NumEpisodes = 2` |
| `OutcomeIsDurable` | `transcription/service.ts:124-125` | overlapping ticks that outlive the lease reopen a finished job | `queues.cfg` with `MayStall = TRUE`, as `T!OutcomeIsDurable` |
| `RestLeavesNextTick` | `ops-notify/flusher.ts:29` | the rest of a full batch of digest notices waits for the next slot | `queues.cfg` with two digest notices and `BatchLimit = 2`, as `O!RestLeavesNextTick` |
| `NewRevisionIsKept` | - | a stale summary outcome closes the newest revision's job | `meetings.cfg`, as `D!NewRevisionIsKept` |
| `TrafficCloses` | `down-notify-store.ts:142-144` | the condition on the stored timestamp may leave a system's probe episode open after traffic, until another message | `numbers.cfg`, as `N!TrafficCloses` |
| `NoHiddenOpen` | - | an opportunity is opened in a conversation that was ruled out | `crm.cfg` |

Seen while modelling, some of it in the models' exceptions, some of it by reading only:

* *Memory*. Of candidates A (turn 1), B (turn 10), A (turn 12) the middle one stays in force,
  though `lua/reconcile.ts:243` and `:279` say that the later turn wins. `supersedeFactTx` has no
  `invalid_at IS NULL` guard, so a stale TX overwrites a decision of a person; two concurrent
  TX2 may leave two live facts that contradict each other (the exception of `Coherent`). A
  retroactive fact may point at a successor that a person has just retired, and nothing locks
  a successor, so the memory may fall silent on a matter: one episode reads fact *r* in force
  and is about to be superseded by it, a later one supersedes *r* by *n*, a new import or a
  person retires *n*, and then the first commits. This is the third exception of `VoiceKept`.
  Candidates listed out of turn order would leave every fact born invalid: the models assume
  the order of speech.
* *Condutas*. `approveConduta` and `activateCondutaTx` check no status; a fact committed after
  a proposal's transaction began never triggers another; a conduta approved after a cited fact
  fell is active and unflagged (`blind`); resolving a fact by hand flags no rule; a crash leaves
  a night "running" and its status, recap and proposal are not made up; when nothing
  publishable is left the old status stays (`narrativa.ts:64-67`); the pipeline never sets
  `facts.run_id`, so the second arm of `getWorkspacesChangedInRun` is dead.
* *Scheduling*. Rebooking an old slot after moving and cancelling answers `already_scheduled`
  with a dead event; the cleaner may delete an event that a booking has just confirmed
  (excused in `NoStrayEvent`); two requests of one lead double-book (`overlapped`); a meeting
  the organizer moved cannot be cancelled or moved again by the agent. The scan asks for slots
  between now and 48 hours from now (`reconcile.ts:59-60`): what the organizer does to an event
  shortly before its slot, or after it, is not noticed at all, hence `CalendarIsFollowed` speaks
  of what is deleted while the scan can see it.
* *Meetings*. Two promoters pass the cap together, and the one Vexa refuses marks `failed` the
  row whose bot is in the room (`sideways`); a crash between `sendBot` and the UPDATE leaves a
  bot nobody knows (`forgiven`), and so does an answer of Vexa that is lost or takes longer than
  the client's 30 s (`vexa/client.ts:47-52`): the row is marked `failed` with the bot inside
  (`service.ts:80-93`), and nothing looks at it again. A request for a room whose bot is in it
  moves `started_at` to now (`reuse.ts:34-37`), and `sttAffectedSince` compares the last sight
  of an outage with it: an outage from before the request is forgotten, and the room imported
  or written off without a recovery, though `openai-health/core.ts:37-41` promises any outage
  since the beginning (`missed = "forgotten"`, which `SpeechIsNotLost` leaves out by name); so is
  one that no probe sees again after the bot went in. `promoteQueuedMeetings` writes expiry over
  rows as it first listed them. POST stop writes over a row the poller has just imported;
  `vexa_failed` rows get no recovery; the second reason for a recovery is dropped by
  ON CONFLICT DO NOTHING; crashes consume summary attempts. A tick of the model reads a row when
  it comes to it, the code the copy it listed; the account's `unknown`, which the collection
  treats as `ok`, and the compare-and-set of its watch are left out.
* *Numbers*. Claim and release of a notice compare the count only, called the exact version in
  `down-notify-store.ts:8-12`, and the count restarts with each episode: a late release gives
  back a notice of a later episode, which is said twice (`undone` in `OneNoticeEach`). So does an
  "open" event of a number that is connected and that a probe holds down: it zeroes the count
  (`numbers.ts:107-109`) and does not close the outage (`:127-131`), so the notices begin again
  (`RepeatedOpen`, counted in `undone` too). A late receipt after a reconnect's logout leaves a
  number off without an outage. By reading: `claimNumberNotification`'s comment
  (`down-notify-store.ts:60-70`) admits a claim that counts after the close's reset; the count
  is then 1 with the number connected, and the next episode begins with that notice counted.
* *CRM*. `em_andamento` with `is_qualified` TRUE and `is_lead` NULL is reachable, though
  `opportunities.ts:305-308` calls it unreachable; an opportunity that a person creates already
  qualified is not sticky; after a person deletes the only one, the sweep makes another, and
  does not look at `is_lead` again under its lock. Nor does a judgment: the list is read once per
  sweep (`ai-judgment-runner.ts:343-352`), neither the context nor the transaction asks again
  whether the conversation is still a lead or has been judged meanwhile. A judge that listed
  it before another ruled it out may rule it out again, and close an opportunity that a person
  reopened in between, while nothing about triage or qualification changes (`RuledOutAgain`,
  the last exception of `CascadesOnly`).

## Proofs

TLAPS checks the following for every set of events, subscribers, workers, rooms, receipts and
so on, and for every bound. The assumptions are the named `ASSUME`s of the modules, all of
them about numbers and names: attempts, batches and revisions are positive, bounds are
naturals, configurations map events to sets of subscribers, `Nobody` is no worker, a caller is
no loop, the watchers are finitely many, two facts of one matter say the same or clash. TLC
evaluates each of them in a run. Where a theorem needs that a lease is not outlived,
`~MayStall` is in its statement. Theorems about a part of `MCQueues` and `MCLua` are of the
component's own specification (`O!Spec`, `T!Spec`, `C!Spec`, `M!Spec`), which begins from empty
tables; those of `MCMeetings` and `MCNumbers` are of the composed specification the run checks
(`SpecMeetings`, `SpecNumbers`), whatever it begins with.

| Module | Theorem | States |
|---|---|---|
| `OutboxProofs` | `NoEventLost`, `DeliveredIsAccepted`, `LeaseExcludes`, `DeadIsExhausted`, `NeverRegressesThm`, `KeepsPromise` | `DispatchedHasDeliveries`, `DeliveredMeansAccepted`, `SingleInFlight`, `DeadOnlyWhenExhausted`, `NeverRegresses`, the refinement `ImplementsPromise` |
| `TriggerProofs` | `UnreadCovered`, `ReconcileTold`, `FiredByOne` | `UnreadIsCovered`, `ReconcileToldOnce`, `OneFirePerRow` |
| `LuaProofs` | `ExtractedOnce`, `DoneHasFacts`, `MemoryIsKept`; `RulesFollow`, `StatusFollows`; `SuccessorsAreNewer`, `NothingClashesSilently`, `VoiceIsKept` | `NoDoubleExtraction`, `DoneIsRemembered`, `NeverForgets`; `RulesFollowFacts`, `StatusFollowsNight`; `SupersededByNewer`, `Coherent`, `VoiceKept` |
| `QueueProofs` | `FenceExact`, `OutcomesAreFinal`; `RepeatsAreFaults`; `PaidOnce`, `OutagesAreFree`, `OutcomesStand` | `FenceIsExact`, `OutcomeIsFinal`; `NoSecondMessage`; `DoneOnce`, `OutageBurnsNoJob`, `OutcomeIsDurable` |
| `SchedulingProofs` | `NothingStrays`, `OneMeeting` | `NoStrayEvent`, `OneLiveMeeting` |
| `MeetingsProofs` | `PlacesAreKept`, `BotsAreKnown`, `SpeechReachesRecovery`, `RecordingStays`, `DigestsAreCurrent` | `CapKept`, `NoOrphanBot`, `SpeechIsNotLost`, `RecordingPrevails`, `DigestIsCurrent` |
| `NumbersProofs` | `HeardIsNotDown`, `VerdictsStand`, `RowAndTableAgree`, `NoticesReachOnce` | `ReceivedIsNotDown`, `VerdictStands`, `EpisodesAgree`, `OneNoticeEach` |
| `CrmProofs` | `OneIsOpen`, `SalesStand`, `JudgmentsCascade` | `OneOpen`, `SaleStands`, `CascadesOnly` |

Each module has a `TypeCorrect` as well. The arguments, and why the property alone is not
inductive:

**Outbox.** `HistInv` = types + *a task says "accepted" only if its subscriber accepted* + the
two properties. It needs no assumption on leases. The middle conjunct is the strengthening: a
mark writes what its task says, and the task outlives the row's state. `LeaseInv`, assuming
`~MayStall`: `SingleInFlight` and *a task is of the row's current attempt* together, with the
facts that only a worker in its delivery phase has tasks and that configurations come from
`Configs`. Neither of the two is inductive alone: a claim is exclusive because a row in flight
is not due, and a row in flight stays not due because the only other actor that could change it
would have to hold it as well. From both, step by step, `NeverRegresses` and the refinement:
every step of the poller is a step of `EventDelivery` or leaves it alone. The attempts are part
of it: a delivery is given up only when it has had them all since it was owed or replayed, or
when some configuration lacks its subscriber.

**Triggers.** `UnreadIsCovered`: an unread message has a row to fire or an awake agent, unless it
was `absorbed` by a row being fired (finding 1). It is not inductive alone, for a mark takes the
row away: `AnswerInv` says that while an accepted fire waits for its mark, what its row announced
before the claim has been read or the agent is awake, and a reconcile event was told;
`FreshInv` keeps rows and fires from existing before their message. Neither needs leases.
`LeaseInv` does (a row being fired is not due and has one worker), and is stated for `~MayStall`
only.

**Ledger of the memory.** `LedgerInv` counts extractions against reopenings and says why the
count holds: a row that is done carries no claim, so no fence lets anybody commit it again until
an operator, or a late failure, has taken it out of `done`. Leases expire under their holders
freely. `NeverForgets` comes with it: the facts of an old revision fall in the transaction that
inserts the new ones.

**Nights.** `RulesFollowFacts` lacks the extractions under way, which will supersede facts they
have not yet touched. `OpenInv`: each of them has seen the active conduta's citation (and flags
it when it commits), or the conduta was approved later, blind. `NightInv` has one run per night
(`OneRun`: the night's INSERT is the mutual exclusion, there is no lease) and what a run that
still owes a status knows of the facts that fell (`StatusOwed`): a fact that lost its force
never regains it. It needs that there is a first night, `Nights # 0`.

**Facts.** `MemInv`. The committed rows alone are not inductive: what a commit makes of them was
decided when its transaction searched, and others have committed since. So `TaskInv` says of
each open transaction how it stands to the rows as they are *now*. What it copied is a row as
others left it, for nobody else can have touched it (`Copied`, by `Free` and `OneEach`). The
neighbours it saw still have their time, and every fact in force that it wrote or that was born
before it looked is among them (`Searched`). Every successor it wrote is newer (`Succeeded`).
What it inserted clashes silently only with rows born after it looked (`Consistent`). `OthersMove`
is the lemma that makes this work: rows may only move along `Follows` (their value, time and
birth stay, a lost force is not regained, a flag on a row in force may become a person's word but
does not vanish), and along `Follows` an open transaction's `TaskInv` survives. `FactsCommitted` then
turns `TaskInv` into `FactsInv` of the new rows. `VoiceKept` is proved from both: of the facts a
silent commit superseded take a latest one (`LastSuccessor`, by well-founded induction on finite
sets); its successor is later still, so it was not superseded, and it is not in force: a person
or a new import had retired it.

**Receipts.** `FenceInv`: no claim is newer than its row's attempt count; a claim of the newest
attempt has one holder, and its row is still open. No assumption on leases: where the outbox
needs its lease, the fence needs nothing.

**Operator notices.** `ClaimsApart`: batches of two flushers are disjoint, leased and not yet
sent. `Counted`: a message with a notice is the one it was sent with, known to its flusher, or a
fault came after it. It assumes `~MayStall`.

**Transcription.** `JobInv`, assuming `~MayStall`. `HandInv`: a tick works one job, hands are
disjoint, a job in a hand is pending, not due, and the copy the tick made of its attempts is
the row's. Then `PaidInv` (a finished job was paid for once, an unfinished one not yet) and
`ChargedInv` (attempts are bounded by its own errors, the answers lost and the hand that has it).

**Scheduling.** `EventInv`: every live event of the calendar is excused, in the hand of a
request that has it alone, held by a hold whose row is not about to go, or kept by a meeting
that is not about to be marked cancelled. The words *about to* are the invariant: an UPDATE
follows a calendar call by a step, and it is what the request will do next that keeps the event.
`OneInv` adds, unless two requests overlapped, `Single`: the caller's stage fixes which rows and
events may still be there (`Stage`, `Apart`), holds have events of their own, and the meeting in
force is the newest.

**Collection.** `CollectionInv`. `Speech` needs no exception for overlapping work: a row the
recovery is owed (`Owed`) has it, or its room is excused, or a worker is about to hand it over.
Owed is a row written off, and a row in which somebody spoke in vain though the account no
longer counts as affected (`Unheard`), for it would be imported without a word; a re-use and a
return of the account make no such row, what they leave behind is *forgotten*. The rest is
`sideways \/ AloneInv`: at most one worker is busy, and `Ready` says per step what it may rely
on - a free place from its count to its UPDATE, a bot that has left the room before a row is
ended. `CapKept` is not inductive alone because a place is counted before the call to Vexa and
taken after it; `NoOrphanBot` not, because a row is ended on the strength of an answer several
steps old. `LeastIsOne` (the least row of a worker's list is in it) is proved by well-founded
induction on finite sets.

**Recovery and summary.** `DigestInv`: whoever holds the recovery knows the reason on its row,
and the text, once it is the recording's, stays. A summary is current because its guarded
save compares the revision it was made from.

**Probes and notices.** `ProbeInv` = the world, the rows (one open probe; a repetition follows
only the verdict "repeated"), the loops (`Led`: what a loop at a step may rely on), the outages
(one that a probe opened rests on a verdict "down") and `ReceivedIsNotDown`. Verdicts stand
because each step only lets the rows grow (`Grows`). `AgreeInv`: the counted row and the
outages table are of one mind in every episode, and an outage behind a system's probe episode
is the probe's own. `Counted`: how often notice *n* was said, plus the watchers of this episode
who hold it, is at most one for a count that reached *n*, plus the lost and the undone: a sum
over hands, for a claim counts before the send. Whatever makes a count smaller within an episode
(a release that is not its own, a repeated "open") is in `undone`. No assumption on stalls.

**CRM.** `Sound`: an open opportunity is not disqualified, a won one is qualified, which is what
makes the kernel's cascades end. Nothing is known of what a judge has picked or read: the
conversation may have been ruled out behind its back, which is why `CascadesOnly` has the
exception `RuledOutAgain`. `OneOpen` and the two action properties follow step by step.

### Only model-checked

* All *liveness*: it needs fairness and ENABLED, which the prover does not have.
* That the runs which begin in the middle begin in reachable states.

## Not modelled

Parsing, prompts, LLM answers, formatting, media conversion and HTTP clients: data. Panel
reads, statistics and access rules: queries without a protocol. Migrations: they give the
tables' domains. `PROJECT.json` names the rest with reasons: provisioning links and their
reaper, the media queue (the protocol of `Transcription` over again), groups and monitors,
the pattern insights of the CRM, integrations, administration.

## Plan

1. *Abstract specifications* beyond the outbox: a queue that settles each row once, implemented
   by `Receipts` and `Transcription`; one live event per lead, by `Scheduling`.
2. *WhatsApp*: provisioning links and their reaper, if the runs leave room.
