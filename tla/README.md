# CH3: specifications and proofs

TLA+ modules that model the parts of CH3 (`src/ch3`, the agent workbench; `src/agentic-coding-harness`
is its desktop wrapper and documentation) where order, failure and restarts decide whether the program
is right, the TLC runs that check them, and TLAPS proofs of the results that matter most.

Paths below are relative to `src/ch3`; `server/` stands for `apps/server/src/`, `client/` for
`packages/client-runtime/src/`.

## 1. The system

CH3 is a server that drives coding agents ("providers": Claude, Codex and others) and a set of clients
(web, desktop, mobile) that show threads of work and send commands. The server is event-sourced: a
command becomes events in one SQLite log, two projectors turn the events into an in-memory read model
(what the next command is decided on) and into projection tables (what clients and the next start
read), and reactors consume the event stream to call providers, git and external services, whose
results come back as new commands.

    clients --dispatchCommand--> OrchestrationEngine --commit--> events, receipts, projection tables
       ^                          |  (decider, in-memory read model)          |
       |                          +--publish--> eventPubSub                   |
       |                                           |                          |
       +---- subscribeThread / subscribeShell <----+----- snapshot query <----+
                                                   |
               reactors (provider commands, checkpoints, deletion, classification)
                                                   |
               ProviderService -> adapters -> provider runtime events
                                                   |
               ProviderRuntimeIngestion --dispatch--> OrchestrationEngine

### Inventory

| component | state | operations | hard behaviour | what makes it correct |
|---|---|---|---|---|
| Drainable worker `packages/shared/src/DrainableWorker.ts` | queue, transactional counter `outstanding` | `enqueue`, the worker fiber, `drain` | the take and the decrement are separate transactions; a failure ends the fiber | the counter is exact; `drain` means everything sent before is done |
| Keyed coalescing worker `KeyedCoalescingWorker.ts` (terminal history persistence) | queue of keys, latest values, two sets of flags | `enqueue` (merge), worker fiber, `drainKey` | three paths update flags and queue in transactions of their own | no update is forgotten; a key is processed by one step at a time; `drainKey` is sound and live |
| Orchestration engine `server/orchestration/Layers/OrchestrationEngine.ts` with event store and command receipts | log, receipts, read model, command queue, event stream | `dispatch`, `processEnvelope`, reconciliation, start | storage failures at each call, commits that report an error, crashes, retried commands | each command takes effect once; log, model, tables, stream and answers agree |
| Projection pipeline `ProjectionPipeline.ts` | ten projectors' tables and cursors | `bootstrap`, `projectEvent` | a later release adds a projector; one read returns at most 1000 events | tables reflect the whole log |
| Decider `decider.ts`, in-memory projector `projector.ts`, snapshot query | the read model | one case per command, one per event | two projectors must make the same of an event; the model is rebuilt from part of the tables | lifecycle agrees; a thread that waits for the user cannot be parked |
| Provider command reactor, provider service, session directory, reaper, startup reconcile, stall watchdog, task reconciler | provider sessions, bindings, in-flight turn starts | start session, send turn, interrupt, respond, stop, recover | a stop racing a start; a session that outlives the server | no turn runs in a session nobody knows; sessions that died are interrupted |
| Runtime ingestion `ProviderRuntimeIngestion.ts` | buffered message text, plan buffers, active turn | one case per provider event | late and duplicated events, events of a replaced turn | a late event does not move a newer turn; text is neither lost nor doubled |
| Checkpoint reactor `CheckpointReactor.ts` | pending captures, git refs | baseline, capture, revert | a revert between a turn's end and its capture | refs, checkpoints and turn counts agree |
| Subscriptions `server/ws.ts` | per-subscription buffers | `subscribeThread`, `subscribeShell`, `replayEvents` | snapshot and live stream are read at different moments | a subscriber misses nothing and applies nothing twice |
| Client state `client/state/threads.ts`, `shell.ts`, `threadReducer.ts` | a third projection of the same events | snapshot, event, resume | reconnects, stale caches | the live view equals a fresh snapshot |
| Connection supervisor `client/connection/supervisor.ts` | intent, signals, session | connect, disconnect, retry, wake-ups | signals that arrive while an attempt starts or ends | wanted connections come back, unwanted ones go |
| Authentication `server/auth/*` | sessions, pairing grants | issue, consume, revoke, expire | two consumers of one grant | a grant is used once |
| Preview automation broker `server/mcp/PreviewAutomationBroker.ts` | clients, pending requests | connect, request, respond, time out | an answer racing its timeout or a client's replacement | each request ends once, answered by the client it was sent to |
| Terminal manager `server/terminal/Manager.ts` | sessions, histories, subprocess polls | open, write, resize, clear, close | kill escalation racing a restart | history belongs to the running process |
| Desktop backend and updates `apps/desktop/src` | child process, restart back-off, update state | start, exit, restart, download | an exit reported for an older process | one backend runs; an update is installed once |
| Provider drivers, git, source control, settings, web, mobile, relay, contracts, scripts | - | adapters, screens, schemas, deployment | external programs | outside this project |

`PROJECT.json` lists every component with its files and status, and every hazard with its line.

## 2. The modules

| module | models | extends or instantiates |
|---|---|---|
| `DrainableWorker` | `DrainableWorker.ts` | |
| `KeyedCoalescingWorker`, `MCKeyedCoalescingWorker` | `KeyedCoalescingWorker.ts` | |
| `CommandLog` | the abstract specification: what the engine promises its callers | |
| `OrchestrationEngine`, `MCOrchestrationEngine` | the engine, its stores, the pipeline's cursors and bootstrap, hydration | `INSTANCE CommandLog` |
| `ThreadAttention`, `MCThreadAttention` | decider, both projectors, response handling, restart: what parks and wakes a thread | |
| `ThreadTurns` | turns and checkpoints of a thread: the three projections, runtime ingestion, checkpoint reactor | |
| `ThreadSync` | `subscribeThread` in `ws.ts`, the client's thread state, cache and `subscribeDynamic`, over what the engine shows | |
| `ConnectionSupervisor` | `client/connection/supervisor.ts` and the streams it follows | |
| `DesktopBackend` | `apps/desktop/src/backend/DesktopBackendManager.ts` | |
| `*Proofs` | theorems about the module they are named after | `TLAPS` |

The modules meet at what they show each other: `ThreadSync` has the engine's commit, head and publication
as `OrchestrationEngine` proves them, `ThreadAttention` and `ThreadTurns` apply an event to all
projections in one step because the engine's transaction and `ThreadSync` allow it.

### DrainableWorker

`queue` and `outstanding` are the `TxQueue` and `TxRef`. `Enqueue` is one transaction in the code and
one step here; `Take` and `Settle` are two. `ProcessFails` ends the worker as a failure leaves
`Effect.forever`; the items in `Fallible` are those whose processing may do that. `drainer` is the
state of each `drain()` call. `sent`, `finished` and `owed` record history.

### KeyedCoalescingWorker

A value is the set of updates merged into it, so that the merge function loses nothing of its own
accord and a lost update is visible. The code's separate transactions are separate actions: `TakeKey`,
`Activate`, the two ends of `processKey`, and the cleanup after a failure. A key that is queued without
a value has a branch in the code; the theorem `NoValueForgotten` shows that it is never taken, and the
model has none.

### OrchestrationEngine and CommandLog

`log`, `receipts`, `applied` and `cursor` are durable; everything else is lost in a `Crash`. One
action stands for one step of `processEnvelope` between two points where another fiber may run or a
storage call may fail: `Take`, the receipt lookup (`ReplayAccepted`, `ReplayRejected`,
`ReceiptReadFails`), the decision, one `PersistEvent` per event, `Commit` (or `TransactionFails`, or
`CommitReportsFailure`: the commit took effect and the caller sees an error), one `PublishEvent` per
event, `AnswerAccepted`. The failure path is `Reconcile`, `ReplayEvent`, `ReplaySwap`, then the
publication, `RecordRefusal` and the answer. `Start`, `BootEvent`, `BootNextProjector` and
`HydrateModel` are the start; `release` is the set of projectors of the running release, and a start
may bring the later ones.

What a command does is left to the parameters `Decide`, `Apply` and `Hydrate`, so the theorems hold for
every decider. `MCOrchestrationEngine` gives them a small list with a create, an add and a delete
command, the add being dispatched twice.

`CommandLog` is the promise: a ledger of events and a verdict per command, in which each command is
accepted or refused at most once, its events being appended together with the verdict. The refinement
mapping is the log and the receipts (`ImplementsCommandLog`). The state of a log is a recursive function
of its prefixes (`StatesOf`), so that the proofs can reason about it.

### ThreadAttention

One thread as the decider sees it (`mem`) and as the tables hold it (`rows`). An event is applied to
both in one step, which is what the engine guarantees; the two projectors are written as two groups of
operators (`Project...` from `projector.ts`, `...Rows` from `ProjectionPipeline.ts`), line by line, so
that a difference between them shows. The commands are settle, unsettle, snooze, unsnooze, archive,
unarchive, turn start, retry and interrupt, rewind and the two responses; the provider side is the
session statuses, the requests and their resolutions, in any order, and the three ends of a response
in `ProviderCommandReactor`. `Restart` rebuilds `mem` from `rows` as `getCommandReadModel` does:
without messages and activities. The activities are abstracted to the set of requests that
`hasOpenBlockingRequest` finds open. Clients' clocks differ from the server's by `Offset`.

`apart` names the requests on which the two views may differ and why: it lets `RulesMatch` be exact
about all the others.

### ThreadTurns

The turns of one thread in its three projections: `rows`, `latestRow`, `pending` (the tables), `mem` (the
engine's read model) and `view` (the client's reducer), each event being applied to all by operators of
their own. Two workers turn what happens into events. The ingestion takes one runtime event from `feed`,
reads the thread, and dispatches the commands it decided on one at a time (`todo`), so that what it read
may be stale when the last is applied. The checkpoint reactor has a queue `work` of runtime and domain
events and one `job` with a step for each call that may fail: baselines, captures of turns that
completed and of placeholders, reverts with their restore, rollback, deletion of refs and the command at
the end. `refs` are the git refs, `talk` the provider's conversation. The provider (`live`) opens, reports
and ends turns, leaves a message for after the current turn or lets it supersede it (`Supersedes`), and
may exit.

Simplified: runtime and domain events reach the reactor's queue in the step that emits them; the web
client offers a revert only to an earlier checkpoint and with no running turn
(`ChatView.tsx:2629-2660`, `5564-5586`), and the model asks for none other; the check for a baseline and
its capture are one step, as are the restore and the checks before it; a failed ending and the text a
turn leaves unfinished count as reports; an exit of the provider counts as a fault. Left out: diffs,
texts and times. Lists of checkpoints are filtered by a recursive function (`PicksOf`), because
`SelectSeq` takes an operator, which the provers cannot reason about.

### ThreadSync

A copy of a thread is a cursor and the set of events it reflects; the table snapshot at sequence n is
`Thread(n)`. The engine is what `OrchestrationEngine` shows of it: `Commit` (events and projection, one
transaction), `Swap` (the head that `latestSequence` reads), `Publish` (one event at a time). `sub` and
`wire` are the server's fiber, its `liveBuffer` and the items on their way. The live stream attaches in a
fiber of its own (`Attach`), so it may come after the read it should precede; `missed` records the events
lost that way, and the properties are exact about all the others. `client` is the state of
`makeEnvironmentThreadState`: `Open` loads the cache, `Connect` and `Resubscribe` start
`makeSubscribeInput` (`Begin`, `HttpRead`, `HttpApply`, `HttpFails`, `Subscribe`), the `Apply...` actions
are `applyItem`, `Persist` the debounced save, `Close` the finalizer. A session is "new" or "old"
according to whether the server announces the completion marker.

### ConnectionSupervisor

One environment. `desired` and `online` are the intent; a caller changes it and offers its signal in two
steps (`offering`, then `signals`), as the code does. `pc` is the place of the supervisor's fiber: the
top of its loop, an attempt, the session and its health probe, the release of the attempt's scope, the
back-off, and the three places where it waits for a signal. Each signal has the effect it has at that
place; several are ignored at some. `session` and `generation` are what the fiber publishes, `phase` the
state shown to the user. An interrupted `Queue.take` leaves its item in the queue, so a signal that
arrives as a timer fires is taken next. Left out: delays, the spans, teardown of the whole client, and
exits of the driver that are interruptions only.

### DesktopBackend

One backend instance of the pool. `start()` is a call that waits for the mutex (`starts`) and then
resolves a configuration (`resolving`); it finds a run, fails in its configuration, preflight or entry
and schedules a restart, or begins a run. `run` is the life of each process: spawned, polled, serving,
silent after its readiness timed out, exited, and closed once the end is recorded. `stop` is each call of
`stop()`, from the transaction under the mutex to the kill after its timeout. `sleeping` is the restart
fiber. `latch` is the gate of the window service, `heldOff` a history of stops that overtook no start.

Merged into single steps: `onReady`'s change of state with the latch, `stop()`'s transaction with
`onShutdown`, the body of `finalizeRun`. `start()` uses the `desiredRunning` it read at first, which
nothing changes while the mutex is held. The mutex is not assumed to be first come, first served. Two
branches of the code are dead and left out, which the proofs show: `start()` with `ready` set and no run,
and `stop()`'s cleanup of a run that is not active (`LatchIsTrue`, `OpenIsActive`). Left out: a readiness
answer that arrives between the exit of a process and its record, a run's fiber ending in a defect, the
application's own teardown, output logs, telemetry, delays, `waitForReady`, the pool and its WSL
reconciliation, the update machine.

Mutated forms: next to the code's definitions each module has a few marked "Mutated form". No action
uses them. Each is the code with one plausible mistake; substituting it for the definition it follows
makes TLC find the property `PROJECT.json` pairs it with violated, which shows that the property has teeth.

## 3. What the runs check

| run | states | question | answer |
|---|---|---|---|
| `drain` | 3.5 * 10^3 | three items, one failing, two `drain()` calls: does `drain` mean what it says, and does it return? | yes; it returns unless processing failed (`DrainResolves` names the exception: the reactors catch everything but interruption) |
| `keyed` | 2.9 * 10^4 | two keys, four updates, failures: do flags and queue stay in step, is every update processed or failed once, is `drainKey` sound and does everything settle? | yes |
| `engine` | 5.4 * 10^5 | four calls of three commands, one retried; storage failures; two crashes; an upgrade: are log, model, tables, stream, receipts and answers in step? | yes, and the engine implements `CommandLog` |
| `engine_limit` | | does a new projector catch up with a log longer than one read? | no (finding 1) |
| `attention` | 1.2 * 10^6 | one approval, one question, a restart, every order: do the decider and the shell flags agree on open requests; is a settled thread quiet; do requests wake it? | yes |
| `attention_clocks` | 5 * 10^5 | with clients' clocks right or behind, and a snooze: does the queued-start rule stop blocking after adoption, and at some time in any case; do the two projectors agree on the lifecycle? | yes |
| `attention_restart` | | can a thread with an open request be settled? | yes, after a restart (finding 2) |
| `sync` | 1.3 * 10^6 | three events, three mounts, connections or wake-ups, both kinds of server: is the copy the thread at its cursor, does it only go forward, is it called live only when caught up, and does it get there? | yes, but for events in `missed` |
| `turns` | 6.0 * 10^5 | two turns, a report at any time, interrupts, a revert, a failed call: does any projection show a turn that runs when none does, do outcomes stick, do checkpoints have their refs and agree, are placeholders replaced? | yes, with the exceptions the properties name |
| `turns_placeholder` | | does a placeholder ever replace a real capture? | yes, in the tables (finding 3) |
| `supervisor` | 2.2 * 10^5 | three calls, network changes or wake-ups and two failures at any time: does the supervisor work only for what is wanted, wait only for a reason, serve a retry, count only failures, and come to rest where it should? | yes |
| `desktop` | 5.0 * 10^4 | three `start()`, two `stop()`, three failures in any order: is there one process at most, is nothing wanted forgotten or stopped revived, is the latch true, and does it come to rest where the last call says? | yes |

### Bounds

- `engine`: three commands are the least with which one is retried, one depends on an earlier one and
  one is refused in some orders; a command has at most two events, so transactions can fail between
  events; three projectors, one of them new in the later release. Two crashes let a process crash, start,
  crash in its bootstrap and start again. `Faults` bounds which storage calls fail in one behaviour: any
  of reading the receipt, a statement of the transaction, writing a refusal, and either a commit that
  reports an error or the read of the reconciliation, each any number of times. Both together are left
  out on purpose: the code logs a warning and goes on with a read model that lacks committed events
  ("read model may be stale"). `ReadLimit` is larger than the log in `engine` and smaller in `engine_limit`.
- `attention`: requests only interact through the set of open ones, so one of each kind shows every
  rule; the clock runs over two values, which suffices for ordering against the grace window of 0.
  Requests and snoozes only meet in the guard of a snooze, so snoozes are left to `attention_clocks`. That
  run leaves the requests out and lets the clock run from 2 to 6 with a grace of 1, long enough for a
  message to be queued, adopted and to age out and for a snooze to end. Its clients' clocks are right
  or behind: with one ahead of the server `AdoptionClears` fails, because `projector.ts:549` stamps the new
  turn with the session's time and not, as the comment at `decider.ts:94` and the tables have it, with the
  message's.
- `sync`: three events, so that one can be in a snapshot, one in the replay and one live, and so that a
  command can have two; three moves are a mount, a session and one more of either or a wake-up: a
  mount from the cache, a second session, a subscription abandoned while it catches up. One thread and one client:
  subscriptions share nothing but the engine.
- `turns`: two turns are the least with which a late event meets a newer turn and a revert removes one of
  two; one report, revert and failure each, at any time. Safety was also checked with two reports (6.4
  million states), too long for a standing run. `Supersedes` is FALSE: with TRUE `OneTurnRuns` and
  `QuietIsQuiet` fail, because the ingestion moves the session to the new turn without ending the old
  one (`ProviderRuntimeIngestion.ts:1492-1503`). `MaxCheckpoints`, 500 in the
  code, is not reached; with 1 `CheckpointsKnown` fails.
- `supervisor`: three calls let a signal arrive, be overtaken and be countermanded while an attempt ends;
  two failures reach the second step of the ladder. The target is a relay, whose credentials are one
  signal more.
- `desktop`: two stops overlap each other and a start; three starts and failures let a restart that fired
  wait behind a stop, and the preflight limit of 2 be reached.
- `drain`, `keyed`: two callers of `drain`; three items (one queued, one in hand, one failing), or four
  updates on two keys, so that a key is updated while queued, while active and while its cleanup runs.

### Fairness

Weak fairness of the worker fibers and of a waiting `drain` (the Effect runtime runs every fiber that can
run; `txRetry` wakes when what it read changes), of the engine's start and processing (the service
manager restarts the server, its one fiber is always runnable), of the clock; in `ThreadSync` of the engine's
steps, of the fibers of a subscription's stream and of the client's runtime with its transport; in
`ThreadTurns` of the ingestion, the reactor and the delivery of an accepted start; in
`ConnectionSupervisor` of the supervisor's fiber, of a caller between its two steps and of its timers; in
`DesktopBackend` of its fibers, of whoever waits for the mutex, of timers and of the end of a killed
process. No client, no provider and no failure is ever obliged to happen: every liveness property starts
from something that is under way, or says where things come to rest once calls and failures have ended.

## 4. Findings

1. `engine_limit`: `ProjectionPipeline` bootstraps each projector with one `readFromSequence` call, which
   returns at most 1000 events. A projector that is added by an upgrade, on a database with more, never
   sees the rest: the next live event sets its cursor past them. `docs/internals/overview.md:78` says
   the read model cannot durably disagree with the event log.
2. `attention_restart`: the command read model is rebuilt without activities, so after a restart the
   decider does not know of the pending approvals and accepts a settle or a snooze that
   `decider.ts:465` says must be refused.
3. `turns_placeholder`: the ingestion decides on a placeholder checkpoint when it reads a diff and
   dispatches it later. A real capture recorded in between is replaced in the tables, though not in the
   read model or the client, against the comment at `ProviderRuntimeIngestion.ts:1903-1905`.

Seen while modelling, without a run of their own:

- An approval response that fails for another reason than staleness has already resolved the approval's
  row, so the shell's flag is clear while the decider still sees an open request (`apart` in
  `ThreadAttention`).
- `subscribeThread` attaches its live stream with a plain `Effect.forkScoped`, which only schedules the
  fiber, and reads the snapshot or the replay in its own. An event published after that read and before the
  scheduler reaches the forked fiber is lost (`missed` in `ThreadSync`), which the comment at
  `server/ws.ts:1732` says the order prevents; `subscribeShell` passes `startImmediately: true`.
- The thread subscription never sends `thread.deleted` (`isThreadDetailEvent`), so a client with a copy of a
  deleted thread resumes, receives the marker and shows it as live.
- No projector of the pipeline has a case for `thread.messages-rewound` (`ProjectionPipeline.ts:944`), so
  the messages a rewind drops from the read model (`projector.ts:738`) stay in the tables.
- A turn that completes and whose completion the reactor sees only when the next turn is active is not
  captured (`CheckpointReactor.ts:371`); the definition `Bracketed` in `ThreadTurns` states what
  `overview.md:117` describes, and does not hold for such a turn.
- A turn that was interrupted is captured twice and ends as "completed" in the tables; after a revert or an
  interrupt the projections name the latest turn and its state differently.
- The engine's read model keeps a thread's last 500 checkpoints (`projector.ts:655`), the tables and the
  clients all of them; after a revert to a turn before those it has none left, so its `latestTurn` is null.
- In `DesktopBackend` a restart that fired and waits for the mutex behind a `stop()` makes the backend
  wanted again (`StopHolds` is about the stops that overtook no start), and a readiness timeout is only
  logged: the run stays, silent.

## 5. What is proved

Every theorem holds for all values of the constants that satisfy the module's named assumptions.

- `DrainableWorkerProofs`: `TypeCorrect`, `CounterIsExact`, `NothingLost`, `DrainIsSound`. The inductive
  invariant is types, conservation of items and the count, with one fact more: whoever waits in `drain`
  is owed items that are all somewhere in queue, hand or finished.
- `KeyedCoalescingWorkerProofs`: `TypeCorrect`, `FlagsAreRight`, `NoValueForgotten`, `OneKeyActive`,
  `NothingLost`, `DrainIsSound`. The invariant ties the worker's position to the flags: a key is
  active exactly while the fiber holds it, a key with a waiting value is queued or active, and a
  key is queued once.
- `OrchestrationEngineProofs`: `TypeCorrect`, `CommandsTakeEffectOnce` (`ExactlyOnce`),
  `AnswersAreTrue` (`AnswersDurable`), `ReceiptsAreFinal` (`ReceiptsFinal`), `HeadIsMonotonic`
  (`HeadMonotonic`). `ExactlyOnce` is not inductive alone: a commit keeps it only if the receipt that was
  looked up before the decision is still absent, if all events in the open transaction are the current
  command's, and if there is at least one. `EnvelopeInv`, `VerdictInv` and `BatchInv` (the parts of
  `Control`) say so at each position of the fiber; `HeadInv` bounds what was published by the model's
  sequence. `IInv` is their conjunction with the two properties and the types. The theorems cover any
  storage failures in any number, any crashes and upgrades; they assume `HydrateTypes`, that the tables
  hydrate to some read model, which only the type of `model` needs.
  For the log there are `TablesFollowLog` (`TablesAreLog`), `DecidedOnLog` (`ModelIsLog`),
  `StreamIsLog` (`PublishedIsLog`) and `EngineKeepsPromise` (the refinement `ImplementsCommandLog`). `TablesInv`
  ties cursors to rows and to the projectors a bootstrap has still to visit; `ModelInv` says, for every
  place of the fiber, which prefix of the log the read model and the stream have reached, and that an open
  transaction or a replay has the state of the prefix it has worked through. For the refinement
  `CallersInv` adds that whoever is queued or in hand waits and is there once, `DecisionInv` that the
  transaction is what the log's state says of the command. The conditions are hypotheses of the theorems:
  `WithinLimit`, a log no longer than one read (finding 1 is what happens without it; `TablesFollowLog`
  needs nothing else); `OneOfTwo`, no commit that reports a failure where a reconciliation fails, since the
  code then goes on with a stale model; `HydrateIsState`, complete tables hydrate to the state of the log,
  which is true of a model without the messages and activities that hydration drops (finding 2); `SomeCursor`,
  some required projector is not new. The state of a log is a recursive function; that it exists and
  that logs with a common prefix go through the same states is proved by the least counterexample
  (`LeastNat`), since the induction theorems of the library cannot be instantiated.
- `ConnectionSupervisorProofs`: `TypeCorrect`, `WorkStaysWanted`, `ParksForReason`, `RetriesServed`,
  `LadderEarned`, `SessionsNew`. A step changes the signals on their way in one of four manners, one lemma
  each; what makes the invariant inductive is `SessionHeld`, `LadderRoom` (a transient failure leaves room
  on the ladder) and `GenerationUsed`.
- `DesktopBackendProofs`: `TypeCorrect`, `OneProcess`, `LatchFollows`, `NeverForgotten`, `StopsHold`.
  `OneBackend` follows from `OpenIsActive` (only the active run is not recorded as ended) and
  `ResolvingAlone` (a start that holds the mutex found no run).
- `ThreadSyncProofs`: `TypeCorrect`, `CopyIsThread` (`ViewIsThread`), `LiveIsSynchronized`
  (`LiveIsCaughtUp`), `NeverGoesBack` (`NeverBack`), for logs of any length. The invariant says where the
  events are that a copy lacks: on the wire in order, behind them in the live buffer, or still to be
  replayed (`Stream`), or in `missed`; that the marker stands behind all that it vouches for (`InOrder` and
  `BufferInOrder`, where an item's `Needs` come first); and that a client waits until it has come (`Waits`).
- `ThreadAttentionProofs`: `TypeCorrect`, `TwinsAgree` (`LifecycleAgrees`), `SettledStaysQuiet`
  (`SettledIsQuiet`), `RequestsAlwaysWake` (`RequestsWake`), `ClearingRulesMatch` (`RulesMatch`),
  `SettledHidesOnlyApart`, `AdoptionEndsQueue` (`AdoptionClears`), for any sets of requests, clock offsets,
  grace and number of restarts. One lemma per projection says what an event does to each field; an action
  is then the one to four events it emits. `TwinInv` (types and `LifecycleAgrees`) carries the others.
  `SettledIsQuiet` is inductive with it. `RulesMatch` is not: a request that opens must have left no trace
  in the rows, since a row that was resolved never becomes pending again (`Fresh`). `SettledHidesOnlyApart`
  combines the two: what finding 2 leaves of the promise at `decider.ts:465`. `AdoptionEndsQueue` has the
  hypothesis `ClientsNotAhead`, without which it is false (see the bounds of `attention`).
- `ThreadTurnsProofs`: `TypeCorrect`, `CheckpointsRestorable` (`RefsBack`), `OutcomesStay`
  (`OutcomeSticks`), `OneTurnAtATime` (`OneTurnRuns`), `QuietMeansQuiet` (`QuietIsQuiet`), `SameCheckpoints`,
  `CheckpointsFollow`, `CheckpointsAgree` (`CheckpointsKnown`). `RefsHeld` says that a row's ref exists but
  above the target of the revert that has deleted refs and not yet recorded it.
  `OneTurnRuns` and `QuietIsQuiet` need to know why a row may run: the session says so, or the second half
  of a late text is about to end it (`MayRun`), and that the ingestion leaves no turn before it has ended it.
  `OneInv` says that the events in `feed` are those of one turn after the other (`FeedInOrder`), that the
  commands in `todo` are for the turn the ingestion has reached (`TodoInOrder`), and that rows and client
  show at most what may run. Hypothesis: `~ Supersedes`; with a provider that supersedes, both are false.
  For the checkpoints, `SameInv` says that the read model and the client, whose reducers are separate code,
  hold the same list with one checkpoint per turn; `KnownInv`, that a row's checkpoint is in that list or is
  a placeholder whose event the reactor has in its queue or whose capture it is making, unless a call
  failed. At rest the second case is gone, which is `CheckpointsKnown`. Hypothesis: `WithinCap`, no more
  turns than the read model keeps checkpoints; the list then never reaches the cap, by the pigeonhole
  principle. What a filtered list contains is proved by the least counterexample, as for logs.

Every safety and action property of a passing run is a theorem. Stay with TLC: the liveness properties
(`DrainResolves`, `EverythingSettles`, `Answered`, `BlockEnds`, `PlaceholdersReplaced`, the three
`Converges`), since the prover does not reason about fairness and ENABLED; and what happens outside the
hypotheses above.

## 6. Not modelled

- Storage itself: SQLite transactions are atomic and durable, the event store hands out consecutive
  sequences. Attachment files, which the pipeline deletes inside its transaction.
- Payloads: message texts, plans, diffs, titles, project settings, kanban fields. They do not influence
  the control modelled so far.
- Two processes on one database: the server takes no lock against it and the documentation does not
  provide for it.
- Provider protocols, git, terminals, relay, user interfaces: external programs or presentation. Most of
  the repository's lines are of this kind (schemas generated from protocols, adapters, screens), which is
  why the modelled share of its lines is small.
- In `ThreadSync`: a store replaced by an older copy under a client's cursor; paging of older activities
  (`loadOlderActivities`, which a lock keeps apart from stream items); items of an abandoned subscription
  that the client has queued already; the steps inside `applyItem`, which that lock makes one; the
  supervisor's states other than session or none, which only show in the status.
- What section 2 names as left out of `ThreadTurns`, `ConnectionSupervisor` and `DesktopBackend`.
- The components marked as candidates below.

## 7. Plan

In order of weight; each is written like the modules above, data abstracted, one action per operation,
no RECURSIVE operator, so that it can be proved about.

1. `ShellSync`: `subscribeShell` with its coalescing, its replay bounded by the head and its gap check,
   composed with the client's shell state.
2. `ProviderTurns`: the provider command reactor with session directory, reaper and stop/start races.
3. `PairingGrants`, `PreviewBroker`: single use, one outcome per request.
4. Proofs: the safety theorems of the new modules; for `ThreadTurns`, what still holds of the projections
   when a provider supersedes its turn or a thread outgrows the cap on its checkpoints.
