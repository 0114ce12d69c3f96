------------------------- MODULE OrchestrationEngine -------------------------
(***************************************************************************)
(* apps/server/src/orchestration/Layers/OrchestrationEngine.ts with the    *)
(* storage it drives: the event store, the command receipts and the        *)
(* projection pipeline.  One worker fiber takes commands from a queue; it  *)
(* looks for a receipt, decides the command on the in-memory read model,   *)
(* appends and projects the events in one SQL transaction, swaps the read  *)
(* model in, publishes the events and answers.  Storage calls may fail     *)
(* (Faults) and the process may crash at any point and start again,        *)
(* possibly as a later release with more projectors.                       *)
(*                                                                         *)
(* What a command does is a parameter (Decide, Apply, Hydrate), so that    *)
(* what is proved here holds for every decider.                            *)
(***************************************************************************)
EXTENDS Naturals, Sequences, FiniteSets, SequencesExt

CONSTANTS Call,            \* calls of dispatch()
          Command,         \* command identities (commandId)
          CommandOf,       \* the command each call carries
          Body,            \* event payloads
          Model,           \* contents of the read model
          EmptyModel,
          Decide(_, _),    \* model, command -> bodies of its events; <<>> is an invariant error
          Apply(_, _),     \* projector.ts projectEvent: model, body -> model
          Hydrate(_, _),   \* getCommandReadModel: log, rows applied -> model
          Projector,       \* projectors of the pipeline
          ProjectorOrder,  \* the order they run in
          Required,        \* REQUIRED_SNAPSHOT_PROJECTORS
          Later,           \* projectors only the later release has
          ReadLimit,       \* DEFAULT_READ_FROM_SEQUENCE_LIMIT (1000)
          Faults,          \* the sets of storage calls that may fail in one behaviour
          MaxCrashes       \* bound: crashes per behaviour

ASSUME CallsAssumption == CommandOf \in [Call -> Command]
ASSUME DeciderAssumption ==
  /\ EmptyModel \in Model
  /\ \A m \in Model, c \in Command : Decide(m, c) \in Seq(Body)
  /\ \A m \in Model, b \in Body : Apply(m, b) \in Model
ASSUME ProjectorsAssumption ==
  /\ ProjectorOrder \in Seq(Projector) /\ ToSet(ProjectorOrder) = Projector /\ Projector # {}
  /\ Required \subseteq Projector
  /\ Later \subseteq Projector
ASSUME BoundsAssumption ==
  /\ ReadLimit \in Nat \ {0}
  /\ MaxCrashes \in Nat

VARIABLES
  log,       \* table orchestration_events; the index is the sequence
  receipts,  \* table orchestration_command_receipts
  applied,   \* the events each projector's tables reflect
  cursor,    \* table projection_state, 0 where there is no row
  release,   \* projectors of the running release
  pc,        \* where the engine's fiber is
  boot,      \* bootstrap: projectors left, and how far the first one reads
  model,     \* commandReadModel: [state, seq], seq being snapshotSequence
  queue,     \* commandQueue
  call,      \* the envelope being processed
  start,     \* dispatchStartSequence
  todo,      \* bodies still to append, or to replay after a failure
  tx,        \* events appended in the open transaction; nextReadModel so far
  outbox,    \* committed events still to publish
  error,     \* why the envelope failed: "none", "storage", "invariant"
  bus,       \* sequences published to eventPubSub since the process started
  booted,    \* history: snapshotSequence at start
  answer,    \* what each dispatch() call was told
  failed,    \* history: the storage calls that have failed
  crashes

durable == <<log, receipts, applied, cursor>>
work == <<call, start, todo, tx, outbox, error>>
bounds == <<failed, crashes>>
vars == <<durable, release, pc, boot, model, queue, work, bus, booted, answer, bounds>>

Event(c, b) == [command |-> c, body |-> b]
NoReceipt == [status |-> "none"]
AcceptedReceipt(n) == [status |-> "accepted", sequence |-> n]
RejectedReceipt(n) == [status |-> "rejected", sequence |-> n]
NoCall == "no call"
NoTx == [events |-> <<>>, state |-> EmptyModel]
NoBoot == [left |-> <<>>, upto |-> 0]

\* What a call of dispatch() knows.
Unasked == [status |-> "not called"]
Waiting == [status |-> "waiting"]
Rejected == [status |-> "refused"]
Failed == [status |-> "failed"]
Lost == [status |-> "lost"]

Cmd == CommandOf[call]
AtMost(a, b) == IF a < b THEN a ELSE b
UpTo(a, n) == [i \in 1..(n - a) |-> a + i]   \* <<a + 1, ..., n>>

\* The states a log goes through, and the one it stands for.
StatesOf(events) ==
  LET s[n \in 0..Len(events)] == IF n = 0 THEN EmptyModel ELSE Apply(s[n - 1], events[n].body)
  IN s

StateOf(events) == StatesOf(events)[Len(events)]

\* A storage call of kind f fails.
Fail(f) == /\ failed' = failed \cup {f}
           /\ failed' \in Faults
           /\ UNCHANGED crashes

Init ==
  /\ log = <<>>
  /\ receipts = [c \in Command |-> NoReceipt]
  /\ applied = [p \in Projector |-> {}]
  /\ cursor = [p \in Projector |-> 0]
  /\ release = Projector \ Later
  /\ pc = "down"
  /\ boot = NoBoot
  /\ model = [state |-> EmptyModel, seq |-> 0]
  /\ queue = <<>>
  /\ call = NoCall /\ start = 0 /\ todo = <<>> /\ tx = NoTx
  /\ outbox = <<>> /\ error = "none"
  /\ bus = <<>> /\ booted = 0
  /\ answer = [k \in Call |-> Unasked]
  /\ failed = {} /\ crashes = 0

-----------------------------------------------------------------------------
(* Start: makeOrchestrationEngine, before the worker is forked.             *)

\* readFromSequence(cursor): ReadLimit events past the cursor at most.
BootOf(left) ==
  [left |-> left,
   upto |-> IF left = <<>> THEN 0 ELSE AtMost(cursor[Head(left)] + ReadLimit, Len(log))]

Start ==
  /\ pc = "down"
  /\ pc' = "boot"
  /\ release' \in {release, Projector}
  /\ boot' = BootOf(ProjectorOrder)
  /\ UNCHANGED <<durable, model, queue, work, bus, booted, answer, bounds>>

\* Mutated form: the cursor is written but the event is not applied.
BootEventSkips ==
  /\ pc = "boot" /\ boot.left # <<>>
  /\ LET p == Head(boot.left) IN
       /\ p \in release /\ cursor[p] < boot.upto
       /\ cursor' = [cursor EXCEPT ![p] = @ + 1]
  /\ UNCHANGED <<log, receipts, applied, release, pc, boot, model, queue, work, bus,
                 booted, answer, bounds>>

\* runProjectorForEvent in bootstrapProjector: a transaction per event.
BootEvent ==
  /\ pc = "boot" /\ boot.left # <<>>
  /\ LET p == Head(boot.left) IN
       /\ p \in release /\ cursor[p] < boot.upto
       /\ applied' = [applied EXCEPT ![p] = @ \cup {cursor[p] + 1}]
       /\ cursor' = [cursor EXCEPT ![p] = @ + 1]
  /\ UNCHANGED <<log, receipts, release, pc, boot, model, queue, work, bus, booted,
                 answer, bounds>>

\* The projector has read all it was given; a later release's is not there yet.
BootNextProjector ==
  /\ pc = "boot" /\ boot.left # <<>>
  /\ Head(boot.left) \in release => cursor[Head(boot.left)] >= boot.upto
  /\ boot' = BootOf(Tail(boot.left))
  /\ UNCHANGED <<durable, release, pc, model, queue, work, bus, booted, answer, bounds>>

\* computeSnapshotSequence: the least cursor of the required projectors.
SnapshotSequence ==
  LET cursors == {cursor[p] : p \in Required \cap release}
  IN IF cursors = {} THEN 0 ELSE CHOOSE n \in cursors : \A m \in cursors : n <= m

\* Mutated form: the tables are not read.
HydrateEmpty ==
  /\ pc = "boot" /\ boot.left = <<>>
  /\ model' = [state |-> EmptyModel, seq |-> SnapshotSequence]
  /\ booted' = model'.seq
  /\ pc' = "idle"
  /\ UNCHANGED <<durable, release, boot, queue, work, bus, answer, bounds>>

HydrateModel ==
  /\ pc = "boot" /\ boot.left = <<>>
  /\ model' = [state |-> Hydrate(log, applied), seq |-> SnapshotSequence]
  /\ booted' = model'.seq
  /\ pc' = "idle"
  /\ UNCHANGED <<durable, release, boot, queue, work, bus, answer, bounds>>

-----------------------------------------------------------------------------
(* dispatch() and processEnvelope.                                          *)

Dispatch(k) ==
  /\ pc \notin {"down", "boot"}
  /\ answer[k] = Unasked
  /\ answer' = [answer EXCEPT ![k] = Waiting]
  /\ queue' = Append(queue, k)
  /\ UNCHANGED <<durable, release, pc, boot, model, work, bus, booted, bounds>>

Take ==
  /\ pc = "idle"
  /\ queue # <<>>
  /\ call' = Head(queue)
  /\ queue' = Tail(queue)
  /\ start' = model.seq
  /\ pc' = "receipt"
  /\ UNCHANGED <<durable, release, boot, model, todo, tx, outbox, error, bus, booted,
                 answer, bounds>>

\* Deferred.succeed or Deferred.fail, and the end of the envelope.
Tell(a) ==
  /\ answer' = [answer EXCEPT ![call] = a]
  /\ call' = NoCall /\ start' = 0 /\ todo' = <<>> /\ tx' = NoTx
  /\ outbox' = <<>> /\ error' = "none"
  /\ pc' = "idle"
  /\ UNCHANGED <<durable, release, boot, model, queue, bus, booted, bounds>>

ReplayAccepted ==
  /\ pc = "receipt"
  /\ receipts[Cmd].status = "accepted"
  /\ Tell(receipts[Cmd])

\* OrchestrationCommandPreviouslyRejectedError: no reconciliation, no new receipt.
ReplayRejected ==
  /\ pc = "receipt"
  /\ receipts[Cmd].status = "rejected"
  /\ Tell(Rejected)

\* The receipt cannot be read, or a transaction is rolled back: `why` sends the
\* envelope to reconcileReadModelAfterDispatchFailure.
Fails(why) ==
  /\ error' = why
  /\ todo' = <<>> /\ tx' = NoTx
  /\ pc' = "reconcile"
  /\ UNCHANGED <<durable, release, boot, model, queue, call, start, outbox, bus, booted,
                 answer>>

ReceiptReadFails == pc = "receipt" /\ Fail("receipt") /\ Fails("storage")

\* decideOrchestrationCommand reads commandReadModel, which only this fiber writes.
DecideRejects ==
  /\ pc = "receipt"
  /\ receipts[Cmd] = NoReceipt
  /\ Decide(model.state, Cmd) = <<>>
  /\ Fails("invariant")
  /\ UNCHANGED bounds

DecideAccepts ==
  /\ pc = "receipt"
  /\ receipts[Cmd] = NoReceipt
  /\ Decide(model.state, Cmd) # <<>>
  /\ todo' = Decide(model.state, Cmd)
  /\ tx' = [events |-> <<>>, state |-> model.state]
  /\ pc' = "transaction"
  /\ UNCHANGED <<durable, release, boot, model, queue, call, start, outbox, error, bus,
                 booted, answer, bounds>>

\* Mutated form: commandReadModel is written inside the transaction.
PersistEventSwaps ==
  /\ pc = "transaction"
  /\ todo # <<>>
  /\ tx' = [events |-> Append(tx.events, Event(Cmd, Head(todo))),
            state |-> Apply(tx.state, Head(todo))]
  /\ model' = [state |-> tx'.state, seq |-> model.seq]
  /\ todo' = Tail(todo)
  /\ UNCHANGED <<durable, release, pc, boot, queue, call, start, outbox, error, bus,
                 booted, answer, bounds>>

\* append, projectEvent and projectionPipeline.projectEvent for one event, all
\* inside the open transaction: nothing durable changes yet.
PersistEvent ==
  /\ pc = "transaction"
  /\ todo # <<>>
  /\ tx' = [events |-> Append(tx.events, Event(Cmd, Head(todo))),
            state |-> Apply(tx.state, Head(todo))]
  /\ todo' = Tail(todo)
  /\ UNCHANGED <<durable, release, pc, boot, model, queue, call, start, outbox, error, bus,
                 booted, answer, bounds>>

\* A statement fails; withTransaction rolls everything back.
TransactionFails == pc = "transaction" /\ Fail("transaction") /\ Fails("storage")

\* Mutated form: the receipt is left to a later statement.
CommitWithoutReceipt ==
  LET last == Len(log) + Len(tx.events) IN
  /\ log' = log \o tx.events
  /\ applied' = [p \in Projector |->
                   IF p \in release THEN applied[p] \cup (Len(log) + 1)..last ELSE applied[p]]
  /\ cursor' = [p \in Projector |-> IF p \in release THEN last ELSE cursor[p]]
  /\ UNCHANGED receipts

\* What COMMIT makes durable: the events, every projector's rows and cursor,
\* and the receipt.
CommitDurably ==
  LET last == Len(log) + Len(tx.events) IN
  /\ log' = log \o tx.events
  /\ applied' = [p \in Projector |->
                   IF p \in release THEN applied[p] \cup (Len(log) + 1)..last ELSE applied[p]]
  /\ cursor' = [p \in Projector |-> IF p \in release THEN last ELSE cursor[p]]
  /\ receipts' = [receipts EXCEPT ![Cmd] = AcceptedReceipt(last)]

Commit ==
  /\ pc = "transaction"
  /\ todo = <<>>
  /\ CommitDurably
  /\ model' = [state |-> tx.state, seq |-> Len(log')]
  /\ outbox' = UpTo(Len(log), Len(log'))
  /\ tx' = NoTx
  /\ pc' = "publish"
  /\ UNCHANGED <<release, boot, queue, call, start, todo, error, bus, booted, answer, bounds>>

\* COMMIT takes effect but reports an error: the case reconciliation is for.
CommitReportsFailure ==
  /\ pc = "transaction"
  /\ todo = <<>>
  /\ Fail("commit")
  /\ CommitDurably
  /\ error' = "storage"
  /\ tx' = NoTx
  /\ pc' = "reconcile"
  /\ UNCHANGED <<release, boot, model, queue, call, start, todo, outbox, bus, booted, answer>>

\* PubSub.publish, one event at a time; other fibers run in between.
PublishEvent ==
  /\ pc = "publish"
  /\ outbox # <<>>
  /\ bus' = Append(bus, Head(outbox))
  /\ outbox' = Tail(outbox)
  /\ UNCHANGED <<durable, release, pc, boot, model, queue, call, start, todo, tx, error,
                 booted, answer, bounds>>

\* Mutated form: the answer has the sequence of the first event.
AnswerFirstEvent ==
  pc = "publish" /\ outbox = <<>> /\ error = "none" /\ Tell(AcceptedReceipt(start + 1))

AnswerAccepted ==
  /\ pc = "publish" /\ outbox = <<>> /\ error = "none"
  /\ Tell(AcceptedReceipt(model.seq))

-----------------------------------------------------------------------------
(* The failure path of processEnvelope.                                     *)

\* reconcileReadModelAfterDispatchFailure reads the events past
\* dispatchStartSequence: what a COMMIT that reported a failure left behind.
Reconcile ==
  /\ pc = "reconcile"
  /\ LET upto == AtMost(start + ReadLimit, Len(log)) IN
       /\ outbox' = UpTo(start, upto)
       /\ todo' = [i \in 1..(upto - start) |-> log[start + i].body]
  /\ tx' = [events |-> <<>>, state |-> model.state]
  /\ pc' = "replay"
  /\ UNCHANGED <<durable, release, boot, model, queue, call, start, error, bus, booted,
                 answer, bounds>>

\* projectEventsOntoReadModel, one event at a time.
ReplayEvent ==
  /\ pc = "replay"
  /\ todo # <<>>
  /\ tx' = [tx EXCEPT !.state = Apply(@, Head(todo))]
  /\ todo' = Tail(todo)
  /\ UNCHANGED <<durable, release, pc, boot, model, queue, call, start, outbox, error, bus,
                 booted, answer, bounds>>

\* Mutated form: the events are not published.
ReplaySwapSilently ==
  /\ pc = "replay" /\ todo = <<>>
  /\ model' = [state |-> tx.state, seq |-> start + Len(outbox)]
  /\ outbox' = <<>>
  /\ tx' = NoTx
  /\ pc' = "publish"
  /\ UNCHANGED <<durable, release, boot, queue, call, start, todo, error, bus, booted,
                 answer, bounds>>

\* The model is swapped in once all are projected; then they are published.
ReplaySwap ==
  /\ pc = "replay"
  /\ todo = <<>>
  /\ model' = IF outbox = <<>> THEN model
              ELSE [state |-> tx.state, seq |-> start + Len(outbox)]
  /\ tx' = NoTx
  /\ pc' = "publish"
  /\ UNCHANGED <<durable, release, boot, queue, call, start, todo, outbox, error, bus,
                 booted, answer, bounds>>

\* The events cannot be read: a warning is logged and the model stays as it is.
ReconcileFails ==
  /\ pc = "reconcile"
  /\ Fail("reconcile")
  /\ pc' = "publish"
  /\ UNCHANGED <<durable, release, boot, model, queue, work, bus, booted, answer>>

\* An invariant error is recorded, so that a retry is answered the same way.
RecordRefusal ==
  /\ pc = "publish" /\ outbox = <<>> /\ error = "invariant"
  /\ receipts' = [receipts EXCEPT ![Cmd] = RejectedReceipt(model.seq)]
  /\ pc' = "fail"
  /\ UNCHANGED <<log, applied, cursor, release, boot, model, queue, work, bus, booted,
                 answer, bounds>>

\* The receipt cannot be written: the error is swallowed.
RecordRefusalFails ==
  /\ pc = "publish" /\ outbox = <<>> /\ error = "invariant"
  /\ Fail("refusal")
  /\ pc' = "fail"
  /\ UNCHANGED <<durable, release, boot, model, queue, work, bus, booted, answer>>

AnswerRejected == pc = "fail" /\ Tell(Rejected)

\* Mutated form: the Deferred is left alone.
AnswerFailedSilently ==
  /\ pc = "publish" /\ outbox = <<>> /\ error = "storage"
  /\ call' = NoCall /\ start' = 0 /\ error' = "none"
  /\ pc' = "idle"
  /\ UNCHANGED <<durable, release, boot, model, queue, todo, tx, outbox, bus, booted,
                 answer, bounds>>

AnswerFailed ==
  /\ pc = "publish" /\ outbox = <<>> /\ error = "storage"
  /\ Tell(Failed)

-----------------------------------------------------------------------------
\* The process ends: an open transaction rolls back, everything in memory is
\* gone, callers never hear.
Crash ==
  /\ pc # "down"
  /\ crashes < MaxCrashes
  /\ crashes' = crashes + 1
  /\ pc' = "down"
  /\ boot' = NoBoot
  /\ model' = [state |-> EmptyModel, seq |-> 0]
  /\ queue' = <<>>
  /\ call' = NoCall /\ start' = 0 /\ todo' = <<>> /\ tx' = NoTx
  /\ outbox' = <<>> /\ error' = "none"
  /\ bus' = <<>> /\ booted' = 0
  /\ answer' = [k \in Call |-> IF answer[k] = Waiting THEN Lost ELSE answer[k]]
  /\ UNCHANGED <<durable, release, failed>>

Boot == Start \/ BootEvent \/ BootNextProjector \/ HydrateModel

Process ==
  \/ Take \/ ReplayAccepted \/ ReplayRejected \/ ReceiptReadFails
  \/ DecideRejects \/ DecideAccepts \/ PersistEvent \/ TransactionFails
  \/ Commit \/ CommitReportsFailure \/ PublishEvent \/ AnswerAccepted
  \/ Reconcile \/ ReplayEvent \/ ReplaySwap \/ ReconcileFails \/ RecordRefusal \/ RecordRefusalFails
  \/ AnswerRejected \/ AnswerFailed

Next == Boot \/ Process \/ Crash \/ \E k \in Call : Dispatch(k)

Spec == Init /\ [][Next]_vars

\* The service manager starts the process and the runtime schedules its fiber;
\* nobody has to call dispatch() and nothing has to fail.
FairSpec == Spec /\ WF_vars(Boot \/ Process)

-----------------------------------------------------------------------------
\* Types of the variables.
TypeOK ==
  /\ log \in Seq([command : Command, body : Body])
  /\ receipts \in [Command -> {NoReceipt}
                     \cup [status : {"accepted", "rejected"}, sequence : Nat]]
  /\ applied \in [Projector -> SUBSET Nat]
  /\ cursor \in [Projector -> Nat]
  /\ release \subseteq Projector
  /\ pc \in {"down", "boot", "idle", "receipt", "transaction", "publish", "reconcile", "replay", "fail"}
  /\ boot \in [left : Seq(Projector), upto : Nat]
  /\ model \in [state : Model, seq : Nat]
  /\ queue \in Seq(Call)
  /\ call \in Call \cup {NoCall}
  /\ start \in Nat
  /\ todo \in Seq(Body)
  /\ tx \in [events : Seq([command : Command, body : Body]), state : Model]
  /\ outbox \in Seq(Nat) /\ bus \in Seq(Nat) /\ booted \in Nat
  /\ error \in {"none", "storage", "invariant"}
  /\ answer \in [Call -> {Unasked, Waiting, Rejected, Failed, Lost}
                   \cup [status : {"accepted"}, sequence : Nat]]
  /\ failed \subseteq UNION Faults /\ crashes \in Nat

\* The events of a command in the log.
EventsOf(c) == {n \in DOMAIN log : log[n].command = c}

\* However often a command is dispatched, retried after an error, or cut off by
\* a crash, its events are in the log exactly once: all together, ending at the
\* sequence of its accepted receipt, and none without such a receipt.
ExactlyOnce ==
  \A c \in Command :
    IF receipts[c].status = "accepted"
      THEN \E n \in 1..receipts[c].sequence :
             EventsOf(c) = n..receipts[c].sequence
      ELSE EventsOf(c) = {}

\* A caller is told a sequence only when its command's last event is durable
\* there, in particular when the answer comes from the receipt of an earlier call.
AnswersDurable ==
  \A k \in Call :
    answer[k].status = "accepted" =>
      /\ answer[k] = receipts[CommandOf[k]]
      /\ answer[k].sequence \in EventsOf(CommandOf[k])
      /\ answer[k].sequence + 1 \notin EventsOf(CommandOf[k])

\* Subscribers get the log itself: from the sequence the process started at,
\* every committed event once, in order, never one that could still roll back.
\* Commits that report a failure are made up for by the reconciliation.
PublishedIsLog ==
  /\ bus = UpTo(booted, booted + Len(bus))
  /\ booted + Len(bus) <= Len(log)

\* Whenever a command is decided, the read model is the state of the whole log.
ModelIsLog ==
  pc \in {"idle", "receipt", "transaction"} =>
    /\ model.seq = Len(log)
    /\ model.state = StateOf(log)

\* A running engine's tables reflect the whole log, projector by projector:
\* docs/internals/overview.md:78, "the read model cannot durably disagree with
\* the event log".
TablesAreLog ==
  pc \notin {"down", "boot"} =>
    \A p \in release : applied[p] = 1..Len(log) /\ cursor[p] = Len(log)

\* A receipt is final: a later failure of a command that was accepted or refused
\* never rewrites what a retry will be told.
ReceiptsFinal ==
  [][\A c \in Command : receipts[c] # NoReceipt => receipts'[c] = receipts[c]]_vars

\* The head a resuming subscriber is compared with never goes back while the
\* process lives, and what was published never exceeds it.
HeadMonotonic ==
  [][pc # "down" /\ pc' # "down" =>
       /\ model'.seq >= model.seq
       /\ bus' # bus => bus'[Len(bus')] <= model'.seq]_vars

\* Every dispatch() call ends: with an answer, or lost with the process.
Answered ==
  \A k \in Call : answer[k] = Waiting ~> answer[k] \notin {Unasked, Waiting}

\* The engine implements its promise.
Promise == INSTANCE CommandLog WITH ledger <- log, verdict <- receipts
ImplementsCommandLog == Promise!Spec
=============================================================================
