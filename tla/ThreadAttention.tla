--------------------------- MODULE ThreadAttention ---------------------------
(***************************************************************************)
(* When a thread may be parked (settled or snoozed) and what brings it     *)
(* back.  One thread, seen twice: `mem` is the entry of the engine's read  *)
(* model (orchestration/projector.ts), which decider.ts decides on; `rows` *)
(* are the thread's rows in the projection tables (ProjectionPipeline.ts), *)
(* from which the clients' shell flags and the next start of the server    *)
(* are taken (getCommandReadModel).  A command turns into events that both *)
(* apply in one step, which is what OrchestrationEngine shows.             *)
(*                                                                         *)
(* A request (approval or question) is opened once and its activities      *)
(* carry increasing times, so the retained activities are abstracted to    *)
(* the set of requests they leave open.  "idle" sessions behave as "ready".*)
(***************************************************************************)
EXTENDS Integers

CONSTANTS Approval,   \* approval requests the provider may open
          Question,   \* user-input requests the provider may open
          Offset,     \* how far the clients' clocks are off the server's
          Grace,      \* QUEUED_TURN_START_GRACE_MS
          WakeTime,   \* values of snoozedUntil
          FirstTime, MaxTime,  \* bounds: the server's clock runs between them
          MaxRestarts          \* bound: restarts of the server

Request == Approval \cup Question

ASSUME TimeAssumption ==
  /\ FirstTime \in Nat \ {0} /\ MaxTime \in Nat /\ FirstTime <= MaxTime
  /\ Grace \in Nat /\ MaxRestarts \in Nat
  /\ WakeTime \subseteq Nat \ {0}
  /\ \A o \in Offset : o \in Int /\ FirstTime + o > 0
ASSUME RequestAssumption == Approval \cap Question = {}

VARIABLES
  mem,       \* the thread in commandReadModel
  rows,      \* the thread in the projection tables
  asked,     \* requests the provider waits for an answer to
  responses, \* response events ProviderCommandReactor has not handled
  arriving,  \* requests whose resolution ingestion has not seen yet
  opened,    \* requests opened so far
  now,       \* the server's clock
  restarts,
  apart,     \* history: requests on which mem and rows may have parted ways
  adopted    \* history: the newest user message was adopted by a turn

env == <<asked, responses, arriving, opened>>
vars == <<mem, rows, env, now, restarts, apart, adopted>>

Status == {"none", "starting", "running", "ready", "error", "interrupted", "stopped"}
Active == {"starting", "running"}

\* Times are positive; 0 stands for null.
Later(a, b) == IF a > b THEN a ELSE b

Init ==
  /\ mem = [override |-> "none", until |-> 0, archived |-> FALSE, session |-> "none",
            turn |-> "none", turnAt |-> 0, lastMessage |-> 0, open |-> {}]
  /\ rows = [override |-> "none", until |-> 0, archived |-> FALSE, session |-> "none",
             turn |-> "none", turnAt |-> 0, lastMessage |-> 0, questions |-> {},
             approvals |-> [a \in Approval |-> "none"], pendingStart |-> 0]
  /\ asked = {} /\ responses = {} /\ arriving = {} /\ opened = {}
  /\ now = FirstTime
  /\ restarts = 0
  /\ apart = {}
  /\ adopted = FALSE

-----------------------------------------------------------------------------
(* Events, and what the two projectors make of them.                        *)

Settled == [type |-> "settled"]
Unsettled(why) == [type |-> "unsettled", reason |-> why]
Snoozed(t) == [type |-> "snoozed", until |-> t]
Unsnoozed == [type |-> "unsnoozed"]
Archived == [type |-> "archived"]
Unarchived == [type |-> "unarchived"]
MessageSent(t) == [type |-> "message-sent", at |-> t]
TurnStartRequested(t) == [type |-> "turn-start-requested", at |-> t]
\* `fresh`: the session's activeTurnId is a turn that has no row yet.
SessionSet(s, fresh) == [type |-> "session-set", status |-> s, fresh |-> fresh, at |-> now]
RequestOpened(r) == [type |-> "requested", request |-> r]
RequestClosed(r) == [type |-> "resolved", request |-> r]
RespondFailed(r, stale) == [type |-> "respond.failed", request |-> r, stale |-> stale]
ResponseRequested(r) == [type |-> "response-requested", request |-> r]
InterruptRequested(t) == [type |-> "interrupt-requested", at |-> t]
Reverted == [type |-> "reverted"]   \* to turn count 0: nothing is retained
\* From the first message on.  `turn`: a dropped message names the latest turn.
Rewound(turn) == [type |-> "rewound", turn |-> turn]
Nothing == [type |-> "nothing"]    \* in place of an event that is not emitted

\* Mutated form: the override takes the reason's name.
OverrideIsReason(why) == why

\* Only the user's own unsettle pins the thread to the active list.
OverrideAfter(why) == IF why = "user" THEN "active" ELSE "none"

\* projector.ts projectEvent, in four parts; an event concerns one of them.
ProjectLifecycle(m, e) ==
  CASE e.type = "settled" -> [m EXCEPT !.override = "settled"]
    [] e.type = "unsettled" -> [m EXCEPT !.override = OverrideAfter(e.reason)]
    [] e.type = "snoozed" -> [m EXCEPT !.until = e.until]
    [] e.type = "unsnoozed" -> [m EXCEPT !.until = 0]
    [] e.type = "archived" -> [m EXCEPT !.archived = TRUE]
    [] e.type = "unarchived" -> [m EXCEPT !.archived = FALSE]
    [] OTHER -> m

ProjectSession(m, e) ==
  CASE e.type = "session-set" /\ e.fresh ->
         [m EXCEPT !.session = e.status, !.turn = "running", !.turnAt = e.at]
    [] e.type = "session-set" /\ ~ e.fresh ->
         IF m.turn = "running" /\ e.status \notin Active
           THEN [m EXCEPT !.session = e.status, !.turn = "ended", !.turnAt = Later(@, e.at)]
           ELSE [m EXCEPT !.session = e.status]
    [] OTHER -> m

\* Of the activities only what hasOpenBlockingRequest makes of them is kept.
ProjectActivity(m, e) ==
  CASE e.type = "requested" -> [m EXCEPT !.open = @ \cup {e.request}]
    [] e.type = "resolved" \/ (e.type = "respond.failed" /\ e.stale) ->
         [m EXCEPT !.open = @ \ {e.request}]
    [] OTHER -> m

\* A revert drops the messages, activities and checkpoints of the turns past it,
\* and with the last checkpoint latestTurn; a rewind drops messages, and what
\* belongs to the turns they name.
Emptied(m) == [m EXCEPT !.open = {}, !.turn = "none", !.turnAt = 0, !.lastMessage = 0]

ProjectHistory(m, e) ==
  CASE e.type = "message-sent" -> [m EXCEPT !.lastMessage = Later(@, e.at)]
    [] e.type = "reverted" -> Emptied(m)
    [] e.type = "rewound" /\ m.lastMessage # 0 ->
         IF e.turn THEN Emptied(m) ELSE [m EXCEPT !.lastMessage = 0]
    [] OTHER -> m

Project(m, e) ==
  ProjectHistory(ProjectActivity(ProjectSession(ProjectLifecycle(m, e), e), e), e)

\* Mutated form: a stale failure does not resolve the row.
ApprovalRowsKeepStale(table, e) ==
  CASE e.type = "requested" /\ e.request \in Approval ->
         [table EXCEPT ![e.request] = IF @ = "resolved" THEN @ ELSE "pending"]
    [] e.type = "resolved" /\ e.request \in Approval ->
         [table EXCEPT ![e.request] = "resolved"]
    [] OTHER -> table

\* The projector of projection_pending_approvals: a response resolves the row
\* at once, a resolved row is not reopened, a revert leaves the table alone.
ApprovalRows(table, e) ==
  CASE e.type = "requested" /\ e.request \in Approval ->
         [table EXCEPT ![e.request] = IF @ = "resolved" THEN @ ELSE "pending"]
    [] e.type \in {"resolved", "response-requested"} /\ e.request \in Approval ->
         [table EXCEPT ![e.request] = "resolved"]
    [] e.type = "respond.failed" /\ e.stale /\ e.request \in Approval ->
         [table EXCEPT ![e.request] = IF @ = "none" THEN @ ELSE "resolved"]
    [] OTHER -> table

\* projection_turns: a turn adopts the pending start, whose time it takes; an
\* ended session drops it; an interrupt ends the turn before the provider does.
TurnRows(t, e) ==
  CASE e.type = "turn-start-requested" -> [t EXCEPT !.pendingStart = e.at]
    [] e.type = "session-set" /\ e.fresh ->
         [t EXCEPT !.turn = "running", !.pendingStart = 0,
                   !.turnAt = IF t.pendingStart # 0 THEN t.pendingStart ELSE e.at]
    [] e.type = "interrupt-requested" /\ t.turn = "running" ->
         [t EXCEPT !.turn = "ended", !.turnAt = Later(@, e.at)]
    [] e.type = "session-set" /\ e.status \notin Active ->
         [t EXCEPT !.pendingStart = IF e.status = "ready" THEN @ ELSE 0,
                   !.turn = IF @ = "running" THEN "ended" ELSE @,
                   !.turnAt = IF t.turn = "running" THEN Later(@, e.at) ELSE @]
    [] e.type = "reverted" -> [t EXCEPT !.turn = "none", !.turnAt = 0, !.pendingStart = 0]
    [] OTHER -> t

\* derivePendingUserInputCountFromActivities, on the rows a revert leaves.
QuestionRows(open, e) ==
  CASE e.type = "requested" -> open \cup ({e.request} \cap Question)
    [] e.type = "resolved" \/ (e.type = "respond.failed" /\ e.stale) -> open \ {e.request}
    [] e.type = "reverted" -> {}
    [] OTHER -> open

\* The threads and sessions projectors.
ThreadRows(t, e) ==
  CASE e.type = "settled" -> [t EXCEPT !.override = "settled"]
    [] e.type = "unsettled" -> [t EXCEPT !.override = OverrideAfter(e.reason)]
    [] e.type = "snoozed" -> [t EXCEPT !.until = e.until]
    [] e.type = "unsnoozed" -> [t EXCEPT !.until = 0]
    [] e.type = "archived" -> [t EXCEPT !.archived = TRUE]
    [] e.type = "unarchived" -> [t EXCEPT !.archived = FALSE]
    [] e.type = "session-set" -> [t EXCEPT !.session = e.status]
    [] OTHER -> t

\* The messages projector: latestUserMessageAt.
MessageRows(at, e) ==
  CASE e.type = "message-sent" -> Later(at, e.at)
    [] e.type = "reverted" -> 0
    [] OTHER -> at

\* No projector has a case for thread.messages-rewound.
ProjectRows(t, e) ==
  ThreadRows([TurnRows(t, e) EXCEPT !.approvals = ApprovalRows(@, e),
                                    !.questions = QuestionRows(@, e),
                                    !.lastMessage = MessageRows(@, e)], e)

\* A command's events, in their order, are committed and projected in one step.
Emit(e) == mem' = Project(mem, e) /\ rows' = ProjectRows(rows, e)

EmitBoth(d, e) ==
  /\ mem' = Project(Project(mem, d), e)
  /\ rows' = ProjectRows(ProjectRows(rows, d), e)

EmitFour(b, c, d, e) ==
  /\ mem' = Project(Project(Project(Project(mem, b), c), d), e)
  /\ rows' = ProjectRows(ProjectRows(ProjectRows(ProjectRows(rows, b), c), d), e)

-----------------------------------------------------------------------------
(* decider.ts                                                               *)

Distance(a, b) == IF a > b THEN a - b ELSE b - a

\* Mutated forms: a message as old as the turn counts; its age does not.
QueuedAtAdoption(m) ==
  /\ m.session # "error"
  /\ m.lastMessage # 0 /\ m.lastMessage >= m.turnAt
  /\ Distance(now, m.lastMessage) <= Grace

QueuedForever(m) ==
  m.session # "error" /\ m.lastMessage # 0 /\ m.lastMessage > m.turnAt

\* threadHasQueuedTurnStart, on the read model.
Queued(m) ==
  /\ m.session # "error"
  /\ m.lastMessage # 0 /\ m.lastMessage > m.turnAt
  /\ Distance(now, m.lastMessage) <= Grace

\* Real activity resets any override (and a message spends the snooze).
Wake == IF mem.override = "none" THEN Nothing ELSE Unsettled("activity")

\* Mutated form: the session is not looked at.
CanSettleRunning == ~ mem.archived /\ mem.open = {} /\ ~ Queued(mem)

\* hasOpenBlockingRequest is mem.open # {}.
CanSettle == /\ ~ mem.archived
             /\ mem.session \notin Active
             /\ mem.open = {}
             /\ ~ Queued(mem)

client == <<env, now, restarts, apart, adopted>>

Settle == CanSettle /\ Emit(Settled) /\ UNCHANGED client

Unsettle == ~ mem.archived /\ Emit(Unsettled("user")) /\ UNCHANGED client

Snooze == /\ ~ mem.archived /\ mem.open = {} /\ ~ Queued(mem)
          /\ \E t \in WakeTime : t > now /\ Emit(Snoozed(t))
          /\ UNCHANGED client

Unsnooze == ~ mem.archived /\ Emit(Unsnoozed) /\ UNCHANGED client

Archive == ~ mem.archived /\ Emit(Archived) /\ UNCHANGED client

Unarchive == mem.archived /\ Emit(Unarchived) /\ UNCHANGED client

\* thread.turn.start: the client stamps the message.  The guard on the clock is
\* a bound: it leaves time for the grace window to pass.
TurnStart ==
  \E o \in Offset :
    LET stamp == now + o IN
    /\ Later(now, stamp) + Grace < MaxTime
    /\ EmitFour(Wake, IF mem.until = 0 THEN Nothing ELSE Unsnoozed,
                MessageSent(stamp), TurnStartRequested(stamp))
    /\ adopted' = FALSE
    /\ UNCHANGED <<env, now, restarts, apart>>

\* thread.turn.retry re-requests the turn of the newest message (same bound).
TurnRetry ==
  /\ mem.lastMessage # 0
  /\ \E o \in Offset : /\ Later(now, now + o) + Grace < MaxTime
                     /\ Emit(TurnStartRequested(now + o))
  /\ UNCHANGED client

\* thread.turn.interrupt for the turn the client sees running.
Interrupt ==
  /\ rows.turn = "running"
  /\ \E o \in Offset : Emit(InterruptRequested(now + o))
  /\ UNCHANGED client

\* thread.messages.rewind (threadsRewindToInput), to the first input.
Rewind ==
  \E turn \in BOOLEAN :
    /\ Emit(Rewound(turn))
    /\ apart' = IF turn /\ mem.lastMessage # 0 THEN apart \cup mem.open ELSE apart
    /\ UNCHANGED <<env, now, restarts, adopted>>

\* thread.approval.respond and thread.user-input.respond.
Respond(r) ==
  /\ r \in opened /\ r \notin responses
  /\ Emit(ResponseRequested(r))
  /\ responses' = responses \cup {r}
  /\ apart' = apart \cup ({r} \cap Approval)
  /\ UNCHANGED <<asked, arriving, opened, now, restarts, adopted>>

\* thread.session.set, as provider ingestion dispatches it: a session coming
\* alive wakes the thread.  `ended`: what becomes of the unanswered requests
\* when the provider's turn is over.
SessionBecomes(s, fresh) ==
  /\ EmitBoth(IF s \in Active THEN Wake ELSE Nothing, SessionSet(s, fresh))
  /\ adopted' = (IF fresh /\ rows.pendingStart # 0 THEN TRUE ELSE adopted)
  /\ UNCHANGED <<now, restarts, apart, responses, opened>>

SessionStarts ==
  /\ rows.session \notin Active
  /\ SessionBecomes("starting", FALSE)
  /\ UNCHANGED <<asked, arriving>>

\* A turn begins: the one requested last, or one the provider starts by itself.
TurnRuns ==
  /\ rows.session \in {"starting", "ready"}
  /\ SessionBecomes("running", TRUE)
  /\ UNCHANGED <<asked, arriving>>

SessionEnds ==
  /\ rows.session \in Active \cup {"ready"}
  /\ \E s \in {"ready", "error", "stopped"} : s # rows.session /\ SessionBecomes(s, FALSE)
  /\ asked' \in (IF rows'.session = "ready" THEN {asked, {}} ELSE {{}})
  /\ arriving' \in {arriving, arriving \cup (asked \ asked')}

\* Mutated form: a request does not wake the thread.
RequestOpensQuietly(r) ==
  /\ rows.session \in {"running", "ready"}
  /\ r \notin opened
  /\ Emit(RequestOpened(r))
  /\ opened' = opened \cup {r}
  /\ asked' = asked \cup {r}
  /\ UNCHANGED <<responses, arriving, now, restarts, apart, adopted>>

\* request.opened and user-input.requested, ingested as thread.activity.append,
\* during a turn or, from a background agent, between two.
RequestOpens(r) ==
  /\ rows.session \in {"running", "ready"}
  /\ r \notin opened
  /\ EmitBoth(Wake, RequestOpened(r))
  /\ opened' = opened \cup {r}
  /\ asked' = asked \cup {r}
  /\ UNCHANGED <<responses, arriving, now, restarts, apart, adopted>>

\* approval.resolved and user-input.resolved.
ResolutionArrives(r) ==
  /\ r \in arriving
  /\ arriving' = arriving \ {r}
  /\ Emit(RequestClosed(r))
  /\ apart' = apart \ {r}
  /\ UNCHANGED <<asked, responses, opened, now, restarts, adopted>>

-----------------------------------------------------------------------------
(* ProviderCommandReactor: processApprovalResponseRequested and             *)
(* processUserInputResponseRequested.                                       *)

ResponseDelivered(r) ==
  /\ r \in responses /\ rows.session \notin {"none", "stopped"}
  /\ r \in asked
  /\ responses' = responses \ {r}
  /\ asked' = asked \ {r}
  /\ arriving' = arriving \cup {r}
  /\ UNCHANGED <<mem, rows, opened, now, restarts, apart, adopted>>

\* The provider does not know the request (any more).
ResponseStale(r) ==
  /\ r \in responses /\ rows.session \notin {"none", "stopped"}
  /\ r \notin asked
  /\ responses' = responses \ {r}
  /\ Emit(RespondFailed(r, TRUE))
  /\ apart' = apart \ {r}
  /\ UNCHANGED <<asked, arriving, opened, now, restarts, adopted>>

\* There is no session, or the call fails for another reason.
ResponseFails(r) ==
  /\ r \in responses
  /\ responses' = responses \ {r}
  /\ Emit(RespondFailed(r, FALSE))
  /\ UNCHANGED <<asked, arriving, opened, now, restarts, apart, adopted>>

\* CheckpointReactor.handleRevertRequested, to the state before the first turn.
Revert ==
  /\ rows.session \notin {"none", "stopped"} /\ rows.turn = "ended"
  /\ Emit(Reverted)
  /\ apart' = apart \cup (mem.open \cap Approval)
  /\ adopted' = FALSE
  /\ UNCHANGED <<env, now, restarts>>

\* Mutated form: the sessions are not loaded.
HydratedWithoutSession ==
  [override |-> rows.override, until |-> rows.until, archived |-> rows.archived,
   session |-> "none", turn |-> rows.turn, turnAt |-> rows.turnAt,
   lastMessage |-> 0, open |-> {}]

\* getCommandReadModel restores no messages and no activities.
Hydrated ==
  [override |-> rows.override, until |-> rows.until, archived |-> rows.archived,
   session |-> rows.session, turn |-> rows.turn, turnAt |-> rows.turnAt,
   lastMessage |-> 0, open |-> {}]

\* The server starts again.  A provider that outlived it is reattached; otherwise
\* reconcileOrphanedSessionsAtStartup interrupts the session, before any client
\* is served.
Restart ==
  /\ restarts < MaxRestarts
  /\ restarts' = restarts + 1
  /\ responses' = {}
  /\ apart' = apart \cup mem.open
  /\ \/ /\ mem' = Hydrated
        /\ UNCHANGED <<rows, asked, arriving>>
     \/ LET orphaned == IF rows.session \in Active
                          THEN SessionSet("interrupted", FALSE) ELSE Nothing
        IN /\ mem' = Project(Hydrated, orphaned)
           /\ rows' = ProjectRows(rows, orphaned)
           /\ asked' = {} /\ arriving' = {}
  /\ UNCHANGED <<opened, now, adopted>>

Tick ==
  /\ now < MaxTime
  /\ now' = now + 1
  /\ UNCHANGED <<mem, rows, env, restarts, apart, adopted>>

Next ==
  \/ Settle \/ Unsettle \/ Snooze \/ Unsnooze \/ Archive \/ Unarchive \/ TurnStart
  \/ TurnRetry \/ Interrupt \/ Rewind
  \/ SessionStarts \/ TurnRuns \/ SessionEnds \/ Revert \/ Restart \/ Tick
  \/ \E r \in Request : \/ Respond(r) \/ RequestOpens(r) \/ ResolutionArrives(r)
                        \/ ResponseDelivered(r) \/ ResponseStale(r) \/ ResponseFails(r)

Spec == Init /\ [][Next]_vars

\* Only the clock has to advance.
FairSpec == Spec /\ WF_vars(Tick)

-----------------------------------------------------------------------------
\* The pending flags of the shell, as refreshThreadShellSummary counts them.
FlagsPending ==
  rows.questions # {} \/ \E a \in Approval : rows.approvals[a] = "pending"

MemState ==
  [override : {"none", "settled", "active"}, until : {0} \cup WakeTime, archived : BOOLEAN,
   session : Status, turn : {"none", "running", "ended"}, turnAt : Nat, lastMessage : Nat,
   open : SUBSET Request]

RowState ==
  [override : {"none", "settled", "active"}, until : {0} \cup WakeTime, archived : BOOLEAN,
   session : Status, turn : {"none", "running", "ended"}, turnAt : Nat, lastMessage : Nat,
   questions : SUBSET Question, approvals : [Approval -> {"none", "pending", "resolved"}],
   pendingStart : Nat]

\* Types of the variables.
TypeOK ==
  /\ mem \in MemState /\ rows \in RowState
  /\ asked \subseteq opened /\ responses \subseteq opened
  /\ arriving \subseteq opened /\ opened \subseteq Request
  /\ now \in FirstTime..MaxTime /\ restarts \in 0..MaxRestarts
  /\ apart \subseteq Request /\ adopted \in BOOLEAN

\* projector.ts and the projection pipeline are twins: whatever the order of
\* commands and provider events, and across restarts, the read model commands
\* are decided on and the rows the clients see agree on the thread's lifecycle.
LifecycleAgrees ==
  \A f \in {"override", "until", "archived", "session"} : mem[f] = rows[f]

\* A settled thread is quiet: its session is not coming alive or working, and no
\* request the decider knows of is open.  Settling checks it; afterwards only
\* events that also wake the thread may change it.
SettledIsQuiet ==
  rows.override = "settled" => rows.session \notin Active /\ mem.open = {}

\* An approval or question that opens is never hidden inside a settled row.
RequestsWake ==
  [][opened' # opened => rows'.override # "settled"]_vars

\* "The clearing rules MUST match" (decider.ts:37): the decider and the shell
\* flags agree on whether a request is open, for every request but those in
\* `apart`: open across a restart or when the thread was rewound, or an approval
\* that was reverted away or that was responded to and neither resolved nor found
\* stale since.
RulesMatch ==
  /\ \A a \in Approval \ apart : a \in mem.open <=> rows.approvals[a] = "pending"
  /\ \A q \in Question \ apart : q \in mem.open <=> q \in rows.questions

\* A queued turn start does not block settling and snoozing forever.
BlockEnds == Queued(mem) ~> ~ Queued(mem)

\* decider.ts:94: "adoption stamps the new turn's requestedAt with the message
\* time, clearing this": a message a turn has adopted is no queued turn start.
AdoptionClears == adopted => ~ Queued(mem)

\* decider.ts:465: "Pending approval / user-input requests are blocked-on-you
\* work: a raced or stale client must not park them behind a settled override".
SettledHidesNothing == rows.override = "settled" => ~ FlagsPending
=============================================================================
