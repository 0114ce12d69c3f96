---------------------------- MODULE ThreadTurns ----------------------------
(***************************************************************************)
(* The turns of one thread and their checkpoints, in the three projections *)
(* of the domain events (the tables, the engine's read model and a live    *)
(* client), and the two workers that move them: the runtime ingestion,     *)
(* which turns a provider's events into commands, and the checkpoint       *)
(* reactor, which captures git refs and carries out reverts.               *)
(*                                                                         *)
(* A command turns into an event that all projections apply in one step    *)
(* (OrchestrationEngine, ThreadSync).  Git, the provider and the user are  *)
(* the environment.  Times, message texts and diffs are left out.          *)
(***************************************************************************)
EXTENDS Integers, Sequences, FiniteSets, SequencesExt, FiniteSetsExt

CONSTANTS MaxTurns,    \* bound: turns the user asks for
          MaxReports,  \* bound: events of a provider besides its turns' starts and ends
          MaxReverts,  \* bound: reverts the user asks for
          MaxFaults,   \* bound: calls to git or the provider that fail, and exits of the provider
          MaxCheckpoints,  \* MAX_THREAD_CHECKPOINTS: what the read model keeps of a thread's checkpoints
          Supersedes   \* a message sent during a turn may open the next turn and drop the running one

ASSUME BoundsAssumption ==
  /\ MaxTurns \in Nat \ {0} /\ MaxReports \in Nat /\ MaxReverts \in Nat /\ MaxFaults \in Nat
  /\ MaxCheckpoints \in Nat \ {0}
  /\ Supersedes \in BOOLEAN

VARIABLES
  session,   \* the thread's session: status and active turn
  pending,   \* projection_turns holds a pending turn start
  rows,      \* projection_turns: one row per turn
  latestRow, \* projection_threads.latest_turn_id
  mem,       \* the thread in the engine's read model
  view,      \* the thread in a live client
  feed,      \* runtime events the ingestion has not handled
  todo,      \* commands the ingestion is about to dispatch for one event
  work,      \* the checkpoint reactor's queue
  job,       \* what the reactor is doing
  refs,      \* turn counts with a git ref
  sends,     \* accepted turn starts that have not reached the provider
  live,      \* the turn the provider works on
  talk,      \* the provider's conversation
  used       \* what is used up of the bounds

projections == <<session, pending, rows, latestRow, mem, view>>
ingestion == <<feed, todo>>
reactor == <<work, job, refs>>
provider == <<sends, live, talk>>
vars == <<projections, ingestion, reactor, provider, used>>

Turn == 1..MaxTurns   \* in the order the provider opens them
NoTurn == 0
Count == 0..MaxTurns + 1
Ended == {"completed", "interrupted", "error"}
Mark == {"ready", "missing", "error"}   \* a checkpoint's status

NoRow == [state |-> "none", count |-> 0, mark |-> "none", git |-> FALSE]
NoLatest == [turn |-> NoTurn, state |-> "none"]
Empty == [latest |-> NoLatest, checkpoints |-> <<>>]
NoJob == [step |-> "idle"]

Init ==
  /\ session = [status |-> "none", active |-> NoTurn] /\ pending = FALSE
  /\ rows = [t \in Turn |-> NoRow] /\ latestRow = NoTurn
  /\ mem = Empty /\ view = Empty
  /\ feed = <<>> /\ todo = <<>>
  /\ work = <<>> /\ job = NoJob /\ refs = {}
  /\ sends = 0 /\ live = NoTurn /\ talk = <<>>
  /\ used = [asked |-> 0, opened |-> 0, reports |-> 0, reverts |-> 0, faults |-> 0]

-----------------------------------------------------------------------------
(* Events.                                                                  *)

StartRequested == [type |-> "turn-start-requested"]
SessionSet(s, t) == [type |-> "session-set", status |-> s, active |-> t]
MessageSent(t, streaming) == [type |-> "message-sent", turn |-> t, streaming |-> streaming]
InterruptRequested(t) == [type |-> "turn-interrupt-requested", turn |-> t]
\* `git`: the checkpoint's ref is a git ref, not a provider's diff.
DiffCompleted(t, n, mark, git) ==
  [type |-> "turn-diff-completed", turn |-> t, count |-> n, mark |-> mark, git |-> git]
RevertRequested(n) == [type |-> "checkpoint-revert-requested", count |-> n]
Reverted(n) == [type |-> "reverted", count |-> n]

\* settledTurnStateForSessionStatus; "none" stands for null.
SettledState(s) ==
  CASE s \in {"idle", "ready"} -> "completed"
    [] s = "error" -> "error"
    [] s \in {"interrupted", "stopped"} -> "interrupted"
    [] s \in {"starting", "running"} -> "none"

StillRunning(t) == session.status = "running" /\ session.active = t
Activates(e) == e.status = "running" /\ e.active # NoTurn

-----------------------------------------------------------------------------
(* The tables: ProjectionPipeline.ts, projection_turns and latest_turn_id.  *)

\* A session that runs a turn starts it, unless it is over, and completes the
\* others; any other session ends what runs.
RowsOfSession(e) ==
  LET end == IF Activates(e) THEN "completed" ELSE SettledState(e.status)
      starts(t) == Activates(e) /\ t = e.active
  IN [t \in Turn |->
        CASE starts(t) /\ rows[t].state \notin {"completed", "error"} -> [rows[t] EXCEPT !.state = "running"]
          [] ~ starts(t) /\ rows[t].state = "running" /\ end # "none" -> [rows[t] EXCEPT !.state = end]
          [] OTHER -> rows[t]]

\* Mutated form: streamed text makes any row run.
RowsOfMessageRevives(e) ==
  [rows EXCEPT ![e.turn].state = IF e.streaming \/ StillRunning(e.turn) THEN "running"
                                 ELSE IF @ \in {"interrupted", "error"} THEN @ ELSE "completed"]

RowsOfMessage(e) ==
  LET settles == ~ e.streaming /\ ~ StillRunning(e.turn)
  IN [rows EXCEPT ![e.turn].state =
        CASE settles -> IF @ \in {"interrupted", "error"} THEN @ ELSE "completed"
          [] ~ settles /\ @ = "none" -> "running"
          [] OTHER -> @]

\* Mutated form: a placeholder's row counts as running.
RowsOfDiffRuns(e) ==
  [t \in Turn |->
     CASE t = e.turn -> [state |-> IF e.mark = "missing" THEN "running" ELSE "completed",
                         count |-> e.count, mark |-> e.mark, git |-> e.git]
       [] t # e.turn /\ rows[t].count = e.count -> [NoRow EXCEPT !.state = rows[t].state]
       [] OTHER -> rows[t]]

\* clearCheckpointTurnConflict, then the turn's own row.
RowsOfDiff(e) ==
  LET state == CASE StillRunning(e.turn) /\ rows[e.turn].state = "none" -> "running"
                 [] StillRunning(e.turn) -> rows[e.turn].state
                 [] OTHER -> IF e.mark = "error" THEN "error" ELSE "completed"
  IN [t \in Turn |->
        CASE t = e.turn -> [state |-> state, count |-> e.count, mark |-> e.mark, git |-> e.git]
          [] t # e.turn /\ rows[t].count = e.count ->
               [NoRow EXCEPT !.state = rows[t].state]
          [] OTHER -> rows[t]]

Kept(n) == {t \in Turn : rows[t].count \in 1..n}

RowsAfter(e) ==
  CASE e.type = "session-set" -> RowsOfSession(e)
    [] e.type = "message-sent" -> RowsOfMessage(e)
    [] e.type = "turn-diff-completed" -> RowsOfDiff(e)
    [] e.type = "turn-interrupt-requested" -> [rows EXCEPT ![e.turn].state = "interrupted"]
    [] e.type = "reverted" -> [t \in Turn |-> IF t \in Kept(e.count) THEN rows[t] ELSE NoRow]
    [] OTHER -> rows

LatestRowAfter(e) ==
  CASE e.type = "session-set" /\ e.active # NoTurn -> e.active
    [] e.type = "turn-diff-completed" -> e.turn
    [] e.type = "reverted" ->
         IF Kept(e.count) = {} THEN NoTurn
         ELSE CHOOSE t \in Kept(e.count) : \A u \in Kept(e.count) : rows[u].count <= rows[t].count
    [] OTHER -> latestRow

PendingAfter(e) ==
  CASE e.type = "turn-start-requested" -> TRUE
    [] e.type = "session-set" ->
         pending /\ ~ Activates(e) /\ e.status \notin {"error", "stopped", "interrupted"}
    [] e.type = "reverted" -> FALSE
    [] OTHER -> pending

-----------------------------------------------------------------------------
(* The read model (projector.ts) and the client (threadReducer.ts).         *)

\* What of the first n checkpoints is in S, for each n, and what of all is, in
\* their order (Array.filter).
PicksOf(checkpoints, S) ==
  LET p[n \in 0..Len(checkpoints)] ==
        IF n = 0 THEN <<>>
        ELSE IF checkpoints[n] \in S THEN Append(p[n - 1], checkpoints[n]) ELSE p[n - 1]
  IN p
Picked(checkpoints, S) == PicksOf(checkpoints, S)[Len(checkpoints)]

\* Checkpoints are kept in the order of their turn counts.
Insert(checkpoints, c) ==
  LET rest == {d \in ToSet(checkpoints) : d.turn # c.turn}
  IN Picked(checkpoints, {d \in rest : d.count <= c.count}) \o <<c>>
     \o Picked(checkpoints, {d \in rest : d.count > c.count})

\* A placeholder does not replace a checkpoint that was captured.
IsClobber(p, e) ==
  e.mark = "missing" /\ \E c \in ToSet(p.checkpoints) : c.turn = e.turn /\ c.mark # "missing"

WithCheckpoint(p, e) ==
  Insert(p.checkpoints, [turn |-> e.turn, count |-> e.count, mark |-> e.mark])

Latest(t, s) == [turn |-> t, state |-> s]

LatestOfSession(p, e) ==
  CASE Activates(e) -> Latest(e.active, "running")
    [] ~ Activates(e) /\ p.latest.state = "running" /\ SettledState(e.status) # "none" ->
         Latest(p.latest.turn, SettledState(e.status))
    [] OTHER -> p.latest

\* checkpointStatusToLatestTurnState in projector.ts.
StateOfMark(mark) ==
  CASE mark = "error" -> "error" [] mark = "missing" -> "interrupted" [] OTHER -> "completed"
\* checkpointStatusToTurnState in threadReducer.ts.
ViewStateOfMark(mark) == IF mark = "error" THEN "error" ELSE "completed"

\* Mutated form: the checkpoint that is restored is dropped, too.
Below(checkpoints, n) == Picked(checkpoints, {c \in ToSet(checkpoints) : c.count < n})

UpTo(checkpoints, n) == Picked(checkpoints, {c \in ToSet(checkpoints) : c.count <= n})

\* The read model keeps the last checkpoints only; a client keeps all.
Capped(checkpoints) ==
  LET n == Len(checkpoints)
  IN IF n <= MaxCheckpoints THEN checkpoints ELSE SubSeq(checkpoints, n - MaxCheckpoints + 1, n)

\* `state`: what the last of the checkpoints that are kept says of its turn.
RevertedTo(kept, state) ==
  [checkpoints |-> kept,
   latest |-> IF kept = <<>> THEN NoLatest ELSE Latest(Last(kept).turn, state)]

MemAfter(e) ==
  CASE e.type = "session-set" -> [mem EXCEPT !.latest = LatestOfSession(mem, e)]
    [] e.type = "turn-diff-completed" /\ ~ IsClobber(mem, e) ->
         [checkpoints |-> Capped(WithCheckpoint(mem, e)),
          latest |-> IF StillRunning(e.turn) THEN mem.latest
                     ELSE Latest(e.turn, StateOfMark(e.mark))]
    [] e.type = "reverted" ->
         LET kept == Capped(UpTo(mem.checkpoints, e.count))
         IN RevertedTo(kept, StateOfMark(Last(kept).mark))
    [] OTHER -> mem

ViewOfMessage(e) ==
  LET settles == ~ e.streaming /\ ~ StillRunning(e.turn)
      state == CASE ~ settles -> "running"
                 [] settles /\ view.latest.state \in {"interrupted", "error"} -> view.latest.state
                 [] OTHER -> "completed"
  IN IF view.latest.turn \in {NoTurn, e.turn} THEN [view EXCEPT !.latest = Latest(e.turn, state)]
     ELSE view

ViewAfter(e) ==
  CASE e.type = "session-set" -> [view EXCEPT !.latest = LatestOfSession(view, e)]
    [] e.type = "message-sent" -> ViewOfMessage(e)
    [] e.type = "turn-interrupt-requested" /\ view.latest.turn = e.turn ->
         [view EXCEPT !.latest.state = "interrupted"]
    [] e.type = "turn-diff-completed" /\ ~ IsClobber(view, e) ->
         [checkpoints |-> WithCheckpoint(view, e),
          latest |-> IF ~ StillRunning(e.turn) /\ view.latest.turn \in {NoTurn, e.turn}
                     THEN Latest(e.turn, ViewStateOfMark(e.mark)) ELSE view.latest]
    [] e.type = "reverted" ->
         LET kept == UpTo(view.checkpoints, e.count)
         IN RevertedTo(kept, ViewStateOfMark(Last(kept).mark))
    [] OTHER -> view

\* An event takes effect everywhere; the reactor's stream picks what concerns it.
Concerns(e) == e.type \in {"turn-start-requested", "checkpoint-revert-requested", "turn-diff-completed"}

Apply(e) ==
  /\ session' = IF e.type = "session-set" THEN [status |-> e.status, active |-> e.active] ELSE session
  /\ pending' = PendingAfter(e)
  /\ rows' = RowsAfter(e)
  /\ latestRow' = LatestRowAfter(e)
  /\ mem' = MemAfter(e)
  /\ view' = ViewAfter(e)

Dispatch(e) ==
  /\ Apply(e)
  /\ work' = IF Concerns(e) THEN Append(work, e) ELSE work

-----------------------------------------------------------------------------
(* The user, ProviderCommandReactor and the provider.                       *)

StartTurn ==
  /\ used.asked < MaxTurns
  /\ Dispatch(StartRequested)
  /\ sends' = sends + 1
  /\ used' = [used EXCEPT !.asked = @ + 1]
  /\ UNCHANGED <<ingestion, job, refs, live, talk>>

\* The web client offers to go back to before a turn with a checkpoint, and
\* only while it sees no turn running.
AskRevert(n) ==
  /\ used.reverts < MaxReverts
  /\ session.status \notin {"starting", "running"}
  /\ \E c \in ToSet(view.checkpoints) : n = c.count - 1
  /\ Dispatch(RevertRequested(n))
  /\ used' = [used EXCEPT !.reverts = @ + 1]
  /\ UNCHANGED <<ingestion, job, refs, provider>>

AskInterrupt ==
  /\ live # NoTurn /\ StillRunning(live) /\ rows[live].state = "running"
  /\ Dispatch(InterruptRequested(live))
  /\ UNCHANGED <<ingestion, job, refs, provider, used>>

\* ensureSessionForThread announces the start before the provider is asked.
AnnounceStart ==
  /\ sends > 0 /\ session.status \notin {"starting", "running"}
  /\ Dispatch(SessionSet("starting", NoTurn))
  /\ UNCHANGED <<ingestion, job, refs, provider, used>>

\* A runtime event goes to the ingestion and, if it marks a turn, to the reactor.
Emit(e) ==
  /\ feed' = Append(feed, e)
  /\ work' = IF e.type \in {"turn.started", "turn.completed"} THEN Append(work, e) ELSE work

\* A message sent during a turn joins it, unless the provider opens the next
\* turn at once; the superseded turn never completes then.
JoinTurn ==
  /\ sends > 0 /\ live # NoTurn
  /\ sends' = sends - 1
  /\ UNCHANGED <<projections, ingestion, reactor, live, talk, used>>

OpenTurn ==
  /\ sends > 0 /\ (live = NoTurn \/ Supersedes)
  /\ session.status \in {"starting", "running"}
  /\ LET t == used.opened + 1 IN
       /\ live' = t
       /\ talk' = Append(talk, t)
       /\ Emit([type |-> "turn.started", turn |-> t])
  /\ sends' = sends - 1
  /\ used' = [used EXCEPT !.opened = @ + 1]
  /\ UNCHANGED <<projections, todo, job, refs>>

\* `text`: some of the turn's text is still in the ingestion's buffer.  A turn
\* ends as interrupted when the user asked for it.
EndTurn(state, text) ==
  /\ live # NoTurn
  /\ state = "interrupted" => rows[live].state = "interrupted"
  /\ text \/ state = "failed" => used.reports < MaxReports
  /\ Emit([type |-> "turn.completed", turn |-> live, state |-> state, text |-> text])
  /\ live' = NoTurn
  /\ used' = [used EXCEPT !.reports = IF text \/ state = "failed" THEN @ + 1 ELSE @]
  /\ UNCHANGED <<projections, todo, job, refs, sends, talk>>

\* The provider's process ends: its turn never completes.
ProviderExits ==
  /\ live # NoTurn /\ used.faults < MaxFaults
  /\ Emit([type |-> "session.exited"])
  /\ live' = NoTurn
  /\ used' = [used EXCEPT !.faults = @ + 1]
  /\ UNCHANGED <<projections, todo, job, refs, sends, talk>>

\* turn.diff.updated, item.completed of an assistant message, an error before
\* the turn's end, or a change of state.
Reports == {"turn.diff.updated", "item.completed", "runtime.error",
            "session.state.running", "session.started"}
Report(type) ==
  /\ live # NoTurn /\ used.reports < MaxReports
  /\ Emit([type |-> type, turn |-> live])
  /\ used' = [used EXCEPT !.reports = @ + 1]
  /\ UNCHANGED <<projections, todo, job, refs, provider>>

-----------------------------------------------------------------------------
(* ProviderRuntimeIngestion: one event at a time, one command at a time.    *)

Checkpointed == {t \in Turn : rows[t].count # 0}
TopCount == IF Checkpointed = {} THEN 0 ELSE Max({rows[t].count : t \in Checkpointed})

\* A start that conflicts with the active turn counts if the server waits for it.
Accepts(e) ==
  LET conflicts == session.active \notin {NoTurn, e.turn}
  IN CASE e.type = "turn.started" -> ~ conflicts \/ (live = e.turn /\ pending)
       [] e.type = "turn.completed" -> ~ conflicts
       [] e.type = "runtime.error" -> ~ conflicts
       [] OTHER -> TRUE

SessionOf(e) ==
  CASE e.type = "turn.started" -> SessionSet("running", e.turn)
    [] e.type = "turn.completed" ->
         SessionSet(IF e.state = "failed" THEN "error" ELSE "ready", NoTurn)
    [] e.type = "runtime.error" -> SessionSet("error", e.turn)
    [] e.type = "session.exited" -> SessionSet("stopped", NoTurn)
    [] e.type = "session.state.running" -> SessionSet("running", session.active)
    [] e.type = "session.started" ->
         SessionSet(CASE session.active # NoTurn -> "running"
                      [] session.active = NoTurn /\ pending /\ session.status = "starting" -> "starting"
                      [] OTHER -> "ready",
                    session.active)

\* Mutated form: the text comes after the message's end.
FinalTextLate(t) == <<MessageSent(t, FALSE), MessageSent(t, TRUE)>>

FinalText(t) == <<MessageSent(t, TRUE), MessageSent(t, FALSE)>>

\* The commands an event leads to, from what the tables hold when it is handled.
CommandsOf(e) ==
  CASE e.type = "turn.completed" ->
         (IF Accepts(e) THEN <<SessionOf(e)>> ELSE <<>>) \o (IF e.text THEN FinalText(e.turn) ELSE <<>>)
    [] e.type \in {"turn.started", "runtime.error", "session.exited",
                   "session.state.running", "session.started"} ->
         IF Accepts(e) THEN <<SessionOf(e)>> ELSE <<>>
    [] e.type = "item.completed" -> FinalText(e.turn)
    [] e.type = "turn.diff.updated" ->
         IF rows[e.turn].count # 0 THEN <<>>
         ELSE <<DiffCompleted(e.turn, TopCount + 1, "missing", FALSE)>>

HandleEvent ==
  /\ todo = <<>> /\ feed # <<>>
  /\ todo' = CommandsOf(Head(feed))
  /\ feed' = Tail(feed)
  /\ UNCHANGED <<projections, reactor, provider, used>>

DispatchNext ==
  /\ todo # <<>>
  /\ Dispatch(Head(todo))
  /\ todo' = Tail(todo)
  /\ UNCHANGED <<feed, job, refs, provider, used>>

-----------------------------------------------------------------------------
(* CheckpointReactor: one input at a time.                                  *)

\* A call to git or to the provider fails.
Fails ==
  /\ used.faults < MaxFaults
  /\ used' = [used EXCEPT !.faults = @ + 1]

Captured(t) == rows[t].mark \in {"ready", "error"}

\* checkpointStatusFromRuntime
MarkOf(state) == CASE state = "failed" -> "error" [] state = "interrupted" -> "missing" [] OTHER -> "ready"

\* The capture of a turn that ended: not while another turn is active.
TakeCompletion(e) ==
  /\ e.type = "turn.completed"
  /\ job' = IF session.active \notin {NoTurn, e.turn} \/ Captured(e.turn) THEN NoJob
            ELSE [step |-> "capture", turn |-> e.turn, mark |-> MarkOf(e.state),
                  count |-> IF rows[e.turn].count # 0 THEN rows[e.turn].count ELSE TopCount + 1]

\* Mutated form: any checkpoint of the turn will do.
TakeDiffOnce(e) ==
  /\ e.type = "turn-diff-completed"
  /\ job' = IF e.mark # "missing" \/ rows[e.turn].count # 0 THEN NoJob
            ELSE [step |-> "capture", turn |-> e.turn, mark |-> "ready", count |-> e.count]

\* A placeholder is replaced by a capture.
TakeDiff(e) ==
  /\ e.type = "turn-diff-completed"
  /\ job' = IF e.mark # "missing" \/ Captured(e.turn) THEN NoJob
            ELSE [step |-> "capture", turn |-> e.turn, mark |-> "ready", count |-> e.count]

\* The state of the files before the turn, unless it has a ref already.
TakeStart(e) ==
  /\ e.type \in {"turn-start-requested", "turn.started"}
  /\ job' = NoJob
  /\ \/ refs' = refs \cup {TopCount} /\ UNCHANGED used
     \/ TopCount \notin refs /\ UNCHANGED refs /\ Fails

\* Mutated form: the ref that is restored goes, too.
StaleFrom(n) == {rows[t].count : t \in {u \in Turn : rows[u].count >= n /\ rows[u].git}}

\* The git refs of the checkpoints above the target of a revert.
Stale(n) == {rows[t].count : t \in {u \in Turn : rows[u].count > n /\ rows[u].git}}

\* Restoring needs the git ref of the count; at 0 the branch's head will do.
TakeRevert(e) ==
  LET at(n) == {t \in Turn : rows[t].count = n}
      restorable == \/ e.count = 0
                    \/ \E t \in at(e.count) : rows[t].git /\ e.count \in refs
  IN /\ e.type = "checkpoint-revert-requested"
     /\ UNCHANGED refs
     /\ \/ /\ e.count <= TopCount /\ restorable
           /\ job' = [step |-> "rollback", count |-> e.count, top |-> TopCount, stale |-> Stale(e.count)]
           /\ UNCHANGED used
        \/ (e.count > TopCount \/ ~ restorable) /\ job' = NoJob /\ UNCHANGED used
        \/ job' = NoJob /\ Fails

Take ==
  /\ job = NoJob /\ work # <<>>
  /\ LET e == Head(work) IN
       \/ (TakeCompletion(e) \/ TakeDiff(e)) /\ UNCHANGED <<refs, used>>
       \/ TakeStart(e)
       \/ TakeRevert(e)
  /\ work' = Tail(work)
  /\ UNCHANGED <<projections, ingestion, provider>>

Capture ==
  /\ job.step = "capture"
  /\ refs' = refs \cup {job.count}
  /\ job' = [job EXCEPT !.step = "captured"]
  /\ UNCHANGED <<projections, ingestion, work, provider, used>>

RecordCapture ==
  /\ job.step = "captured"
  /\ Dispatch(DiffCompleted(job.turn, job.count, job.mark, TRUE))
  /\ job' = NoJob
  /\ UNCHANGED <<ingestion, refs, provider, used>>

\* The provider drops as many turns as there are counts above the target.
Rollback ==
  /\ job.step = "rollback"
  /\ talk' = SubSeq(talk, 1, Max({0, Len(talk) - (job.top - job.count)}))
  /\ job' = [job EXCEPT !.step = "prune"]
  /\ UNCHANGED <<projections, ingestion, work, refs, sends, live, used>>

PruneRefs ==
  /\ job.step = "prune"
  /\ refs' = refs \ job.stale
  /\ job' = [job EXCEPT !.step = "finish"]
  /\ UNCHANGED <<projections, ingestion, work, provider, used>>

FinishRevert ==
  /\ job.step = "finish"
  /\ Dispatch(Reverted(job.count))
  /\ job' = NoJob
  /\ UNCHANGED <<ingestion, refs, provider, used>>

\* A call of the job at hand fails; what was done before it stays.
CallFails ==
  /\ job.step \in {"capture", "rollback", "prune"}
  /\ Fails
  /\ job' = NoJob
  /\ UNCHANGED <<projections, ingestion, work, refs, provider>>

Environment ==
  \/ StartTurn
  \/ \E n \in Count : AskRevert(n)
  \/ AskInterrupt
  \/ \E s \in {"completed", "failed", "interrupted"}, text \in BOOLEAN : EndTurn(s, text)
  \/ ProviderExits
  \/ \E r \in Reports : Report(r)
  \/ CallFails

Ingestion == HandleEvent \/ DispatchNext
Reactor == Take \/ Capture \/ RecordCapture \/ Rollback \/ PruneRefs \/ FinishRevert
Start == AnnounceStart \/ JoinTurn \/ OpenTurn

Next == Environment \/ Start \/ Ingestion \/ Reactor

Spec == Init /\ [][Next]_vars
FairSpec == Spec /\ WF_vars(Ingestion) /\ WF_vars(Reactor) /\ WF_vars(Start)
-----------------------------------------------------------------------------
TypeOK ==
  /\ session \in [status : {"none", "starting", "running", "ready", "error", "stopped"},
                  active : Turn \cup {NoTurn}]
  /\ pending \in BOOLEAN
  /\ rows \in [Turn -> [state : Ended \cup {"none", "running"}, count : Nat,
                        mark : Mark \cup {"none"}, git : BOOLEAN]]
  /\ latestRow \in Turn \cup {NoTurn}
  /\ refs \subseteq Nat
  /\ sends \in 0..MaxTurns /\ live \in Turn \cup {NoTurn}

\* No turn runs at the provider, and all it reported has been ingested.
Quiet == feed = <<>> /\ todo = <<>> /\ live = NoTurn /\ sends = 0
Still == Quiet /\ work = <<>> /\ job = NoJob

\* When the provider has gone quiet, no projection shows a turn that runs: not
\* the session, not the tables and not the client, whatever late text,
\* checkpoints, errors or reverts came in between.
QuietIsQuiet ==
  Quiet => /\ session.active = NoTurn
           /\ \A t \in Turn : rows[t].state # "running"
           /\ view.latest.state # "running"

\* At most one turn of the thread runs, although starts, texts and checkpoints
\* each create or revive rows on their own.
OneTurnRuns == \A t, u \in Turn : rows[t].state = "running" /\ rows[u].state = "running" => t = u

\* A checkpoint of the tables that names a git ref can be restored: the ref
\* exists, except while a revert that dropped it waits for its event.
RefsBack == job.step # "finish" => \A t \in Turn : rows[t].git => rows[t].count \in refs

\* When everything has been processed, each checkpoint of the tables is the one
\* the read model and a client hold for the turn, if no call failed: a capture
\* that a placeholder overwrote in the tables is only there again if git works.
CheckpointsKnown ==
  Still /\ used.faults = 0 =>
           /\ mem.checkpoints = view.checkpoints
           /\ \A t \in Turn : rows[t].count # 0 =>
                \E c \in ToSet(mem.checkpoints) :
                  c = [turn |-> t, count |-> rows[t].count, mark |-> rows[t].mark]

\* A turn that completed or failed never runs again in the tables, unless a
\* revert forgot it.
OutcomeSticks ==
  [][\A t \in Turn : rows[t].state \in {"completed", "error"} => rows'[t].state # "running"]_vars

\* A placeholder is replaced by a capture, unless git fails or the turn is undone.
PlaceholdersReplaced ==
  \A t \in Turn : rows[t].mark = "missing" ~> rows[t].mark # "missing" \/ used.faults > 0

\* docs/internals/overview.md: every turn is bracketed by checkpoints.  A
\* revert counts the turns to undo by their checkpoints.
Bracketed ==
  Still /\ used.faults = 0 => \A i \in 1..Len(talk) : rows[talk[i]].count # 0

\* ProviderRuntimeIngestion.ts, at the placeholder: a real capture should not be
\* clobbered by a placeholder.
RealStays == [][\A t \in Turn : Captured(t) => rows'[t].mark # "missing"]_vars
=============================================================================
