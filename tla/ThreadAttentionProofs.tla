------------------------ MODULE ThreadAttentionProofs ------------------------
(***************************************************************************)
(* What parks a thread and what wakes it, for any sets of requests, clock  *)
(* offsets, grace window and number of restarts.                           *)
(*                                                                         *)
(* What an event does to each field of the read model and of the rows is   *)
(* shown once (Part 1); an action is then the events it emits.  Three      *)
(* invariants are built on the types and the agreement of the lifecycle    *)
(* (TwinInv): QuietInv; RequestInv, which adds to RulesMatch that a request*)
(* has left no trace before it is opened (Fresh), since a row that was     *)
(* resolved would not become pending; and MessageInv.                      *)
(***************************************************************************)
EXTENDS ThreadAttention, TLAPS

-----------------------------------------------------------------------------
(* Part 1: what an event does to the fields of the two projections.          *)

\* What an event carries, by its type.
IsEvent(e) ==
  /\ e.type = "snoozed" => e.until \in WakeTime
  /\ e.type \in {"message-sent", "turn-start-requested", "session-set", "interrupt-requested"}
       => e.at \in Nat
  /\ e.type = "session-set" => e.status \in Status /\ e.fresh \in BOOLEAN
  /\ e.type \in {"requested", "resolved", "respond.failed", "response-requested"}
       => e.request \in Request
  /\ e.type = "respond.failed" => e.stale \in BOOLEAN
  /\ e.type = "rewound" => e.turn \in BOOLEAN

\* The lifecycle is the same function of the event in both.
OverrideBy(override, e) ==
  CASE e.type = "settled" -> "settled"
    [] e.type = "unsettled" -> OverrideAfter(e.reason)
    [] OTHER -> override

UntilBy(until, e) ==
  CASE e.type = "snoozed" -> e.until [] e.type = "unsnoozed" -> 0 [] OTHER -> until

ArchivedBy(archived, e) ==
  CASE e.type = "archived" -> TRUE [] e.type = "unarchived" -> FALSE [] OTHER -> archived

SessionBy(session, e) == IF e.type = "session-set" THEN e.status ELSE session

\* The requests that stay open; last is the time of the last message.
OpenBy(open, last, e) ==
  CASE e.type = "requested" -> open \cup {e.request}
    [] e.type = "resolved" -> open \ {e.request}
    [] e.type = "respond.failed" /\ e.stale -> open \ {e.request}
    [] e.type = "reverted" -> {}
    [] e.type = "rewound" /\ last # 0 /\ e.turn -> {}
    [] OTHER -> open

\* The read model after an event (projector.ts projectEvent).
LEMMA ProjectFields ==
  ASSUME NEW m \in MemState, NEW e, IsEvent(e)
  PROVE  LET n == Project(m, e) IN
         /\ n \in MemState
         /\ n.override = OverrideBy(m.override, e) /\ n.until = UntilBy(m.until, e)
         /\ n.archived = ArchivedBy(m.archived, e) /\ n.session = SessionBy(m.session, e)
         /\ n.open = OpenBy(m.open, m.lastMessage, e)
<1> DEFINE a == ProjectLifecycle(m, e)
           b == ProjectSession(a, e)
           c == ProjectActivity(b, e)
           d == ProjectHistory(c, e)
<1>1. /\ a \in MemState
      /\ a.override = OverrideBy(m.override, e) /\ a.until = UntilBy(m.until, e)
      /\ a.archived = ArchivedBy(m.archived, e) /\ a.session = m.session
      /\ a.open = m.open /\ a.lastMessage = m.lastMessage
  BY DEF ProjectLifecycle, MemState, IsEvent, OverrideAfter, OverrideBy, UntilBy, ArchivedBy
<1> HIDE DEF a
<1>2. /\ b \in MemState
      /\ b.override = a.override /\ b.until = a.until /\ b.archived = a.archived
      /\ b.session = SessionBy(a.session, e) /\ b.open = a.open
      /\ b.lastMessage = a.lastMessage
  BY <1>1 DEF ProjectSession, MemState, IsEvent, SessionBy, Later
<1> HIDE DEF b
<1>3. /\ c \in MemState
      /\ c.override = b.override /\ c.until = b.until /\ c.archived = b.archived
      /\ c.session = b.session /\ c.lastMessage = b.lastMessage
      /\ e.type = "requested" => c.open = b.open \cup {e.request}
      /\ e.type = "resolved" \/ (e.type = "respond.failed" /\ e.stale)
           => c.open = b.open \ {e.request}
      /\ ~ (e.type \in {"requested", "resolved"} \/ (e.type = "respond.failed" /\ e.stale))
           => c.open = b.open
  BY <1>2 DEF ProjectActivity, MemState, IsEvent
<1> HIDE DEF c
<1>4. /\ d \in MemState
      /\ d.override = c.override /\ d.until = c.until /\ d.archived = c.archived
      /\ d.session = c.session
      /\ d.open = IF \/ e.type = "reverted"
                     \/ e.type = "rewound" /\ c.lastMessage # 0 /\ e.turn
                    THEN {} ELSE c.open
  BY <1>3 DEF ProjectHistory, Emptied, MemState, IsEvent, Later
<1>5. Project(m, e) = d BY DEF Project, a, b, c
<1> HIDE DEF d
<1>6. d.open = OpenBy(m.open, m.lastMessage, e)
  BY <1>1, <1>2, <1>3, <1>4 DEF OpenBy, IsEvent
<1> QED BY <1>1, <1>2, <1>3, <1>4, <1>5, <1>6

\* The rows after an event (ProjectionPipeline.ts).
LEMMA RowsFields ==
  ASSUME NEW t \in RowState, NEW e, IsEvent(e)
  PROVE  LET u == ProjectRows(t, e) IN
         /\ u \in RowState
         /\ u.override = OverrideBy(t.override, e) /\ u.until = UntilBy(t.until, e)
         /\ u.archived = ArchivedBy(t.archived, e) /\ u.session = SessionBy(t.session, e)
         /\ u.approvals = ApprovalRows(t.approvals, e)
         /\ u.questions = QuestionRows(t.questions, e)
<1> DEFINE a == TurnRows(t, e)
           b == [a EXCEPT !.approvals = ApprovalRows(@, e), !.questions = QuestionRows(@, e),
                          !.lastMessage = MessageRows(@, e)]
           d == ThreadRows(b, e)
<1>1. /\ a \in RowState
      /\ a.override = t.override /\ a.until = t.until /\ a.archived = t.archived
      /\ a.session = t.session /\ a.approvals = t.approvals /\ a.questions = t.questions
  BY DEF TurnRows, RowState, IsEvent, Later
<1> HIDE DEF a
<1>2. ApprovalRows(a.approvals, e) \in [Approval -> {"none", "pending", "resolved"}]
  BY <1>1 DEF ApprovalRows, RowState, IsEvent
<1>3. QuestionRows(a.questions, e) \in SUBSET Question
  BY <1>1 DEF QuestionRows, RowState, IsEvent
<1>4. MessageRows(a.lastMessage, e) \in Nat
  BY <1>1 DEF MessageRows, RowState, IsEvent, Later
<1>5. /\ b \in RowState
      /\ b.override = a.override /\ b.until = a.until /\ b.archived = a.archived
      /\ b.session = a.session
      /\ b.approvals = ApprovalRows(a.approvals, e) /\ b.questions = QuestionRows(a.questions, e)
  BY <1>1, <1>2, <1>3, <1>4 DEF RowState
<1> HIDE DEF b
<1>6. /\ d \in RowState
      /\ d.override = OverrideBy(b.override, e) /\ d.until = UntilBy(b.until, e)
      /\ d.archived = ArchivedBy(b.archived, e) /\ d.session = SessionBy(b.session, e)
      /\ d.approvals = b.approvals /\ d.questions = b.questions
  BY <1>5 DEF ThreadRows, RowState, IsEvent, OverrideAfter, OverrideBy, UntilBy, ArchivedBy,
              SessionBy
<1>7. ProjectRows(t, e) = d BY DEF ProjectRows, a, b
<1> QED BY <1>1, <1>5, <1>6, <1>7

-----------------------------------------------------------------------------
(* Part 2: the two projections side by side.                                 *)

Agree(m, t) ==
  /\ m.override = t.override /\ m.until = t.until
  /\ m.archived = t.archived /\ m.session = t.session

LEMMA AgreeIsLifecycle == LifecycleAgrees <=> Agree(mem, rows)
BY DEF LifecycleAgrees, Agree

LEMMA AgreeIsLifecycleNext == LifecycleAgrees' <=> Agree(mem', rows')
BY DEF LifecycleAgrees, Agree

\* Twins stay twins, whatever the event.
LEMMA TwinsStep ==
  ASSUME NEW m \in MemState, NEW t \in RowState, NEW e, IsEvent(e), Agree(m, t)
  PROVE  /\ Project(m, e) \in MemState /\ ProjectRows(t, e) \in RowState
         /\ Agree(Project(m, e), ProjectRows(t, e))
BY ProjectFields, RowsFields DEF Agree

\* The shape of a step of mem and rows: nothing, or the events of a command.
Twins == mem \in MemState /\ rows \in RowState /\ Agree(mem, rows)

LEMMA EmitTwins == ASSUME Twins, NEW e, IsEvent(e), Emit(e) PROVE Twins'
BY TwinsStep DEF Twins, Emit, Agree

LEMMA EmitBothTwins ==
  ASSUME Twins, NEW d, NEW e, IsEvent(d), IsEvent(e), EmitBoth(d, e) PROVE Twins'
<1> DEFINE m == Project(mem, d)
           t == ProjectRows(rows, d)
<1>1. m \in MemState /\ t \in RowState /\ Agree(m, t) BY TwinsStep DEF Twins
<1>2. mem' = Project(m, e) /\ rows' = ProjectRows(t, e) BY DEF EmitBoth
<1> HIDE DEF m, t
<1> QED BY <1>1, <1>2, TwinsStep DEF Twins, Agree

LEMMA EmitFourTwins ==
  ASSUME Twins, NEW b, NEW c, NEW d, NEW e, IsEvent(b), IsEvent(c), IsEvent(d), IsEvent(e),
         EmitFour(b, c, d, e)
  PROVE  Twins'
<1> DEFINE m1 == Project(mem, b)
           t1 == ProjectRows(rows, b)
           m2 == Project(m1, c)
           t2 == ProjectRows(t1, c)
           m3 == Project(m2, d)
           t3 == ProjectRows(t2, d)
<1>0. mem' = Project(m3, e) /\ rows' = ProjectRows(t3, e) BY DEF EmitFour
<1>1. m1 \in MemState /\ t1 \in RowState /\ Agree(m1, t1) BY TwinsStep DEF Twins
<1> HIDE DEF m1, t1
<1>2. m2 \in MemState /\ t2 \in RowState /\ Agree(m2, t2) BY <1>1, TwinsStep
<1> HIDE DEF m2, t2
<1>3. m3 \in MemState /\ t3 \in RowState /\ Agree(m3, t3) BY <1>2, TwinsStep
<1> HIDE DEF m3, t3
<1>4. /\ Project(m3, e) \in MemState /\ ProjectRows(t3, e) \in RowState
      /\ Agree(Project(m3, e), ProjectRows(t3, e))
  BY <1>3, TwinsStep
<1> QED BY <1>0, <1>4 DEF Twins, Agree

LEMMA PlainEvents ==
  ASSUME TypeOK
  PROVE  /\ IsEvent(Nothing) /\ IsEvent(Wake) /\ IsEvent(Settled)
         /\ \A why : IsEvent(Unsettled(why))
         /\ \A t \in WakeTime : IsEvent(Snoozed(t))
         /\ IsEvent(Unsnoozed) /\ IsEvent(Archived) /\ IsEvent(Unarchived) /\ IsEvent(Reverted)
         /\ \A turn \in BOOLEAN : IsEvent(Rewound(turn))
BY DEF IsEvent, Nothing, Wake, Settled, Unsettled, Snoozed, Unsnoozed, Archived, Unarchived,
       Reverted, Rewound

LEMMA TimedEvents ==
  ASSUME TypeOK
  PROVE  /\ now \in Nat
         /\ \A o \in Offset : now + o \in Nat
         /\ \A t \in Nat : /\ IsEvent(MessageSent(t)) /\ IsEvent(TurnStartRequested(t))
                           /\ IsEvent(InterruptRequested(t))
         /\ \A s \in Status, fresh \in BOOLEAN : IsEvent(SessionSet(s, fresh))
<1>1. now \in Nat BY TimeAssumption DEF TypeOK
<1>2. \A o \in Offset : now + o \in Nat BY TimeAssumption DEF TypeOK
<1> QED BY <1>1, <1>2 DEF IsEvent, MessageSent, TurnStartRequested, InterruptRequested, SessionSet

LEMMA RequestEvents ==
  ASSUME NEW r \in Request
  PROVE  /\ IsEvent(RequestOpened(r)) /\ IsEvent(RequestClosed(r)) /\ IsEvent(ResponseRequested(r))
         /\ \A stale \in BOOLEAN : IsEvent(RespondFailed(r, stale))
BY DEF IsEvent, RequestOpened, RequestClosed, ResponseRequested, RespondFailed

\* getCommandReadModel builds a twin of the rows.
LEMMA HydratedTwin ==
  ASSUME rows \in RowState PROVE Hydrated \in MemState /\ Agree(Hydrated, rows)
BY DEF Hydrated, RowState, MemState, Agree

-----------------------------------------------------------------------------
(* Part 3: types, and the agreement of the lifecycle.                        *)

\* The types of what is neither read model nor rows.
SideTypes ==
  /\ asked \subseteq opened /\ responses \subseteq opened
  /\ arriving \subseteq opened /\ opened \subseteq Request
  /\ now \in FirstTime..MaxTime /\ restarts \in 0..MaxRestarts
  /\ apart \subseteq Request /\ adopted \in BOOLEAN

LEMMA TwinsStepNext == ASSUME TypeOK, Twins, Next PROVE Twins'
<1>1. ASSUME Settle PROVE Twins' BY <1>1, PlainEvents, EmitTwins DEF Settle
<1>2. ASSUME Unsettle PROVE Twins' BY <1>2, PlainEvents, EmitTwins DEF Unsettle
<1>3. ASSUME Snooze PROVE Twins'
  <2>1. PICK t \in WakeTime : Emit(Snoozed(t)) BY <1>3 DEF Snooze
  <2> QED BY <2>1, PlainEvents, EmitTwins
<1>4. ASSUME Unsnooze PROVE Twins' BY <1>4, PlainEvents, EmitTwins DEF Unsnooze
<1>5. ASSUME Archive PROVE Twins' BY <1>5, PlainEvents, EmitTwins DEF Archive
<1>6. ASSUME Unarchive PROVE Twins' BY <1>6, PlainEvents, EmitTwins DEF Unarchive
<1>7. ASSUME TurnStart PROVE Twins'
  <2>1. PICK o \in Offset :
          EmitFour(Wake, IF mem.until = 0 THEN Nothing ELSE Unsnoozed,
                   MessageSent(now + o), TurnStartRequested(now + o))
    BY <1>7 DEF TurnStart
  <2>2. IsEvent(IF mem.until = 0 THEN Nothing ELSE Unsnoozed) BY PlainEvents
  <2>3. IsEvent(MessageSent(now + o)) /\ IsEvent(TurnStartRequested(now + o)) BY TimedEvents
  <2> QED BY <2>1, <2>2, <2>3, PlainEvents, EmitFourTwins
<1>8. ASSUME TurnRetry PROVE Twins'
  <2>1. PICK o \in Offset : Emit(TurnStartRequested(now + o)) BY <1>8 DEF TurnRetry
  <2> QED BY <2>1, TimedEvents, EmitTwins
<1>9. ASSUME Interrupt PROVE Twins'
  <2>1. PICK o \in Offset : Emit(InterruptRequested(now + o)) BY <1>9 DEF Interrupt
  <2> QED BY <2>1, TimedEvents, EmitTwins
<1>10. ASSUME Rewind PROVE Twins'
  <2>1. PICK turn \in BOOLEAN : Emit(Rewound(turn)) BY <1>10 DEF Rewind
  <2> QED BY <2>1, PlainEvents, EmitTwins
<1>11. ASSUME NEW s \in Status, NEW fresh \in BOOLEAN, SessionBecomes(s, fresh) PROVE Twins'
  <2>1. EmitBoth(IF s \in Active THEN Wake ELSE Nothing, SessionSet(s, fresh))
    BY <1>11 DEF SessionBecomes
  <2>2. IsEvent(IF s \in Active THEN Wake ELSE Nothing) BY PlainEvents
  <2> QED BY <2>1, <2>2, TimedEvents, EmitBothTwins
<1>12. ASSUME SessionStarts PROVE Twins' BY <1>12, <1>11 DEF SessionStarts, Status
<1>13. ASSUME TurnRuns PROVE Twins' BY <1>13, <1>11 DEF TurnRuns, Status
<1>14. ASSUME SessionEnds PROVE Twins' BY <1>14, <1>11 DEF SessionEnds, Status
<1>15. ASSUME Revert PROVE Twins' BY <1>15, PlainEvents, EmitTwins DEF Revert
<1>16. ASSUME Restart PROVE Twins'
  <2>1. Hydrated \in MemState /\ Agree(Hydrated, rows) BY HydratedTwin DEF Twins
  <2> DEFINE orphaned == IF rows.session \in Active THEN SessionSet("interrupted", FALSE)
                           ELSE Nothing
  <2>2. IsEvent(orphaned) BY PlainEvents, TimedEvents DEF Status
  <2>3. CASE mem' = Hydrated /\ UNCHANGED rows BY <2>1, <2>3 DEF Twins, Agree
  <2>4. CASE mem' = Project(Hydrated, orphaned) /\ rows' = ProjectRows(rows, orphaned)
    <3> HIDE DEF orphaned
    <3> QED BY <2>1, <2>2, <2>4, TwinsStep DEF Twins, Agree
  <2> QED BY <1>16, <2>3, <2>4 DEF Restart
<1>17. ASSUME Tick PROVE Twins' BY <1>17 DEF Tick, Twins
<1>18. ASSUME NEW r \in Request, Respond(r) PROVE Twins'
  BY <1>18, RequestEvents, EmitTwins DEF Respond
<1>19. ASSUME NEW r \in Request, RequestOpens(r) PROVE Twins'
  BY <1>19, PlainEvents, RequestEvents, EmitBothTwins DEF RequestOpens
<1>20. ASSUME NEW r \in Request, ResolutionArrives(r) PROVE Twins'
  BY <1>20, RequestEvents, EmitTwins DEF ResolutionArrives
<1>21. ASSUME NEW r \in Request, ResponseDelivered(r) PROVE Twins'
  BY <1>21 DEF ResponseDelivered, Twins
<1>22. ASSUME NEW r \in Request, ResponseStale(r) PROVE Twins'
  BY <1>22, RequestEvents, EmitTwins DEF ResponseStale
<1>23. ASSUME NEW r \in Request, ResponseFails(r) PROVE Twins'
  BY <1>23, RequestEvents, EmitTwins DEF ResponseFails
<1> QED BY <1>1, <1>2, <1>3, <1>4, <1>5, <1>6, <1>7, <1>8, <1>9, <1>10, <1>12, <1>13, <1>14,
           <1>15, <1>16, <1>17, <1>18, <1>19, <1>20, <1>21, <1>22, <1>23 DEF Next

LEMMA SideStep == ASSUME TypeOK, Next PROVE SideTypes'
<1> USE TimeAssumption DEF TypeOK, SideTypes, client, env
<1>1. mem.open \subseteq Request BY DEF MemState
<1>2. Settle \/ Unsettle \/ Snooze \/ Unsnooze \/ Archive \/ Unarchive => SideTypes'
  BY DEF Settle, Unsettle, Snooze, Unsnooze, Archive, Unarchive
<1>3. TurnStart \/ TurnRetry \/ Interrupt => SideTypes' BY DEF TurnStart, TurnRetry, Interrupt
<1>4. Rewind \/ Revert => SideTypes' BY <1>1 DEF Rewind, Revert
<1>5. SessionStarts \/ TurnRuns => SideTypes' BY DEF SessionStarts, TurnRuns, SessionBecomes
<1>6. SessionEnds => SideTypes'
  <2> SUFFICES ASSUME SessionEnds PROVE SideTypes' OBVIOUS
  <2>1. asked' \in {asked, {}} /\ arriving' \in {arriving, arriving \cup (asked \ asked')}
    BY DEF SessionEnds
  <2>2. UNCHANGED <<now, restarts, apart, responses, opened>> /\ adopted' \in BOOLEAN
    BY DEF SessionEnds, SessionBecomes
  <2> QED BY <2>1, <2>2
<1>7. Restart => SideTypes'
  <2> SUFFICES ASSUME Restart PROVE SideTypes' OBVIOUS
  <2>1. /\ restarts' \in 0..MaxRestarts /\ responses' = {} /\ apart' = apart \cup mem.open
        /\ UNCHANGED <<opened, now, adopted>>
    BY DEF Restart
  <2>2. asked' \in {asked, {}} /\ arriving' \in {arriving, {}} BY DEF Restart
  <2> QED BY <1>1, <2>1, <2>2
<1>8. Tick => SideTypes' BY DEF Tick
<1>9. ASSUME NEW r \in Request, Respond(r) \/ RequestOpens(r) \/ ResolutionArrives(r)
      PROVE  SideTypes'
  BY <1>9 DEF Respond, RequestOpens, ResolutionArrives
<1>10. ASSUME NEW r \in Request, ResponseDelivered(r) \/ ResponseStale(r) \/ ResponseFails(r)
       PROVE  SideTypes'
  BY <1>10 DEF ResponseDelivered, ResponseStale, ResponseFails
<1> QED BY <1>2, <1>3, <1>4, <1>5, <1>6, <1>7, <1>8, <1>9, <1>10 DEF Next

TwinInv == TypeOK /\ LifecycleAgrees

LEMMA TwinInvInit == Init => TwinInv
<1> SUFFICES ASSUME Init PROVE TwinInv OBVIOUS
<1>1. mem \in MemState /\ rows \in RowState BY DEF Init, MemState, RowState, Status
<1>2. SideTypes
  <2>1. /\ asked = {} /\ responses = {} /\ arriving = {} /\ opened = {} /\ apart = {}
        /\ now = FirstTime /\ restarts = 0 /\ adopted = FALSE
    BY DEF Init
  <2>2. now \in FirstTime..MaxTime /\ restarts \in 0..MaxRestarts BY <2>1, TimeAssumption
  <2> QED BY <2>1, <2>2 DEF SideTypes
<1>3. LifecycleAgrees BY AgreeIsLifecycle DEF Init, Agree
<1> QED BY <1>1, <1>2, <1>3 DEF TwinInv, TypeOK, SideTypes

LEMMA TwinInvStep == TwinInv /\ [Next]_vars => TwinInv'
<1>1. ASSUME TwinInv, Next PROVE TwinInv'
  <2>1. Twins BY <1>1, AgreeIsLifecycle DEF TwinInv, Twins, TypeOK
  <2>2. Twins' /\ SideTypes' BY <1>1, <2>1, TwinsStepNext, SideStep DEF TwinInv
  <2> QED BY <2>2, AgreeIsLifecycleNext DEF TwinInv, TypeOK, SideTypes, Twins, Agree
<1>2. ASSUME TwinInv, UNCHANGED vars PROVE TwinInv'
  BY <1>2 DEF TwinInv, TypeOK, LifecycleAgrees, vars, env
<1> QED BY <1>1, <1>2

LEMMA TwinInvariance == Spec => []TwinInv
BY TwinInvInit, TwinInvStep, PTL DEF Spec

\* Read model and rows are well formed, and no set outgrows the requests opened.
THEOREM TypeCorrect == Spec => []TypeOK
BY TwinInvariance, PTL DEF TwinInv

\* Override, snooze, archive flag and session are the same for the decider and
\* for the clients, whatever the order of commands, provider events and restarts.
THEOREM TwinsAgree == Spec => []LifecycleAgrees
BY TwinInvariance, PTL DEF TwinInv

-----------------------------------------------------------------------------
(* Part 4: a settled thread is quiet, and a request wakes it.                *)

Quiet(m, t) == t.override = "settled" => t.session \notin Active /\ m.open = {}

\* Events that neither settle a thread nor disturb a settled one.
Harmless(e) ==
  /\ e.type \notin {"settled", "requested"}
  /\ e.type = "session-set" => e.status \notin Active

LEMMA HarmlessKeepsQuiet ==
  ASSUME NEW m \in MemState, NEW t \in RowState, NEW e, IsEvent(e), Harmless(e), Quiet(m, t)
  PROVE  Quiet(Project(m, e), ProjectRows(t, e))
<1>1. ProjectRows(t, e).override = "settled" => t.override = "settled"
  BY RowsFields DEF OverrideBy, OverrideAfter, Harmless
<1>2. t.session \notin Active => ProjectRows(t, e).session \notin Active
  BY RowsFields DEF SessionBy, Harmless
<1>3. m.open = {} => Project(m, e).open = {}
  BY ProjectFields DEF OpenBy, Harmless
<1> QED BY <1>1, <1>2, <1>3 DEF Quiet

\* A thread that is not settled is settled by no other event.
LEMMA OnlySettledSettles ==
  ASSUME NEW t \in RowState, NEW e, IsEvent(e), e.type # "settled", t.override # "settled"
  PROVE  ProjectRows(t, e).override # "settled"
BY RowsFields DEF OverrideBy, OverrideAfter

\* Wake resets whatever override there is.
LEMMA WakeWakes ==
  ASSUME TypeOK, LifecycleAgrees PROVE ProjectRows(rows, Wake).override # "settled"
<1>1. rows \in RowState /\ rows.override = mem.override BY AgreeIsLifecycle DEF TypeOK, Agree
<1>2. IsEvent(Wake) BY PlainEvents
<1>3. OverrideBy(rows.override, Wake) # "settled"
  BY <1>1 DEF OverrideBy, OverrideAfter, Wake, Nothing, Unsettled
<1> QED BY <1>1, <1>2, <1>3, RowsFields

LEMMA WokenIsQuiet ==
  ASSUME TypeOK, LifecycleAgrees, NEW e, IsEvent(e), e.type # "settled", EmitBoth(Wake, e)
  PROVE  rows'.override # "settled"
<1>1. ProjectRows(rows, Wake) \in RowState BY PlainEvents, RowsFields DEF TypeOK
<1>2. ProjectRows(ProjectRows(rows, Wake), e).override # "settled"
  BY <1>1, WakeWakes, OnlySettledSettles
<1> QED BY <1>2 DEF EmitBoth

LEMMA EmitHarmless ==
  ASSUME TypeOK, SettledIsQuiet, NEW e, IsEvent(e), Harmless(e), Emit(e)
  PROVE  SettledIsQuiet'
<1>1. Quiet(mem, rows) BY DEF Quiet, SettledIsQuiet
<1>2. Quiet(Project(mem, e), ProjectRows(rows, e)) BY <1>1, HarmlessKeepsQuiet DEF TypeOK
<1> QED BY <1>2 DEF Quiet, SettledIsQuiet, Emit

LEMMA HarmlessEvents ==
  /\ Harmless(Nothing) /\ Harmless(Wake) /\ Harmless(Unsnoozed) /\ Harmless(Archived)
  /\ Harmless(Unarchived) /\ Harmless(Reverted)
  /\ \A x : /\ Harmless(Unsettled(x)) /\ Harmless(Snoozed(x)) /\ Harmless(Rewound(x))
            /\ Harmless(MessageSent(x)) /\ Harmless(TurnStartRequested(x))
            /\ Harmless(InterruptRequested(x)) /\ Harmless(RequestClosed(x))
            /\ Harmless(ResponseRequested(x))
  /\ \A x, y : Harmless(RespondFailed(x, y))
  /\ \A s, x : s \notin Active => Harmless(SessionSet(s, x))
BY DEF Harmless, Nothing, Wake, Unsnoozed, Archived, Unarchived, Reverted, Unsettled, Snoozed,
       Rewound, MessageSent, TurnStartRequested, InterruptRequested, RequestClosed,
       ResponseRequested, RespondFailed, SessionSet

LEMMA QuietStep == ASSUME TypeOK, LifecycleAgrees, SettledIsQuiet, Next PROVE SettledIsQuiet'
<1> USE HarmlessEvents
<1>0. mem \in MemState /\ rows \in RowState /\ Agree(mem, rows) /\ Quiet(mem, rows)
  BY AgreeIsLifecycle DEF TypeOK, SettledIsQuiet, Quiet
<1>1. ASSUME Settle PROVE SettledIsQuiet'
  <2>1. mem.session \notin Active /\ mem.open = {} BY <1>1 DEF Settle, CanSettle
  <2>2. IsEvent(Settled) /\ Settled.type = "settled" BY PlainEvents DEF Settled
  <2>3. Project(mem, Settled).open = {}
    BY <1>0, <2>1, <2>2, ProjectFields DEF OpenBy
  <2>4. ProjectRows(rows, Settled).session \notin Active
    BY <1>0, <2>1, <2>2, RowsFields DEF SessionBy, Agree
  <2> QED BY <1>1, <2>3, <2>4 DEF Settle, Emit, SettledIsQuiet
<1>2. ASSUME Unsettle PROVE SettledIsQuiet' BY <1>2, PlainEvents, EmitHarmless DEF Unsettle
<1>3. ASSUME Snooze PROVE SettledIsQuiet'
  <2>1. PICK t \in WakeTime : Emit(Snoozed(t)) BY <1>3 DEF Snooze
  <2> QED BY <2>1, PlainEvents, EmitHarmless
<1>4. ASSUME Unsnooze PROVE SettledIsQuiet' BY <1>4, PlainEvents, EmitHarmless DEF Unsnooze
<1>5. ASSUME Archive PROVE SettledIsQuiet' BY <1>5, PlainEvents, EmitHarmless DEF Archive
<1>6. ASSUME Unarchive PROVE SettledIsQuiet' BY <1>6, PlainEvents, EmitHarmless DEF Unarchive
<1>7. ASSUME TurnStart PROVE SettledIsQuiet'
  <2>1. PICK o \in Offset :
          EmitFour(Wake, IF mem.until = 0 THEN Nothing ELSE Unsnoozed,
                   MessageSent(now + o), TurnStartRequested(now + o))
    BY <1>7 DEF TurnStart
  <2> DEFINE unsnooze == IF mem.until = 0 THEN Nothing ELSE Unsnoozed
             t1 == ProjectRows(rows, Wake)
             t2 == ProjectRows(t1, unsnooze)
             t3 == ProjectRows(t2, MessageSent(now + o))
  <2>2. /\ IsEvent(unsnooze) /\ Harmless(unsnooze)
        /\ IsEvent(MessageSent(now + o)) /\ IsEvent(TurnStartRequested(now + o))
    BY PlainEvents, TimedEvents
  <2>3. rows' = ProjectRows(t3, TurnStartRequested(now + o)) BY <2>1 DEF EmitFour
  <2>4. t1 \in RowState /\ t1.override # "settled"
    BY <1>0, PlainEvents, RowsFields, WakeWakes
  <2> HIDE DEF unsnooze, t1
  <2>5. t2 \in RowState /\ t2.override # "settled"
    BY <2>2, <2>4, RowsFields, OnlySettledSettles DEF Harmless
  <2> HIDE DEF t2
  <2>6. t3 \in RowState /\ t3.override # "settled"
    BY <2>2, <2>5, RowsFields, OnlySettledSettles DEF Harmless
  <2> HIDE DEF t3
  <2>7. rows'.override # "settled" BY <2>2, <2>3, <2>6, OnlySettledSettles DEF Harmless
  <2> QED BY <2>7 DEF SettledIsQuiet
<1>8. ASSUME TurnRetry PROVE SettledIsQuiet'
  <2>1. PICK o \in Offset : Emit(TurnStartRequested(now + o)) BY <1>8 DEF TurnRetry
  <2> QED BY <2>1, TimedEvents, EmitHarmless
<1>9. ASSUME Interrupt PROVE SettledIsQuiet'
  <2>1. PICK o \in Offset : Emit(InterruptRequested(now + o)) BY <1>9 DEF Interrupt
  <2> QED BY <2>1, TimedEvents, EmitHarmless
<1>10. ASSUME Rewind PROVE SettledIsQuiet'
  <2>1. PICK turn \in BOOLEAN : Emit(Rewound(turn)) BY <1>10 DEF Rewind
  <2> QED BY <2>1, PlainEvents, EmitHarmless
<1>11. ASSUME NEW s \in Status, NEW fresh \in BOOLEAN, SessionBecomes(s, fresh)
       PROVE  SettledIsQuiet'
  <2>1. EmitBoth(IF s \in Active THEN Wake ELSE Nothing, SessionSet(s, fresh))
    BY <1>11 DEF SessionBecomes
  <2>2. IsEvent(SessionSet(s, fresh)) /\ SessionSet(s, fresh).type # "settled"
    BY TimedEvents DEF SessionSet
  <2>3. CASE s \in Active
    <3>1. EmitBoth(Wake, SessionSet(s, fresh)) BY <2>1, <2>3
    <3> QED BY <2>2, <3>1, WokenIsQuiet DEF SettledIsQuiet
  <2>4. CASE s \notin Active
    <3> DEFINE m == Project(mem, Nothing)
               t == ProjectRows(rows, Nothing)
    <3>1. mem' = Project(m, SessionSet(s, fresh)) /\ rows' = ProjectRows(t, SessionSet(s, fresh))
      BY <2>1, <2>4 DEF EmitBoth
    <3>2. m \in MemState /\ t \in RowState /\ Quiet(m, t)
      BY <1>0, PlainEvents, ProjectFields, RowsFields, HarmlessKeepsQuiet
    <3> HIDE DEF m, t
    <3>3. Quiet(Project(m, SessionSet(s, fresh)), ProjectRows(t, SessionSet(s, fresh)))
      BY <2>2, <2>4, <3>2, HarmlessKeepsQuiet
    <3> QED BY <3>1, <3>3 DEF Quiet, SettledIsQuiet
  <2> QED BY <2>3, <2>4
<1>12. ASSUME SessionStarts PROVE SettledIsQuiet' BY <1>12, <1>11 DEF SessionStarts, Status
<1>13. ASSUME TurnRuns PROVE SettledIsQuiet' BY <1>13, <1>11 DEF TurnRuns, Status
<1>14. ASSUME SessionEnds PROVE SettledIsQuiet' BY <1>14, <1>11 DEF SessionEnds, Status
<1>15. ASSUME Revert PROVE SettledIsQuiet' BY <1>15, PlainEvents, EmitHarmless DEF Revert
<1>16. ASSUME Restart PROVE SettledIsQuiet'
  <2> DEFINE orphaned == IF rows.session \in Active THEN SessionSet("interrupted", FALSE)
                           ELSE Nothing
  <2>1. Hydrated \in MemState BY <1>0, HydratedTwin
  <2>2. Quiet(Hydrated, rows) BY <1>0 DEF Quiet, Hydrated
  <2>3. IsEvent(orphaned) /\ Harmless(orphaned)
    BY PlainEvents, TimedEvents DEF Status, Active
  <2>4. CASE mem' = Hydrated /\ UNCHANGED rows BY <2>2, <2>4 DEF Quiet, SettledIsQuiet
  <2>5. CASE mem' = Project(Hydrated, orphaned) /\ rows' = ProjectRows(rows, orphaned)
    <3> HIDE DEF orphaned
    <3>1. Quiet(Project(Hydrated, orphaned), ProjectRows(rows, orphaned))
      BY <1>0, <2>1, <2>2, <2>3, HarmlessKeepsQuiet
    <3> QED BY <2>5, <3>1 DEF Quiet, SettledIsQuiet
  <2> QED BY <1>16, <2>4, <2>5 DEF Restart
<1>17. ASSUME Tick PROVE SettledIsQuiet' BY <1>17 DEF Tick, SettledIsQuiet
<1>18. ASSUME NEW r \in Request, Respond(r) PROVE SettledIsQuiet'
  BY <1>18, RequestEvents, EmitHarmless DEF Respond
<1>19. ASSUME NEW r \in Request, RequestOpens(r) PROVE SettledIsQuiet'
  BY <1>19, RequestEvents, WokenIsQuiet DEF RequestOpens, RequestOpened, SettledIsQuiet
<1>20. ASSUME NEW r \in Request, ResolutionArrives(r) PROVE SettledIsQuiet'
  BY <1>20, RequestEvents, EmitHarmless DEF ResolutionArrives
<1>21. ASSUME NEW r \in Request, ResponseDelivered(r) PROVE SettledIsQuiet'
  BY <1>21 DEF ResponseDelivered, SettledIsQuiet
<1>22. ASSUME NEW r \in Request, ResponseStale(r) PROVE SettledIsQuiet'
  BY <1>22, RequestEvents, EmitHarmless DEF ResponseStale
<1>23. ASSUME NEW r \in Request, ResponseFails(r) PROVE SettledIsQuiet'
  BY <1>23, RequestEvents, EmitHarmless DEF ResponseFails
<1> QED BY <1>1, <1>2, <1>3, <1>4, <1>5, <1>6, <1>7, <1>8, <1>9, <1>10, <1>12, <1>13, <1>14,
           <1>15, <1>16, <1>17, <1>18, <1>19, <1>20, <1>21, <1>22, <1>23 DEF Next

QuietInv == TwinInv /\ SettledIsQuiet

LEMMA QuietInvariance == Spec => []QuietInv
<1>1. Init => QuietInv
  <2>1. Init => SettledIsQuiet BY DEF Init, SettledIsQuiet
  <2> QED BY <2>1, TwinInvInit DEF QuietInv
<1>2. QuietInv /\ [Next]_vars => QuietInv'
  <2>1. QuietInv /\ UNCHANGED vars => SettledIsQuiet' BY DEF QuietInv, SettledIsQuiet, vars
  <2>2. QuietInv /\ Next => SettledIsQuiet' BY QuietStep DEF QuietInv, TwinInv
  <2> QED BY <2>1, <2>2, TwinInvStep DEF QuietInv
<1> QED BY <1>1, <1>2, PTL DEF Spec

\* No event puts a session to work, or opens a request, behind a settled override.
THEOREM SettledStaysQuiet == Spec => []SettledIsQuiet
BY QuietInvariance, PTL DEF QuietInv

\* A request that opens leaves no settled override behind.
THEOREM RequestsAlwaysWake == Spec => RequestsWake
<1>1. QuietInv /\ [Next]_vars => [opened' # opened => rows'.override # "settled"]_vars
  <2> SUFFICES ASSUME QuietInv, Next, opened' # opened PROVE rows'.override # "settled"
    BY DEF vars
  <2>1. \E r \in Request : RequestOpens(r)
    BY DEF Next, Settle, Unsettle, Snooze, Unsnooze, Archive, Unarchive, TurnStart, TurnRetry,
           Interrupt, Rewind, SessionStarts, TurnRuns, SessionEnds, SessionBecomes, Revert,
           Restart, Tick, Respond, ResolutionArrives, ResponseDelivered, ResponseStale,
           ResponseFails, client, env
  <2>2. PICK r \in Request : RequestOpens(r) BY <2>1
  <2>3. TypeOK /\ LifecycleAgrees BY DEF QuietInv, TwinInv
  <2>4. IsEvent(RequestOpened(r)) /\ RequestOpened(r).type # "settled"
    BY RequestEvents DEF RequestOpened
  <2> QED BY <2>2, <2>3, <2>4, WokenIsQuiet DEF RequestOpens
<1> QED BY QuietInvariance, <1>1, PTL DEF Spec, RequestsWake

-----------------------------------------------------------------------------
(* Part 5: the decider and the shell flags count the same requests.          *)

\* Events that leave requests alone.
Mute(e) ==
  /\ e.type \notin {"requested", "resolved", "response-requested", "reverted", "rewound"}
  /\ e.type = "respond.failed" => ~ e.stale

LEMMA MuteFields ==
  ASSUME NEW m \in MemState, NEW t \in RowState, NEW e, IsEvent(e), Mute(e)
  PROVE  /\ Project(m, e) \in MemState /\ ProjectRows(t, e) \in RowState
         /\ Project(m, e).open = m.open
         /\ ProjectRows(t, e).approvals = t.approvals
         /\ ProjectRows(t, e).questions = t.questions
<1>1. OpenBy(m.open, m.lastMessage, e) = m.open BY DEF OpenBy, Mute
<1>2. ApprovalRows(t.approvals, e) = t.approvals BY DEF ApprovalRows, Mute, IsEvent
<1>3. QuestionRows(t.questions, e) = t.questions BY DEF QuestionRows, Mute, IsEvent
<1> QED BY <1>1, <1>2, <1>3, ProjectFields, RowsFields

LEMMA MuteEvents ==
  /\ Mute(Nothing) /\ Mute(Wake) /\ Mute(Settled) /\ Mute(Unsnoozed) /\ Mute(Archived)
  /\ Mute(Unarchived)
  /\ \A x : /\ Mute(Unsettled(x)) /\ Mute(Snoozed(x)) /\ Mute(MessageSent(x))
            /\ Mute(TurnStartRequested(x)) /\ Mute(InterruptRequested(x))
            /\ Mute(RespondFailed(x, FALSE))
  /\ \A s, x : Mute(SessionSet(s, x))
BY DEF Mute, Nothing, Wake, Settled, Unsnoozed, Archived, Unarchived, Unsettled, Snoozed,
       MessageSent, TurnStartRequested, InterruptRequested, RespondFailed, SessionSet

SameRequests ==
  /\ mem'.open = mem.open
  /\ rows'.approvals = rows.approvals /\ rows'.questions = rows.questions

LEMMA EmitMute == ASSUME TypeOK, NEW e, IsEvent(e), Mute(e), Emit(e) PROVE SameRequests
BY MuteFields DEF TypeOK, Emit, SameRequests

LEMMA EmitBothMute ==
  ASSUME TypeOK, NEW d, NEW e, IsEvent(d), IsEvent(e), Mute(d), Mute(e), EmitBoth(d, e)
  PROVE  SameRequests
<1> DEFINE m == Project(mem, d)
           t == ProjectRows(rows, d)
<1>1. mem' = Project(m, e) /\ rows' = ProjectRows(t, e) BY DEF EmitBoth
<1>2. /\ m \in MemState /\ t \in RowState
      /\ m.open = mem.open /\ t.approvals = rows.approvals /\ t.questions = rows.questions
  BY MuteFields DEF TypeOK
<1> HIDE DEF m, t
<1> QED BY <1>1, <1>2, MuteFields DEF SameRequests

LEMMA EmitFourMute ==
  ASSUME TypeOK, NEW b, NEW c, NEW d, NEW e, IsEvent(b), IsEvent(c), IsEvent(d), IsEvent(e),
         Mute(b), Mute(c), Mute(d), Mute(e), EmitFour(b, c, d, e)
  PROVE  SameRequests
<1> DEFINE m1 == Project(mem, b)
           t1 == ProjectRows(rows, b)
           m2 == Project(m1, c)
           t2 == ProjectRows(t1, c)
           m3 == Project(m2, d)
           t3 == ProjectRows(t2, d)
           Same(m, t) == /\ m \in MemState /\ t \in RowState /\ m.open = mem.open
                         /\ t.approvals = rows.approvals /\ t.questions = rows.questions
<1>0. mem' = Project(m3, e) /\ rows' = ProjectRows(t3, e) BY DEF EmitFour
<1>1. Same(m1, t1) BY MuteFields DEF TypeOK
<1> HIDE DEF m1, t1
<1>2. Same(m2, t2) BY <1>1, MuteFields
<1> HIDE DEF m2, t2
<1>3. Same(m3, t3) BY <1>2, MuteFields
<1> HIDE DEF m3, t3
<1>4. Same(Project(m3, e), ProjectRows(t3, e)) BY <1>3, MuteFields
<1> QED BY <1>0, <1>4 DEF SameRequests

\* A request that was not opened is not open, and never was.
Fresh ==
  \A r \in Request \ opened :
    /\ r \notin mem.open /\ r \notin rows.questions
    /\ r \in Approval => rows.approvals[r] = "none"

RequestInv == Fresh /\ RulesMatch

\* A step that leaves requests, and what is known of them, alone.
LEMMA SameKeeps ==
  ASSUME RequestInv, SameRequests, opened' = opened, apart' = apart PROVE RequestInv'
BY DEF RequestInv, SameRequests, Fresh, RulesMatch

\* What the events about one request do to it, and not to others.
LEMMA OpenedEffect ==
  ASSUME NEW m \in MemState, NEW t \in RowState, NEW r \in Request
  PROVE  LET n == Project(m, RequestOpened(r))
             u == ProjectRows(t, RequestOpened(r))
         IN /\ n.open = m.open \cup {r} /\ u.questions = t.questions \cup ({r} \cap Question)
            /\ \A a \in Approval : a # r => u.approvals[a] = t.approvals[a]
            /\ r \in Approval /\ t.approvals[r] = "none" => u.approvals[r] = "pending"
<1> DEFINE e == RequestOpened(r)
<1>1. e.type = "requested" /\ e.request = r /\ IsEvent(e) BY RequestEvents DEF RequestOpened
<1> HIDE DEF e
<1>2. Project(m, e).open = m.open \cup {r} BY <1>1, ProjectFields DEF OpenBy
<1>3. ProjectRows(t, e).questions = t.questions \cup ({r} \cap Question)
  BY <1>1, RowsFields DEF QuestionRows
<1>4. t.approvals \in [Approval -> {"none", "pending", "resolved"}] BY DEF RowState
<1>5. /\ \A a \in Approval : a # r => ApprovalRows(t.approvals, e)[a] = t.approvals[a]
      /\ r \in Approval /\ t.approvals[r] = "none" => ApprovalRows(t.approvals, e)[r] = "pending"
  BY <1>1, <1>4 DEF ApprovalRows
<1>6. ProjectRows(t, e).approvals = ApprovalRows(t.approvals, e) BY <1>1, RowsFields
<1> QED BY <1>2, <1>3, <1>5, <1>6 DEF e

Closes(e, r) ==
  /\ IsEvent(e) /\ e.request = r
  /\ e.type = "resolved" \/ (e.type = "respond.failed" /\ e.stale)

LEMMA ClosingEvents ==
  ASSUME NEW r \in Request
  PROVE  Closes(RequestClosed(r), r) /\ Closes(RespondFailed(r, TRUE), r)
<1>1. Closes(RequestClosed(r), r) BY RequestEvents DEF Closes, RequestClosed
<1>2. Closes(RespondFailed(r, TRUE), r)
  <2>1. IsEvent(RespondFailed(r, TRUE)) BY RequestEvents
  <2> QED BY <2>1 DEF Closes, RespondFailed
<1> QED BY <1>1, <1>2

LEMMA ClosedEffect ==
  ASSUME NEW m \in MemState, NEW t \in RowState, NEW r \in Request, NEW e, Closes(e, r)
  PROVE  LET n == Project(m, e)
             u == ProjectRows(t, e)
         IN /\ n.open = m.open \ {r} /\ u.questions = t.questions \ {r}
            /\ \A a \in Approval : a # r => u.approvals[a] = t.approvals[a]
            /\ r \in Approval => u.approvals[r] # "pending"
<1>1. /\ e.request = r /\ IsEvent(e)
      /\ e.type = "resolved" \/ (e.type = "respond.failed" /\ e.stale)
  BY DEF Closes
<1>3. Project(m, e).open = m.open \ {r} BY <1>1, ProjectFields DEF OpenBy
<1>4. ProjectRows(t, e).questions = t.questions \ {r} BY <1>1, RowsFields DEF QuestionRows
<1>5. t.approvals \in [Approval -> {"none", "pending", "resolved"}] BY DEF RowState
<1>6. /\ \A a \in Approval : a # r => ApprovalRows(t.approvals, e)[a] = t.approvals[a]
      /\ r \in Approval => ApprovalRows(t.approvals, e)[r] # "pending"
  BY <1>1, <1>5 DEF ApprovalRows
<1>7. ProjectRows(t, e).approvals = ApprovalRows(t.approvals, e) BY <1>1, RowsFields
<1> QED BY <1>3, <1>4, <1>6, <1>7

LEMMA RespondEffect ==
  ASSUME NEW m \in MemState, NEW t \in RowState, NEW r \in Request
  PROVE  LET n == Project(m, ResponseRequested(r))
             u == ProjectRows(t, ResponseRequested(r))
         IN /\ n.open = m.open /\ u.questions = t.questions
            /\ \A a \in Approval : a # r => u.approvals[a] = t.approvals[a]
<1> DEFINE e == ResponseRequested(r)
<1>1. e.type = "response-requested" /\ e.request = r /\ IsEvent(e)
  BY RequestEvents DEF ResponseRequested
<1> HIDE DEF e
<1>2. Project(m, e).open = m.open BY <1>1, ProjectFields DEF OpenBy
<1>3. ProjectRows(t, e).questions = t.questions BY <1>1, RowsFields DEF QuestionRows
<1>4. t.approvals \in [Approval -> {"none", "pending", "resolved"}] BY DEF RowState
<1>5. \A a \in Approval : a # r => ApprovalRows(t.approvals, e)[a] = t.approvals[a]
  BY <1>1, <1>4 DEF ApprovalRows
<1>6. ProjectRows(t, e).approvals = ApprovalRows(t.approvals, e) BY <1>1, RowsFields
<1> QED BY <1>2, <1>3, <1>5, <1>6 DEF e

LEMMA RequestStep == ASSUME TypeOK, RequestInv, Next PROVE RequestInv'
<1> USE MuteEvents
<1>0. /\ mem \in MemState /\ rows \in RowState /\ mem.open \subseteq Request
      /\ rows.approvals \in [Approval -> {"none", "pending", "resolved"}]
      /\ rows.questions \subseteq Question /\ Approval \cap Question = {}
  BY RequestAssumption DEF TypeOK, MemState, RowState
<1>1. ASSUME Settle \/ Unsettle \/ Snooze \/ Unsnooze \/ Archive \/ Unarchive PROVE RequestInv'
  <2>1. opened' = opened /\ apart' = apart
    BY <1>1 DEF Settle, Unsettle, Snooze, Unsnooze, Archive, Unarchive, client, env
  <2>2. PICK e : IsEvent(e) /\ Mute(e) /\ Emit(e)
    BY <1>1, PlainEvents DEF Settle, Unsettle, Snooze, Unsnooze, Archive, Unarchive
  <2> QED BY <2>1, <2>2, EmitMute, SameKeeps
<1>2. ASSUME TurnStart PROVE RequestInv'
  <2>1. opened' = opened /\ apart' = apart BY <1>2 DEF TurnStart, env
  <2>2. PICK o \in Offset :
          EmitFour(Wake, IF mem.until = 0 THEN Nothing ELSE Unsnoozed,
                   MessageSent(now + o), TurnStartRequested(now + o))
    BY <1>2 DEF TurnStart
  <2> DEFINE unsnooze == IF mem.until = 0 THEN Nothing ELSE Unsnoozed
  <2>3. /\ IsEvent(unsnooze) /\ Mute(unsnooze) /\ IsEvent(Wake)
        /\ IsEvent(MessageSent(now + o)) /\ IsEvent(TurnStartRequested(now + o))
    BY PlainEvents, TimedEvents
  <2>4. EmitFour(Wake, unsnooze, MessageSent(now + o), TurnStartRequested(now + o)) BY <2>2
  <2> HIDE DEF unsnooze
  <2>5. SameRequests BY <2>3, <2>4, EmitFourMute
  <2> QED BY <2>1, <2>5, SameKeeps
<1>3. ASSUME TurnRetry \/ Interrupt PROVE RequestInv'
  <2>1. opened' = opened /\ apart' = apart BY <1>3 DEF TurnRetry, Interrupt, client, env
  <2>2. PICK e : IsEvent(e) /\ Mute(e) /\ Emit(e) BY <1>3, TimedEvents DEF TurnRetry, Interrupt
  <2> QED BY <2>1, <2>2, EmitMute, SameKeeps
<1>4. ASSUME NEW s \in Status, NEW fresh \in BOOLEAN, SessionBecomes(s, fresh) PROVE RequestInv'
  <2> DEFINE wake == IF s \in Active THEN Wake ELSE Nothing
  <2>1. EmitBoth(wake, SessionSet(s, fresh)) /\ opened' = opened /\ apart' = apart
    BY <1>4 DEF SessionBecomes
  <2>2. IsEvent(wake) /\ Mute(wake) /\ IsEvent(SessionSet(s, fresh)) BY PlainEvents, TimedEvents
  <2> HIDE DEF wake
  <2> QED BY <2>1, <2>2, EmitBothMute, SameKeeps
<1>5. ASSUME SessionStarts \/ TurnRuns \/ SessionEnds PROVE RequestInv'
  BY <1>4, <1>5 DEF SessionStarts, TurnRuns, SessionEnds, Status
<1>6. ASSUME Rewind PROVE RequestInv'
  <2>1. PICK turn \in BOOLEAN :
          /\ Emit(Rewound(turn)) /\ opened' = opened
          /\ apart' = IF turn /\ mem.lastMessage # 0 THEN apart \cup mem.open ELSE apart
    BY <1>6 DEF Rewind, env
  <2>2. /\ Rewound(turn).type = "rewound" /\ Rewound(turn).turn = turn /\ IsEvent(Rewound(turn))
    BY PlainEvents DEF Rewound
  <2>3. rows'.approvals = rows.approvals /\ rows'.questions = rows.questions
    BY <1>0, <2>1, <2>2, RowsFields DEF Emit, ApprovalRows, QuestionRows
  <2>4. mem'.open = IF turn /\ mem.lastMessage # 0 THEN {} ELSE mem.open
    <3>1. mem'.open = OpenBy(mem.open, mem.lastMessage, Rewound(turn))
      BY <1>0, <2>1, <2>2, ProjectFields DEF Emit
    <3> QED BY <2>2, <3>1 DEF OpenBy
  <2> QED BY <2>1, <2>3, <2>4 DEF RequestInv, Fresh, RulesMatch
<1>7. ASSUME Revert PROVE RequestInv'
  <2>1. /\ Emit(Reverted) /\ opened' = opened /\ apart' = apart \cup (mem.open \cap Approval)
    BY <1>7 DEF Revert, env
  <2>2. Reverted.type = "reverted" /\ IsEvent(Reverted) BY PlainEvents DEF Reverted
  <2>3. rows'.approvals = rows.approvals /\ rows'.questions = {}
    BY <1>0, <2>1, <2>2, RowsFields DEF Emit, ApprovalRows, QuestionRows
  <2>4. mem'.open = {} BY <1>0, <2>1, <2>2, ProjectFields DEF Emit, OpenBy
  <2> QED BY <2>1, <2>3, <2>4 DEF RequestInv, Fresh, RulesMatch
<1>8. ASSUME Restart PROVE RequestInv'
  <2> DEFINE orphaned == IF rows.session \in Active THEN SessionSet("interrupted", FALSE)
                           ELSE Nothing
  <2>1. opened' = opened /\ apart' = apart \cup mem.open BY <1>8 DEF Restart
  <2>2. Hydrated \in MemState /\ Hydrated.open = {} BY <1>0, HydratedTwin DEF Hydrated
  <2>3. IsEvent(orphaned) /\ Mute(orphaned) BY PlainEvents, TimedEvents DEF Status
  <2>4. \/ mem' = Hydrated /\ rows' = rows
        \/ mem' = Project(Hydrated, orphaned) /\ rows' = ProjectRows(rows, orphaned)
    BY <1>8 DEF Restart
  <2> HIDE DEF orphaned
  <2>5. /\ mem'.open = {} /\ rows'.approvals = rows.approvals
        /\ rows'.questions = rows.questions
    BY <1>0, <2>2, <2>3, <2>4, MuteFields
  <2> QED BY <2>1, <2>5 DEF RequestInv, Fresh, RulesMatch
<1>9. ASSUME Tick PROVE RequestInv' BY <1>9, SameKeeps DEF Tick, SameRequests, env
<1>10. ASSUME NEW r \in Request, Respond(r) PROVE RequestInv'
  <2>1. /\ r \in opened /\ Emit(ResponseRequested(r)) /\ opened' = opened
        /\ apart' = apart \cup ({r} \cap Approval)
    BY <1>10 DEF Respond
  <2>2. /\ mem'.open = mem.open /\ rows'.questions = rows.questions
        /\ \A a \in Approval : a # r => rows'.approvals[a] = rows.approvals[a]
    BY <1>0, <2>1, RespondEffect DEF Emit
  <2> QED BY <2>1, <2>2 DEF RequestInv, Fresh, RulesMatch
<1>11. ASSUME NEW r \in Request, RequestOpens(r) PROVE RequestInv'
  <2>1. /\ r \notin opened /\ EmitBoth(Wake, RequestOpened(r))
        /\ opened' = opened \cup {r} /\ apart' = apart
    BY <1>11 DEF RequestOpens
  <2> DEFINE m == Project(mem, Wake)
             t == ProjectRows(rows, Wake)
  <2>2. mem' = Project(m, RequestOpened(r)) /\ rows' = ProjectRows(t, RequestOpened(r))
    BY <2>1 DEF EmitBoth
  <2>3. /\ m \in MemState /\ t \in RowState /\ m.open = mem.open
        /\ t.approvals = rows.approvals /\ t.questions = rows.questions
    BY <1>0, PlainEvents, MuteFields
  <2> HIDE DEF m, t
  <2>4. t.approvals[r] = "none" \/ r \notin Approval BY <2>1, <2>3 DEF RequestInv, Fresh
  <2>5. /\ mem'.open = mem.open \cup {r}
        /\ rows'.questions = rows.questions \cup ({r} \cap Question)
        /\ \A a \in Approval : a # r => rows'.approvals[a] = rows.approvals[a]
    BY <2>2, <2>3, OpenedEffect
  <2>6. r \in Approval => rows'.approvals[r] = "pending" BY <2>2, <2>3, <2>4, OpenedEffect
  <2>7. Fresh' BY <2>1, <2>5 DEF RequestInv, Fresh
  <2>8. RulesMatch' BY <1>0, <2>1, <2>5, <2>6 DEF RequestInv, RulesMatch
  <2> QED BY <2>7, <2>8 DEF RequestInv
<1>12. ASSUME NEW r \in Request, ResolutionArrives(r) PROVE RequestInv'
  <2>1. r \in opened /\ opened' = opened /\ apart' = apart \ {r} BY <1>12 DEF ResolutionArrives, TypeOK
  <2>2. PICK e : Closes(e, r) /\ mem' = Project(mem, e) /\ rows' = ProjectRows(rows, e)
    BY <1>12, ClosingEvents DEF ResolutionArrives, Emit
  <2>3. /\ mem'.open = mem.open \ {r} /\ rows'.questions = rows.questions \ {r}
        /\ \A a \in Approval : a # r => rows'.approvals[a] = rows.approvals[a]
        /\ r \in Approval => rows'.approvals[r] # "pending"
    BY <1>0, <2>2, ClosedEffect
  <2> QED BY <2>1, <2>3 DEF RequestInv, Fresh, RulesMatch
<1>13. ASSUME NEW r \in Request, ResponseDelivered(r) PROVE RequestInv'
  BY <1>13, SameKeeps DEF ResponseDelivered, SameRequests
<1>14. ASSUME NEW r \in Request, ResponseStale(r) PROVE RequestInv'
  <2>1. r \in opened /\ opened' = opened /\ apart' = apart \ {r} BY <1>14 DEF ResponseStale, TypeOK
  <2>2. PICK e : Closes(e, r) /\ mem' = Project(mem, e) /\ rows' = ProjectRows(rows, e)
    BY <1>14, ClosingEvents DEF ResponseStale, Emit
  <2>3. /\ mem'.open = mem.open \ {r} /\ rows'.questions = rows.questions \ {r}
        /\ \A a \in Approval : a # r => rows'.approvals[a] = rows.approvals[a]
        /\ r \in Approval => rows'.approvals[r] # "pending"
    BY <1>0, <2>2, ClosedEffect
  <2> QED BY <2>1, <2>3 DEF RequestInv, Fresh, RulesMatch
<1>15. ASSUME NEW r \in Request, ResponseFails(r) PROVE RequestInv'
  <2>1. Emit(RespondFailed(r, FALSE)) /\ opened' = opened /\ apart' = apart
    BY <1>15 DEF ResponseFails
  <2> QED BY <2>1, RequestEvents, EmitMute, SameKeeps
<1> QED BY <1>1, <1>2, <1>3, <1>5, <1>6, <1>7, <1>8, <1>9, <1>10, <1>11, <1>12, <1>13, <1>14,
           <1>15 DEF Next

LEMMA RequestInvariance == Spec => [](TwinInv /\ RequestInv)
<1>1. Init => TwinInv /\ RequestInv
  <2>1. Init => RequestInv BY DEF Init, RequestInv, Fresh, RulesMatch
  <2> QED BY <2>1, TwinInvInit
<1>2. TwinInv /\ RequestInv /\ [Next]_vars => (TwinInv /\ RequestInv)'
  <2>1. RequestInv /\ UNCHANGED vars => RequestInv'
    BY DEF RequestInv, Fresh, RulesMatch, vars, env
  <2>2. TwinInv /\ RequestInv /\ Next => RequestInv' BY RequestStep DEF TwinInv
  <2> QED BY <2>1, <2>2, TwinInvStep
<1> QED BY <1>1, <1>2, PTL DEF Spec

\* "The clearing rules MUST match": but for the requests in apart the decider
\* and the shell flags agree on which requests are open.
THEOREM ClearingRulesMatch == Spec => []RulesMatch
BY RequestInvariance, PTL DEF RequestInv

\* A settled thread hides no pending request but those in apart: what remains of
\* decider.ts:465 when a restart, a rewind or a revert has parted the two views.
THEOREM SettledHidesOnlyApart ==
  Spec => [](rows.override = "settled" =>
               /\ rows.questions \subseteq apart
               /\ \A a \in Approval \ apart : rows.approvals[a] # "pending")
<1>1. TwinInv /\ RequestInv /\ SettledIsQuiet =>
        (rows.override = "settled" =>
           /\ rows.questions \subseteq apart
           /\ \A a \in Approval \ apart : rows.approvals[a] # "pending")
  BY DEF TwinInv, TypeOK, RowState, RequestInv, RulesMatch, SettledIsQuiet
<1> QED BY RequestInvariance, SettledStaysQuiet, <1>1, PTL

-----------------------------------------------------------------------------
(* Part 6: a message a turn has adopted.                                     *)

\* The clients' clocks may be behind the server's, not ahead of it.
ClientsNotAhead == \A o \in Offset : o <= 0

Taken(m) == m.lastMessage = 0 \/ m.lastMessage <= m.turnAt

\* No message is newer than now, and one a turn adopted is not newer than the turn.
MessageInv == mem.lastMessage <= now /\ (adopted => Taken(mem))

LEMMA MessageFields ==
  ASSUME NEW m \in MemState, NEW e, IsEvent(e)
  PROVE  LET n == Project(m, e) IN
         /\ e.type # "message-sent" => n.lastMessage \in {0, m.lastMessage}
         /\ e.type = "message-sent" => n.lastMessage = Later(m.lastMessage, e.at)
         /\ \/ n.lastMessage = 0
            \/ n.turnAt >= m.turnAt
            \/ e.type = "session-set" /\ e.fresh
         /\ e.type = "session-set" /\ e.fresh => n.turnAt = e.at /\ n.lastMessage = m.lastMessage
<1> DEFINE a == ProjectLifecycle(m, e)
           b == ProjectSession(a, e)
           c == ProjectActivity(b, e)
           d == ProjectHistory(c, e)
<1>1. a \in MemState /\ a.lastMessage = m.lastMessage /\ a.turnAt = m.turnAt
  BY DEF ProjectLifecycle, MemState, IsEvent, OverrideAfter
<1> HIDE DEF a
<1>2. /\ b \in MemState /\ b.lastMessage = a.lastMessage
      /\ e.type = "session-set" /\ e.fresh => b.turnAt = e.at
      /\ ~ (e.type = "session-set" /\ e.fresh) => b.turnAt >= a.turnAt
  <2>1. a.turnAt \in Nat BY <1>1 DEF MemState
  <2>2. CASE e.type = "session-set" /\ e.fresh
    <3>1. b = [a EXCEPT !.session = e.status, !.turn = "running", !.turnAt = e.at]
      BY <2>2 DEF ProjectSession
    <3> QED BY <1>1, <2>2, <3>1 DEF MemState, IsEvent
  <2>3. CASE e.type = "session-set" /\ ~ e.fresh
    <3>1. \/ b = [a EXCEPT !.session = e.status]
          \/ b = [a EXCEPT !.session = e.status, !.turn = "ended", !.turnAt = Later(a.turnAt, e.at)]
      BY <2>3 DEF ProjectSession
    <3>2. e.at \in Nat /\ e.status \in Status BY <2>3 DEF IsEvent
    <3>3. Later(a.turnAt, e.at) \in Nat /\ Later(a.turnAt, e.at) >= a.turnAt
      BY <2>1, <3>2 DEF Later
    <3>4. b \in MemState BY <1>1, <3>1, <3>2, <3>3 DEF MemState
    <3>5. b.lastMessage = a.lastMessage BY <1>1, <3>1 DEF MemState
    <3>6. b.turnAt \in {a.turnAt, Later(a.turnAt, e.at)} BY <1>1, <3>1 DEF MemState
    <3> HIDE DEF b
    <3>7. b.turnAt >= a.turnAt BY <2>1, <3>3, <3>6
    <3> QED BY <2>3, <3>4, <3>5, <3>7
  <2>4. CASE e.type # "session-set"
    <3>1. b = a BY <2>4 DEF ProjectSession
    <3> QED BY <1>1, <2>1, <2>4, <3>1
  <2> QED BY <2>2, <2>3, <2>4 DEF IsEvent
<1> HIDE DEF b
<1>3. c \in MemState /\ c.lastMessage = b.lastMessage /\ c.turnAt = b.turnAt
  BY <1>2 DEF ProjectActivity, MemState, IsEvent
<1> HIDE DEF c
<1>4. /\ e.type = "message-sent" => /\ d.lastMessage = Later(c.lastMessage, e.at)
                                    /\ d.turnAt = c.turnAt
      /\ e.type # "message-sent" => \/ d.lastMessage = 0
                                    \/ d.lastMessage = c.lastMessage /\ d.turnAt = c.turnAt
      /\ e.type = "session-set" => d.lastMessage = c.lastMessage /\ d.turnAt = c.turnAt
  BY <1>3 DEF ProjectHistory, Emptied, MemState, IsEvent
<1>5. Project(m, e) = d BY DEF Project, a, b, c
<1> HIDE DEF d
<1>6. m.turnAt \in Nat /\ m.lastMessage \in Nat /\ a.turnAt \in Nat /\ b.turnAt \in Nat
  BY <1>1, <1>2 DEF MemState
<1> QED BY <1>1, <1>2, <1>3, <1>4, <1>5, <1>6

\* Only a message can undo an adoption.
LEMMA TakenStays ==
  ASSUME NEW m \in MemState, NEW e, IsEvent(e), e.type # "message-sent",
         e.type = "session-set" => e.at = now, m.lastMessage <= now, now \in Nat
  PROVE  /\ Project(m, e).lastMessage <= now
         /\ Taken(m) => Taken(Project(m, e))
         /\ e.type = "session-set" /\ e.fresh => Taken(Project(m, e))
<1> DEFINE n == Project(m, e)
<1>1. m.lastMessage \in Nat /\ m.turnAt \in Nat /\ n.lastMessage \in Nat /\ n.turnAt \in Nat
  BY ProjectFields DEF MemState
<1>2. /\ n.lastMessage \in {0, m.lastMessage}
      /\ n.lastMessage = 0 \/ n.turnAt >= m.turnAt \/ (e.type = "session-set" /\ e.fresh)
      /\ e.type = "session-set" /\ e.fresh => n.turnAt = now /\ n.lastMessage = m.lastMessage
  BY MessageFields
<1> HIDE DEF n
<1>3. n.lastMessage <= now BY <1>1, <1>2
<1>4. e.type = "session-set" /\ e.fresh => Taken(n) BY <1>1, <1>2 DEF Taken
<1>5. Taken(m) => Taken(n) BY <1>1, <1>2, <1>4 DEF Taken
<1> QED BY <1>3, <1>4, <1>5 DEF n

LEMMA MessageStep == ASSUME ClientsNotAhead, TypeOK, MessageInv, Next PROVE MessageInv'
<1>0. /\ mem \in MemState /\ mem.lastMessage <= now /\ now \in Nat
      /\ adopted => Taken(mem)
  BY TimedEvents DEF MessageInv, TypeOK, Taken
<1>1. ASSUME NEW e, IsEvent(e), e.type \notin {"message-sent", "session-set"},
             mem' = Project(mem, e), now' = now, adopted' => adopted
      PROVE  MessageInv'
  <2>1. mem'.lastMessage <= now /\ (Taken(mem) => Taken(mem')) BY <1>0, <1>1, TakenStays
  <2> QED BY <1>0, <1>1, <2>1 DEF MessageInv, Taken
<1>2. ASSUME Settle \/ Unsettle \/ Snooze \/ Unsnooze \/ Archive \/ Unarchive PROVE MessageInv'
  <2>1. now' = now /\ adopted' = adopted
    BY <1>2 DEF Settle, Unsettle, Snooze, Unsnooze, Archive, Unarchive, client
  <2>2. PICK e : IsEvent(e) /\ e.type \notin {"message-sent", "session-set"} /\ Emit(e)
    BY <1>2, PlainEvents
       DEF Settle, Unsettle, Snooze, Unsnooze, Archive, Unarchive, Settled, Unsettled, Snoozed,
           Unsnoozed, Archived, Unarchived
  <2> QED BY <1>1, <2>1, <2>2 DEF Emit
<1>3. ASSUME TurnRetry \/ Interrupt PROVE MessageInv'
  <2>1. now' = now /\ adopted' = adopted BY <1>3 DEF TurnRetry, Interrupt, client
  <2>2. PICK e : IsEvent(e) /\ e.type \notin {"message-sent", "session-set"} /\ Emit(e)
    BY <1>3, TimedEvents DEF TurnRetry, Interrupt, TurnStartRequested, InterruptRequested
  <2> QED BY <1>1, <2>1, <2>2 DEF Emit
<1>4. ASSUME Rewind \/ Revert PROVE MessageInv'
  <2>1. now' = now /\ (adopted' => adopted) BY <1>4 DEF Rewind, Revert
  <2>2. PICK e : IsEvent(e) /\ e.type \notin {"message-sent", "session-set"} /\ Emit(e)
    BY <1>4, PlainEvents DEF Rewind, Revert, Rewound, Reverted
  <2> QED BY <1>1, <2>1, <2>2 DEF Emit
<1>5. ASSUME NEW r \in Request,
             \/ Respond(r) \/ ResolutionArrives(r) \/ ResponseStale(r) \/ ResponseFails(r)
      PROVE  MessageInv'
  <2>1. now' = now /\ adopted' = adopted
    BY <1>5 DEF Respond, ResolutionArrives, ResponseStale, ResponseFails
  <2>2. PICK e : IsEvent(e) /\ e.type \notin {"message-sent", "session-set"} /\ Emit(e)
    BY <1>5, RequestEvents
       DEF Respond, ResolutionArrives, ResponseStale, ResponseFails, ResponseRequested,
           RequestClosed, RespondFailed
  <2> QED BY <1>1, <2>1, <2>2 DEF Emit
<1>6. ASSUME NEW r \in Request, RequestOpens(r) PROVE MessageInv'
  <2> DEFINE m == Project(mem, Wake)
  <2>1. now' = now /\ adopted' = adopted /\ mem' = Project(m, RequestOpened(r))
    BY <1>6 DEF RequestOpens, EmitBoth
  <2>2. IsEvent(Wake) /\ Wake.type \notin {"message-sent", "session-set"}
    BY PlainEvents DEF Wake, Nothing, Unsettled
  <2>3. m \in MemState /\ m.lastMessage <= now /\ (Taken(mem) => Taken(m))
    BY <1>0, <2>2, ProjectFields, TakenStays
  <2> HIDE DEF m
  <2>4. IsEvent(RequestOpened(r)) /\ RequestOpened(r).type \notin {"message-sent", "session-set"}
    BY RequestEvents DEF RequestOpened
  <2>5. mem'.lastMessage <= now /\ (Taken(m) => Taken(mem'))
    BY <1>0, <2>1, <2>3, <2>4, TakenStays
  <2> QED BY <1>0, <2>1, <2>3, <2>5 DEF MessageInv, Taken
<1>7. ASSUME NEW r \in Request, ResponseDelivered(r) PROVE MessageInv'
  BY <1>7 DEF ResponseDelivered, MessageInv
<1>8. ASSUME Tick PROVE MessageInv' BY <1>0, <1>8 DEF Tick, MessageInv, MemState
<1>9. ASSUME NEW s \in Status, NEW fresh \in BOOLEAN, SessionBecomes(s, fresh) PROVE MessageInv'
  <2> DEFINE wake == IF s \in Active THEN Wake ELSE Nothing
             e == SessionSet(s, fresh)
             m == Project(mem, wake)
  <2>1. /\ now' = now /\ mem' = Project(m, e)
        /\ adopted' = IF fresh /\ rows.pendingStart # 0 THEN TRUE ELSE adopted
    BY <1>9 DEF SessionBecomes, EmitBoth
  <2>2. IsEvent(wake) /\ wake.type \notin {"message-sent", "session-set"}
    BY PlainEvents DEF Wake, Nothing, Unsettled
  <2>3. IsEvent(e) /\ e.type = "session-set" /\ e.at = now /\ e.fresh = fresh
    BY TimedEvents DEF SessionSet
  <2> HIDE DEF wake, e
  <2>4. m \in MemState /\ m.lastMessage <= now /\ (Taken(mem) => Taken(m))
    BY <1>0, <2>2, ProjectFields, TakenStays
  <2> HIDE DEF m
  <2>5. mem'.lastMessage <= now /\ (Taken(m) => Taken(mem')) /\ (fresh => Taken(mem'))
    BY <1>0, <2>1, <2>3, <2>4, TakenStays
  <2> QED BY <1>0, <2>1, <2>4, <2>5 DEF MessageInv, Taken
<1>10. ASSUME SessionStarts \/ TurnRuns \/ SessionEnds PROVE MessageInv'
  BY <1>9, <1>10 DEF SessionStarts, TurnRuns, SessionEnds, Status
<1>11. ASSUME Restart PROVE MessageInv'
  <2> DEFINE orphaned == IF rows.session \in Active THEN SessionSet("interrupted", FALSE)
                           ELSE Nothing
  <2>1. now' = now /\ (mem' = Hydrated \/ mem' = Project(Hydrated, orphaned))
    BY <1>11 DEF Restart
  <2>2. Hydrated \in MemState /\ Hydrated.lastMessage = 0
    BY HydratedTwin DEF TypeOK, Hydrated
  <2>3. IsEvent(orphaned) /\ orphaned.type # "message-sent"
    BY PlainEvents, TimedEvents DEF Status, SessionSet, Nothing
  <2> HIDE DEF orphaned
  <2>4. Project(Hydrated, orphaned).lastMessage = 0 BY <2>2, <2>3, MessageFields
  <2>5. mem'.lastMessage = 0 BY <2>1, <2>2, <2>4
  <2> QED BY <1>0, <2>1, <2>5 DEF MessageInv, Taken
<1>12. ASSUME TurnStart PROVE MessageInv'
  <2>1. PICK o \in Offset :
          EmitFour(Wake, IF mem.until = 0 THEN Nothing ELSE Unsnoozed,
                   MessageSent(now + o), TurnStartRequested(now + o))
    BY <1>12 DEF TurnStart
  <2> DEFINE unsnooze == IF mem.until = 0 THEN Nothing ELSE Unsnoozed
             sent == MessageSent(now + o)
             m1 == Project(mem, Wake)
             m2 == Project(m1, unsnooze)
             m3 == Project(m2, sent)
  <2>2. /\ mem' = Project(m3, TurnStartRequested(now + o))
        /\ now' = now /\ adopted' = FALSE
    BY <1>12, <2>1 DEF TurnStart, EmitFour
  <2>3. /\ IsEvent(Wake) /\ Wake.type \notin {"message-sent", "session-set"}
        /\ IsEvent(unsnooze) /\ unsnooze.type \notin {"message-sent", "session-set"}
    BY PlainEvents DEF Wake, Nothing, Unsettled, Unsnoozed
  <2>4. /\ IsEvent(sent) /\ sent.type = "message-sent" /\ sent.at = now + o
        /\ IsEvent(TurnStartRequested(now + o))
        /\ TurnStartRequested(now + o).type \notin {"message-sent", "session-set"}
    BY TimedEvents DEF MessageSent, TurnStartRequested
  <2> HIDE DEF unsnooze, sent
  <2>5. m1 \in MemState /\ m1.lastMessage <= now BY <1>0, <2>3, ProjectFields, TakenStays
  <2> HIDE DEF m1
  <2>6. m2 \in MemState /\ m2.lastMessage <= now BY <1>0, <2>3, <2>5, ProjectFields, TakenStays
  <2> HIDE DEF m2
  <2>7. m3 \in MemState /\ m3.lastMessage = Later(m2.lastMessage, now + o)
    BY <2>4, <2>6, ProjectFields, MessageFields
  <2>8. now + o <= now BY <1>0, TimeAssumption DEF ClientsNotAhead
  <2>9. m3.lastMessage <= now BY <2>6, <2>7, <2>8 DEF Later
  <2> HIDE DEF m3
  <2>10. mem'.lastMessage <= now BY <1>0, <2>2, <2>4, <2>7, <2>9, TakenStays
  <2> QED BY <2>2, <2>10 DEF MessageInv
<1> QED BY <1>2, <1>3, <1>4, <1>5, <1>6, <1>7, <1>8, <1>10, <1>11, <1>12 DEF Next

\* decider.ts:94: a message that a turn has adopted is no queued start, so it
\* blocks neither settling nor snoozing, if no client's clock is ahead.
THEOREM AdoptionEndsQueue == ClientsNotAhead => (Spec => []AdoptionClears)
<1> SUFFICES ASSUME ClientsNotAhead PROVE Spec => []AdoptionClears OBVIOUS
<1>1. Init => TwinInv /\ MessageInv
  <2>1. Init => MessageInv BY TimeAssumption DEF Init, MessageInv
  <2> QED BY <2>1, TwinInvInit
<1>2. TwinInv /\ MessageInv /\ [Next]_vars => (TwinInv /\ MessageInv)'
  <2>1. MessageInv /\ UNCHANGED vars => MessageInv' BY DEF MessageInv, vars
  <2>2. TwinInv /\ MessageInv /\ Next => MessageInv' BY MessageStep DEF TwinInv
  <2> QED BY <2>1, <2>2, TwinInvStep
<1>3. TwinInv /\ MessageInv => AdoptionClears
  BY DEF TwinInv, TypeOK, MemState, MessageInv, Taken, AdoptionClears, Queued
<1> QED BY <1>1, <1>2, <1>3, PTL DEF Spec
=============================================================================
