--------------------------- MODULE ThreadTurnsProofs ---------------------------
(***************************************************************************)
(* The safety properties of ThreadTurns for any number of turns, reports,  *)
(* reverts and failures, in four parts.                                    *)
(*   IInv      types, and where the git refs are that rows name: what a    *)
(*             revert may have deleted at each of its steps (RefsHeld).    *)
(*   OneInv    a row or a client that shows a turn running is justified by *)
(*             the session or by text still to come, and the provider's    *)
(*             events end each turn before the next one starts.            *)
(*   SameInv   the two reducers hold the same list of checkpoints, one     *)
(*             for each turn at most, so that the read model drops none.   *)
(*   KnownInv  each checkpoint of the tables is in that list, or it is a   *)
(*             placeholder that the reactor is to replace.                 *)
(***************************************************************************)
EXTENDS ThreadTurns, WellFoundedInduction, FiniteSetTheorems, SequenceTheorems, TLAPS

Announced == {"starting", "running", "ready", "error", "stopped"}
SomeTurn == Turn \cup {NoTurn}

RuntimeEvent ==
  [type : {"turn.started"} \cup Reports, turn : Turn]
    \cup [type : {"turn.completed"}, turn : Turn, state : {"completed", "failed", "interrupted"},
          text : BOOLEAN]
    \cup [type : {"session.exited"}]

DomainEvent ==
  [type : {"turn-start-requested"}]
    \cup [type : {"session-set"}, status : Announced, active : SomeTurn]
    \cup [type : {"message-sent"}, turn : Turn, streaming : BOOLEAN]
    \cup [type : {"turn-interrupt-requested"}, turn : Turn]
    \cup [type : {"turn-diff-completed"}, turn : Turn, count : Nat, mark : Mark, git : BOOLEAN]
    \cup [type : {"checkpoint-revert-requested", "reverted"}, count : Nat]

\* What the ingestion dispatches: its checkpoints are placeholders without a ref.
Ingested == {e \in DomainEvent : \/ e.type \in {"session-set", "message-sent"}
                                 \/ e.type = "turn-diff-completed" /\ ~ e.git}

JobState == {NoJob}
  \cup [step : {"capture", "captured"}, turn : Turn, mark : Mark, count : Nat]
  \cup [step : {"rollback", "prune", "finish"}, count : Nat, top : Nat, stale : SUBSET Nat]

Row == [state : Ended \cup {"none", "running"}, count : Nat, mark : Mark \cup {"none"}, git : BOOLEAN]

Used == [asked : Nat, opened : Nat, reports : Nat, reverts : Nat, faults : Nat]

Types ==
  /\ TypeOK
  /\ feed \in Seq(RuntimeEvent) /\ todo \in Seq(Ingested)
  /\ work \in Seq(RuntimeEvent \cup DomainEvent) /\ job \in JobState
  /\ used \in Used /\ used.asked <= MaxTurns /\ sends + used.opened <= used.asked

\* The refs the rows name are there, but for those a revert has deleted and not
\* reported yet, all of which are above its target.
RefsHeld ==
  /\ job.step # "finish" => \A t \in Turn : rows[t].git => rows[t].count \in refs
  /\ job.step = "finish" =>
       \A t \in Turn : rows[t].git /\ rows[t].count <= job.count => rows[t].count \in refs
  /\ job.step \in {"rollback", "prune"} => \A n \in job.stale : n > job.count
  /\ job.step = "captured" => job.count \in refs

IInv == Types /\ RefsHeld

-----------------------------------------------------------------------------
(* The largest turn count.                                                   *)

LEMMA LeastNat == ASSUME NEW T \in SUBSET Nat, T # {} PROVE \E x \in T : \A y \in T : x <= y
<1>1. PICK R : IsWellFoundedOn(R, Nat) /\ \A x, y \in Nat : y < x => <<y, x>> \in R
  <2>1. IsWellFoundedOn(OpToRel(<, Nat), Nat) BY NatLessThanWellFounded
  <2>2. \A x, y \in Nat : y < x => <<y, x>> \in OpToRel(<, Nat) BY DEF OpToRel
  <2> QED BY <2>1, <2>2, Zenon
<1>2. \E x \in T : \A y \in T : ~ (<<y, x>> \in R) BY <1>1, WFMin
<1>3. \A x, y \in T : x <= y \/ y < x OBVIOUS
<1> QED BY <1>1, <1>2, <1>3

\* Finitely many numbers have a largest one: by the least n for which the first n
\* of them do not.
LEMMA LargestExists ==
  ASSUME NEW N \in Nat, NEW f \in [1..N -> Nat], NEW S \in SUBSET (1..N), S # {}
  PROVE  \E t \in S : \A u \in S : f[u] <= f[t]
<1> DEFINE Has(U) == \E t \in U : \A u \in U : f[u] <= f[t]
           Bad == {n \in 0..N : \E U \in SUBSET (1..n) : U # {} /\ ~ Has(U)}
<1>1. Bad = {}
  <2> SUFFICES ASSUME Bad # {} PROVE FALSE OBVIOUS
  <2>1. PICK n \in Bad : \A m \in Bad : n <= m
    <3>1. Bad \in SUBSET Nat OBVIOUS
    <3> HIDE DEF Bad
    <3> QED BY <3>1, LeastNat
  <2>2. n \in 0..N /\ \E U \in SUBSET (1..n) : U # {} /\ ~ Has(U) OBVIOUS
  <2>9. PICK U \in SUBSET (1..n) : U # {} /\ ~ Has(U) BY <2>2
  <2>10. PICK z \in U : TRUE BY <2>9
  <2>11. z \in 1..n BY <2>9, <2>10
  <2>3. n \in Nat /\ n >= 1 /\ n <= N BY <2>2, <2>11
  <2> PICK V : V = U \ {n} OBVIOUS
  <2>4. V \in SUBSET (1..(n - 1)) BY <2>3, <2>9
  <2>5. n - 1 \notin Bad
    <3> HIDE DEF Bad
    <3> QED BY <2>1, <2>3
  <2>12. \A W \in SUBSET (1..(n - 1)) : W = {} \/ Has(W)
    <3>1. n - 1 \in 0..N BY <2>3
    <3> QED BY <2>5, <3>1
  <2> HIDE DEF Bad
  <2>13. \A u \in U : u \in 1..N /\ f[u] \in Nat /\ (u = n \/ u \in V)
    <3> TAKE u \in U
    <3>1. u \in 1..n OBVIOUS
    <3>2. u \in 1..N BY <2>3, <3>1
    <3>3. f[u] \in Nat BY <3>2
    <3>4. u = n \/ u \in V BY Zenon
    <3> QED BY <3>2, <3>3, <3>4
  <2>6. V = {} \/ Has(V) BY <2>4, <2>12
  <2>7. CASE V = {}
    <3>1. U = {n} BY <2>7, <2>9
    <3> QED BY <2>3, <2>9, <2>13, <3>1
  <2>8. CASE V # {}
    <3>1. PICK t \in V : \A u \in V : f[u] <= f[t] BY <2>6, <2>8
    <3>2. t \in U /\ f[t] \in Nat /\ f[n] \in Nat BY <2>3, <2>13
    <3>3. CASE n \in U /\ f[n] > f[t]
      <4>1. \A u \in U : f[u] <= f[n]
        BY <2>13, <3>1, <3>2, <3>3
      <4> QED BY <2>9, <3>3, <4>1
    <3>4. CASE ~ (n \in U /\ f[n] > f[t])
      <4>1. \A u \in U : f[u] <= f[t]
        BY <2>13, <3>1, <3>2, <3>4
      <4> QED BY <2>9, <3>2, <4>1
    <3> QED BY <3>3, <3>4
  <2> QED BY <2>7, <2>8
<1>2. N \notin Bad BY <1>1
<1> QED BY <1>2

LEMMA LargestRow ==
  ASSUME TypeOK, NEW S \in SUBSET Turn, S # {}
  PROVE  \E t \in S : \A u \in S : rows[u].count <= rows[t].count
<1> PICK f : f = [t \in Turn |-> rows[t].count] OBVIOUS
<1>1. f \in [1..MaxTurns -> Nat] BY DEF TypeOK, Turn
<1>2. \A t \in Turn : f[t] = rows[t].count OBVIOUS
<1>3. PICK t \in S : \A u \in S : f[u] <= f[t]
  BY <1>1, BoundsAssumption, LargestExists DEF Turn
<1> QED BY <1>2, <1>3

LEMMA TopCountType == TypeOK => TopCount \in Nat
<1> SUFFICES ASSUME TypeOK, Checkpointed # {} PROVE TopCount \in Nat BY DEF TopCount
<1> PICK S : S = {rows[t].count : t \in Checkpointed} OBVIOUS
<1>1. S \subseteq Nat BY DEF TypeOK, Checkpointed
<1>2. PICK t \in Checkpointed : \A u \in Checkpointed : rows[u].count <= rows[t].count
  BY LargestRow DEF Checkpointed
<1>3. \E x \in S : \A y \in S : x >= y BY <1>1, <1>2
<1>4. Max(S) \in S BY <1>3 DEF Max
<1> QED BY <1>1, <1>4 DEF TopCount

-----------------------------------------------------------------------------
(* What an event makes of the tables.                                        *)

LEMMA Events ==
  /\ StartRequested \in DomainEvent
  /\ \A s \in Announced, t \in SomeTurn : SessionSet(s, t) \in DomainEvent
  /\ \A t \in Turn, b \in BOOLEAN : MessageSent(t, b) \in DomainEvent
  /\ \A t \in Turn : InterruptRequested(t) \in DomainEvent
  /\ \A t \in Turn, n \in Nat, k \in Mark, g \in BOOLEAN : DiffCompleted(t, n, k, g) \in DomainEvent
  /\ \A n \in Nat : RevertRequested(n) \in DomainEvent /\ Reverted(n) \in DomainEvent
  BY DEF DomainEvent, StartRequested, SessionSet, MessageSent, InterruptRequested, DiffCompleted,
     RevertRequested, Reverted

LEMMA Fields ==
  ASSUME NEW e \in DomainEvent
  PROVE  /\ e.type = "session-set" => e.status \in Announced /\ e.active \in SomeTurn
         /\ e.type = "message-sent" => e.turn \in Turn /\ e.streaming \in BOOLEAN
         /\ e.type = "turn-interrupt-requested" => e.turn \in Turn
         /\ e.type = "turn-diff-completed" =>
              e.turn \in Turn /\ e.count \in Nat /\ e.mark \in Mark /\ e.git \in BOOLEAN
         /\ e.type \in {"checkpoint-revert-requested", "reverted"} => e.count \in Nat
         /\ e.type \in {"turn-start-requested", "session-set", "message-sent", "turn-interrupt-requested",
                        "turn-diff-completed", "checkpoint-revert-requested", "reverted"}
  BY DEF DomainEvent

\* An event gives rows of turns that are over no new life, and a ref only where it
\* names one.
Changes(e, new) ==
  /\ new \in [Turn -> Row]
  /\ \A t \in Turn : rows[t].state \in {"completed", "error"} => new[t].state # "running"
  /\ \A t \in Turn : new[t].git =>
       \/ /\ rows[t].git /\ new[t].count = rows[t].count
          /\ e.type = "reverted" => new[t].count <= e.count
       \/ e.type = "turn-diff-completed" /\ t = e.turn /\ e.git /\ new[t].count = e.count

LEMMA RowTypes ==
  /\ NoRow \in Row /\ ~ NoRow.git /\ NoRow.state = "none"
  /\ TypeOK => rows \in [Turn -> Row]
  BY DEF NoRow, Row, TypeOK

\* A row with another state.
LEMMA NewState ==
  ASSUME NEW r \in Row, NEW s \in Ended \cup {"none", "running"}
  PROVE  /\ [r EXCEPT !.state = s] \in Row
         /\ [r EXCEPT !.state = s].state = s
         /\ [r EXCEPT !.state = s].git = r.git /\ [r EXCEPT !.state = s].count = r.count
  BY DEF Row

LEMMA SessionRows ==
  ASSUME TypeOK, NEW e \in DomainEvent, e.type = "session-set" PROVE Changes(e, RowsOfSession(e))
<1> PICK end : end = IF Activates(e) THEN "completed" ELSE SettledState(e.status) OBVIOUS
<1> PICK new : new = RowsOfSession(e) OBVIOUS
<1>0. rows \in [Turn -> Row] BY RowTypes
<1>1. end \in Ended \cup {"none"} /\ end # "running" BY Fields DEF Announced, SettledState, Ended
<1>2. ASSUME NEW t \in Turn
      PROVE  \/ new[t] = rows[t]
             \/ rows[t].state \notin {"completed", "error"} /\ new[t] = [rows[t] EXCEPT !.state = "running"]
             \/ end # "none" /\ new[t] = [rows[t] EXCEPT !.state = end]
  BY DEF RowsOfSession
<1>3. \A t \in Turn : /\ new[t] \in Row
                      /\ rows[t].state \in {"completed", "error"} => new[t].state # "running"
                      /\ new[t].git = rows[t].git /\ new[t].count = rows[t].count
  <2> TAKE t \in Turn
  <2>1. rows[t] \in Row BY <1>0
  <2>2. CASE new[t] = rows[t] BY <2>1, <2>2
  <2>3. CASE rows[t].state \notin {"completed", "error"} /\ new[t] = [rows[t] EXCEPT !.state = "running"]
    BY <2>1, <2>3, NewState
  <2>4. CASE new[t] = [rows[t] EXCEPT !.state = end] BY <1>1, <2>1, <2>4, NewState
  <2> QED BY <1>2, <2>2, <2>3, <2>4
<1>4. new = [t \in Turn |-> new[t]] BY DEF RowsOfSession
<1>5. new \in [Turn -> Row] BY <1>3, <1>4
<1> QED BY <1>3, <1>5 DEF Changes

LEMMA MessageRows ==
  ASSUME TypeOK, NEW e \in DomainEvent, e.type = "message-sent" PROVE Changes(e, RowsOfMessage(e))
<1>0. rows \in [Turn -> Row] /\ e.turn \in Turn BY RowTypes, Fields
<1> PICK new, s, r : new = RowsOfMessage(e) /\ r = rows[e.turn] /\ s = new[e.turn].state OBVIOUS
<1>1. r \in Row /\ r.state \in Ended \cup {"none", "running"} BY <1>0 DEF Row
<1>2. PICK u \in Ended \cup {"none", "running"} :
        /\ new = [rows EXCEPT ![e.turn].state = u]
        /\ r.state \in {"completed", "error"} => u # "running"
  <2>1. CASE ~ e.streaming /\ ~ StillRunning(e.turn) /\ r.state \in {"interrupted", "error"}
    BY <1>0, <1>1, <2>1 DEF RowsOfMessage
  <2>2. CASE ~ e.streaming /\ ~ StillRunning(e.turn) /\ r.state \notin {"interrupted", "error"}
    BY <1>0, <1>1, <2>2 DEF RowsOfMessage, Ended
  <2>3. CASE ~ (~ e.streaming /\ ~ StillRunning(e.turn)) /\ r.state = "none"
    BY <1>0, <1>1, <2>3 DEF RowsOfMessage
  <2>4. CASE ~ (~ e.streaming /\ ~ StillRunning(e.turn)) /\ r.state # "none"
    BY <1>0, <1>1, <2>4 DEF RowsOfMessage
  <2> QED BY <2>1, <2>2, <2>3, <2>4
<1>3. \A t \in Turn : new[t] = IF t = e.turn THEN [r EXCEPT !.state = u] ELSE rows[t] BY <1>0, <1>2
<1>4. [r EXCEPT !.state = u] \in Row /\ [r EXCEPT !.state = u].state = u
      /\ [r EXCEPT !.state = u].git = r.git /\ [r EXCEPT !.state = u].count = r.count
  BY <1>1, <1>2, NewState
<1>5. new \in [Turn -> Row] BY <1>0, <1>2, <1>3, <1>4
<1>6. \A t \in Turn : /\ rows[t].state \in {"completed", "error"} => new[t].state # "running"
                      /\ new[t].git = rows[t].git /\ new[t].count = rows[t].count
  BY <1>0, <1>2, <1>3, <1>4 DEF Row
<1> QED BY <1>5, <1>6 DEF Changes

LEMMA DiffRows ==
  ASSUME TypeOK, NEW e \in DomainEvent, e.type = "turn-diff-completed" PROVE Changes(e, RowsOfDiff(e))
<1>0. rows \in [Turn -> Row] /\ e.turn \in Turn /\ e.count \in Nat /\ e.mark \in Mark /\ e.git \in BOOLEAN
  BY RowTypes, Fields
<1> PICK new, s, own : /\ new = RowsOfDiff(e)
                       /\ s = (CASE StillRunning(e.turn) /\ rows[e.turn].state = "none" -> "running"
                                 [] StillRunning(e.turn) -> rows[e.turn].state
                                 [] OTHER -> IF e.mark = "error" THEN "error" ELSE "completed")
                       /\ own = [state |-> s, count |-> e.count, mark |-> e.mark, git |-> e.git]
  OBVIOUS
<1>1. s \in Ended \cup {"none", "running"} /\ (rows[e.turn].state \in {"completed", "error"} => s # "running")
  <2>1. rows[e.turn].state \in Ended \cup {"none", "running"} BY <1>0 DEF Row
  <2> QED BY <2>1 DEF Ended
<1>2. own \in Row BY <1>0, <1>1 DEF Row
<1>3. ASSUME NEW t \in Turn
      PROVE  \/ t = e.turn /\ new[t] = own
             \/ new[t] = [NoRow EXCEPT !.state = rows[t].state]
             \/ new[t] = rows[t]
  BY DEF RowsOfDiff
<1>4. \A t \in Turn : /\ new[t] \in Row
                      /\ rows[t].state \in {"completed", "error"} => new[t].state # "running"
                      /\ new[t].git => \/ rows[t].git /\ new[t].count = rows[t].count
                                       \/ t = e.turn /\ e.git /\ new[t].count = e.count
  <2> TAKE t \in Turn
  <2>1. rows[t] \in Row /\ rows[t].state \in Ended \cup {"none", "running"} BY <1>0 DEF Row
  <2>2. CASE t = e.turn /\ new[t] = own BY <1>1, <1>2, <2>2
  <2>3. CASE new[t] = [NoRow EXCEPT !.state = rows[t].state]
    BY <2>1, <2>3, RowTypes, NewState
  <2>4. CASE new[t] = rows[t]
    <3>1. new[t] \in Row BY <2>1, <2>4
    <3>2. new[t].git = rows[t].git /\ new[t].count = rows[t].count /\ new[t].state = rows[t].state BY <2>4
    <3>3. rows[t].state \in {"completed", "error"} => new[t].state # "running" BY <3>2
    <3> QED BY <3>1, <3>2, <3>3, Zenon
  <2> QED BY <1>3, <2>2, <2>3, <2>4
<1>5. new = [t \in Turn |-> new[t]] BY DEF RowsOfDiff
<1>6. new \in [Turn -> Row] BY <1>4, <1>5
<1> QED BY <1>0, <1>4, <1>6 DEF Changes

LEMMA RowsChange == ASSUME TypeOK, NEW e \in DomainEvent PROVE Changes(e, RowsAfter(e))
<1>0. rows \in [Turn -> Row] BY RowTypes
<1>1. CASE e.type = "session-set" BY <1>1, SessionRows DEF RowsAfter
<1>2. CASE e.type = "message-sent" BY <1>2, MessageRows DEF RowsAfter
<1>3. CASE e.type = "turn-diff-completed" BY <1>3, DiffRows DEF RowsAfter
<1>4. CASE e.type = "turn-interrupt-requested"
  <2>1. e.turn \in Turn BY <1>4, Fields
  <2> PICK new : new = RowsAfter(e) OBVIOUS
  <2>2. new = [rows EXCEPT ![e.turn].state = "interrupted"] BY <1>4 DEF RowsAfter
  <2>3. \A t \in Turn : new[t] = IF t = e.turn THEN [rows[t] EXCEPT !.state = "interrupted"] ELSE rows[t]
    BY <1>0, <2>1, <2>2
  <2>4. \A t \in Turn : /\ new[t] \in Row
                        /\ rows[t].state \in {"completed", "error"} => new[t].state # "running"
                        /\ new[t].git = rows[t].git /\ new[t].count = rows[t].count
    <3> TAKE t \in Turn
    <3> PICK r : r = [rows[t] EXCEPT !.state = "interrupted"] OBVIOUS
    <3>1. rows[t] \in Row /\ "interrupted" \in Ended \cup {"none", "running"} BY <1>0 DEF Ended
    <3>2. r \in Row /\ r.state = "interrupted" /\ r.git = rows[t].git /\ r.count = rows[t].count
      BY <3>1, NewState
    <3>3. CASE t = e.turn
      <4>1. new[t] = r BY <2>3, <3>3
      <4> QED BY <3>2, <4>1
    <3>4. CASE t # e.turn
      <4>1. new[t] = rows[t] BY <2>3, <3>4
      <4>2. new[t].state = rows[t].state BY <4>1
      <4>3. rows[t].state \in {"completed", "error"} => new[t].state # "running" BY <4>2
      <4> QED BY <3>1, <4>1, <4>3, Zenon
    <3> QED BY <3>3, <3>4
  <2>5. new \in [Turn -> Row] BY <1>0, <2>2, <2>4
  <2> QED BY <1>4, <2>4, <2>5 DEF Changes
<1>5. CASE e.type = "reverted"
  <2>1. e.count \in Nat BY <1>5, Fields
  <2> PICK new : new = RowsAfter(e) OBVIOUS
  <2>2. new = [t \in Turn |-> IF t \in Kept(e.count) THEN rows[t] ELSE NoRow] BY <1>5 DEF RowsAfter
  <2>3. \A t \in Turn : \/ new[t] = rows[t] /\ rows[t].count <= e.count
                        \/ new[t] = NoRow
    BY <2>1, <2>2 DEF Kept
  <2>4. new \in [Turn -> Row] BY <1>0, <2>2, RowTypes
  <2>5. \A t \in Turn : rows[t].state \in {"completed", "error"} => new[t].state # "running"
    BY <2>3, RowTypes
  <2>6. \A t \in Turn : new[t].git => rows[t].git /\ new[t].count = rows[t].count /\ new[t].count <= e.count
    BY <2>3, RowTypes
  <2> QED BY <2>4, <2>5, <2>6 DEF Changes
<1>6. CASE e.type \in {"turn-start-requested", "checkpoint-revert-requested"}
  <2>1. RowsAfter(e) = rows BY <1>6 DEF RowsAfter
  <2> QED BY <1>0, <1>6, <2>1 DEF Changes
<1> QED BY <1>1, <1>2, <1>3, <1>4, <1>5, <1>6, Fields

Sessions == [status : {"none"} \cup Announced, active : SomeTurn]
Queue == Seq(RuntimeEvent \cup DomainEvent)

\* What an event makes of the tables and of the reactor's queue.
LEMMA DispatchTypes ==
  ASSUME Types, NEW e \in DomainEvent, Dispatch(e)
  PROVE  /\ session' \in Sessions /\ pending' \in BOOLEAN /\ latestRow' \in SomeTurn
         /\ Changes(e, rows')
         /\ work' \in Queue
<1>0. /\ session' = IF e.type = "session-set" THEN [status |-> e.status, active |-> e.active] ELSE session
      /\ pending' = PendingAfter(e) /\ rows' = RowsAfter(e) /\ latestRow' = LatestRowAfter(e)
      /\ work' = IF Concerns(e) THEN Append(work, e) ELSE work
  BY DEF Dispatch, Apply
<1>1. session' \in Sessions
  <2>1. session \in Sessions BY DEF Types, TypeOK, Sessions, Announced, SomeTurn
  <2>2. CASE e.type = "session-set" BY <1>0, <2>2, Fields DEF Sessions
  <2> QED BY <1>0, <2>1, <2>2
<1>2. pending' \in BOOLEAN
  <2>1. pending \in BOOLEAN BY DEF Types, TypeOK
  <2>2. PendingAfter(e) \in BOOLEAN BY <2>1, Zenon DEF PendingAfter
  <2> QED BY <1>0, <2>2
<1>3. latestRow' \in SomeTurn
  <2>1. CASE e.type = "session-set" /\ e.active # NoTurn BY <1>0, <2>1, Fields DEF LatestRowAfter
  <2>2. CASE e.type = "turn-diff-completed" BY <1>0, <2>2, Fields DEF LatestRowAfter, SomeTurn
  <2>3. CASE e.type = "reverted"
    <3>1. CASE Kept(e.count) = {} BY <1>0, <2>3, <3>1 DEF LatestRowAfter, SomeTurn
    <3>2. CASE Kept(e.count) # {}
      <4>1. PICK t \in Kept(e.count) : \A u \in Kept(e.count) : rows[u].count <= rows[t].count
        BY <3>2, LargestRow DEF Kept, Types
      <4>2. latestRow' \in Kept(e.count) BY <1>0, <2>3, <3>2, <4>1 DEF LatestRowAfter
      <4> QED BY <4>2 DEF Kept, SomeTurn
    <3> QED BY <3>1, <3>2
  <2>4. latestRow \in SomeTurn BY DEF Types, TypeOK, SomeTurn
  <2> QED BY <1>0, <2>1, <2>2, <2>3, <2>4 DEF LatestRowAfter
<1>4. Changes(e, rows') BY <1>0, RowsChange DEF Types
<1>5. work' \in Queue
  <2>1. work \in Queue BY DEF Types, Queue
  <2>2. e \in RuntimeEvent \cup DomainEvent OBVIOUS
  <2> QED BY <1>0, <2>1, <2>2 DEF Queue
<1> QED BY <1>1, <1>2, <1>3, <1>4, <1>5

\* The types after an event that leaves the provider's side alone.
LEMMA TypesAfter ==
  ASSUME session' \in Sessions, pending' \in BOOLEAN, rows' \in [Turn -> Row], latestRow' \in SomeTurn,
         refs' \subseteq Nat, sends' \in Nat, live' \in SomeTurn,
         feed' \in Seq(RuntimeEvent), todo' \in Seq(Ingested), work' \in Queue, job' \in JobState,
         used' \in Used, used'.asked <= MaxTurns, sends' + used'.opened <= used'.asked
  PROVE  Types'
<1>1. sends' \in 0..MaxTurns
  <2>1. used'.opened \in Nat /\ used'.asked \in Nat BY DEF Used
  <2> QED BY <2>1, BoundsAssumption
<1>2. TypeOK'
  BY <1>1 DEF TypeOK, Sessions, Announced, SomeTurn, Row
<1> QED BY <1>2 DEF Types, Queue

LEMMA TypesBefore ==
  ASSUME Types
  PROVE  /\ session \in Sessions /\ pending \in BOOLEAN /\ rows \in [Turn -> Row] /\ latestRow \in SomeTurn
         /\ refs \subseteq Nat /\ sends \in Nat /\ live \in SomeTurn
         /\ feed \in Seq(RuntimeEvent) /\ todo \in Seq(Ingested) /\ work \in Queue /\ job \in JobState
         /\ used \in Used /\ used.asked <= MaxTurns /\ sends + used.opened <= used.asked
<1>1. TypeOK BY DEF Types
<1>2. sends \in Nat BY <1>1 DEF TypeOK
<1>3. /\ session \in Sessions /\ pending \in BOOLEAN /\ rows \in [Turn -> Row] /\ latestRow \in SomeTurn
      /\ refs \subseteq Nat /\ live \in SomeTurn
  BY <1>1 DEF TypeOK, Sessions, Announced, SomeTurn, Row
<1> QED BY <1>2, <1>3 DEF Types, Queue

-----------------------------------------------------------------------------
(* What the ingestion dispatches.                                            *)

LEMMA RuntimeFields ==
  ASSUME NEW e \in RuntimeEvent
  PROVE  /\ e.type \in {"turn.started", "turn.completed", "session.exited"} \cup Reports
         /\ e.type # "session.exited" => e.turn \in Turn
         /\ e.type = "turn.completed" =>
              e.state \in {"completed", "failed", "interrupted"} /\ e.text \in BOOLEAN
  BY DEF RuntimeEvent, Reports

LEMMA IngestedTypes ==
  /\ \A s \in Announced, t \in SomeTurn : SessionSet(s, t) \in Ingested
  /\ \A t \in Turn, b \in BOOLEAN : MessageSent(t, b) \in Ingested
  /\ \A t \in Turn, n \in Nat : DiffCompleted(t, n, "missing", FALSE) \in Ingested
<1>1. \A s \in Announced, t \in SomeTurn : SessionSet(s, t) \in Ingested
  BY Events DEF Ingested, SessionSet
<1>2. \A t \in Turn, b \in BOOLEAN : MessageSent(t, b) \in Ingested
  BY Events DEF Ingested, MessageSent
<1>3. ASSUME NEW t \in Turn, NEW n \in Nat PROVE DiffCompleted(t, n, "missing", FALSE) \in Ingested
  <2>1. DiffCompleted(t, n, "missing", FALSE) \in DomainEvent
    <3>1. "missing" \in Mark /\ FALSE \in BOOLEAN BY DEF Mark
    <3> QED BY <3>1, Events
  <2>2. DiffCompleted(t, n, "missing", FALSE).type = "turn-diff-completed" BY DEF DiffCompleted
  <2>3. ~ DiffCompleted(t, n, "missing", FALSE).git BY Zenon DEF DiffCompleted
  <2> QED BY <2>1, <2>2, <2>3 DEF Ingested
<1> QED BY <1>1, <1>2, <1>3

LEMMA Short ==
  ASSUME NEW S
  PROVE  /\ <<>> \in Seq(S)
         /\ \A x \in S : <<x>> \in Seq(S)
         /\ \A x, y \in S : <<x, y>> \in Seq(S)
  OBVIOUS

LEMMA CommandTypes ==
  ASSUME Types, NEW e \in RuntimeEvent PROVE CommandsOf(e) \in Seq(Ingested)
<1>0. session \in Sessions /\ TopCount \in Nat BY TypesBefore, TopCountType DEF Types
<1>1. ASSUME e.type \in {"turn.started", "turn.completed", "session.exited", "runtime.error",
                         "session.state.running", "session.started"}
      PROVE  SessionOf(e) \in Ingested
  <2>1. session.active \in SomeTurn BY <1>0 DEF Sessions
  <2>2. NoTurn \in SomeTurn BY DEF SomeTurn
  <2>3. e.type # "session.exited" => e.turn \in SomeTurn BY RuntimeFields DEF SomeTurn
  <2>4. {"running", "ready", "error", "stopped", "starting"} \subseteq Announced BY DEF Announced
  <2>5. PICK s \in Announced, t \in SomeTurn : SessionOf(e) = SessionSet(s, t)
    <3>1. CASE e.type = "turn.started" BY <2>3, <2>4, <3>1 DEF SessionOf
    <3>2. CASE e.type = "turn.completed" BY <2>2, <2>4, <3>2 DEF SessionOf
    <3>3. CASE e.type = "runtime.error" BY <2>3, <2>4, <3>3 DEF SessionOf
    <3>4. CASE e.type = "session.exited" BY <2>2, <2>4, <3>4 DEF SessionOf
    <3>5. CASE e.type = "session.state.running" BY <2>1, <2>4, <3>5 DEF SessionOf
    <3>6. CASE e.type = "session.started"
      <4> PICK s : s = (CASE session.active # NoTurn -> "running"
                          [] session.active = NoTurn /\ pending /\ session.status = "starting" -> "starting"
                          [] OTHER -> "ready") OBVIOUS
      <4>1. s \in Announced BY <2>4
      <4>2. SessionOf(e) = SessionSet(s, session.active) BY <3>6 DEF SessionOf
      <4> QED BY <2>1, <4>1, <4>2
    <3> QED BY <1>1, <3>1, <3>2, <3>3, <3>4, <3>5, <3>6
  <2> QED BY <2>5, IngestedTypes
<1>2. ASSUME e.type # "session.exited" PROVE FinalText(e.turn) \in Seq(Ingested)
  <2>1. MessageSent(e.turn, TRUE) \in Ingested /\ MessageSent(e.turn, FALSE) \in Ingested
    BY <1>2, RuntimeFields, IngestedTypes
  <2> QED BY <2>1, Short, Zenon DEF FinalText
<1>3. <<>> \in Seq(Ingested) BY Short
<1>4. CASE e.type = "turn.completed"
  <2> PICK a : a = IF Accepts(e) THEN <<SessionOf(e)>> ELSE <<>> OBVIOUS
  <2> PICK b : b = IF e.text THEN FinalText(e.turn) ELSE <<>> OBVIOUS
  <2>1. a \in Seq(Ingested) BY <1>1, <1>3, <1>4
  <2>2. b \in Seq(Ingested) BY <1>2, <1>3, <1>4
  <2>3. CommandsOf(e) = a \o b BY <1>4 DEF CommandsOf
  <2> QED BY <2>1, <2>2, <2>3
<1>5. CASE e.type \in {"turn.started", "runtime.error", "session.exited", "session.state.running",
                       "session.started"}
  <2>1. <<SessionOf(e)>> \in Seq(Ingested) BY <1>1, <1>5, Short
  <2> QED BY <1>3, <1>5, <2>1, Zenon DEF CommandsOf
<1>6. CASE e.type = "item.completed" BY <1>2, <1>6 DEF CommandsOf
<1>7. CASE e.type = "turn.diff.updated"
  <2> PICK c : c = DiffCompleted(e.turn, TopCount + 1, "missing", FALSE) OBVIOUS
  <2>1. e.turn \in Turn /\ TopCount + 1 \in Nat BY <1>0, <1>7, RuntimeFields
  <2>2. c \in Ingested BY <2>1, IngestedTypes, Zenon
  <2>3. <<c>> \in Seq(Ingested) BY <2>2, Short
  <2>4. CommandsOf(e) = IF rows[e.turn].count # 0 THEN <<>> ELSE <<c>> BY <1>7 DEF CommandsOf
  <2> QED BY <1>3, <2>3, <2>4
<1> QED BY <1>4, <1>5, <1>6, <1>7, RuntimeFields DEF Reports

-----------------------------------------------------------------------------
(* The steps.                                                                *)

\* Rows lose refs, refs are not lost, and the reactor goes on or gives up.
LEMMA HeldStill ==
  ASSUME IInv, \A t \in Turn : rows'[t].git => rows[t].git /\ rows'[t].count = rows[t].count,
         refs \subseteq refs', job' = job \/ (job.step # "finish" /\ job' = NoJob)
  PROVE  RefsHeld'
<1>1. RefsHeld BY DEF IInv
<1>2. CASE job' = job
  <2>1. job'.step # "finish" => \A t \in Turn : rows'[t].git => rows'[t].count \in refs'
    BY <1>1, <1>2 DEF RefsHeld
  <2>2. job'.step = "finish" =>
          \A t \in Turn : rows'[t].git /\ rows'[t].count <= job'.count => rows'[t].count \in refs'
    BY <1>1, <1>2 DEF RefsHeld
  <2>3. job'.step \in {"rollback", "prune"} => \A n \in job'.stale : n > job'.count
    BY <1>1, <1>2 DEF RefsHeld
  <2>4. job'.step = "captured" => job'.count \in refs' BY <1>1, <1>2 DEF RefsHeld
  <2> QED BY <2>1, <2>2, <2>3, <2>4 DEF RefsHeld
<1>3. CASE job.step # "finish" /\ job' = NoJob
  <2>1. job'.step = "idle" BY <1>3 DEF NoJob
  <2>2. \A t \in Turn : rows'[t].git => rows'[t].count \in refs' BY <1>1, <1>3 DEF RefsHeld
  <2> QED BY <2>1, <2>2 DEF RefsHeld
<1> QED BY <1>2, <1>3

\* An event that names no git ref.
LEMMA EventStep ==
  ASSUME IInv, NEW e \in DomainEvent, e.type = "turn-diff-completed" => ~ e.git, Dispatch(e),
         UNCHANGED <<job, refs>>,
         sends' \in Nat, live' \in SomeTurn, feed' \in Seq(RuntimeEvent), todo' \in Seq(Ingested),
         used' \in Used, used'.asked <= MaxTurns, sends' + used'.opened <= used'.asked
  PROVE  IInv'
<1>1. /\ session' \in Sessions /\ pending' \in BOOLEAN /\ latestRow' \in SomeTurn
      /\ Changes(e, rows') /\ work' \in Queue
  BY DispatchTypes DEF IInv
<1>2. rows' \in [Turn -> Row] BY <1>1 DEF Changes
<1>3. refs' \subseteq Nat /\ job' \in JobState BY TypesBefore DEF IInv
<1>4. Types' BY <1>1, <1>2, <1>3, TypesAfter
<1>5. \A t \in Turn : rows'[t].git => rows[t].git /\ rows'[t].count = rows[t].count
  BY <1>1 DEF Changes
<1>6. refs \subseteq refs' /\ job' = job OBVIOUS
<1>7. RefsHeld' BY <1>5, <1>6, HeldStill
<1> QED BY <1>4, <1>7 DEF IInv

\* A step that leaves the projections and the refs alone.
LEMMA QuietStep ==
  ASSUME IInv, UNCHANGED <<projections, refs>>,
         job' = job \/ (job.step # "finish" /\ job' = NoJob),
         sends' \in Nat, live' \in SomeTurn, feed' \in Seq(RuntimeEvent), todo' \in Seq(Ingested),
         work' \in Queue, used' \in Used, used'.asked <= MaxTurns, sends' + used'.opened <= used'.asked
  PROVE  IInv'
<1>1. session' = session /\ pending' = pending /\ rows' = rows /\ latestRow' = latestRow /\ refs' = refs
  BY DEF projections
<1>2. NoJob \in JobState BY DEF JobState
<1>3. Types'
  <2>1. /\ session' \in Sessions /\ pending' \in BOOLEAN /\ rows' \in [Turn -> Row]
        /\ latestRow' \in SomeTurn /\ refs' \subseteq Nat /\ job' \in JobState
    BY <1>1, <1>2, TypesBefore DEF IInv
  <2> QED BY <2>1, TypesAfter
<1>4. RefsHeld' BY <1>1, HeldStill
<1> QED BY <1>3, <1>4 DEF IInv

LEMMA EmitTypes ==
  ASSUME IInv, NEW e \in RuntimeEvent, Emit(e) PROVE feed' \in Seq(RuntimeEvent) /\ work' \in Queue
<1>1. feed \in Seq(RuntimeEvent) /\ work \in Queue BY TypesBefore DEF IInv
<1>2. feed' \in Seq(RuntimeEvent) BY <1>1 DEF Emit
<1>3. Append(work, e) \in Queue BY <1>1 DEF Queue
<1> QED BY <1>1, <1>2, <1>3 DEF Emit

LEMMA UserSteps ==
  ASSUME IInv, StartTurn \/ (\E n \in Count : AskRevert(n)) \/ AskInterrupt \/ AnnounceStart PROVE IInv'
<1> USE DEF IInv
<1>0. /\ sends \in Nat /\ live \in SomeTurn /\ feed \in Seq(RuntimeEvent) /\ todo \in Seq(Ingested)
      /\ used \in Used /\ used.asked <= MaxTurns /\ sends + used.opened <= used.asked
  BY TypesBefore
<1>1. CASE StartTurn
  <2>1. /\ StartRequested \in DomainEvent /\ StartRequested.type # "turn-diff-completed"
        /\ Dispatch(StartRequested)
    BY <1>1, Events DEF StartTurn, StartRequested
  <2>2. used.asked \in Nat /\ used.opened \in Nat /\ used.asked < MaxTurns
    BY <1>0, <1>1 DEF Used, StartTurn
  <2>3. /\ used' \in Used /\ used'.asked = used.asked + 1 /\ used'.opened = used.opened
        /\ sends' = sends + 1
    BY <1>0, <1>1, SMTT(30) DEF Used, StartTurn
  <2>4. live' = live /\ feed' = feed /\ todo' = todo /\ UNCHANGED <<job, refs>>
    BY <1>1 DEF StartTurn, ingestion
  <2>5. used'.asked <= MaxTurns /\ sends' + used'.opened <= used'.asked /\ sends' \in Nat
    BY <1>0, <2>2, <2>3, BoundsAssumption
  <2> QED BY <1>0, <2>1, <2>3, <2>4, <2>5, EventStep
<1>2. CASE \E n \in Count : AskRevert(n)
  <2>1. PICK n \in Count : AskRevert(n) BY <1>2
  <2>2. n \in Nat BY BoundsAssumption DEF Count
  <2>3. /\ RevertRequested(n) \in DomainEvent /\ RevertRequested(n).type # "turn-diff-completed"
        /\ Dispatch(RevertRequested(n))
    BY <2>1, <2>2, Events DEF AskRevert, RevertRequested
  <2>4. used' \in Used /\ used'.asked = used.asked /\ used'.opened = used.opened
    BY <1>0, <2>1, SMTT(30) DEF Used, AskRevert
  <2>5. sends' = sends /\ live' = live /\ feed' = feed /\ todo' = todo /\ UNCHANGED <<job, refs>>
    BY <2>1 DEF AskRevert, ingestion, provider
  <2> QED BY <1>0, <2>3, <2>4, <2>5, EventStep
<1>3. CASE AskInterrupt
  <2>1. live \in Turn BY <1>0, <1>3 DEF AskInterrupt, SomeTurn
  <2>2. /\ InterruptRequested(live) \in DomainEvent
        /\ InterruptRequested(live).type # "turn-diff-completed"
        /\ Dispatch(InterruptRequested(live))
    BY <1>3, <2>1, Events DEF AskInterrupt, InterruptRequested
  <2>3. /\ sends' = sends /\ live' = live /\ feed' = feed /\ todo' = todo /\ used' = used
        /\ UNCHANGED <<job, refs>>
    BY <1>3 DEF AskInterrupt, ingestion, provider
  <2> PICK e : e = InterruptRequested(live) OBVIOUS
  <2> QED BY <1>0, <2>2, <2>3, EventStep
<1>4. CASE AnnounceStart
  <2> PICK e : e = SessionSet("starting", NoTurn) OBVIOUS
  <2>1. "starting" \in Announced /\ NoTurn \in SomeTurn BY DEF Announced, SomeTurn
  <2>2. e \in DomainEvent /\ e.type # "turn-diff-completed" /\ Dispatch(e)
    BY <1>4, <2>1, Events DEF AnnounceStart, SessionSet
  <2>3. /\ sends' = sends /\ live' = live /\ feed' = feed /\ todo' = todo /\ used' = used
        /\ UNCHANGED <<job, refs>>
    BY <1>4 DEF AnnounceStart, ingestion, provider
  <2> QED BY <1>0, <2>2, <2>3, EventStep
<1> QED BY <1>1, <1>2, <1>3, <1>4

LEMMA ProviderSteps ==
  ASSUME IInv,
         \/ JoinTurn \/ OpenTurn \/ ProviderExits
         \/ \E s \in {"completed", "failed", "interrupted"}, text \in BOOLEAN : EndTurn(s, text)
         \/ \E r \in Reports : Report(r)
  PROVE  IInv'
<1>0. /\ sends \in Nat /\ live \in SomeTurn /\ feed \in Seq(RuntimeEvent) /\ todo \in Seq(Ingested)
      /\ work \in Queue
      /\ used \in Used /\ used.asked <= MaxTurns /\ sends + used.opened <= used.asked
  BY TypesBefore DEF IInv
<1>1. CASE JoinTurn
  <2>1. /\ sends' = sends - 1 /\ sends > 0 /\ live' = live /\ feed' = feed /\ todo' = todo
        /\ work' = work /\ used' = used /\ job' = job /\ UNCHANGED <<projections, refs>>
    BY <1>1 DEF JoinTurn, ingestion, reactor
  <2>2. used.opened \in Nat /\ used.asked \in Nat BY <1>0 DEF Used
  <2>3. sends' \in Nat /\ sends' + used'.opened <= used'.asked BY <1>0, <2>1, <2>2
  <2> QED BY <1>0, <2>1, <2>3, QuietStep
<1>2. CASE OpenTurn
  <2> PICK t : t = used.opened + 1 OBVIOUS
  <2>2. used.opened \in Nat /\ used.asked \in Nat BY <1>0 DEF Used
  <2>3. sends > 0 BY <1>2 DEF OpenTurn
  <2>4. t \in Turn BY <1>0, <2>2, <2>3, BoundsAssumption DEF Turn
  <2> PICK e : e = [type |-> "turn.started", turn |-> t] OBVIOUS
  <2>5. e \in RuntimeEvent BY <2>4 DEF RuntimeEvent
  <2>6. /\ live' = t /\ Emit(e) /\ sends' = sends - 1 /\ todo' = todo /\ job' = job
        /\ UNCHANGED <<projections, refs>> /\ used' = [used EXCEPT !.opened = @ + 1]
    BY <1>2 DEF OpenTurn
  <2>7. used' \in Used /\ used'.opened = used.opened + 1 /\ used'.asked = used.asked
    BY <1>0, <2>6, SMTT(30) DEF Used
  <2>8. sends' \in Nat /\ sends' + used'.opened <= used'.asked
    BY <1>0, <2>2, <2>3, <2>6, <2>7
  <2>9. live' \in SomeTurn BY <2>4, <2>6 DEF SomeTurn
  <2>10. feed' \in Seq(RuntimeEvent) /\ work' \in Queue BY <2>5, <2>6, EmitTypes
  <2> QED BY <1>0, <2>6, <2>7, <2>8, <2>9, <2>10, QuietStep
<1>3. CASE ProviderExits
  <2> PICK e : e = [type |-> "session.exited"] OBVIOUS
  <2>1. e \in RuntimeEvent BY DEF RuntimeEvent
  <2>2. /\ Emit(e) /\ live' = NoTurn /\ sends' = sends /\ todo' = todo /\ job' = job
        /\ UNCHANGED <<projections, refs>> /\ used' = [used EXCEPT !.faults = @ + 1]
    BY <1>3 DEF ProviderExits
  <2>3. used' \in Used /\ used'.opened = used.opened /\ used'.asked = used.asked
    BY <1>0, <2>2, SMTT(30) DEF Used
  <2>4. live' \in SomeTurn BY <2>2 DEF SomeTurn
  <2>5. feed' \in Seq(RuntimeEvent) /\ work' \in Queue BY <2>1, <2>2, EmitTypes
  <2> QED BY <1>0, <2>2, <2>3, <2>4, <2>5, QuietStep
<1>4. CASE \E s \in {"completed", "failed", "interrupted"}, text \in BOOLEAN : EndTurn(s, text)
  <2>1. PICK s \in {"completed", "failed", "interrupted"}, text \in BOOLEAN : EndTurn(s, text) BY <1>4
  <2> PICK e : e = [type |-> "turn.completed", turn |-> live, state |-> s, text |-> text] OBVIOUS
  <2>2. live \in Turn BY <1>0, <2>1 DEF EndTurn, SomeTurn
  <2>3. e \in RuntimeEvent BY <2>1, <2>2 DEF RuntimeEvent
  <2>4. /\ Emit(e) /\ live' = NoTurn /\ sends' = sends /\ todo' = todo /\ job' = job
        /\ UNCHANGED <<projections, refs>>
        /\ used' = [used EXCEPT !.reports = IF text \/ s = "failed" THEN @ + 1 ELSE @]
    BY <2>1 DEF EndTurn
  <2>5. used' \in Used /\ used'.opened = used.opened /\ used'.asked = used.asked
    <3>1. used.reports \in Nat BY <1>0 DEF Used
    <3>2. (IF text \/ s = "failed" THEN used.reports + 1 ELSE used.reports) \in Nat BY <3>1
    <3>3. PICK k \in Nat : used' = [used EXCEPT !.reports = k] BY <2>4, <3>2
    <3> QED BY <1>0, <3>3 DEF Used
  <2>6. live' \in SomeTurn BY <2>4 DEF SomeTurn
  <2>7. feed' \in Seq(RuntimeEvent) /\ work' \in Queue BY <2>3, <2>4, EmitTypes
  <2> QED BY <1>0, <2>4, <2>5, <2>6, <2>7, QuietStep
<1>5. CASE \E r \in Reports : Report(r)
  <2>1. PICK r \in Reports : Report(r) BY <1>5
  <2> PICK e : e = [type |-> r, turn |-> live] OBVIOUS
  <2>2. live \in Turn BY <1>0, <2>1 DEF Report, SomeTurn
  <2>3. e \in RuntimeEvent BY <2>1, <2>2 DEF RuntimeEvent
  <2>4. /\ Emit(e) /\ live' = live /\ sends' = sends /\ todo' = todo /\ job' = job
        /\ UNCHANGED <<projections, refs>> /\ used' = [used EXCEPT !.reports = @ + 1]
    BY <2>1 DEF Report, provider
  <2>5. used' \in Used /\ used'.opened = used.opened /\ used'.asked = used.asked
    BY <1>0, <2>4, SMTT(30) DEF Used
  <2>6. feed' \in Seq(RuntimeEvent) /\ work' \in Queue BY <2>3, <2>4, EmitTypes
  <2> QED BY <1>0, <2>4, <2>5, <2>6, QuietStep
<1> QED BY <1>1, <1>2, <1>3, <1>4, <1>5

LEMMA IngestionSteps == ASSUME IInv, HandleEvent \/ DispatchNext PROVE IInv'
<1>0. /\ sends \in Nat /\ live \in SomeTurn /\ feed \in Seq(RuntimeEvent) /\ todo \in Seq(Ingested)
      /\ work \in Queue
      /\ used \in Used /\ used.asked <= MaxTurns /\ sends + used.opened <= used.asked
  BY TypesBefore DEF IInv
<1>1. CASE HandleEvent
  <2>1. /\ feed # <<>> /\ todo' = CommandsOf(Head(feed)) /\ feed' = Tail(feed)
        /\ sends' = sends /\ live' = live /\ used' = used /\ job' = job /\ work' = work
        /\ UNCHANGED <<projections, refs>>
    BY <1>1 DEF HandleEvent, reactor, provider
  <2>2. Head(feed) \in RuntimeEvent /\ feed' \in Seq(RuntimeEvent) BY <1>0, <2>1
  <2> PICK e : e = Head(feed) OBVIOUS
  <2>3. todo' \in Seq(Ingested) BY <2>1, <2>2, CommandTypes DEF IInv
  <2> QED BY <1>0, <2>1, <2>2, <2>3, QuietStep
<1>2. CASE DispatchNext
  <2>1. /\ todo # <<>> /\ Dispatch(Head(todo)) /\ todo' = Tail(todo)
        /\ feed' = feed /\ sends' = sends /\ live' = live /\ used' = used /\ UNCHANGED <<job, refs>>
    BY <1>2 DEF DispatchNext, provider
  <2>2. Head(todo) \in Ingested /\ todo' \in Seq(Ingested) BY <1>0, <2>1
  <2>3. Head(todo) \in DomainEvent /\ (Head(todo).type = "turn-diff-completed" => ~ Head(todo).git)
    BY <2>2 DEF Ingested
  <2> PICK e : e = Head(todo) OBVIOUS
  <2> QED BY <1>0, <2>1, <2>2, <2>3, EventStep
<1> QED BY <1>1, <1>2

\* A step of the reactor that dispatches nothing.
LEMMA ReactorStep ==
  ASSUME IInv, UNCHANGED projections, UNCHANGED <<ingestion, sends, live>>, used' = used \/ Fails,
         work' \in Queue, job' \in JobState, refs' \subseteq Nat, RefsHeld'
  PROVE  IInv'
<1>0. /\ sends \in Nat /\ live \in SomeTurn /\ feed \in Seq(RuntimeEvent) /\ todo \in Seq(Ingested)
      /\ session \in Sessions /\ pending \in BOOLEAN /\ rows \in [Turn -> Row] /\ latestRow \in SomeTurn
      /\ used \in Used /\ used.asked <= MaxTurns /\ sends + used.opened <= used.asked
  BY TypesBefore DEF IInv
<1>1. /\ session' = session /\ pending' = pending /\ rows' = rows /\ latestRow' = latestRow
      /\ feed' = feed /\ todo' = todo /\ sends' = sends /\ live' = live
  BY DEF projections, ingestion
<1>2. used' \in Used /\ used'.asked = used.asked /\ used'.opened = used.opened
  BY <1>0 DEF Used, Fails
<1>3. Types' BY <1>0, <1>1, <1>2, TypesAfter
<1> QED BY <1>3 DEF IInv

LEMMA JobFields ==
  ASSUME job \in JobState
  PROVE  /\ job.step \in {"capture", "captured"} =>
              /\ job \in [step : {"capture", "captured"}, turn : Turn, mark : Mark, count : Nat]
              /\ job.turn \in Turn /\ job.mark \in Mark /\ job.count \in Nat
         /\ job.step \in {"rollback", "prune", "finish"} =>
              /\ job \in [step : {"rollback", "prune", "finish"}, count : Nat, top : Nat,
                          stale : SUBSET Nat]
              /\ job.count \in Nat /\ job.stale \subseteq Nat
  BY DEF JobState, NoJob

LEMMA TakeStep == ASSUME IInv, Take PROVE IInv'
<1> PICK e : e = Head(work) OBVIOUS
<1>0. /\ TypeOK /\ work \in Queue /\ refs \subseteq Nat /\ rows \in [Turn -> Row] /\ used \in Used
      /\ TopCount \in Nat
  BY TypesBefore, TopCountType DEF IInv, Types
<1>1. /\ job = NoJob /\ job.step = "idle" /\ work # <<>> /\ work' = Tail(work)
      /\ UNCHANGED projections /\ UNCHANGED <<ingestion, sends, live>>
  BY DEF Take, NoJob, provider
<1>2. e \in RuntimeEvent \cup DomainEvent /\ work' \in Queue BY <1>0, <1>1 DEF Queue
<1>3. rows' = rows BY <1>1 DEF projections
<1>4. \A t \in Turn : rows[t].git => rows[t].count \in refs BY <1>1 DEF IInv, RefsHeld
<1>5. NoJob \in JobState /\ NoJob.step = "idle" BY DEF JobState, NoJob
<1>6. ASSUME job' \in JobState, job'.step \in {"idle", "capture"}, refs \subseteq refs', refs' \subseteq Nat,
             used' = used \/ Fails
      PROVE  IInv'
  <2>1. RefsHeld' BY <1>3, <1>4, <1>6 DEF RefsHeld
  <2> QED BY <1>1, <1>2, <1>6, <2>1, ReactorStep
<1>7. CASE TakeCompletion(e) /\ UNCHANGED <<refs, used>>
  <2>1. e \in RuntimeEvent /\ e.turn \in Turn BY <1>2, <1>7, Fields, RuntimeFields DEF TakeCompletion
  <2> PICK m, c : m = MarkOf(e.state) /\ c = IF rows[e.turn].count # 0 THEN rows[e.turn].count
                                             ELSE TopCount + 1 OBVIOUS
  <2>2. m \in Mark BY DEF MarkOf, Mark
  <2>3. c \in Nat BY <1>0, <2>1 DEF Row
  <2>4. job' = NoJob \/ job' = [step |-> "capture", turn |-> e.turn, mark |-> m, count |-> c]
    BY <1>7 DEF TakeCompletion
  <2>5. job' \in JobState /\ job'.step \in {"idle", "capture"} BY <1>5, <2>1, <2>2, <2>3, <2>4 DEF JobState
  <2> QED BY <1>0, <1>6, <1>7, <2>5
<1>8. CASE TakeDiff(e) /\ UNCHANGED <<refs, used>>
  <2>0. e \in DomainEvent BY <1>2, <1>8, RuntimeFields DEF TakeDiff, Reports
  <2>1. e.turn \in Turn /\ e.count \in Nat BY <1>8, <2>0, Fields DEF TakeDiff
  <2>2. "ready" \in Mark BY DEF Mark
  <2>4. job' = NoJob \/ job' = [step |-> "capture", turn |-> e.turn, mark |-> "ready", count |-> e.count]
    BY <1>8 DEF TakeDiff
  <2>5. job' \in JobState /\ job'.step \in {"idle", "capture"} BY <1>5, <2>1, <2>2, <2>4 DEF JobState
  <2> QED BY <1>0, <1>6, <1>8, <2>5
<1>9. CASE TakeStart(e)
  <2>1. job' = NoJob /\ refs \subseteq refs' /\ refs' \subseteq Nat /\ (used' = used \/ Fails)
    BY <1>0, <1>9 DEF TakeStart
  <2> QED BY <1>5, <1>6, <2>1
<1>10. CASE TakeRevert(e)
  <2>0. e \in DomainEvent BY <1>2, <1>10, RuntimeFields DEF TakeRevert, Reports
  <2>1. e.count \in Nat BY <1>10, <2>0, Fields DEF TakeRevert
  <2> PICK s : s = Stale(e.count) OBVIOUS
  <2>2. refs' = refs /\ (used' = used \/ Fails) BY <1>10 DEF TakeRevert
  <2>3. CASE job' = NoJob BY <1>0, <1>5, <1>6, <2>2, <2>3
  <2>4. CASE job' = [step |-> "rollback", count |-> e.count, top |-> TopCount, stale |-> s]
    <3>1. s \subseteq Nat /\ \A n \in s : n > e.count BY <1>0, <2>1 DEF Stale, Row
    <3>2. job' \in JobState /\ job'.step = "rollback" /\ job'.stale = s /\ job'.count = e.count
      BY <1>0, <2>1, <2>4, <3>1 DEF JobState
    <3>3. RefsHeld' BY <1>3, <1>4, <2>2, <3>1, <3>2 DEF RefsHeld
    <3> QED BY <1>0, <1>1, <1>2, <2>2, <3>2, <3>3, ReactorStep
  <2> QED BY <1>10, <2>3, <2>4 DEF TakeRevert
<1> QED BY <1>7, <1>8, <1>9, <1>10 DEF Take

LEMMA CaptureSteps == ASSUME IInv, Capture \/ RecordCapture \/ CallFails PROVE IInv'
<1>0. /\ job \in JobState /\ work \in Queue /\ refs \subseteq Nat /\ rows \in [Turn -> Row]
      /\ sends \in Nat /\ live \in SomeTurn /\ feed \in Seq(RuntimeEvent) /\ todo \in Seq(Ingested)
      /\ used \in Used /\ used.asked <= MaxTurns /\ sends + used.opened <= used.asked
  BY TypesBefore DEF IInv
<1>1. NoJob \in JobState /\ NoJob.step = "idle" BY DEF JobState, NoJob
<1>2. RefsHeld BY DEF IInv
<1>3. CASE Capture
  <2>1. /\ job.step = "capture" /\ refs' = refs \cup {job.count} /\ job' = [job EXCEPT !.step = "captured"]
        /\ UNCHANGED projections /\ UNCHANGED <<ingestion, sends, live>> /\ work' = work /\ used' = used
    BY <1>3 DEF Capture, provider
  <2>2. /\ job \in [step : {"capture", "captured"}, turn : Turn, mark : Mark, count : Nat]
        /\ job.count \in Nat
    BY <1>0, <2>1, JobFields
  <2>3. job' \in JobState /\ job'.step = "captured" /\ job'.count = job.count BY <2>1, <2>2 DEF JobState
  <2>4. rows' = rows BY <2>1 DEF projections
  <2>5. RefsHeld' BY <1>2, <2>1, <2>3, <2>4 DEF RefsHeld
  <2> QED BY <1>0, <2>1, <2>2, <2>3, <2>5, ReactorStep
<1>4. CASE RecordCapture
  <2> PICK e : e = DiffCompleted(job.turn, job.count, job.mark, TRUE) OBVIOUS
  <2>1. /\ job.step = "captured" /\ Dispatch(e) /\ job' = NoJob
        /\ feed' = feed /\ todo' = todo /\ refs' = refs /\ sends' = sends /\ live' = live /\ used' = used
    BY <1>4 DEF RecordCapture, ingestion, provider
  <2>2. job.turn \in Turn /\ job.mark \in Mark /\ job.count \in Nat BY <1>0, <2>1, JobFields
  <2>3. e \in DomainEvent
    <3>1. TRUE \in BOOLEAN OBVIOUS
    <3> QED BY <2>2, <3>1, Events
  <2>4. e.type = "turn-diff-completed" /\ e.count = job.count BY DEF DiffCompleted
  <2>5. /\ session' \in Sessions /\ pending' \in BOOLEAN /\ latestRow' \in SomeTurn
        /\ Changes(e, rows') /\ work' \in Queue
    BY <2>1, <2>3, DispatchTypes DEF IInv
  <2>6. rows' \in [Turn -> Row] BY <2>5 DEF Changes
  <2>7. Types' BY <1>0, <1>1, <2>1, <2>5, <2>6, TypesAfter
  <2>8. job.count \in refs /\ \A t \in Turn : rows[t].git => rows[t].count \in refs
    BY <1>2, <2>1 DEF RefsHeld
  <2>9. \A t \in Turn : rows'[t].git => rows'[t].count \in refs'
    BY <2>1, <2>4, <2>5, <2>8 DEF Changes
  <2>10. RefsHeld' BY <1>1, <2>1, <2>9 DEF RefsHeld
  <2> QED BY <2>7, <2>10 DEF IInv
<1>5. CASE CallFails
  <2>1. /\ job.step # "finish" /\ Fails /\ job' = NoJob /\ refs' = refs /\ work' = work
        /\ UNCHANGED projections /\ UNCHANGED <<ingestion, sends, live>>
    BY <1>5 DEF CallFails, provider
  <2>2. rows' = rows BY <2>1 DEF projections
  <2>3. RefsHeld' BY <1>1, <1>2, <2>1, <2>2 DEF RefsHeld
  <2> QED BY <1>0, <1>1, <2>1, <2>3, ReactorStep
<1> QED BY <1>3, <1>4, <1>5

LEMMA RevertSteps == ASSUME IInv, Rollback \/ PruneRefs \/ FinishRevert PROVE IInv'
<1>0. /\ job \in JobState /\ work \in Queue /\ refs \subseteq Nat /\ rows \in [Turn -> Row]
      /\ sends \in Nat /\ live \in SomeTurn /\ feed \in Seq(RuntimeEvent) /\ todo \in Seq(Ingested)
      /\ used \in Used /\ used.asked <= MaxTurns /\ sends + used.opened <= used.asked
  BY TypesBefore DEF IInv
<1>1. NoJob \in JobState /\ NoJob.step = "idle" BY DEF JobState, NoJob
<1>2. RefsHeld BY DEF IInv
<1>3. job.step \in {"rollback", "prune", "finish"} BY DEF Rollback, PruneRefs, FinishRevert
<1>4. /\ job \in [step : {"rollback", "prune", "finish"}, count : Nat, top : Nat, stale : SUBSET Nat]
      /\ job.count \in Nat /\ job.stale \subseteq Nat
  BY <1>0, <1>3, JobFields
<1>5. CASE Rollback
  <2>1. /\ job.step = "rollback" /\ job' = [job EXCEPT !.step = "prune"] /\ refs' = refs /\ work' = work
        /\ UNCHANGED projections /\ UNCHANGED <<ingestion, sends, live>> /\ used' = used
    BY <1>5 DEF Rollback
  <2>2. /\ job' \in JobState /\ job'.step = "prune" /\ job'.stale = job.stale /\ job'.count = job.count
    BY <1>4, <2>1 DEF JobState
  <2>3. rows' = rows BY <2>1 DEF projections
  <2>4. RefsHeld' BY <1>2, <2>1, <2>2, <2>3 DEF RefsHeld
  <2> QED BY <1>0, <2>1, <2>2, <2>4, ReactorStep
<1>6. CASE PruneRefs
  <2>1. /\ job.step = "prune" /\ job' = [job EXCEPT !.step = "finish"] /\ refs' = refs \ job.stale
        /\ work' = work /\ UNCHANGED projections /\ UNCHANGED <<ingestion, sends, live>> /\ used' = used
    BY <1>6 DEF PruneRefs, provider
  <2>2. /\ job' \in JobState /\ job'.step = "finish" /\ job'.stale = job.stale /\ job'.count = job.count
    BY <1>4, <2>1 DEF JobState
  <2>3. rows' = rows BY <2>1 DEF projections
  <2>4. \A n \in job.stale : n > job.count BY <1>2, <2>1 DEF RefsHeld
  <2>5. \A t \in Turn : rows[t].git => rows[t].count \in refs BY <1>2, <2>1 DEF RefsHeld
  <2>6. \A t \in Turn : rows[t].git /\ rows[t].count <= job.count => rows[t].count \in refs'
    BY <1>0, <1>4, <2>1, <2>4, <2>5
  <2>7. RefsHeld' BY <2>2, <2>3, <2>6 DEF RefsHeld
  <2> QED BY <1>0, <2>1, <2>2, <2>7, ReactorStep
<1>7. CASE FinishRevert
  <2> PICK e : e = Reverted(job.count) OBVIOUS
  <2>1. /\ job.step = "finish" /\ Dispatch(e) /\ job' = NoJob
        /\ feed' = feed /\ todo' = todo /\ refs' = refs /\ sends' = sends /\ live' = live /\ used' = used
    BY <1>7 DEF FinishRevert, ingestion, provider
  <2>2. e \in DomainEvent /\ e.type = "reverted" /\ e.count = job.count
    BY <1>4, Events DEF Reverted
  <2>3. /\ session' \in Sessions /\ pending' \in BOOLEAN /\ latestRow' \in SomeTurn
        /\ Changes(e, rows') /\ work' \in Queue
    BY <2>1, <2>2, DispatchTypes DEF IInv
  <2>4. rows' \in [Turn -> Row] BY <2>3 DEF Changes
  <2>5. Types' BY <1>0, <1>1, <2>1, <2>3, <2>4, TypesAfter
  <2>6. \A t \in Turn : rows[t].git /\ rows[t].count <= job.count => rows[t].count \in refs
    BY <1>2, <2>1 DEF RefsHeld
  <2>7. \A t \in Turn : rows'[t].git => rows'[t].count \in refs'
    BY <2>1, <2>2, <2>3, <2>6 DEF Changes
  <2>8. RefsHeld' BY <1>1, <2>1, <2>7 DEF RefsHeld
  <2> QED BY <2>5, <2>8 DEF IInv
<1> QED BY <1>5, <1>6, <1>7

-----------------------------------------------------------------------------
(* The results.                                                              *)

LEMMA Initially == Init => IInv
<1> SUFFICES ASSUME Init PROVE IInv OBVIOUS
<1>1. TypeOK
  <2>1. NoRow \in Row BY RowTypes
  <2>2. rows \in [Turn -> Row] BY <2>1 DEF Init
  <2>3. pending \in BOOLEAN BY Zenon DEF Init
  <2>4. /\ session \in [status : {"none", "starting", "running", "ready", "error", "stopped"},
                        active : Turn \cup {NoTurn}]
        /\ latestRow \in Turn \cup {NoTurn} /\ refs \subseteq Nat
        /\ sends \in 0..MaxTurns /\ live \in Turn \cup {NoTurn}
    BY BoundsAssumption DEF Init
  <2> QED BY <2>2, <2>3, <2>4, Zenon DEF TypeOK, Row
<1>2. feed \in Seq(RuntimeEvent) /\ todo \in Seq(Ingested) /\ work \in Seq(RuntimeEvent \cup DomainEvent)
  BY Short DEF Init
<1>3. job \in JobState /\ job.step = "idle" BY DEF Init, JobState, NoJob
<1>4. used \in Used /\ used.asked = 0 /\ used.opened = 0 /\ sends = 0 BY DEF Init, Used
<1>5. used.asked <= MaxTurns /\ sends + used.opened <= used.asked BY <1>4, BoundsAssumption
<1>6. \A t \in Turn : ~ rows[t].git BY RowTypes DEF Init
<1>7. RefsHeld BY <1>3, <1>6 DEF RefsHeld
<1> QED BY <1>1, <1>2, <1>3, <1>4, <1>5, <1>7 DEF IInv, Types

LEMMA Stutters == ASSUME IInv, UNCHANGED vars PROVE IInv'
<1>1. /\ UNCHANGED <<projections, refs>> /\ job' = job /\ sends' = sends /\ live' = live
      /\ feed' = feed /\ todo' = todo /\ work' = work /\ used' = used
  BY DEF vars, ingestion, reactor, provider
<1>2. /\ sends \in Nat /\ live \in SomeTurn /\ feed \in Seq(RuntimeEvent) /\ todo \in Seq(Ingested)
      /\ work \in Queue
      /\ used \in Used /\ used.asked <= MaxTurns /\ sends + used.opened <= used.asked
  BY TypesBefore DEF IInv
<1> QED BY <1>1, <1>2, QuietStep

\* What the proofs keep: types, and where the refs of the rows are.
THEOREM Invariance == Spec => []IInv
<1>1. ASSUME IInv, [Next]_vars PROVE IInv'
  <2>1. CASE Environment BY <1>1, <2>1, UserSteps, ProviderSteps, CaptureSteps DEF Environment
  <2>2. CASE Start BY <1>1, <2>2, UserSteps, ProviderSteps DEF Start
  <2>3. CASE Ingestion BY <1>1, <2>3, IngestionSteps DEF Ingestion
  <2>4. CASE Reactor BY <1>1, <2>4, TakeStep, CaptureSteps, RevertSteps DEF Reactor
  <2>5. CASE UNCHANGED vars BY <1>1, <2>5, Stutters
  <2> QED BY <1>1, <2>1, <2>2, <2>3, <2>4, <2>5 DEF Next
<1> QED BY Initially, <1>1, PTL DEF Spec

\* Sessions, rows, refs and the provider's side keep their types.
THEOREM TypeCorrect == Spec => []TypeOK
<1>1. IInv => TypeOK BY DEF IInv, Types
<1> QED BY <1>1, Invariance, PTL

\* For any number of turns, reverts and failures, a checkpoint that names a git
\* ref has it, but for a revert between its deletions and its event.
THEOREM CheckpointsRestorable == Spec => []RefsBack
<1>1. IInv => RefsBack BY DEF IInv, RefsHeld, RefsBack
<1> QED BY <1>1, Invariance, PTL

\* A step applies one event to all projections, or leaves them alone.
LEMMA EventOrNot ==
  ASSUME IInv, [Next]_vars
  PROVE  UNCHANGED projections \/ \E e \in DomainEvent : Apply(e)
<1>0. /\ live \in SomeTurn /\ todo \in Seq(Ingested) /\ job \in JobState
  BY TypesBefore DEF IInv
<1>1. CASE StartTurn BY <1>1, Events DEF StartTurn, Dispatch
<1>2. CASE \E n \in Count : AskRevert(n)
  BY <1>2, Events, BoundsAssumption DEF AskRevert, Dispatch, Count
<1>3. CASE AskInterrupt
  <2>1. live \in Turn BY <1>0, <1>3 DEF AskInterrupt, SomeTurn
  <2> QED BY <1>3, <2>1, Events DEF AskInterrupt, Dispatch
<1>4. CASE AnnounceStart
  <2>1. "starting" \in Announced /\ NoTurn \in SomeTurn BY DEF Announced, SomeTurn
  <2> QED BY <1>4, <2>1, Events DEF AnnounceStart, Dispatch
<1>5. CASE DispatchNext
  <2>1. todo # <<>> /\ Apply(Head(todo)) BY <1>5 DEF DispatchNext, Dispatch
  <2>2. Head(todo) \in DomainEvent BY <1>0, <2>1 DEF Ingested
  <2> QED BY <2>1, <2>2
<1>6. CASE RecordCapture
  <2>1. job.step = "captured" /\ Apply(DiffCompleted(job.turn, job.count, job.mark, TRUE))
    BY <1>6 DEF RecordCapture, Dispatch
  <2>2. job.turn \in Turn /\ job.count \in Nat /\ job.mark \in Mark BY <1>0, <2>1, JobFields
  <2>3. TRUE \in BOOLEAN OBVIOUS
  <2>4. DiffCompleted(job.turn, job.count, job.mark, TRUE) \in DomainEvent BY <2>2, <2>3, Events
  <2> QED BY <2>1, <2>4
<1>7. CASE FinishRevert
  <2>1. job.step = "finish" /\ Apply(Reverted(job.count)) BY <1>7 DEF FinishRevert, Dispatch
  <2>2. job.count \in Nat BY <1>0, <2>1, JobFields
  <2>3. Reverted(job.count) \in DomainEvent BY <2>2, Events
  <2> QED BY <2>1, <2>3
<1>8. CASE \/ \E s \in {"completed", "failed", "interrupted"}, text \in BOOLEAN : EndTurn(s, text)
           \/ ProviderExits \/ (\E r \in Reports : Report(r)) \/ CallFails \/ JoinTurn \/ OpenTurn
  BY <1>8 DEF EndTurn, ProviderExits, Report, CallFails, JoinTurn, OpenTurn, projections
<1>9. CASE HandleEvent \/ Take \/ Capture \/ Rollback \/ PruneRefs
  BY <1>9 DEF HandleEvent, Take, Capture, Rollback, PruneRefs, projections
<1>10. CASE UNCHANGED vars BY <1>10 DEF vars, projections
<1> QED BY <1>1, <1>2, <1>3, <1>4, <1>5, <1>6, <1>7, <1>8, <1>9, <1>10
     DEF Next, Environment, Start, Ingestion, Reactor

\* No event or report, however late, lets a row run again that completed or failed.
THEOREM OutcomesStay == Spec => OutcomeSticks
<1> DEFINE Sticks == \A t \in Turn : rows[t].state \in {"completed", "error"} => rows'[t].state # "running"
<1>1. ASSUME IInv, [Next]_vars PROVE [Sticks]_vars
  <2>1. CASE rows' = rows
    <3>1. \A t \in Turn : rows[t].state \in {"completed", "error"} => rows'[t].state # "running"
      BY <2>1
    <3> QED BY <3>1
  <2>2. CASE \E e \in DomainEvent : Apply(e)
    <3>1. PICK e \in DomainEvent : Apply(e) BY <2>2
    <3>2. Changes(e, rows') BY <1>1, <3>1, RowsChange DEF IInv, Types, Apply
    <3> QED BY <3>2 DEF Changes
  <2> QED BY <1>1, <2>1, <2>2, EventOrNot DEF projections
<1>2. IInv /\ [Next]_vars => [Sticks]_vars BY <1>1
<1> QED BY <1>2, Invariance, PTL DEF Spec, OutcomeSticks

-----------------------------------------------------------------------------
(* One turn at a time, for providers that do not supersede a running turn.   *)

\* The turn the ingestion has reached once it has handled an event, and the
\* events that may come when it has reached turn c (NoTurn: none).
Reached(e) == IF e.type \in {"turn.completed", "session.exited"} THEN NoTurn ELSE e.turn

Fits(c, e) ==
  CASE e.type = "turn.started" -> c = NoTurn
    [] e.type = "session.exited" -> c # NoTurn
    [] OTHER -> c = e.turn

\* What waits in feed is the rest of turn c and later turns, one after the other.
FeedInOrder(c) ==
  /\ feed # <<>> => Fits(c, Head(feed))
  /\ \A i \in 1..Len(feed) - 1 : Fits(Reached(feed[i]), feed[i + 1])
  /\ live = IF feed = <<>> THEN c ELSE Reached(feed[Len(feed)])

\* A session-set of the ingestion: it keeps the session on c or takes it off every
\* turn, and leaves no running turn without ending it or naming it.
Sets(c, e) ==
  /\ e.type = "session-set" /\ e.active \in {NoTurn, c}
  /\ \/ e.status \in {"ready", "error", "stopped"} /\ e.active = NoTurn
     \/ e.status \in {"ready", "error", "stopped"} /\ session.active \in {NoTurn, c}
     \/ e.status = "running" /\ e.active # NoTurn /\ session.active \in {NoTurn, c}
     \/ e.status \in {"starting", "running"} /\ session.active = NoTurn

\* What the ingestion is about to dispatch.
TodoInOrder(c) ==
  \/ todo = <<>> /\ session.active \in {NoTurn, c}
  \/ \E e \in Ingested : todo = <<e>> /\ Sets(c, e)
  \/ \E e \in Ingested, t \in Turn :
       /\ todo = <<e, MessageSent(t, TRUE), MessageSent(t, FALSE)>>
       /\ e.type = "session-set" /\ e.active = NoTurn /\ e.status \in {"ready", "error"}
       /\ c = NoTurn
  \/ \E t \in Turn :
       /\ todo \in {<<MessageSent(t, TRUE), MessageSent(t, FALSE)>>, <<MessageSent(t, FALSE)>>}
       /\ session.active \in {NoTurn, c} \cap {NoTurn, t}
  \/ \E e \in Ingested : /\ todo = <<e>> /\ e.type = "turn-diff-completed"
                         /\ session.active \in {NoTurn, c}

\* A turn is shown as running while the session runs it, or between the two
\* halves of a final text that came late.
MayRun(t) == StillRunning(t) \/ todo = <<MessageSent(t, FALSE)>>

RowsRun == \A t \in Turn : rows[t].state = "running" => MayRun(t)

ViewRuns ==
  /\ view = [checkpoints |-> view.checkpoints, latest |-> view.latest]
  /\ view.latest = Latest(view.latest.turn, view.latest.state)
  /\ view.latest.state = "running" => view.latest.turn \in Turn /\ MayRun(view.latest.turn)

Order == \E c \in SomeTurn : FeedInOrder(c) /\ TodoInOrder(c)
OneInv == Order /\ RowsRun /\ ViewRuns

Runs == RowsRun /\ ViewRuns

\* Whether an event leaves turn t running in the tables and the client, which
\* showed it running or not before.
Keeps(e, t, was) ==
  CASE e.type = "session-set" ->
         IF Activates(e) THEN t = e.active ELSE was /\ SettledState(e.status) = "none"
    [] e.type = "message-sent" -> IF t = e.turn THEN e.streaming \/ StillRunning(t) ELSE was
    [] e.type = "turn-diff-completed" -> was \/ StillRunning(t)
    [] OTHER -> was

LEMMA RowsKeep ==
  ASSUME Types, NEW e \in DomainEvent, NEW t \in Turn, RowsAfter(e)[t].state = "running"
  PROVE  Keeps(e, t, rows[t].state = "running")
<1>0. rows \in [Turn -> Row] /\ rows[t] \in Row BY TypesBefore
<1>1. CASE e.type = "session-set"
  <2>1. RowsAfter(e) = RowsOfSession(e) BY <1>1 DEF RowsAfter
  <2> PICK end : end = IF Activates(e) THEN "completed" ELSE SettledState(e.status) OBVIOUS
  <2>2. end \in Ended \cup {"none"} BY <1>1, Fields DEF Announced, SettledState, Ended
  <2>3. \/ Activates(e) /\ t = e.active
        \/ ~ (Activates(e) /\ t = e.active) /\ rows[t].state = "running" /\ end # "none"
             /\ RowsAfter(e)[t] = [rows[t] EXCEPT !.state = end]
        \/ ~ (Activates(e) /\ t = e.active) /\ ~ (rows[t].state = "running" /\ end # "none")
             /\ RowsAfter(e)[t] = rows[t]
    BY <2>1 DEF RowsOfSession
  <2>4. [rows[t] EXCEPT !.state = end].state = end BY <1>0, <2>2, NewState
  <2>5. end # "running" BY <2>2 DEF Ended
  <2>6. (Activates(e) /\ t = e.active) \/ (rows[t].state = "running" /\ end = "none")
    BY <2>3, <2>4, <2>5
  <2>7. end = "none" => ~ Activates(e) /\ SettledState(e.status) = "none" OBVIOUS
  <2> QED BY <1>1, <2>6, <2>7 DEF Keeps
<1>2. CASE e.type = "message-sent"
  <2>1. RowsAfter(e) = RowsOfMessage(e) /\ e.turn \in Turn BY <1>2, Fields DEF RowsAfter
  <2>2. CASE t # e.turn
    <3>1. RowsAfter(e)[t] = rows[t] BY <1>0, <2>1, <2>2 DEF RowsOfMessage
    <3>2. rows[t].state = "running" BY <3>1
    <3> QED BY <1>2, <2>2, <3>2 DEF Keeps
  <2>3. CASE t = e.turn /\ ~ e.streaming /\ ~ StillRunning(e.turn)
    <3> PICK u : u = IF rows[t].state \in {"interrupted", "error"} THEN rows[t].state ELSE "completed"
      OBVIOUS
    <3>1. RowsOfMessage(e)[t] = [rows[t] EXCEPT !.state = u] BY <1>0, <2>3 DEF RowsOfMessage
    <3>2. u \in Ended /\ u # "running" BY DEF Ended
    <3>3. [rows[t] EXCEPT !.state = u].state = u BY <1>0, <3>2, NewState
    <3> QED BY <2>1, <3>1, <3>2, <3>3
  <2> QED BY <1>2, <2>2, <2>3 DEF Keeps
<1>3. CASE e.type = "turn-diff-completed"
  <2>1. RowsAfter(e) = RowsOfDiff(e) BY <1>3 DEF RowsAfter
  <2>2. CASE t = e.turn /\ ~ StillRunning(e.turn)
    <3>1. RowsOfDiff(e)[t].state = IF e.mark = "error" THEN "error" ELSE "completed"
      BY <2>2 DEF RowsOfDiff
    <3> QED BY <2>1, <3>1
  <2>3. CASE t = e.turn /\ StillRunning(e.turn) BY <1>3, <2>3 DEF Keeps
  <2>4. CASE t # e.turn
    <3>1. \/ RowsAfter(e)[t] = [NoRow EXCEPT !.state = rows[t].state]
          \/ RowsAfter(e)[t] = rows[t]
      BY <2>1, <2>4 DEF RowsOfDiff
    <3>2. [NoRow EXCEPT !.state = rows[t].state].state = rows[t].state BY DEF NoRow
    <3>3. rows[t].state = "running" BY <3>1, <3>2
    <3> QED BY <1>3, <3>3 DEF Keeps
  <2> QED BY <2>2, <2>3, <2>4
<1>4. CASE e.type = "turn-interrupt-requested"
  <2>1. e.turn \in Turn /\ RowsAfter(e) = [rows EXCEPT ![e.turn].state = "interrupted"]
    BY <1>4, Fields DEF RowsAfter
  <2>2. RowsAfter(e)[t].state = IF t = e.turn THEN "interrupted" ELSE rows[t].state
    BY <1>0, <2>1 DEF Row
  <2> QED BY <1>4, <2>2 DEF Keeps
<1>5. CASE e.type = "reverted"
  <2>1. RowsAfter(e)[t] = rows[t] \/ RowsAfter(e)[t] = NoRow BY <1>5 DEF RowsAfter
  <2> QED BY <1>5, <2>1, RowTypes DEF Keeps
<1>6. CASE e.type \in {"turn-start-requested", "checkpoint-revert-requested"}
  BY <1>6 DEF RowsAfter, Keeps
<1> QED BY <1>1, <1>2, <1>3, <1>4, <1>5, <1>6, Fields

\* A client that shows a latest turn, of the shape the events give it.
ViewShape(v) ==
  /\ v = [checkpoints |-> v.checkpoints, latest |-> v.latest]
  /\ v.latest = Latest(v.latest.turn, v.latest.state)

Shows(v, t) == v.latest.state = "running" /\ v.latest.turn = t

LEMMA ViewKeeps ==
  ASSUME ViewShape(view), view.latest.state = "running" => view.latest.turn \in Turn,
         NEW e \in DomainEvent, NEW v, v = ViewAfter(e)
  PROVE  /\ ViewShape(v)
         /\ v.latest.state = "running" =>
              /\ v.latest.turn \in Turn
              /\ Keeps(e, v.latest.turn, Shows(view, v.latest.turn))
<1> USE DEF ViewShape
<1>1. ASSUME NEW n, NEW s, v = [view EXCEPT !.latest = Latest(n, s)]
      PROVE  ViewShape(v) /\ v.latest.turn = n /\ v.latest.state = s
  BY <1>1 DEF Latest
<1>2. CASE v = view /\ e.type \notin {"session-set", "message-sent"} BY <1>2 DEF Keeps, Shows
<1>3. CASE e.type = "session-set"
  <2>1. v = [view EXCEPT !.latest = LatestOfSession(view, e)] BY <1>3 DEF ViewAfter
  <2>2. CASE Activates(e)
    <3>1. v = [view EXCEPT !.latest = Latest(e.active, "running")] BY <2>1, <2>2 DEF LatestOfSession
    <3>2. ViewShape(v) /\ v.latest.turn = e.active BY <1>1, <3>1
    <3>3. e.active \in Turn BY <1>3, <2>2, Fields DEF Activates, SomeTurn
    <3> QED BY <1>3, <2>2, <3>2, <3>3 DEF Keeps
  <2>3. CASE ~ Activates(e) /\ view.latest.state = "running" /\ SettledState(e.status) # "none"
    <3>1. v = [view EXCEPT !.latest = Latest(view.latest.turn, SettledState(e.status))]
      BY <2>1, <2>3 DEF LatestOfSession
    <3>2. SettledState(e.status) # "running" BY <1>3, Fields DEF SettledState, Announced
    <3> QED BY <1>1, <3>1, <3>2
  <2>4. CASE ~ Activates(e) /\ ~ (view.latest.state = "running" /\ SettledState(e.status) # "none")
    <3>1. v = [view EXCEPT !.latest = view.latest] BY <2>1, <2>4 DEF LatestOfSession
    <3>2. v = view BY <3>1
    <3> QED BY <1>3, <2>4, <3>2 DEF Keeps, Shows
  <2> QED BY <2>2, <2>3, <2>4
<1>4. CASE e.type = "message-sent"
  <2>1. v = ViewOfMessage(e) /\ e.turn \in Turn BY <1>4, Fields DEF ViewAfter
  <2>2. CASE view.latest.turn \notin {NoTurn, e.turn}
    <3>1. v = view BY <2>1, <2>2 DEF ViewOfMessage
    <3> QED BY <1>4, <2>2, <3>1 DEF Keeps, Shows
  <2>3. CASE view.latest.turn \in {NoTurn, e.turn}
    <3>1. PICK s : /\ v = [view EXCEPT !.latest = Latest(e.turn, s)]
                   /\ s = "running" => e.streaming \/ StillRunning(e.turn)
      BY <2>1, <2>3 DEF ViewOfMessage
    <3>2. ViewShape(v) /\ v.latest.turn = e.turn /\ v.latest.state = s BY <1>1, <3>1
    <3> QED BY <1>4, <2>1, <3>1, <3>2 DEF Keeps
  <2> QED BY <2>2, <2>3
<1>5. CASE e.type = "turn-interrupt-requested" /\ view.latest.turn = e.turn
  <2>1. v = [view EXCEPT !.latest.state = "interrupted"] BY <1>5 DEF ViewAfter
  <2>2. v = [view EXCEPT !.latest = Latest(view.latest.turn, "interrupted")] BY <2>1 DEF Latest
  <2> QED BY <1>1, <2>2
<1>6. CASE e.type = "turn-diff-completed" /\ ~ IsClobber(view, e)
  <2> PICK k : k = WithCheckpoint(view, e) OBVIOUS
  <2>1. \/ v = [checkpoints |-> k, latest |-> view.latest]
        \/ v = [checkpoints |-> k, latest |-> Latest(e.turn, ViewStateOfMark(e.mark))]
    BY <1>6 DEF ViewAfter
  <2>2. ViewStateOfMark(e.mark) # "running" BY DEF ViewStateOfMark
  <2> QED BY <1>6, <2>1, <2>2 DEF Keeps, Shows, Latest
<1>7. CASE e.type = "reverted"
  <2> PICK k : k = UpTo(view.checkpoints, e.count) OBVIOUS
  <2> PICK last : last = Last(k) OBVIOUS
  <2>1. v = RevertedTo(k, ViewStateOfMark(last.mark)) BY <1>7 DEF ViewAfter
  <2>2. \/ v = [checkpoints |-> k, latest |-> NoLatest]
        \/ v = [checkpoints |-> k, latest |-> Latest(last.turn, ViewStateOfMark(last.mark))]
    BY <2>1 DEF RevertedTo
  <2>3. ViewStateOfMark(last.mark) # "running" BY DEF ViewStateOfMark
  <2>4. CASE v = [checkpoints |-> k, latest |-> NoLatest] BY <2>4 DEF NoLatest, Latest
  <2>5. CASE v = [checkpoints |-> k, latest |-> Latest(last.turn, ViewStateOfMark(last.mark))]
    BY <2>3, <2>5 DEF Latest
  <2> QED BY <2>2, <2>4, <2>5
<1>8. \/ v = view
      \/ e.type \in {"session-set", "message-sent", "reverted"}
      \/ e.type = "turn-interrupt-requested" /\ view.latest.turn = e.turn
      \/ e.type = "turn-diff-completed" /\ ~ IsClobber(view, e)
  BY DEF ViewAfter
<1> QED BY <1>2, <1>3, <1>4, <1>5, <1>6, <1>7, <1>8, Zenon

\* An event keeps what runs within what may run, if what it keeps running may.
LEMMA RunsKept ==
  ASSUME Types, Runs, NEW e \in DomainEvent, Apply(e),
         \A t \in Turn : Keeps(e, t, MayRun(t)) => MayRun(t)'
  PROVE  Runs'
<1>1. rows' = RowsAfter(e) /\ view' = ViewAfter(e) BY DEF Apply
<1>2. ASSUME NEW t, NEW was, was => MayRun(t), Keeps(e, t, was) PROVE Keeps(e, t, MayRun(t))
  BY <1>2, Zenon DEF Keeps
<1>3. RowsRun'
  <2> SUFFICES ASSUME NEW t \in Turn, rows'[t].state = "running" PROVE MayRun(t)' BY DEF RowsRun
  <2>1. Keeps(e, t, rows[t].state = "running") BY <1>1, RowsKeep
  <2>2. rows[t].state = "running" => MayRun(t) BY DEF Runs, RowsRun
  <2> QED BY <1>2, <2>1, <2>2
<1>4. ViewRuns'
  <2> PICK v : v = view' OBVIOUS
  <2>1. ViewShape(view) /\ (view.latest.state = "running" => view.latest.turn \in Turn)
    BY DEF Runs, ViewRuns, ViewShape
  <2>2. /\ ViewShape(v)
        /\ v.latest.state = "running" =>
              v.latest.turn \in Turn /\ Keeps(e, v.latest.turn, Shows(view, v.latest.turn))
    BY <1>1, <2>1, ViewKeeps
  <2>3. Shows(view, v.latest.turn) => MayRun(v.latest.turn)
    BY DEF Runs, ViewRuns, Shows
  <2>4. v.latest.state = "running" => v.latest.turn \in Turn /\ MayRun(v.latest.turn)'
    BY <1>2, <2>2, <2>3
  <2> QED BY <2>2, <2>4 DEF ViewRuns, ViewShape
<1> QED BY <1>3, <1>4 DEF Runs

LEMMA Single ==
  ASSUME NEW a PROVE Head(<<a>>) = a /\ Tail(<<a>>) = <<>> /\ <<a>> # <<>> /\ <<a>> \o <<>> = <<a>>
  OBVIOUS

LEMMA Pair == ASSUME NEW a, NEW b PROVE Head(<<a, b>>) = a /\ Tail(<<a, b>>) = <<b>>
<1>1. Head(<<a, b>>) = a OBVIOUS
<1>2. Tail(<<a, b>>) = <<b>> OBVIOUS
<1> QED BY <1>1, <1>2

LEMMA Triple ==
  ASSUME NEW a, NEW b, NEW c PROVE Head(<<a, b, c>>) = a /\ Tail(<<a, b, c>>) = <<b, c>>
<1>1. Head(<<a, b, c>>) = a OBVIOUS
<1>2. Tail(<<a, b, c>>) = <<b, c>> OBVIOUS
<1> QED BY <1>1, <1>2

LEMMA Joined ==
  ASSUME NEW a, NEW b, NEW c PROVE <<a>> \o <<b, c>> = <<a, b, c>>
<1> PICK S, x, y : S = {a, b, c} /\ x = <<a>> \o <<b, c>> /\ y = <<a, b, c>> OBVIOUS
<1>1. <<a>> \in Seq(S) /\ <<b, c>> \in Seq(S) /\ Len(<<a>>) = 1 /\ Len(<<b, c>>) = 2 OBVIOUS
<1>2. x \in Seq(S) /\ Len(x) = 3 /\ x[1] = a /\ x[2] = b /\ x[3] = c BY <1>1
<1>3. y \in Seq(S) /\ Len(y) = 3 /\ y[1] = a /\ y[2] = b /\ y[3] = c OBVIOUS
<1>4. \A i \in 1..Len(x) : x[i] = y[i] BY <1>2, <1>3
<1>5. x = y BY <1>2, <1>3, <1>4, SeqEqual
<1> QED BY <1>5

\* A step without an event, which lets run what did.
LEMMA RunsIdle ==
  ASSUME Runs, UNCHANGED projections, todo' = todo \/ todo = <<>> PROVE Runs'
<1>1. rows' = rows /\ view' = view /\ session' = session BY DEF projections
<1>2. ASSUME NEW t, MayRun(t) PROVE MayRun(t)'
  <2>1. StillRunning(t) => StillRunning(t)' BY <1>1 DEF StillRunning
  <2>2. todo = <<MessageSent(t, FALSE)>> => todo # <<>> BY Single
  <2> QED BY <1>2, <2>1, <2>2 DEF MayRun
<1> QED BY <1>1, <1>2 DEF Runs, RowsRun, ViewRuns

\* An event on its way to the ingestion keeps the feed in order.
LEMMA EmitInOrder ==
  ASSUME NEW c \in SomeTurn, feed \in Seq(RuntimeEvent), FeedInOrder(c),
         NEW e \in RuntimeEvent, Emit(e), Fits(live, e), live' = Reached(e)
  PROVE  FeedInOrder(c)'
<1> PICK n : n = Len(feed) OBVIOUS
<1>1. n \in Nat /\ feed' = Append(feed, e) BY DEF Emit
<1>2. /\ Len(feed') = n + 1 /\ feed' # <<>> /\ feed'[n + 1] = e
      /\ \A i \in 1..n : feed'[i] = feed[i]
  BY <1>1
<1>3. CASE feed = <<>>
  <2>1. n = 0 /\ live = c BY <1>3 DEF FeedInOrder
  <2>2. Head(feed') = e BY <1>1, <1>3
  <2>3. Fits(c, Head(feed')) BY <2>1, <2>2
  <2>4. \A i \in 1..Len(feed') - 1 : Fits(Reached(feed'[i]), feed'[i + 1]) BY <1>2, <2>1
  <2> QED BY <1>2, <2>1, <2>3, <2>4 DEF FeedInOrder
<1>4. CASE feed # <<>>
  <2>1. n > 0 /\ live = Reached(feed[n]) BY <1>1, <1>4 DEF FeedInOrder
  <2>2. Head(feed') = Head(feed) BY <1>1, <1>4
  <2>3. Fits(c, Head(feed')) BY <1>4, <2>2 DEF FeedInOrder
  <2>4. ASSUME NEW i \in 1..Len(feed') - 1 PROVE Fits(Reached(feed'[i]), feed'[i + 1])
    <3>1. CASE i = n
      <4>1. feed'[i] = feed[n] /\ feed'[i + 1] = e BY <1>1, <1>2, <2>1, <3>1
      <4> QED BY <2>1, <4>1
    <3>2. CASE i # n
      <4>1. i \in 1..n - 1 /\ feed'[i] = feed[i] /\ feed'[i + 1] = feed[i + 1] BY <1>1, <1>2, <3>2
      <4> QED BY <4>1 DEF FeedInOrder
    <3> QED BY <3>1, <3>2
  <2> QED BY <1>2, <2>3, <2>4 DEF FeedInOrder
<1> QED BY <1>3, <1>4

\* The rest of the feed is in order from what the event that left it has reached.
LEMMA RestInOrder ==
  ASSUME NEW c \in SomeTurn, feed \in Seq(RuntimeEvent), FeedInOrder(c), feed # <<>>,
         feed' = Tail(feed), live' = live, NEW r, r = Reached(Head(feed))
  PROVE  FeedInOrder(r)'
<1> PICK n : n = Len(feed) OBVIOUS
<1>1. /\ n \in Nat /\ n > 0 /\ Len(feed') = n - 1
      /\ \A i \in 1..n - 1 : feed'[i] = feed[i + 1]
      /\ Head(feed) = feed[1] /\ live = Reached(feed[n])
  BY DEF FeedInOrder
<1>2. \A i \in 1..n - 1 : Fits(Reached(feed[i]), feed[i + 1]) BY DEF FeedInOrder
<1>3. feed' # <<>> => Fits(r, Head(feed'))
  <2> SUFFICES ASSUME feed' # <<>> PROVE Fits(r, Head(feed')) OBVIOUS
  <2>1. n > 1 /\ Head(feed') = feed[2] BY <1>1
  <2>2. Fits(Reached(feed[1]), feed[1 + 1]) BY <1>1, <1>2, <2>1
  <2> QED BY <1>1, <2>1, <2>2
<1>4. ASSUME NEW i \in 1..Len(feed') - 1 PROVE Fits(Reached(feed'[i]), feed'[i + 1])
  <2>1. i + 1 \in 1..n - 1 /\ feed'[i] = feed[i + 1] /\ feed'[i + 1] = feed[(i + 1) + 1] BY <1>1
  <2> QED BY <1>2, <2>1
<1>5. live' = IF feed' = <<>> THEN r ELSE Reached(feed'[Len(feed')])
  <2>1. CASE feed' = <<>>
    <3>2. Len(<<>>) = 0 OBVIOUS
    <3>0. Len(feed') = 0 BY <2>1, <3>2, Zenon
    <3>1. n = 1 BY <1>1, <3>0
    <3> QED BY <1>1, <2>1, <3>1
  <2>2. CASE feed' # <<>>
    <3>1. n > 1 BY <1>1, <2>2
    <3>2. feed'[Len(feed')] = feed[n] BY <1>1, <3>1
    <3> QED BY <1>1, <2>2, <3>2
  <2> QED BY <2>1, <2>2
<1> QED BY <1>3, <1>4, <1>5 DEF FeedInOrder

\* What the ingestion makes of an event that fits the turn it has reached.
LEMMA CommandsInOrder ==
  ASSUME Types, NEW c \in SomeTurn, session.active \in {NoTurn, c}, UNCHANGED session,
         NEW e \in RuntimeEvent, Fits(c, e), todo' = CommandsOf(e)
  PROVE  Reached(e) \in SomeTurn /\ TodoInOrder(Reached(e))'
<1> PICK d : d = Reached(e) OBVIOUS
<1>0. /\ e.type # "session.exited" => e.turn \in Turn
      /\ e.type \in {"turn.started", "turn.completed", "session.exited"} \cup Reports
      /\ NoTurn \notin Turn
  BY RuntimeFields DEF Turn, NoTurn
<1>1. d \in SomeTurn BY <1>0 DEF Reached, SomeTurn
<1>2. session.active \in SomeTurn BY DEF SomeTurn
<1>3. {"running", "ready", "error", "stopped", "starting"} \subseteq Announced BY DEF Announced
<1>4. \A s \in Announced, t \in SomeTurn : SessionSet(s, t) \in Ingested BY IngestedTypes
<1>5. ASSUME NEW s \in Announced, NEW t \in SomeTurn, todo' = <<SessionSet(s, t)>>, t \in {NoTurn, d},
             \/ s \in {"ready", "error", "stopped"} /\ (t = NoTurn \/ session.active \in {NoTurn, d})
             \/ s = "running" /\ t # NoTurn /\ session.active \in {NoTurn, d}
             \/ s \in {"starting", "running"} /\ session.active = NoTurn
      PROVE  TodoInOrder(d)'
  <2> PICK m : m = SessionSet(s, t) OBVIOUS
  <2>1. m \in Ingested /\ m.type = "session-set" /\ m.status = s /\ m.active = t
    BY <1>4 DEF SessionSet
  <2>2. Sets(d, m)' BY <1>5, <2>1 DEF Sets
  <2> QED BY <1>5, <2>1, <2>2 DEF TodoInOrder
<1>6. CASE e.type = "turn.started"
  <2>1. c = NoTurn /\ d = e.turn /\ e.turn \in Turn BY <1>0, <1>6 DEF Fits, Reached
  <2>2. todo' = <<SessionSet("running", e.turn)>>
    BY <1>6, <2>1 DEF CommandsOf, Accepts, SessionOf
  <2>3. e.turn \in SomeTurn /\ e.turn # NoTurn BY <1>0, <2>1 DEF SomeTurn
  <2> QED BY <1>1, <1>3, <1>5, <2>1, <2>2, <2>3
<1>7. CASE e.type = "turn.completed"
  <2>1. c = e.turn /\ d = NoTurn /\ e.turn \in Turn BY <1>0, <1>7 DEF Fits, Reached
  <2> PICK s : s = IF e.state = "failed" THEN "error" ELSE "ready" OBVIOUS
  <2> PICK m : m = SessionSet(s, NoTurn) OBVIOUS
  <2>2. NoTurn \in SomeTurn /\ s \in Announced /\ s \in {"ready", "error"} BY <1>3 DEF SomeTurn
  <2>3. Accepts(e) BY <1>7, <2>1 DEF Accepts
  <2>4. SessionOf(e) = m BY <1>7 DEF SessionOf
  <2>5. todo' = <<m>> \o (IF e.text THEN FinalText(e.turn) ELSE <<>>)
    BY <1>7, <2>3, <2>4 DEF CommandsOf
  <2>6. CASE ~ e.text
    <3>1. todo' = <<m>> BY <2>5, <2>6, Single
    <3> QED BY <1>1, <1>5, <2>1, <2>2, <3>1
  <2>7. CASE e.text
    <3> PICK x, y : x = MessageSent(e.turn, TRUE) /\ y = MessageSent(e.turn, FALSE) OBVIOUS
    <3>3. todo' = <<m>> \o <<x, y>> BY <2>5, <2>7 DEF FinalText
    <3>4. <<m>> \o <<x, y>> = <<m, x, y>> BY Joined, Zenon
    <3>1. todo' = <<m, MessageSent(e.turn, TRUE), MessageSent(e.turn, FALSE)>> BY <3>3, <3>4
    <3>2. m \in Ingested /\ m.type = "session-set" /\ m.active = NoTurn /\ m.status = s
      BY <1>4, <2>2 DEF SessionSet
    <3> QED BY <1>1, <2>1, <2>2, <3>1, <3>2 DEF TodoInOrder
  <2> QED BY <2>6, <2>7
<1>8. CASE e.type = "session.exited"
  <2>1. d = NoTurn BY <1>8 DEF Reached
  <2>2. todo' = <<SessionSet("stopped", NoTurn)>> BY <1>8 DEF CommandsOf, Accepts, SessionOf
  <2> QED BY <1>1, <1>3, <1>5, <2>1, <2>2
<1>9. CASE e.type \in Reports
  <2>1. c = e.turn /\ d = e.turn /\ e.turn \in Turn BY <1>0, <1>9 DEF Fits, Reached, Reports
  <2>2. CASE e.type = "runtime.error"
    <3>1. todo' = <<SessionSet("error", e.turn)>> BY <2>1, <2>2 DEF CommandsOf, Accepts, SessionOf
    <3> QED BY <1>1, <1>3, <1>5, <2>1, <3>1
  <2>3. CASE e.type = "session.state.running"
    <3>1. todo' = <<SessionSet("running", session.active)>>
      BY <2>3 DEF CommandsOf, Accepts, SessionOf
    <3> QED BY <1>1, <1>2, <1>3, <1>5, <2>1, <3>1
  <2>4. CASE e.type = "session.started"
    <3> PICK s : s = (CASE session.active # NoTurn -> "running"
                        [] session.active = NoTurn /\ pending /\ session.status = "starting" -> "starting"
                        [] OTHER -> "ready") OBVIOUS
    <3>1. todo' = <<SessionSet(s, session.active)>> BY <2>4 DEF CommandsOf, Accepts, SessionOf
    <3>2. \/ s = "running" /\ session.active # NoTurn
          \/ s \in {"starting", "ready"} /\ session.active = NoTurn
      OBVIOUS
    <3> QED BY <1>1, <1>2, <1>3, <1>5, <2>1, <3>1, <3>2
  <2>5. CASE e.type = "item.completed"
    <3>1. todo' = <<MessageSent(e.turn, TRUE), MessageSent(e.turn, FALSE)>>
      BY <2>5 DEF CommandsOf, FinalText
    <3> QED BY <1>1, <2>1, <3>1 DEF TodoInOrder
  <2>6. CASE e.type = "turn.diff.updated"
    <3> PICK m : m = DiffCompleted(e.turn, TopCount + 1, "missing", FALSE) OBVIOUS
    <3>1. todo' = <<>> \/ todo' = <<m>> BY <2>6 DEF CommandsOf
    <3>2. m.type = "turn-diff-completed" BY DEF DiffCompleted
    <3>3. TopCount + 1 \in Nat BY TopCountType DEF Types
    <3>4. m \in Ingested BY <2>1, <3>3, IngestedTypes, Zenon
    <3> QED BY <1>1, <2>1, <3>1, <3>2, <3>4 DEF TodoInOrder
  <2> QED BY <1>9, <2>2, <2>3, <2>4, <2>5, <2>6 DEF Reports
<1> QED BY <1>0, <1>1, <1>6, <1>7, <1>8, <1>9

\* Dispatching the next command leaves the rest in order, and only what may run.
LEMMA DispatchInOrder ==
  ASSUME IInv, Runs, NEW c \in SomeTurn, TodoInOrder(c), DispatchNext
  PROVE  TodoInOrder(c)' /\ Runs'
<1> PICK e : e = Head(todo) OBVIOUS
<1>0. /\ todo # <<>> /\ Apply(e) /\ todo' = Tail(todo)
      /\ Types /\ todo \in Seq(Ingested) /\ session \in Sessions /\ NoTurn \notin Turn
  BY TypesBefore DEF DispatchNext, Dispatch, IInv, Turn, NoTurn
<1>1. e \in DomainEvent BY <1>0 DEF Ingested
<1>2. session' = IF e.type = "session-set" THEN [status |-> e.status, active |-> e.active] ELSE session
  BY <1>0 DEF Apply
<1>3. \A t : MessageSent(t, FALSE).type = "message-sent" /\ MessageSent(t, TRUE).type = "message-sent"
  BY DEF MessageSent
<1>4. ASSUME NEW t, e.type # "message-sent" PROVE MayRun(t) => StillRunning(t)
  <2>1. todo = <<MessageSent(t, FALSE)>> => e = MessageSent(t, FALSE) BY Single
  <2> QED BY <1>3, <1>4, <2>1 DEF MayRun
<1>5. ASSUME \A t \in Turn : Keeps(e, t, MayRun(t)) => MayRun(t)' PROVE Runs'
  BY <1>0, <1>1, <1>5, RunsKept
<1>6. ASSUME NEW x \in Ingested, todo = <<x>>, Sets(c, x) PROVE TodoInOrder(c)' /\ Runs'
  <2>1. e = x /\ todo' = <<>> BY <1>0, <1>6, Single
  <2>2. session' = [status |-> e.status, active |-> e.active] /\ e.active \in {NoTurn, c}
    BY <1>2, <1>6, <2>1 DEF Sets
  <2>3. TodoInOrder(c)' BY <2>1, <2>2 DEF TodoInOrder
  <2>4. ASSUME NEW t \in Turn, Keeps(e, t, MayRun(t)) PROVE MayRun(t)'
    <3>1. e.type = "session-set" BY <1>6, <2>1 DEF Sets
    <3>2. CASE Activates(e)
      <4>1. t = e.active /\ e.status = "running" BY <2>4, <3>1, <3>2 DEF Keeps, Activates
      <4> QED BY <2>2, <4>1 DEF MayRun, StillRunning
    <3>3. CASE ~ Activates(e)
      <4>1. MayRun(t) /\ SettledState(e.status) = "none" BY <2>4, <3>1, <3>3 DEF Keeps
      <4>2. session.active = t BY <1>4, <3>1, <4>1 DEF StillRunning
      <4>3. e.status \notin {"ready", "error", "stopped"} BY <4>1 DEF SettledState
      <4>4. session.active # NoTurn BY <1>0, <4>2
      <4> QED BY <1>6, <2>1, <3>3, <4>3, <4>4 DEF Sets, Activates
    <3> QED BY <3>2, <3>3
  <2> QED BY <1>5, <2>3, <2>4
<1>7. ASSUME NEW x \in Ingested, NEW t \in Turn,
             todo = <<x, MessageSent(t, TRUE), MessageSent(t, FALSE)>>,
             x.type = "session-set", x.active = NoTurn, x.status \in {"ready", "error"}
      PROVE  TodoInOrder(c)' /\ Runs'
  <2> PICK a, b : a = MessageSent(t, TRUE) /\ b = MessageSent(t, FALSE) OBVIOUS
  <2>6. Head(<<x, a, b>>) = x /\ Tail(<<x, a, b>>) = <<a, b>> BY Triple, Zenon
  <2>1. e = x /\ todo' = <<MessageSent(t, TRUE), MessageSent(t, FALSE)>> BY <1>0, <1>7, <2>6
  <2>2. session'.active = NoTurn BY <1>2, <1>7, <2>1
  <2>3. TodoInOrder(c)' BY <2>1, <2>2 DEF TodoInOrder
  <2>4. ~ Activates(e) /\ SettledState(e.status) # "none" BY <1>7, <2>1 DEF Activates, SettledState
  <2>5. \A u \in Turn : ~ Keeps(e, u, MayRun(u)) BY <1>7, <2>1, <2>4 DEF Keeps
  <2> QED BY <1>5, <2>3, <2>5
<1>8. ASSUME NEW t \in Turn, todo = <<MessageSent(t, TRUE), MessageSent(t, FALSE)>>,
             session.active \in {NoTurn, c} \cap {NoTurn, t}
      PROVE  TodoInOrder(c)' /\ Runs'
  <2> PICK a, b : a = MessageSent(t, TRUE) /\ b = MessageSent(t, FALSE) OBVIOUS
  <2>6. Head(<<a, b>>) = a /\ Tail(<<a, b>>) = <<b>> BY Pair, Zenon
  <2>1. e = MessageSent(t, TRUE) /\ todo' = <<MessageSent(t, FALSE)>> BY <1>0, <1>8, <2>6
  <2>2. e.type = "message-sent" /\ e.turn = t BY <2>1 DEF MessageSent
  <2>3. session' = session BY <1>2, <2>2
  <2>4. TodoInOrder(c)' BY <1>8, <2>1, <2>3 DEF TodoInOrder
  <2>5. ASSUME NEW u \in Turn, Keeps(e, u, MayRun(u)) PROVE MayRun(u)'
    <3>1. CASE u = t BY <2>1, <3>1 DEF MayRun
    <3>2. CASE u # t
      <4>1. MayRun(u) BY <2>2, <2>5, <3>2 DEF Keeps
      <4>2. todo # <<MessageSent(u, FALSE)>> BY <1>8, Single
      <4>3. StillRunning(u) BY <4>1, <4>2 DEF MayRun
      <4> QED BY <2>3, <4>3 DEF MayRun, StillRunning
    <3> QED BY <3>1, <3>2
  <2> QED BY <1>5, <2>4, <2>5
<1>9. ASSUME NEW t \in Turn, todo = <<MessageSent(t, FALSE)>>,
             session.active \in {NoTurn, c} \cap {NoTurn, t}
      PROVE  TodoInOrder(c)' /\ Runs'
  <2>1. e = MessageSent(t, FALSE) /\ todo' = <<>> BY <1>0, <1>9, Single
  <2>2. e.type = "message-sent" /\ e.turn = t BY <2>1 DEF MessageSent
  <2>6. ~ e.streaming
    <3>1. ~ MessageSent(t, FALSE).streaming BY Zenon DEF MessageSent
    <3> QED BY <2>1, <3>1, Zenon
  <2>3. session' = session BY <1>2, <2>2
  <2>4. TodoInOrder(c)' BY <1>9, <2>1, <2>3 DEF TodoInOrder
  <2>5. ASSUME NEW u \in Turn, Keeps(e, u, MayRun(u)) PROVE MayRun(u)'
    <3>1. CASE u = t
      <4>1. StillRunning(u) BY <2>2, <2>5, <2>6, <3>1 DEF Keeps
      <4> QED BY <2>3, <4>1 DEF MayRun, StillRunning
    <3>2. CASE u # t
      <4>1. MayRun(u) BY <2>2, <2>5, <3>2 DEF Keeps
      <4>2. todo = <<MessageSent(u, FALSE)>> => MessageSent(u, FALSE) = MessageSent(t, FALSE)
        BY <2>1, Single
      <4>3. MessageSent(u, FALSE).turn = u /\ MessageSent(t, FALSE).turn = t BY DEF MessageSent
      <4>4. StillRunning(u) BY <3>2, <4>1, <4>2, <4>3 DEF MayRun
      <4> QED BY <2>3, <4>4 DEF MayRun, StillRunning
    <3> QED BY <3>1, <3>2
  <2> QED BY <1>5, <2>4, <2>5
<1>10. ASSUME NEW x \in Ingested, todo = <<x>>, x.type = "turn-diff-completed",
              session.active \in {NoTurn, c}
       PROVE  TodoInOrder(c)' /\ Runs'
  <2>1. e = x /\ todo' = <<>> BY <1>0, <1>10, Single
  <2>2. e.type = "turn-diff-completed" /\ session' = session BY <1>2, <1>10, <2>1
  <2>3. TodoInOrder(c)' BY <1>10, <2>1, <2>2 DEF TodoInOrder
  <2>4. ASSUME NEW t \in Turn, Keeps(e, t, MayRun(t)) PROVE MayRun(t)'
    <3>1. StillRunning(t) BY <1>4, <2>2, <2>4 DEF Keeps
    <3> QED BY <2>2, <3>1 DEF MayRun, StillRunning
  <2> QED BY <1>5, <2>3, <2>4
<1> QED BY <1>0, <1>6, <1>7, <1>8, <1>9, <1>10 DEF TodoInOrder

\* The other steps that dispatch: the session stays, or leaves every turn.
LEMMA OthersInOrder ==
  ASSUME IInv, OneInv,
         \/ StartTurn \/ (\E n \in Count : AskRevert(n)) \/ AskInterrupt \/ AnnounceStart
         \/ RecordCapture \/ FinishRevert
  PROVE  OneInv'
<1>1. PICK c \in SomeTurn : FeedInOrder(c) /\ TodoInOrder(c) BY DEF OneInv, Order
<1>0. /\ live \in SomeTurn /\ job \in JobState /\ session \in Sessions /\ Types /\ NoTurn \notin Turn
  BY TypesBefore DEF IInv, Turn, NoTurn
<1>2. feed' = feed /\ todo' = todo /\ live' = live
  BY DEF StartTurn, AskRevert, AskInterrupt, AnnounceStart, RecordCapture, FinishRevert, ingestion, provider
<1>3. FeedInOrder(c)' BY <1>1, <1>2 DEF FeedInOrder
<1>4. ASSUME NEW e \in DomainEvent, Dispatch(e), e.type \notin {"session-set", "message-sent"}
      PROVE  OneInv'
  <2>1. session' = session /\ Apply(e) BY <1>4 DEF Dispatch, Apply
  <2>2. TodoInOrder(c)' BY <1>1, <1>2, <2>1 DEF TodoInOrder, Sets
  <2>3. ASSUME NEW t \in Turn, Keeps(e, t, MayRun(t)) PROVE MayRun(t)'
    <3>1. MayRun(t) BY <1>4, <2>3 DEF Keeps, MayRun
    <3> QED BY <1>2, <2>1, <3>1 DEF MayRun, StillRunning
  <2>4. Runs' BY <1>0, <2>1, <2>3, RunsKept DEF OneInv, Runs
  <2> QED BY <1>3, <2>2, <2>4 DEF OneInv, Order, Runs
<1>5. CASE StartTurn
  <2>1. Dispatch(StartRequested) /\ StartRequested.type = "turn-start-requested"
    BY <1>5 DEF StartTurn, StartRequested
  <2> QED BY <1>4, <2>1, Events
<1>6. CASE \E n \in Count : AskRevert(n)
  <2>1. PICK n \in Count : AskRevert(n) BY <1>6
  <2>2. Dispatch(RevertRequested(n)) /\ RevertRequested(n).type = "checkpoint-revert-requested"
    BY <2>1 DEF AskRevert, RevertRequested
  <2>3. n \in Nat BY BoundsAssumption DEF Count
  <2> QED BY <1>4, <2>2, <2>3, Events
<1>7. CASE AskInterrupt
  <2> PICK e : e = InterruptRequested(live) OBVIOUS
  <2>1. live \in Turn BY <1>0, <1>7 DEF AskInterrupt, SomeTurn
  <2>2. Dispatch(e) /\ e.type = "turn-interrupt-requested"
    BY <1>7 DEF AskInterrupt, InterruptRequested
  <2>3. e \in DomainEvent BY <2>1, Events
  <2> QED BY <1>4, <2>2, <2>3
<1>8. CASE RecordCapture
  <2> PICK e : e = DiffCompleted(job.turn, job.count, job.mark, TRUE) OBVIOUS
  <2>1. job.step = "captured" /\ Dispatch(e) /\ e.type = "turn-diff-completed"
    BY <1>8 DEF RecordCapture, DiffCompleted
  <2>2. job.turn \in Turn /\ job.mark \in Mark /\ job.count \in Nat BY <1>0, <2>1, JobFields
  <2>3. TRUE \in BOOLEAN OBVIOUS
  <2>4. e \in DomainEvent BY <2>2, <2>3, Events
  <2> QED BY <1>4, <2>1, <2>4
<1>9. CASE FinishRevert
  <2> PICK e : e = Reverted(job.count) OBVIOUS
  <2>1. job.step = "finish" /\ Dispatch(e) /\ e.type = "reverted" BY <1>9 DEF FinishRevert, Reverted
  <2>2. e \in DomainEvent BY <1>0, <2>1, JobFields, Events
  <2> QED BY <1>4, <2>1, <2>2
<1>10. CASE AnnounceStart
  <2> PICK e : e = SessionSet("starting", NoTurn) OBVIOUS
  <2>1. /\ session.status # "running" /\ Apply(e)
        /\ e.type = "session-set" /\ e.status = "starting" /\ e.active = NoTurn
    BY <1>10 DEF AnnounceStart, Dispatch, SessionSet
  <2>2. session' = [status |-> "starting", active |-> NoTurn] BY <2>1 DEF Apply
  <2>3. e \in DomainEvent
    <3>1. "starting" \in Announced /\ NoTurn \in SomeTurn BY DEF Announced, SomeTurn
    <3> QED BY <3>1, Events
  <2>4. TodoInOrder(c)' BY <1>1, <1>2, <2>2 DEF TodoInOrder, Sets
  <2>5. ASSUME NEW t \in Turn, Keeps(e, t, MayRun(t)) PROVE MayRun(t)'
    <3>1. MayRun(t) BY <2>1, <2>5 DEF Keeps, Activates
    <3>2. ~ StillRunning(t) BY <2>1 DEF StillRunning
    <3> QED BY <1>2, <3>1, <3>2 DEF MayRun
  <2>6. Runs' BY <1>0, <2>1, <2>3, <2>5, RunsKept DEF OneInv, Runs
  <2> QED BY <1>3, <2>4, <2>6 DEF OneInv, Order, Runs
<1> QED BY <1>5, <1>6, <1>7, <1>8, <1>9, <1>10

\* What the provider reports fits what it reported before.
LEMMA ReportsInOrder ==
  ASSUME ~ Supersedes, IInv, OneInv,
         \/ OpenTurn \/ ProviderExits
         \/ \E s \in {"completed", "failed", "interrupted"}, text \in BOOLEAN : EndTurn(s, text)
         \/ \E r \in Reports : Report(r)
  PROVE  OneInv'
<1>1. PICK c \in SomeTurn : FeedInOrder(c) /\ TodoInOrder(c) BY DEF OneInv, Order
<1>0. /\ live \in SomeTurn /\ feed \in Seq(RuntimeEvent) /\ Types
      /\ sends \in Nat /\ used \in Used /\ used.asked <= MaxTurns /\ sends + used.opened <= used.asked
  BY TypesBefore DEF IInv
<1>2. UNCHANGED projections /\ todo' = todo /\ session' = session
  BY DEF OpenTurn, ProviderExits, EndTurn, Report, projections
<1>3. Runs' BY <1>2, RunsIdle DEF OneInv, Runs
<1>4. TodoInOrder(c)' BY <1>1, <1>2 DEF TodoInOrder, Sets
<1>5. ASSUME NEW e \in RuntimeEvent, Emit(e), Fits(live, e), live' = Reached(e) PROVE OneInv'
  <2>1. FeedInOrder(c)' BY <1>0, <1>1, <1>5, EmitInOrder
  <2> QED BY <1>3, <1>4, <2>1 DEF OneInv, Order, Runs
<1>6. CASE OpenTurn
  <2> PICK t : t = used.opened + 1 OBVIOUS
  <2> PICK e : e = [type |-> "turn.started", turn |-> t] OBVIOUS
  <2>1. sends > 0 /\ live = NoTurn /\ live' = t /\ Emit(e) BY <1>6 DEF OpenTurn
  <2>2. used.opened \in Nat /\ used.asked \in Nat BY <1>0 DEF Used
  <2>3. t \in Turn BY <1>0, <2>1, <2>2, BoundsAssumption DEF Turn
  <2>4. e \in RuntimeEvent BY <2>3 DEF RuntimeEvent
  <2>5. Fits(live, e) /\ Reached(e) = t BY <2>1 DEF Fits, Reached
  <2> QED BY <1>5, <2>1, <2>4, <2>5
<1>7. CASE ProviderExits
  <2> PICK e : e = [type |-> "session.exited"] OBVIOUS
  <2>1. live # NoTurn /\ live' = NoTurn /\ Emit(e) BY <1>7 DEF ProviderExits
  <2>2. e \in RuntimeEvent BY DEF RuntimeEvent
  <2>3. Fits(live, e) /\ Reached(e) = NoTurn BY <2>1 DEF Fits, Reached
  <2> QED BY <1>5, <2>1, <2>2, <2>3
<1>8. CASE \E s \in {"completed", "failed", "interrupted"}, text \in BOOLEAN : EndTurn(s, text)
  <2>1. PICK s \in {"completed", "failed", "interrupted"}, text \in BOOLEAN : EndTurn(s, text) BY <1>8
  <2> PICK e : e = [type |-> "turn.completed", turn |-> live, state |-> s, text |-> text] OBVIOUS
  <2>2. live \in Turn /\ live' = NoTurn /\ Emit(e) BY <1>0, <2>1 DEF EndTurn, SomeTurn
  <2>3. e \in RuntimeEvent BY <2>1, <2>2 DEF RuntimeEvent
  <2>4. Fits(live, e) /\ Reached(e) = NoTurn BY DEF Fits, Reached
  <2> QED BY <1>5, <2>2, <2>3, <2>4
<1>9. CASE \E r \in Reports : Report(r)
  <2>1. PICK r \in Reports : Report(r) BY <1>9
  <2> PICK e : e = [type |-> r, turn |-> live] OBVIOUS
  <2>2. live \in Turn /\ live' = live /\ Emit(e) BY <1>0, <2>1 DEF Report, SomeTurn, provider
  <2>3. e \in RuntimeEvent BY <2>1, <2>2 DEF RuntimeEvent
  <2>4. Fits(live, e) /\ Reached(e) = live BY <2>1 DEF Fits, Reached, Reports
  <2> QED BY <1>5, <2>2, <2>3, <2>4
<1> QED BY <1>6, <1>7, <1>8, <1>9

LEMMA IngestionInOrder == ASSUME IInv, OneInv, HandleEvent \/ DispatchNext PROVE OneInv'
<1>1. PICK c \in SomeTurn : FeedInOrder(c) /\ TodoInOrder(c) BY DEF OneInv, Order
<1>0. feed \in Seq(RuntimeEvent) /\ Types BY TypesBefore DEF IInv
<1>2. CASE HandleEvent
  <2> PICK e, r : e = Head(feed) /\ r = Reached(e) OBVIOUS
  <2>1. /\ todo = <<>> /\ feed # <<>> /\ todo' = CommandsOf(e) /\ feed' = Tail(feed)
        /\ UNCHANGED projections /\ session' = session /\ live' = live
    BY <1>2 DEF HandleEvent, projections, provider
  <2>2. e \in RuntimeEvent BY <1>0, <2>1
  <2>3. Fits(c, e) BY <1>1, <2>1 DEF FeedInOrder
  <2>4. session.active \in {NoTurn, c} BY <1>1, <2>1, Single DEF TodoInOrder
  <2>5. r \in SomeTurn /\ TodoInOrder(r)' BY <1>0, <2>1, <2>2, <2>3, <2>4, CommandsInOrder
  <2>6. FeedInOrder(r)' BY <1>0, <1>1, <2>1, RestInOrder
  <2>7. Runs' BY <2>1, RunsIdle DEF OneInv, Runs
  <2> QED BY <2>5, <2>6, <2>7 DEF OneInv, Order, Runs
<1>3. CASE DispatchNext
  <2>1. feed' = feed /\ live' = live BY <1>3 DEF DispatchNext, provider
  <2>2. FeedInOrder(c)' BY <1>1, <2>1 DEF FeedInOrder
  <2>3. TodoInOrder(c)' /\ Runs' BY <1>1, <1>3, DispatchInOrder DEF OneInv, Runs
  <2> QED BY <2>2, <2>3 DEF OneInv, Order, Runs
<1> QED BY <1>2, <1>3

\* Steps that touch neither the projections nor the ingestion nor the running turn.
LEMMA IdleInOrder ==
  ASSUME OneInv, UNCHANGED <<projections, ingestion, live>> PROVE OneInv'
<1>1. PICK c \in SomeTurn : FeedInOrder(c) /\ TodoInOrder(c) BY DEF OneInv, Order
<1>2. feed' = feed /\ todo' = todo /\ live' = live /\ session' = session /\ UNCHANGED projections
  BY DEF projections, ingestion
<1>3. FeedInOrder(c)' BY <1>1, <1>2 DEF FeedInOrder
<1>4. TodoInOrder(c)' BY <1>1, <1>2 DEF TodoInOrder, Sets
<1>5. Runs' BY <1>2, RunsIdle DEF OneInv, Runs
<1> QED BY <1>3, <1>4, <1>5 DEF OneInv, Order, Runs

\* Providers that do not supersede: the events come turn by turn, the ingestion's
\* commands follow them, and the tables and the client show at most what these
\* two allow to run.
THEOREM TurnByTurn == ~ Supersedes => (Spec => []OneInv)
<1> SUFFICES ASSUME ~ Supersedes PROVE Spec => []OneInv OBVIOUS
<1>1. Init => OneInv
  <2> SUFFICES ASSUME Init PROVE OneInv OBVIOUS
  <2>1. NoTurn \in SomeTurn BY DEF SomeTurn
  <2>2. FeedInOrder(NoTurn) BY DEF Init, FeedInOrder
  <2>3. TodoInOrder(NoTurn) BY DEF Init, TodoInOrder
  <2>4. RowsRun BY RowTypes DEF Init, RowsRun
  <2>5. ViewRuns BY DEF Init, ViewRuns, Empty, NoLatest, Latest
  <2> QED BY <2>1, <2>2, <2>3, <2>4, <2>5 DEF OneInv, Order
<1>2. ASSUME IInv, OneInv, [Next]_vars PROVE OneInv'
  <2>1. CASE Environment
    <3>1. CASE CallFails
      <4>1. UNCHANGED <<projections, ingestion, live>> BY <3>1 DEF CallFails, provider
      <4> QED BY <1>2, <4>1, IdleInOrder
    <3> QED BY <1>2, <2>1, <3>1, OthersInOrder, ReportsInOrder DEF Environment
  <2>2. CASE Start
    <3>1. CASE JoinTurn
      <4>1. UNCHANGED <<projections, ingestion, live>> BY <3>1 DEF JoinTurn
      <4> QED BY <1>2, <4>1, IdleInOrder
    <3> QED BY <1>2, <2>2, <3>1, OthersInOrder, ReportsInOrder DEF Start
  <2>3. CASE Ingestion BY <1>2, <2>3, IngestionInOrder DEF Ingestion
  <2>4. CASE Reactor
    <3>1. CASE Take \/ Capture \/ Rollback \/ PruneRefs
      <4>1. UNCHANGED <<projections, ingestion, live>>
        BY <3>1 DEF Take, Capture, Rollback, PruneRefs, provider
      <4> QED BY <1>2, <4>1, IdleInOrder
    <3> QED BY <1>2, <2>4, <3>1, OthersInOrder DEF Reactor
  <2>5. CASE UNCHANGED vars
    <3>1. UNCHANGED <<projections, ingestion, live>> BY <2>5 DEF vars, provider
    <3> QED BY <1>2, <3>1, IdleInOrder
  <2> QED BY <1>2, <2>1, <2>2, <2>3, <2>4, <2>5 DEF Next
<1> QED BY <1>1, <1>2, Invariance, PTL DEF Spec

\* For any number of turns, the tables show at most one turn that runs, if the
\* provider does not open a turn during another one.
THEOREM OneTurnAtATime == ~ Supersedes => (Spec => []OneTurnRuns)
<1> SUFFICES ASSUME ~ Supersedes PROVE Spec => []OneTurnRuns OBVIOUS
<1>1. ASSUME OneInv PROVE OneTurnRuns
  <2> SUFFICES ASSUME NEW t \in Turn, NEW u \in Turn, MayRun(t), MayRun(u) PROVE t = u
    BY <1>1 DEF OneInv, RowsRun, OneTurnRuns
  <2>1. ASSUME NEW v \in Turn, NEW w \in Turn, todo = <<MessageSent(v, FALSE)>>, StillRunning(w)
        PROVE  v = w
    <3>1. PICK c \in SomeTurn : TodoInOrder(c) BY <1>1 DEF OneInv, Order
    <3>2. MessageSent(v, FALSE).type = "message-sent" /\ MessageSent(v, FALSE).turn = v
      BY DEF MessageSent
    <3>3. \A x : todo = <<x>> => x = MessageSent(v, FALSE) BY <2>1
    <3>4. session.active \in {NoTurn, v}
      <4>1. todo # <<>> BY <2>1, Single
      <4>2. \A e \in Ingested : ~ (todo = <<e>> /\ Sets(c, e)) BY <3>2, <3>3 DEF Sets
      <4>3. \A e : ~ (todo = <<e>> /\ e.type = "turn-diff-completed") BY <3>2, <3>3
      <4>4. \A x, y, z : todo # <<x, y>> /\ todo # <<x, y, z>> BY <2>1
      <4>5. PICK q \in Turn : todo = <<MessageSent(q, FALSE)>> /\ session.active \in {NoTurn, q}
        BY <3>1, <4>1, <4>2, <4>3, <4>4 DEF TodoInOrder
      <4>6. MessageSent(q, FALSE).turn = q BY DEF MessageSent
      <4>7. q = v BY <3>2, <3>3, <4>5, <4>6
      <4> QED BY <4>5, <4>7
    <3> QED BY <2>1, <3>4 DEF StillRunning, Turn, NoTurn
  <2>2. CASE StillRunning(t) /\ StillRunning(u) BY <2>2 DEF StillRunning
  <2>3. CASE todo = <<MessageSent(t, FALSE)>> /\ todo = <<MessageSent(u, FALSE)>>
    <3>1. MessageSent(t, FALSE) = MessageSent(u, FALSE)
      <4>1. \A x : todo = <<x>> => x = Head(todo) BY Single
      <4> QED BY <2>3, <4>1
    <3>2. MessageSent(t, FALSE).turn = t /\ MessageSent(u, FALSE).turn = u BY DEF MessageSent
    <3> QED BY <3>1, <3>2
  <2> QED BY <2>1, <2>2, <2>3 DEF MayRun
<1> QED BY <1>1, TurnByTurn, PTL

\* For any number of turns, once the provider is quiet and all it said is
\* ingested, no projection shows a turn that runs.
THEOREM QuietMeansQuiet == ~ Supersedes => (Spec => []QuietIsQuiet)
<1> SUFFICES ASSUME ~ Supersedes PROVE Spec => []QuietIsQuiet OBVIOUS
<1>1. ASSUME OneInv PROVE QuietIsQuiet
  <2> SUFFICES ASSUME Quiet
               PROVE  /\ session.active = NoTurn
                      /\ \A t \in Turn : rows[t].state # "running"
                      /\ view.latest.state # "running"
    BY DEF QuietIsQuiet
  <2>1. feed = <<>> /\ todo = <<>> /\ live = NoTurn BY DEF Quiet
  <2>2. PICK c \in SomeTurn : FeedInOrder(c) /\ TodoInOrder(c) BY <1>1 DEF OneInv, Order
  <2>3. c = NoTurn BY <2>1, <2>2 DEF FeedInOrder
  <2>4. session.active = NoTurn BY <2>1, <2>2, <2>3, Single DEF TodoInOrder
  <2>5. \A t \in Turn : ~ MayRun(t)
    <3> TAKE t \in Turn
    <3>1. ~ StillRunning(t) BY <2>4 DEF StillRunning, Turn, NoTurn
    <3>2. todo # <<MessageSent(t, FALSE)>> BY <2>1, Single
    <3> QED BY <3>1, <3>2 DEF MayRun
  <2> QED BY <1>1, <2>4, <2>5 DEF OneInv, RowsRun, ViewRuns
<1> QED BY <1>1, TurnByTurn, PTL

-----------------------------------------------------------------------------
(* Lists of checkpoints, one for each turn.                                  *)

Checkpoint == [turn : Turn, count : Nat, mark : Mark]

\* p picks what is in S from the first n of l.
Picks(p, l, S, n) ==
  p = [i \in 0..n |-> IF i = 0 THEN <<>> ELSE IF l[i] \in S THEN Append(p[i - 1], l[i]) ELSE p[i - 1]]

\* There is such a p: by the least n for which there is none.
LEMMA PicksExist == ASSUME NEW l, NEW S, NEW N \in Nat PROVE \E p : Picks(p, l, S, N)
<1> DEFINE Bad == {n \in Nat : ~ \E p : Picks(p, l, S, n)}
<1>1. Bad = {}
  <2> SUFFICES ASSUME Bad # {} PROVE FALSE OBVIOUS
  <2>1. PICK n \in Bad : \A m \in Bad : n <= m
    <3>1. Bad \in SUBSET Nat OBVIOUS
    <3> HIDE DEF Bad
    <3> QED BY <3>1, LeastNat
  <2>2. n \in Nat /\ ~ \E p : Picks(p, l, S, n) OBVIOUS
  <2>3. CASE n = 0
    <3>1. Picks([i \in 0..0 |-> <<>>], l, S, 0) BY DEF Picks
    <3> QED BY <2>2, <2>3, <3>1
  <2>4. CASE n # 0
    <3>1. n - 1 \in Nat /\ n - 1 \notin Bad
      <4> HIDE DEF Bad
      <4> QED BY <2>1, <2>2, <2>4
    <3>2. PICK p : Picks(p, l, S, n - 1) BY <3>1
    <3>3. PICK last : last = IF l[n] \in S THEN Append(p[n - 1], l[n]) ELSE p[n - 1] OBVIOUS
    <3>4. PICK q : q = [i \in 0..n |-> IF i < n THEN p[i] ELSE last] OBVIOUS
    <3>5. ASSUME NEW i \in 0..n
          PROVE  q[i] = IF i = 0 THEN <<>> ELSE IF l[i] \in S THEN Append(q[i - 1], l[i]) ELSE q[i - 1]
      <4>1. CASE i = n
        <5>1. q[i] = last /\ q[i - 1] = p[n - 1] BY <2>2, <2>4, <3>4, <4>1
        <5> QED BY <2>4, <3>3, <4>1, <5>1
      <4>2. CASE i < n
        <5>1. q[i] = p[i] BY <3>4, <4>2
        <5>2. i \in 0..(n - 1) BY <2>2, <4>2
        <5>3. p[i] = IF i = 0 THEN <<>> ELSE IF l[i] \in S THEN Append(p[i - 1], l[i]) ELSE p[i - 1]
          BY <3>2, <5>2, Zenon DEF Picks
        <5>4. i # 0 => q[i - 1] = p[i - 1] BY <2>2, <3>4, <4>2
        <5> QED BY <5>1, <5>3, <5>4, Zenon
      <4> QED BY <2>2, <4>1, <4>2
    <3>6. Picks(q, l, S, n)
      <4>1. q = [i \in 0..n |-> q[i]] BY <3>4
      <4> QED BY <3>5, <4>1 DEF Picks
    <3> QED BY <2>2, <3>6
  <2> QED BY <2>3, <2>4
<1> QED BY <1>1

LEMMA PicksFollow == ASSUME NEW l, NEW S, Len(l) \in Nat PROVE Picks(PicksOf(l, S), l, S, Len(l))
<1>1. \E p : p = [n \in 0..Len(l) |-> IF n = 0 THEN <<>>
                                      ELSE IF l[n] \in S THEN Append(p[n - 1], l[n]) ELSE p[n - 1]]
  <2>1. \E p : Picks(p, l, S, Len(l)) BY PicksExist
  <2> QED BY <2>1, Zenon DEF Picks
<1>2. PicksOf(l, S) = CHOOSE p : p = [n \in 0..Len(l) |->
                                       IF n = 0 THEN <<>>
                                       ELSE IF l[n] \in S THEN Append(p[n - 1], l[n]) ELSE p[n - 1]]
  BY DEF PicksOf
<1>3. PicksOf(l, S) = [n \in 0..Len(l) |->
                         IF n = 0 THEN <<>>
                         ELSE IF l[n] \in S THEN Append(PicksOf(l, S)[n - 1], l[n]) ELSE PicksOf(l, S)[n - 1]]
  BY <1>1, <1>2, Zenon
<1> QED BY <1>3 DEF Picks

LEMMA Elements ==
  ASSUME NEW C, NEW s \in Seq(C)
  PROVE  /\ \A x : x \in ToSet(s) <=> \E i \in 1..Len(s) : x = s[i]
         /\ \A c \in C : \A x : x \in ToSet(s) \/ x = c <=> x \in ToSet(Append(s, c))
         /\ \A t \in Seq(C) : \A x : x \in ToSet(s) \/ x \in ToSet(t) <=> x \in ToSet(s \o t)
<1>1. ASSUME NEW t \in Seq(C), NEW x PROVE x \in ToSet(t) <=> \E i \in 1..Len(t) : x = t[i]
  BY DEF ToSet
<1>2. ASSUME NEW c \in C, NEW x, x \in ToSet(s) \/ x = c PROVE x \in ToSet(Append(s, c))
  <2>1. /\ Append(s, c) \in Seq(C) /\ Len(Append(s, c)) = Len(s) + 1 /\ Len(s) \in Nat
        /\ \A i \in 1..Len(s) : Append(s, c)[i] = s[i]
        /\ Append(s, c)[Len(s) + 1] = c
    OBVIOUS
  <2>2. \E i \in 1..Len(Append(s, c)) : x = Append(s, c)[i]
    <3>1. CASE x = c BY <2>1, <3>1
    <3>2. CASE x \in ToSet(s)
      <4>1. PICK i \in 1..Len(s) : x = s[i] BY <1>1, <3>2
      <4>2. i \in 1..Len(Append(s, c)) /\ x = Append(s, c)[i] BY <2>1, <4>1
      <4> QED BY <4>2
    <3> QED BY <1>2, <3>1, <3>2
  <2> QED BY <1>1, <2>1, <2>2
<1>3. ASSUME NEW t \in Seq(C), NEW x, x \in ToSet(s) \/ x \in ToSet(t) PROVE x \in ToSet(s \o t)
  <2>1. /\ s \o t \in Seq(C) /\ Len(s \o t) = Len(s) + Len(t) /\ Len(s) \in Nat /\ Len(t) \in Nat
        /\ \A i \in 1..Len(s) : (s \o t)[i] = s[i]
        /\ \A i \in 1..Len(t) : (s \o t)[i + Len(s)] = t[i]
    OBVIOUS
  <2>2. \E i \in 1..Len(s \o t) : x = (s \o t)[i]
    <3>1. CASE x \in ToSet(s)
      <4>1. PICK i \in 1..Len(s) : x = s[i] BY <1>1, <3>1
      <4>2. i \in 1..Len(s \o t) /\ x = (s \o t)[i] BY <2>1, <4>1
      <4> QED BY <4>2
    <3>2. CASE x \in ToSet(t)
      <4>1. PICK i \in 1..Len(t) : x = t[i] BY <1>1, <3>2
      <4>2. i + Len(s) \in 1..Len(s \o t) /\ x = (s \o t)[i + Len(s)] BY <2>1, <4>1
      <4> QED BY <4>2
    <3> QED BY <1>3, <3>1, <3>2
  <2> QED BY <1>1, <2>1, <2>2
<1>4. ASSUME NEW c \in C, NEW x \in ToSet(Append(s, c)) PROVE x \in ToSet(s) \/ x = c
  <2>1. /\ Append(s, c) \in Seq(C) /\ Len(Append(s, c)) = Len(s) + 1 /\ Len(s) \in Nat
        /\ \A i \in 1..Len(s) : Append(s, c)[i] = s[i]
        /\ Append(s, c)[Len(s) + 1] = c
    OBVIOUS
  <2> PICK q : q = Append(s, c) OBVIOUS
  <2>2. PICK i \in 1..Len(s) + 1 : x = q[i]
    <3>1. q \in Seq(C) /\ x \in ToSet(q) BY <1>4, <2>1
    <3>2. \E i \in 1..Len(q) : x = q[i] BY <3>1 DEF ToSet
    <3> QED BY <2>1, <3>2
  <2>3. i \in 1..Len(s) \/ i = Len(s) + 1 BY <2>1
  <2> QED BY <1>1, <2>1, <2>2, <2>3
<1>5. ASSUME NEW t \in Seq(C), NEW x \in ToSet(s \o t) PROVE x \in ToSet(s) \/ x \in ToSet(t)
  <2>1. /\ s \o t \in Seq(C) /\ Len(s \o t) = Len(s) + Len(t) /\ Len(s) \in Nat /\ Len(t) \in Nat
        /\ \A i \in 1..Len(s \o t) : (s \o t)[i] = IF i <= Len(s) THEN s[i] ELSE t[i - Len(s)]
    OBVIOUS
  <2> PICK q : q = s \o t OBVIOUS
  <2>2. PICK i \in 1..Len(q) : x = q[i]
    <3>1. q \in Seq(C) /\ x \in ToSet(q) BY <1>5, <2>1
    <3> QED BY <3>1 DEF ToSet
  <2>3. i \in 1..Len(s) \/ (~ (i <= Len(s)) /\ i - Len(s) \in 1..Len(t)) BY <2>1
  <2> QED BY <1>1, <2>1, <2>2, <2>3
<1> QED BY <1>1, <1>2, <1>3, <1>4, <1>5

LEMMA InJoin ==
  ASSUME NEW C, NEW s \in Seq(C), NEW t \in Seq(C)
  PROVE  \A x : x \in ToSet(s) \/ x \in ToSet(t) <=> x \in ToSet(s \o t)
BY Elements

\* A turn has one checkpoint at most.
OneEach(l) == \A i, j \in 1..Len(l) : l[i].turn = l[j].turn => i = j

LEMMA EachAppend ==
  ASSUME NEW C, NEW s \in Seq(C), OneEach(s), NEW c \in C, \A x \in ToSet(s) : x.turn # c.turn
  PROVE  OneEach(Append(s, c))
<1>1. /\ Len(Append(s, c)) = Len(s) + 1 /\ Len(s) \in Nat
      /\ \A i \in 1..Len(s) : Append(s, c)[i] = s[i]
      /\ Append(s, c)[Len(s) + 1] = c
  OBVIOUS
<1>2. \A i \in 1..Len(s) : s[i].turn # c.turn BY Elements
<1>3. ASSUME NEW i \in 1..Len(s) + 1, NEW j \in 1..Len(s) + 1,
             Append(s, c)[i].turn = Append(s, c)[j].turn
      PROVE  i = j
  <2>1. (i \in 1..Len(s) \/ i = Len(s) + 1) /\ (j \in 1..Len(s) \/ j = Len(s) + 1) BY <1>1
  <2> QED BY <1>1, <1>2, <1>3, <2>1 DEF OneEach
<1> QED BY <1>1, <1>3 DEF OneEach

LEMMA EachJoin ==
  ASSUME NEW C, NEW s \in Seq(C), NEW t \in Seq(C), OneEach(s), OneEach(t),
         \A x \in ToSet(s), y \in ToSet(t) : x.turn # y.turn
  PROVE  OneEach(s \o t)
<1>1. /\ Len(s \o t) = Len(s) + Len(t) /\ Len(s) \in Nat /\ Len(t) \in Nat
      /\ \A i \in 1..Len(s \o t) : (s \o t)[i] = IF i <= Len(s) THEN s[i] ELSE t[i - Len(s)]
  OBVIOUS
<1>2. \A i \in 1..Len(s), j \in 1..Len(t) : s[i].turn # t[j].turn BY Elements
<1>3. ASSUME NEW i \in 1..Len(s \o t), NEW j \in 1..Len(s \o t), (s \o t)[i].turn = (s \o t)[j].turn
      PROVE  i = j
  <2>1. CASE i <= Len(s) /\ j <= Len(s)
    <3>1. i \in 1..Len(s) /\ j \in 1..Len(s) /\ s[i].turn = s[j].turn BY <1>1, <1>3, <2>1
    <3> QED BY <3>1 DEF OneEach
  <2>2. CASE ~ (i <= Len(s)) /\ ~ (j <= Len(s))
    <3>1. /\ i - Len(s) \in 1..Len(t) /\ j - Len(s) \in 1..Len(t)
          /\ t[i - Len(s)].turn = t[j - Len(s)].turn
      BY <1>1, <1>3, <2>2
    <3>2. i - Len(s) = j - Len(s) BY <3>1 DEF OneEach
    <3> QED BY <1>1, <3>2
  <2>3. CASE i <= Len(s) /\ ~ (j <= Len(s))
    <3>1. i \in 1..Len(s) /\ j - Len(s) \in 1..Len(t) /\ s[i].turn = t[j - Len(s)].turn
      BY <1>1, <1>3, <2>3
    <3> QED BY <1>2, <3>1
  <2>4. CASE ~ (i <= Len(s)) /\ j <= Len(s)
    <3>1. j \in 1..Len(s) /\ i - Len(s) \in 1..Len(t) /\ s[j].turn = t[i - Len(s)].turn
      BY <1>1, <1>3, <2>4
    <3> QED BY <1>2, <3>1
  <2> QED BY <2>1, <2>2, <2>3, <2>4
<1> QED BY <1>3 DEF OneEach

\* What is picked are the elements of the list that are in the set.
LEMMA PickedHas ==
  ASSUME NEW C, NEW l \in Seq(C), NEW S
  PROVE  /\ Picked(l, S) \in Seq(C)
         /\ \A c : c \in ToSet(Picked(l, S)) <=> c \in ToSet(l) /\ c \in S
         /\ OneEach(l) => OneEach(Picked(l, S))
<1> PICK p, N : p = PicksOf(l, S) /\ N = Len(l) OBVIOUS
<1>0. N \in Nat /\ \A i \in 1..N : l[i] \in C OBVIOUS
<1>1. Picks(p, l, S, N) BY PicksFollow
<1>2. \A n \in 0..N :
        p[n] = IF n = 0 THEN <<>> ELSE IF l[n] \in S THEN Append(p[n - 1], l[n]) ELSE p[n - 1]
  BY <1>1, Zenon DEF Picks
<1> DEFINE Good(n) == /\ p[n] \in Seq(C) /\ \A i \in 1..n : l[i] \in S => l[i] \in ToSet(p[n])
                      /\ \A c \in ToSet(p[n]) : c \in S /\ \E i \in 1..n : c = l[i]
                      /\ OneEach(l) => OneEach(p[n])
           Bad == {n \in 0..N : ~ Good(n)}
<1>3. Bad = {}
  <2> SUFFICES ASSUME Bad # {} PROVE FALSE OBVIOUS
  <2>1. PICK n \in Bad : \A m \in Bad : n <= m
    <3>1. Bad \in SUBSET Nat BY <1>0
    <3> HIDE DEF Bad
    <3> QED BY <3>1, LeastNat
  <2>2. n \in 0..N /\ ~ Good(n) OBVIOUS
  <2>3. CASE n = 0
    <3>1. p[n] = <<>> BY <1>2, <2>2, <2>3
    <3>2. p[n] \in Seq(C) /\ Len(p[n]) = 0 BY <3>1
    <3>3. ToSet(p[n]) = {} BY <3>2, Elements
    <3>4. OneEach(p[n]) BY <3>2 DEF OneEach
    <3> QED BY <2>2, <2>3, <3>2, <3>3, <3>4
  <2>4. CASE n # 0
    <3>1. n - 1 \in 0..N /\ ~ (n <= n - 1) BY <1>0, <2>2, <2>4
    <3>2. n - 1 \notin Bad
      <4> HIDE DEF Bad
      <4> QED BY <2>1, <3>1
    <3>3. /\ p[n - 1] \in Seq(C) /\ \A i \in 1..(n - 1) : l[i] \in S => l[i] \in ToSet(p[n - 1])
          /\ \A c \in ToSet(p[n - 1]) : c \in S /\ \E i \in 1..(n - 1) : c = l[i]
          /\ OneEach(l) => OneEach(p[n - 1])
      BY <3>1, <3>2
    <3>4. n \in 1..N /\ l[n] \in C BY <1>0, <2>2, <2>4
    <3>5. CASE l[n] \in S
      <4>1. p[n] = Append(p[n - 1], l[n]) BY <1>2, <2>2, <2>4, <3>5
      <4>2. p[n] \in Seq(C) BY <3>3, <3>4, <4>1
      <4>3. ASSUME NEW i \in 1..n, l[i] \in S PROVE l[i] \in ToSet(p[n])
        <5>1. l[i] \in ToSet(p[n - 1]) \/ l[i] = l[n]
          <6>1. i = n \/ i \in 1..(n - 1) BY <3>4
          <6> QED BY <3>3, <4>3, <6>1
        <5> QED BY <3>3, <3>4, <4>1, <5>1, Elements
      <4>4. ASSUME NEW c \in ToSet(p[n]) PROVE c \in S /\ \E i \in 1..n : c = l[i]
        <5>1. c \in ToSet(p[n - 1]) \/ c = l[n] BY <3>3, <3>4, <4>1, Elements
        <5>2. CASE c = l[n] BY <3>4, <3>5, <5>2
        <5>3. CASE c \in ToSet(p[n - 1])
          <6>1. PICK i \in 1..(n - 1) : c = l[i] BY <3>3, <5>3
          <6>2. i \in 1..n BY <3>4
          <6> QED BY <3>3, <5>3, <6>1, <6>2
        <5> QED BY <5>1, <5>2, <5>3
      <4>5. ASSUME OneEach(l) PROVE OneEach(p[n])
        <5>1. ASSUME NEW x \in ToSet(p[n - 1]) PROVE x.turn # l[n].turn
          <6>1. PICK i \in 1..(n - 1) : x = l[i] BY <3>3
          <6>2. i \in 1..N /\ n \in 1..N /\ i # n BY <1>0, <3>4
          <6> QED BY <4>5, <6>1, <6>2 DEF OneEach
        <5>2. OneEach(p[n - 1]) BY <3>3, <4>5
        <5> HIDE DEF Good, Bad
        <5>3. OneEach(Append(p[n - 1], l[n])) BY <3>3, <3>4, <5>1, <5>2, EachAppend
        <5> QED BY <4>1, <5>3
      <4> QED BY <2>2, <4>2, <4>3, <4>4, <4>5
    <3>6. CASE l[n] \notin S
      <4>1. p[n] = p[n - 1] BY <1>2, <2>2, <2>4, <3>6
      <4>2. \A i \in 1..n : l[i] \in S => i \in 1..(n - 1) BY <3>4, <3>6
      <4>3. \A i \in 1..(n - 1) : i \in 1..n BY <3>4
      <4>4. \A c \in ToSet(p[n]) : c \in S /\ \E i \in 1..n : c = l[i] BY <3>3, <4>1, <4>3
      <4> QED BY <2>2, <3>3, <4>1, <4>2, <4>4
    <3> QED BY <3>5, <3>6
  <2> QED BY <2>3, <2>4
<1>4. Good(N)
  <2>1. N \in 0..N BY <1>0
  <2> QED BY <1>3, <2>1
<1>5. Picked(l, S) = p[N] BY DEF Picked
<1>6. ASSUME NEW c \in ToSet(l), c \in S PROVE c \in ToSet(p[N])
  <2>1. PICK i \in 1..N : c = l[i] BY Elements
  <2> QED BY <1>4, <1>6, <2>1
<1>7. ASSUME NEW c \in ToSet(p[N]) PROVE c \in ToSet(l) /\ c \in S
  <2>1. c \in S /\ \E i \in 1..N : c = l[i] BY <1>4
  <2> QED BY <2>1, Elements
<1> QED BY <1>4, <1>5, <1>6, <1>7

LEMMA UpToHas ==
  ASSUME NEW l \in Seq(Checkpoint), NEW n
  PROVE  /\ UpTo(l, n) \in Seq(Checkpoint)
         /\ \A c \in ToSet(l) : c.count <= n => c \in ToSet(UpTo(l, n))
         /\ OneEach(l) => OneEach(UpTo(l, n))
<1> PICK S : S = {c \in ToSet(l) : c.count <= n} OBVIOUS
<1>1. UpTo(l, n) = Picked(l, S) BY DEF UpTo
<1>2. /\ Picked(l, S) \in Seq(Checkpoint)
      /\ \A c \in ToSet(l) : c \in S => c \in ToSet(Picked(l, S))
      /\ OneEach(l) => OneEach(Picked(l, S))
  BY PickedHas
<1> QED BY <1>1, <1>2

LEMMA InsertHas ==
  ASSUME NEW l \in Seq(Checkpoint), NEW c \in Checkpoint
  PROVE  /\ Insert(l, c) \in Seq(Checkpoint)
         /\ c \in ToSet(Insert(l, c))
         /\ \A d \in ToSet(l) : d.turn # c.turn => d \in ToSet(Insert(l, c))
         /\ OneEach(l) => OneEach(Insert(l, c))
<1> PICK R, A, B : /\ R = {d \in ToSet(l) : d.turn # c.turn}
                   /\ A = {d \in R : d.count <= c.count} /\ B = {d \in R : d.count > c.count}
  OBVIOUS
<1> PICK a, b, one : a = Picked(l, A) /\ b = Picked(l, B) /\ one = <<c>> OBVIOUS
<1>1. Insert(l, c) = a \o one \o b BY DEF Insert
<1>2. a \in Seq(Checkpoint) /\ \A d \in ToSet(l) : d \in A => d \in ToSet(a) BY PickedHas
<1>3. b \in Seq(Checkpoint) /\ \A d \in ToSet(l) : d \in B => d \in ToSet(b) BY PickedHas
<1>4. one \in Seq(Checkpoint) /\ c \in ToSet(one)
  <2>1. one \in Seq(Checkpoint) /\ Len(one) = 1 /\ one[1] = c OBVIOUS
  <2>2. \E i \in 1..Len(one) : c = one[i] BY <2>1
  <2> QED BY <2>1, <2>2, Elements
<1> PICK front : front = a \o one OBVIOUS
<1>5. front \in Seq(Checkpoint) /\ \A x : x \in ToSet(a) \/ x \in ToSet(one) => x \in ToSet(front)
  <2>1. front \in Seq(Checkpoint) BY <1>2, <1>4
  <2> QED BY <1>2, <1>4, <2>1, Elements
<1>6. /\ front \o b \in Seq(Checkpoint)
      /\ \A x : x \in ToSet(front) \/ x \in ToSet(b) => x \in ToSet(front \o b)
  <2>1. front \o b \in Seq(Checkpoint) BY <1>3, <1>5
  <2>2. \A x : x \in ToSet(front) \/ x \in ToSet(b) <=> x \in ToSet(front \o b) BY <1>3, <1>5, InJoin, Zenon
  <2> QED BY <2>1, <2>2, Zenon
<1>7. ASSUME NEW d \in ToSet(l), d.turn # c.turn PROVE d \in A \/ d \in B
  <2>1. d \in Checkpoint BY Elements
  <2> QED BY <1>7, <2>1 DEF Checkpoint
<1>8. ASSUME OneEach(l) PROVE OneEach(front \o b)
  <2>1. /\ OneEach(a) /\ \A d \in ToSet(a) : d \in ToSet(l) /\ d \in A
        /\ OneEach(b) /\ \A d \in ToSet(b) : d \in ToSet(l) /\ d \in B
    BY <1>8, PickedHas
  <2>2. OneEach(one) /\ \A d \in ToSet(one) : d = c
    <3>1. one \in Seq(Checkpoint) /\ Len(one) = 1 /\ one[1] = c BY <1>4
    <3>2. \A i \in 1..Len(one) : i = 1 BY <3>1
    <3>3. \A d \in ToSet(one) : \E i \in 1..Len(one) : d = one[i] BY <3>1 DEF ToSet
    <3>4. \A d \in ToSet(one) : d = c BY <3>1, <3>2, <3>3
    <3>5. OneEach(one) BY <3>2 DEF OneEach
    <3> QED BY <3>4, <3>5
  <2>3. OneEach(front)
    <3>1. \A x \in ToSet(a), y \in ToSet(one) : x.turn # y.turn BY <2>1, <2>2
    <3> QED BY <1>2, <1>4, <2>1, <2>2, <3>1, EachJoin
  <2>4. ASSUME NEW x \in ToSet(front), NEW y \in ToSet(b) PROVE x.turn # y.turn
    <3>1. x \in ToSet(a) \/ x = c BY <1>2, <1>4, <2>2, Elements
    <3>2. CASE x = c BY <2>1, <3>2
    <3>3. CASE x \in ToSet(a)
      <4>1. x \in ToSet(l) /\ y \in ToSet(l) /\ x.count <= c.count /\ y.count > c.count BY <2>1, <3>3
      <4>2. PICK i \in 1..Len(l), j \in 1..Len(l) : x = l[i] /\ y = l[j] BY <4>1, Elements
      <4>3. x.count \in Nat /\ c.count \in Nat /\ y.count \in Nat
        <5>1. x \in Checkpoint /\ y \in Checkpoint BY <4>2
        <5> QED BY <5>1 DEF Checkpoint
      <4>4. x # y BY <4>1, <4>3
      <4> QED BY <1>8, <4>2, <4>4 DEF OneEach
    <3> QED BY <3>1, <3>2, <3>3
  <2> QED BY <1>3, <1>5, <2>1, <2>3, <2>4, EachJoin
<1> QED BY <1>1, <1>2, <1>3, <1>4, <1>5, <1>6, <1>7, <1>8

\* With no more turns than the read model keeps checkpoints, it drops none.
WithinCap == MaxTurns <= MaxCheckpoints

LEMMA CapIdle ==
  ASSUME WithinCap, NEW l \in Seq(Checkpoint), OneEach(l)
  PROVE  Capped(l) = l
<1> PICK n : n = Len(l) OBVIOUS
<1>0. n \in Nat /\ \A i \in 1..n : l[i] \in Checkpoint OBVIOUS
<1> PICK f : f = [i \in 1..n |-> l[i].turn] OBVIOUS
<1>1. f \in Injection(1..n, Turn)
  <2>1. f \in [1..n -> Turn] BY <1>0 DEF Checkpoint
  <2>2. \A i, j \in 1..n : f[i] = f[j] => i = j BY DEF OneEach
  <2> QED BY <2>1, <2>2 DEF Injection, IsInjective
<1>2. ASSUME NEW k \in Nat PROVE IsFiniteSet(1..k) /\ Cardinality(1..k) = k
  <2>1. 1 \in Int /\ k \in Int OBVIOUS
  <2>2. IsFiniteSet(1..k) /\ Cardinality(1..k) = IF 1 > k THEN 0 ELSE k - 1 + 1 BY <2>1, FS_Interval, Zenon
  <2>3. k = IF 1 > k THEN 0 ELSE k - 1 + 1 OBVIOUS
  <2> QED BY <2>2, <2>3
<1>3. IsFiniteSet(Turn) /\ Cardinality(Turn) = MaxTurns BY <1>2, BoundsAssumption DEF Turn
<1>4. n <= MaxTurns
  <2>1. Cardinality(1..n) = n BY <1>0, <1>2
  <2>2. Cardinality(1..n) <= Cardinality(Turn) BY <1>1, <1>3, FS_Injection
  <2> QED BY <1>3, <2>1, <2>2
<1>5. n <= MaxCheckpoints BY <1>0, <1>4, BoundsAssumption DEF WithinCap
<1> QED BY <1>5 DEF Capped


-----------------------------------------------------------------------------
(* The read model and the clients, whose reducers are written twice.         *)

HasParts(p) == p = [checkpoints |-> p.checkpoints, latest |-> p.latest]
SameInv ==
  /\ HasParts(mem) /\ HasParts(view) /\ mem.checkpoints = view.checkpoints
  /\ mem.checkpoints \in Seq(Checkpoint) /\ OneEach(mem.checkpoints)

\* The checkpoint an event adds, and the list it goes into.
LEMMA DiffLists ==
  ASSUME WithinCap, SameInv, NEW e \in DomainEvent, e.type = "turn-diff-completed"
  PROVE  LET l == WithCheckpoint(mem, e)
             c == [turn |-> e.turn, count |-> e.count, mark |-> e.mark]
         IN /\ l \in Seq(Checkpoint) /\ OneEach(l) /\ Capped(l) = l
            /\ c \in ToSet(l) /\ \A d \in ToSet(mem.checkpoints) : d.turn # e.turn => d \in ToSet(l)
<1> PICK c, l : /\ c = [turn |-> e.turn, count |-> e.count, mark |-> e.mark]
                /\ l = WithCheckpoint(mem, e)
  OBVIOUS
<1>1. c \in Checkpoint /\ c.turn = e.turn BY Fields DEF Checkpoint
<1>2. l = Insert(mem.checkpoints, c) BY DEF WithCheckpoint
<1>3. mem.checkpoints \in Seq(Checkpoint) /\ OneEach(mem.checkpoints) BY DEF SameInv
<1>4. /\ l \in Seq(Checkpoint) /\ OneEach(l) /\ c \in ToSet(l)
      /\ \A d \in ToSet(mem.checkpoints) : d.turn # c.turn => d \in ToSet(l)
  BY <1>1, <1>2, <1>3, InsertHas
<1>5. Capped(l) = l BY <1>4, CapIdle
<1> QED BY <1>1, <1>4, <1>5

\* What a revert leaves of the list.
LEMMA RevertLists ==
  ASSUME WithinCap, SameInv, NEW n
  PROVE  LET l == UpTo(mem.checkpoints, n)
         IN /\ l \in Seq(Checkpoint) /\ OneEach(l) /\ Capped(l) = l
            /\ \A c \in ToSet(mem.checkpoints) : c.count <= n => c \in ToSet(l)
<1> PICK l : l = UpTo(mem.checkpoints, n) OBVIOUS
<1>1. mem.checkpoints \in Seq(Checkpoint) /\ OneEach(mem.checkpoints) BY DEF SameInv
<1>2. /\ l \in Seq(Checkpoint) /\ OneEach(l)
      /\ \A c \in ToSet(mem.checkpoints) : c.count <= n => c \in ToSet(l)
  BY <1>1, UpToHas
<1>3. Capped(l) = l BY <1>2, CapIdle
<1> QED BY <1>2, <1>3

\* The two reducers agree on an event: on whether a placeholder is dropped, on the
\* list a checkpoint goes into and on what a revert leaves.
LEMMA ReducersAgree == ASSUME WithinCap, SameInv, NEW e \in DomainEvent, Apply(e) PROVE SameInv'
<1> PICK m, v : m = mem' /\ v = view' OBVIOUS
<1>0. m = MemAfter(e) /\ v = ViewAfter(e) BY DEF Apply
<1>1. ASSUME NEW p, HasParts(p), NEW q, NEW l, q = p \/ q = [p EXCEPT !.latest = l]
      PROVE  HasParts(q) /\ q.checkpoints = p.checkpoints
  BY <1>1 DEF HasParts
<1>2. ASSUME NEW k, NEW l, NEW n,
             m = [checkpoints |-> k, latest |-> l], v = [checkpoints |-> k, latest |-> n],
             k \in Seq(Checkpoint), OneEach(k)
      PROVE  SameInv'
  BY <1>0, <1>2 DEF SameInv, HasParts
<1>3. ASSUME NEW l, NEW n,
             m = mem \/ m = [mem EXCEPT !.latest = l], v = view \/ v = [view EXCEPT !.latest = n]
      PROVE  SameInv'
  <2>1. HasParts(m) /\ m.checkpoints = mem.checkpoints BY <1>1, <1>3 DEF SameInv
  <2>2. HasParts(v) /\ v.checkpoints = view.checkpoints BY <1>1, <1>3 DEF SameInv
  <2> QED BY <2>1, <2>2 DEF SameInv, HasParts
<1>4. CASE e.type = "session-set" BY <1>0, <1>3, <1>4 DEF MemAfter, ViewAfter
<1>5. CASE e.type = "message-sent"
  <2>1. m = mem BY <1>0, <1>5 DEF MemAfter
  <2>2. v = ViewOfMessage(e) BY <1>0, <1>5 DEF ViewAfter
  <2>3. PICK n : v = view \/ v = [view EXCEPT !.latest = n] BY <2>2 DEF ViewOfMessage
  <2> QED BY <1>3, <2>1, <2>3
<1>6. CASE e.type = "turn-diff-completed"
  <2>1. IsClobber(mem, e) <=> IsClobber(view, e) BY DEF SameInv, IsClobber
  <2>2. CASE IsClobber(mem, e)
    <3>1. m = mem /\ v = view BY <1>0, <1>6, <2>1, <2>2 DEF MemAfter, ViewAfter
    <3> QED BY <1>3, <3>1
  <2>3. CASE ~ IsClobber(mem, e)
    <3>1. WithCheckpoint(mem, e) = WithCheckpoint(view, e) BY DEF SameInv, WithCheckpoint
    <3> PICK k : k = WithCheckpoint(mem, e) OBVIOUS
    <3>2. k \in Seq(Checkpoint) /\ OneEach(k) /\ Capped(k) = k BY <1>6, DiffLists
    <3>3. \E l : m = [checkpoints |-> k, latest |-> l] BY <1>0, <1>6, <2>3, <3>2 DEF MemAfter
    <3>4. \E n : v = [checkpoints |-> k, latest |-> n] BY <1>0, <1>6, <2>1, <2>3, <3>1 DEF ViewAfter
    <3> QED BY <1>2, <3>2, <3>3, <3>4
  <2> QED BY <2>2, <2>3
<1>7. CASE e.type = "reverted"
  <2> PICK k : k = UpTo(mem.checkpoints, e.count) OBVIOUS
  <2>1. k \in Seq(Checkpoint) /\ OneEach(k) /\ Capped(k) = k BY RevertLists
  <2>2. k = UpTo(view.checkpoints, e.count) BY DEF SameInv
  <2>3. /\ m = RevertedTo(k, StateOfMark(Last(k).mark))
        /\ v = RevertedTo(k, ViewStateOfMark(Last(k).mark))
    BY <1>0, <1>7, <2>1, <2>2 DEF MemAfter, ViewAfter
  <2>4. /\ \E l : m = [checkpoints |-> k, latest |-> l]
        /\ \E n : v = [checkpoints |-> k, latest |-> n]
    BY <2>3 DEF RevertedTo
  <2> QED BY <1>2, <2>1, <2>4
<1>8. CASE e.type \notin {"session-set", "message-sent", "turn-diff-completed", "reverted"}
  <2>1. m = mem BY <1>0, <1>8 DEF MemAfter
  <2>2. PICK n : v = view \/ v = [view EXCEPT !.latest = n] BY <1>0, <1>8 DEF ViewAfter
  <2> QED BY <1>3, <2>1, <2>2
<1> QED BY <1>4, <1>5, <1>6, <1>7, <1>8

LEMMA ReducersSame == WithinCap => (Spec => []SameInv)
<1> SUFFICES ASSUME WithinCap PROVE Spec => []SameInv OBVIOUS
<1>1. Init => SameInv
  <2> SUFFICES ASSUME Init PROVE SameInv OBVIOUS
  <2>1. HasParts(mem) /\ HasParts(view) /\ mem.checkpoints = <<>> /\ view.checkpoints = <<>>
    BY DEF Init, HasParts, Empty
  <2>2. <<>> \in Seq(Checkpoint) /\ Len(<<>>) = 0 OBVIOUS
  <2> QED BY <2>1, <2>2 DEF SameInv, OneEach
<1>2. ASSUME IInv, SameInv, [Next]_vars PROVE SameInv'
  <2>1. CASE UNCHANGED projections BY <1>2, <2>1 DEF SameInv, HasParts, projections
  <2> QED BY <1>2, <2>1, EventOrNot, ReducersAgree
<1>3. IInv /\ SameInv /\ [Next]_vars => SameInv' BY <1>2
<1> QED BY <1>1, <1>3, Invariance, PTL DEF Spec

\* A client always holds the checkpoints of the engine's read model, in the same
\* order, as long as none falls off the end of the latter: neither drops a
\* placeholder, inserts or reverts where the other does not.
THEOREM SameCheckpoints == WithinCap => (Spec => [](mem.checkpoints = view.checkpoints))
<1>1. SameInv => mem.checkpoints = view.checkpoints BY DEF SameInv
<1> QED BY <1>1, ReducersSame, PTL

-----------------------------------------------------------------------------
(* The checkpoints of the tables are those of the read model.                *)

\* The read model has the checkpoint of turn t that the tables have.
Matched(t) == [turn |-> t, count |-> rows[t].count, mark |-> rows[t].mark] \in ToSet(mem.checkpoints)

\* Or the tables have a placeholder, and the reactor is to replace it.
Placeholder(e, t) == e.type = "turn-diff-completed" /\ e.turn = t /\ e.mark = "missing"
Queued(t) == \E i \in 1..Len(work) : Placeholder(work[i], t)
AtWork(t) == job.step \in {"capture", "captured"} /\ job.turn = t
Awaited(t) == rows[t].mark = "missing" /\ (Queued(t) \/ AtWork(t))

KnownInv == used.faults = 0 => \A t \in Turn : rows[t].count # 0 => Matched(t) \/ Awaited(t)

\* A row with another state keeps its checkpoint.
LEMMA NewStateMark ==
  ASSUME NEW r \in Row, NEW s
  PROVE  [r EXCEPT !.state = s].count = r.count /\ [r EXCEPT !.state = s].mark = r.mark
  BY DEF Row

SameMarks(new) == \A t \in Turn : new[t].count = rows[t].count /\ new[t].mark = rows[t].mark

\* Only checkpoints and reverts change the checkpoints of the tables.
LEMMA MarksStay ==
  ASSUME TypeOK, NEW e \in DomainEvent, e.type \notin {"turn-diff-completed", "reverted"}
  PROVE  SameMarks(RowsAfter(e))
<1>0. rows \in [Turn -> Row] BY RowTypes
<1> PICK new : new = RowsAfter(e) OBVIOUS
<1>1. ASSUME \A t \in Turn : new[t] = rows[t] \/ \E s : new[t] = [rows[t] EXCEPT !.state = s]
      PROVE  SameMarks(new)
  <2> SUFFICES ASSUME NEW t \in Turn PROVE new[t].count = rows[t].count /\ new[t].mark = rows[t].mark
    BY DEF SameMarks
  <2>1. rows[t] \in Row BY <1>0
  <2>2. CASE new[t] = rows[t] BY <2>2
  <2>3. CASE \E s : new[t] = [rows[t] EXCEPT !.state = s]
    <3>1. PICK s : new[t] = [rows[t] EXCEPT !.state = s] BY <2>3
    <3> QED BY <2>1, <3>1, NewStateMark
  <2> QED BY <1>1, <2>2, <2>3
<1>2. CASE e.type = "session-set"
  <2>1. new = RowsOfSession(e) BY <1>2 DEF RowsAfter
  <2>2. \A t \in Turn : new[t] = rows[t] \/ \E s : new[t] = [rows[t] EXCEPT !.state = s]
    BY <2>1 DEF RowsOfSession
  <2> QED BY <1>1, <2>2
<1>3. CASE e.type = "message-sent"
  <2>1. new = RowsOfMessage(e) /\ e.turn \in Turn BY <1>3, Fields DEF RowsAfter
  <2>2. PICK s : new = [rows EXCEPT ![e.turn].state = s] BY <2>1 DEF RowsOfMessage
  <2>3. \A t \in Turn : new[t] = rows[t] \/ new[t] = [rows[t] EXCEPT !.state = s] BY <1>0, <2>1, <2>2
  <2> QED BY <1>1, <2>3
<1>4. CASE e.type = "turn-interrupt-requested"
  <2>1. new = [rows EXCEPT ![e.turn].state = "interrupted"] /\ e.turn \in Turn
    BY <1>4, Fields DEF RowsAfter
  <2>2. \A t \in Turn : new[t] = rows[t] \/ new[t] = [rows[t] EXCEPT !.state = "interrupted"]
    BY <1>0, <2>1
  <2> QED BY <1>1, <2>2
<1>5. CASE e.type \in {"turn-start-requested", "checkpoint-revert-requested"}
  <2>1. new = rows BY <1>5 DEF RowsAfter
  <2> QED BY <1>1, <2>1
<1> QED BY <1>2, <1>3, <1>4, <1>5, Fields

\* What an event makes of the checkpoints of the read model.
LEMMA MemChanges ==
  ASSUME WithinCap, SameInv, NEW e \in DomainEvent, Apply(e)
  PROVE  /\ e.type \notin {"turn-diff-completed", "reverted"} => mem'.checkpoints = mem.checkpoints
         /\ e.type = "turn-diff-completed" =>
              /\ \A c \in ToSet(mem.checkpoints) : c.turn # e.turn => c \in ToSet(mem'.checkpoints)
              /\ \/ e.mark = "missing"
                 \/ [turn |-> e.turn, count |-> e.count, mark |-> e.mark] \in ToSet(mem'.checkpoints)
         /\ e.type = "reverted" =>
              \A c \in ToSet(mem.checkpoints) : c.count <= e.count => c \in ToSet(mem'.checkpoints)
<1> PICK l, k : l = mem.checkpoints /\ k = mem'.checkpoints OBVIOUS
<1>0. mem' = MemAfter(e) BY DEF Apply
<1>1. CASE e.type \notin {"turn-diff-completed", "reverted"}
  <2>1. mem' = mem \/ \E n : mem' = [mem EXCEPT !.latest = n] BY <1>0, <1>1 DEF MemAfter
  <2>2. k = l BY <2>1 DEF SameInv, HasParts
  <2> QED BY <1>1, <2>2
<1>2. CASE e.type = "turn-diff-completed"
  <2> PICK c : c = [turn |-> e.turn, count |-> e.count, mark |-> e.mark] OBVIOUS
  <2>2. CASE IsClobber(mem, e)
    <3>1. e.mark = "missing" BY <2>2 DEF IsClobber
    <3>2. mem' = mem BY <1>0, <1>2, <2>2 DEF MemAfter
    <3> QED BY <1>2, <3>1, <3>2
  <2>3. CASE ~ IsClobber(mem, e)
    <3>1. k = Capped(WithCheckpoint(mem, e)) BY <1>0, <1>2, <2>3 DEF MemAfter
    <3>2. c \in ToSet(k) /\ \A d \in ToSet(l) : d.turn # e.turn => d \in ToSet(k)
      BY <1>2, <3>1, DiffLists
    <3> QED BY <1>2, <3>2
  <2> QED BY <2>2, <2>3
<1>3. CASE e.type = "reverted"
  <2>1. k = Capped(UpTo(l, e.count)) BY <1>0, <1>3 DEF MemAfter, RevertedTo
  <2>2. \A c \in ToSet(l) : c.count <= e.count => c \in ToSet(k) BY <2>1, RevertLists
  <2> QED BY <1>3, <2>2
<1> QED BY <1>1, <1>2, <1>3

\* What an event appends stays behind what waits already.
LEMMA QueueGrows ==
  ASSUME work \in Queue, NEW e \in RuntimeEvent \cup DomainEvent, work' = Append(work, e) \/ work' = work,
         NEW t, Queued(t) \/ (Placeholder(e, t) /\ work' = Append(work, e))
  PROVE  Queued(t)'
<1> PICK n : n = Len(work) OBVIOUS
<1>1. n \in Nat BY DEF Queue
<1>2. CASE work' = work
  <2>1. Queued(t) \/ (Placeholder(e, t) /\ work' = Append(work, e)) OBVIOUS
  <2>2. Append(work, e) # work
    <3>1. Len(Append(work, e)) = n + 1 BY DEF Queue
    <3> QED BY <1>1, <3>1
  <2> QED BY <1>2, <2>1, <2>2 DEF Queued
<1>3. CASE work' = Append(work, e)
  <2>1. /\ Len(work') = n + 1 /\ work'[n + 1] = e
        /\ \A i \in 1..n : work'[i] = work[i]
    BY <1>1, <1>3 DEF Queue
  <2>2. CASE Placeholder(e, t)
    <3>1. n + 1 \in 1..Len(work') /\ Placeholder(work'[n + 1], t) BY <1>1, <2>1, <2>2
    <3> QED BY <3>1 DEF Queued, Placeholder
  <2>3. CASE Queued(t)
    <3>1. PICK i \in 1..n : Placeholder(work[i], t) BY <2>3 DEF Queued
    <3>2. i \in 1..Len(work') /\ Placeholder(work'[i], t) BY <1>1, <2>1, <3>1
    <3> QED BY <3>2 DEF Queued, Placeholder
  <2> QED BY <2>2, <2>3
<1> QED BY <1>2, <1>3

\* An event whose checkpoint, if it is the job's, ends the job.
LEMMA KnownEvent ==
  ASSUME WithinCap, IInv, SameInv, KnownInv, NEW e \in DomainEvent, Dispatch(e),
         used'.faults = 0 => used.faults = 0,
         \/ job' = job \/ job.step = "finish"
         \/ job.step = "captured" /\ e.type = "turn-diff-completed" /\ e.turn = job.turn
  PROVE  KnownInv'
<1>0. /\ rows \in [Turn -> Row] /\ work \in Queue /\ TypeOK /\ Apply(e)
      /\ rows' = RowsAfter(e) /\ work' = IF Concerns(e) THEN Append(work, e) ELSE work
  BY TypesBefore DEF IInv, Types, Dispatch, Apply
<1>1. ASSUME NEW t \in Turn, Awaited(t), rows'[t].mark = rows[t].mark,
             e.type = "turn-diff-completed" => e.turn # t
      PROVE  Awaited(t)'
  <2>1. CASE Queued(t)
    <3>1. Queued(t)' BY <1>0, <2>1, QueueGrows
    <3> QED BY <1>1, <3>1 DEF Awaited
  <2>2. CASE AtWork(t)
    <3>1. job' = job BY <1>1, <2>2 DEF AtWork
    <3> QED BY <1>1, <2>2, <3>1 DEF Awaited, AtWork
  <2> QED BY <1>1, <2>1, <2>2 DEF Awaited
<1>2. ASSUME used'.faults = 0, NEW t \in Turn, rows'[t].count # 0 PROVE Matched(t)' \/ Awaited(t)'
  <2> PICK c : c = [turn |-> t, count |-> rows[t].count, mark |-> rows[t].mark] OBVIOUS
  <2>0. rows[t].count # 0 => c \in ToSet(mem.checkpoints) \/ Awaited(t)
    BY <1>2 DEF KnownInv, Matched
  <2>1. CASE e.type \notin {"turn-diff-completed", "reverted"}
    <3>1. rows'[t].count = rows[t].count /\ rows'[t].mark = rows[t].mark
      BY <1>0, <2>1, MarksStay DEF SameMarks
    <3>2. mem'.checkpoints = mem.checkpoints BY <1>0, <2>1, MemChanges
    <3>3. c \in ToSet(mem.checkpoints) => Matched(t)' BY <3>1, <3>2 DEF Matched
    <3>4. Awaited(t) => Awaited(t)' BY <1>1, <2>1, <3>1
    <3> QED BY <1>2, <2>0, <3>1, <3>3, <3>4
  <2>2. CASE e.type = "turn-diff-completed" /\ t = e.turn
    <3>1. rows'[t].count = e.count /\ rows'[t].mark = e.mark
      <4>1. rows' = RowsOfDiff(e) BY <1>0, <2>2 DEF RowsAfter
      <4> QED BY <2>2, <4>1 DEF RowsOfDiff
    <3>2. CASE e.mark = "missing"
      <4>1. work' = Append(work, e) BY <1>0, <2>2 DEF Concerns
      <4>2. Placeholder(e, t) BY <2>2, <3>2 DEF Placeholder
      <4>3. e \in RuntimeEvent \cup DomainEvent OBVIOUS
      <4>4. Queued(t)' BY <1>0, <4>1, <4>2, <4>3, QueueGrows
      <4> QED BY <3>1, <3>2, <4>4 DEF Awaited
    <3>3. CASE e.mark # "missing"
      <4>1. [turn |-> e.turn, count |-> e.count, mark |-> e.mark] \in ToSet(mem'.checkpoints)
        BY <1>0, <2>2, <3>3, MemChanges
      <4>2. Matched(t)' BY <2>2, <3>1, <4>1 DEF Matched
      <4> QED BY <4>2
    <3> QED BY <3>2, <3>3
  <2>3. CASE e.type = "turn-diff-completed" /\ t # e.turn
    <3>1. rows' = RowsOfDiff(e) BY <1>0, <2>3 DEF RowsAfter
    <3>2. rows'[t] = rows[t] \/ rows'[t] = [NoRow EXCEPT !.state = rows[t].state]
      BY <2>3, <3>1 DEF RowsOfDiff
    <3>3. [NoRow EXCEPT !.state = rows[t].state].count = 0 BY DEF NoRow
    <3>4. rows'[t] = rows[t] BY <1>2, <3>2, <3>3
    <3>5. c.turn = t OBVIOUS
    <3>6. c \in ToSet(mem.checkpoints) => c \in ToSet(mem'.checkpoints)
      BY <1>0, <2>3, <3>5, MemChanges
    <3>7. c \in ToSet(mem.checkpoints) => Matched(t)' BY <3>4, <3>6 DEF Matched
    <3>8. Awaited(t) => Awaited(t)' BY <1>1, <2>3, <3>4
    <3> QED BY <1>2, <2>0, <3>4, <3>7, <3>8
  <2>4. CASE e.type = "reverted"
    <3>0. e.count \in Nat BY <2>4, Fields
    <3>1. rows'[t] = IF t \in Kept(e.count) THEN rows[t] ELSE NoRow BY <1>0, <2>4 DEF RowsAfter
    <3>2. NoRow.count = 0 BY DEF NoRow
    <3>3. t \in Kept(e.count) /\ rows'[t] = rows[t] BY <1>2, <3>1, <3>2
    <3>4. c.count <= e.count BY <3>0, <3>3 DEF Kept
    <3>5. c \in ToSet(mem.checkpoints) => c \in ToSet(mem'.checkpoints)
      BY <1>0, <2>4, <3>4, MemChanges
    <3>6. c \in ToSet(mem.checkpoints) => Matched(t)' BY <3>3, <3>5 DEF Matched
    <3>7. Awaited(t) => Awaited(t)' BY <1>1, <2>4, <3>3
    <3> QED BY <1>2, <2>0, <3>3, <3>6, <3>7
  <2> QED BY <2>1, <2>2, <2>3, <2>4
<1> QED BY <1>2 DEF KnownInv

\* A step without an event, for which each placeholder stays awaited.
LEMMA KnownQuiet ==
  ASSUME KnownInv, UNCHANGED projections, used'.faults = 0 => used.faults = 0,
         \A t \in Turn : Awaited(t) /\ used'.faults = 0 => Awaited(t)'
  PROVE  KnownInv'
<1>1. rows' = rows /\ mem' = mem BY DEF projections
<1>2. \A t \in Turn : Matched(t)' <=> Matched(t) BY <1>1 DEF Matched
<1> QED BY <1>1, <1>2 DEF KnownInv

\* One more fault is not none.
LEMMA Faulty == ASSUME used \in Used, Fails PROVE used'.faults # 0
<1>1. used.faults \in Nat /\ used'.faults = used.faults + 1 BY DEF Used, Fails
<1> QED BY <1>1

\* What the provider reports does not touch what the reactor waits for.
LEMMA KnownReports ==
  ASSUME IInv, KnownInv,
         \/ JoinTurn \/ OpenTurn \/ ProviderExits
         \/ \E s \in {"completed", "failed", "interrupted"}, text \in BOOLEAN : EndTurn(s, text)
         \/ \E r \in Reports : Report(r)
  PROVE  KnownInv'
<1>0. used \in Used /\ work \in Queue BY TypesBefore DEF IInv
<1>1. rows' = rows /\ job' = job /\ UNCHANGED projections
  BY DEF JoinTurn, OpenTurn, EndTurn, ProviderExits, Report, projections, reactor
<1>2. used'.faults = 0 => used.faults = 0
  <2>1. CASE ProviderExits
    <3>1. used'.faults = used.faults + 1 /\ used.faults \in Nat BY <1>0, <2>1 DEF ProviderExits, Used
    <3> QED BY <3>1
  <2>2. CASE JoinTurn BY <2>2 DEF JoinTurn
  <2>3. CASE OpenTurn BY <1>0, <2>3 DEF OpenTurn, Used
  <2>4. CASE \E s \in {"completed", "failed", "interrupted"}, text \in BOOLEAN : EndTurn(s, text)
    BY <1>0, <2>4 DEF EndTurn, Used
  <2>5. CASE \E r \in Reports : Report(r) BY <1>0, <2>5 DEF Report, Used
  <2> QED BY <2>1, <2>2, <2>3, <2>4, <2>5
<1>3. work' = work \/ \E e : work' = Append(work, e)
  BY DEF JoinTurn, OpenTurn, EndTurn, ProviderExits, Report, Emit, reactor
<1>4. ASSUME NEW t \in Turn, Queued(t) PROVE Queued(t)'
  <2>1. PICK i \in 1..Len(work) : Placeholder(work[i], t) BY <1>4 DEF Queued
  <2>2. i \in 1..Len(work') /\ work'[i] = work[i] BY <1>0, <1>3, <2>1 DEF Queue
  <2> QED BY <2>1, <2>2 DEF Queued, Placeholder
<1>5. \A t \in Turn : Awaited(t) => Awaited(t)' BY <1>1, <1>4 DEF Awaited, AtWork
<1> QED BY <1>1, <1>2, <1>5, KnownQuiet

\* A placeholder that the reactor takes is captured: its row names no capture yet.
LEMMA KnownTake == ASSUME IInv, KnownInv, Take PROVE KnownInv'
<1> PICK e : e = Head(work) OBVIOUS
<1>0. used \in Used /\ work \in Queue /\ rows \in [Turn -> Row] BY TypesBefore DEF IInv
<1>1. /\ job = NoJob /\ work # <<>> /\ work' = Tail(work) /\ rows' = rows /\ UNCHANGED projections
      /\ \/ (TakeCompletion(e) \/ TakeDiff(e)) /\ UNCHANGED <<refs, used>>
         \/ TakeStart(e)
         \/ TakeRevert(e)
  BY DEF Take, projections
<1>2. used' = used \/ Fails BY <1>1 DEF TakeStart, TakeRevert
<1>3. used'.faults = 0 => used.faults = 0 BY <1>0, <1>2, Faulty
<1>4. ASSUME NEW t \in Turn, Awaited(t) PROVE Awaited(t)'
  <2>1. ~ AtWork(t) BY <1>1 DEF AtWork, NoJob
  <2>2. rows[t].mark = "missing" /\ Queued(t) BY <1>4, <2>1 DEF Awaited
  <2>3. PICK i \in 1..Len(work) : Placeholder(work[i], t) BY <2>2 DEF Queued
  <2>4. CASE i = 1
    <3>1. e.type = "turn-diff-completed" /\ e.turn = t /\ e.mark = "missing"
      <4>1. Placeholder(e, t) BY <1>0, <1>1, <2>3, <2>4 DEF Queue
      <4> QED BY <4>1 DEF Placeholder
    <3>2. TakeDiff(e) BY <1>1, <3>1 DEF TakeCompletion, TakeStart, TakeRevert
    <3>3. ~ Captured(t) BY <2>2 DEF Captured
    <3>4. job' = [step |-> "capture", turn |-> t, mark |-> "ready", count |-> e.count]
      BY <3>1, <3>2, <3>3 DEF TakeDiff
    <3>5. job'.step = "capture" /\ job'.turn = t BY <3>4
    <3> QED BY <1>1, <2>2, <3>5 DEF Awaited, AtWork
  <2>5. CASE i # 1
    <3>1. i - 1 \in 1..Len(work') /\ work'[i - 1] = work[i] BY <1>0, <1>1, <2>3, <2>5 DEF Queue
    <3>2. Queued(t)' BY <2>3, <3>1 DEF Queued, Placeholder
    <3> QED BY <1>1, <2>2, <3>2 DEF Awaited
  <2> QED BY <2>4, <2>5
<1> QED BY <1>1, <1>3, <1>4, KnownQuiet

\* The other steps that dispatch nothing.
LEMMA KnownOthers ==
  ASSUME IInv, KnownInv,
         HandleEvent \/ Capture \/ Rollback \/ PruneRefs \/ CallFails \/ UNCHANGED vars
  PROVE  KnownInv'
<1>0. used \in Used /\ job \in JobState BY TypesBefore DEF IInv
<1>1. rows' = rows /\ work' = work /\ UNCHANGED projections
  BY DEF HandleEvent, Capture, Rollback, PruneRefs, CallFails, vars, projections, reactor
<1>2. \A t : Queued(t)' <=> Queued(t) BY <1>1 DEF Queued, Placeholder
<1>3. CASE CallFails
  <2>1. used'.faults # 0 BY <1>0, <1>3, Faulty DEF CallFails
  <2> QED BY <1>1, <2>1, KnownQuiet
<1>4. ASSUME used' = used, \A t \in Turn : AtWork(t) => AtWork(t)' PROVE KnownInv'
  <2>1. \A t \in Turn : Awaited(t) => Awaited(t)' BY <1>1, <1>2, <1>4 DEF Awaited
  <2> QED BY <1>1, <1>4, <2>1, KnownQuiet
<1>5. CASE HandleEvent \/ UNCHANGED vars
  <2>1. used' = used /\ job' = job BY <1>5 DEF HandleEvent, vars, reactor
  <2> QED BY <1>4, <2>1 DEF AtWork
<1>6. CASE Capture
  <2>1. used' = used /\ job.step = "capture" /\ job' = [job EXCEPT !.step = "captured"]
    BY <1>6 DEF Capture
  <2>2. job \in [step : {"capture", "captured"}, turn : Turn, mark : Mark, count : Nat]
    BY <1>0, <2>1, JobFields
  <2>3. job'.step = "captured" /\ job'.turn = job.turn BY <2>1, <2>2
  <2> QED BY <1>4, <2>1, <2>3 DEF AtWork
<1>7. CASE Rollback \/ PruneRefs
  <2>1. used' = used /\ job.step \in {"rollback", "prune"} BY <1>7 DEF Rollback, PruneRefs
  <2> QED BY <1>4, <2>1 DEF AtWork
<1> QED BY <1>3, <1>5, <1>6, <1>7

\* The steps that dispatch: a capture that is recorded is the job's.
LEMMA KnownDispatch ==
  ASSUME WithinCap, IInv, SameInv, KnownInv,
         \/ StartTurn \/ (\E n \in Count : AskRevert(n)) \/ AskInterrupt \/ AnnounceStart
         \/ DispatchNext \/ RecordCapture \/ FinishRevert
  PROVE  KnownInv'
<1>0. live \in SomeTurn /\ todo \in Seq(Ingested) /\ job \in JobState /\ used \in Used
  BY TypesBefore DEF IInv
<1>1. used'.faults = used.faults
  BY <1>0
  DEF StartTurn, AskRevert, AskInterrupt, AnnounceStart, DispatchNext, RecordCapture, FinishRevert, Used
<1>2. CASE StartTurn
  <2>1. Dispatch(StartRequested) /\ job' = job BY <1>2 DEF StartTurn
  <2> QED BY <1>1, <2>1, Events, KnownEvent
<1>3. CASE \E n \in Count : AskRevert(n)
  <2>1. PICK n \in Count : AskRevert(n) BY <1>3
  <2>2. Dispatch(RevertRequested(n)) /\ job' = job BY <2>1 DEF AskRevert
  <2>3. n \in Nat BY BoundsAssumption DEF Count
  <2> QED BY <1>1, <2>2, <2>3, Events, KnownEvent
<1>4. CASE AskInterrupt
  <2> PICK e : e = InterruptRequested(live) OBVIOUS
  <2>1. live \in Turn BY <1>0, <1>4 DEF AskInterrupt, SomeTurn
  <2>2. Dispatch(e) /\ job' = job /\ e \in DomainEvent BY <1>4, <2>1, Events DEF AskInterrupt
  <2> QED BY <1>1, <2>2, KnownEvent
<1>5. CASE AnnounceStart
  <2> PICK e : e = SessionSet("starting", NoTurn) OBVIOUS
  <2>1. "starting" \in Announced /\ NoTurn \in SomeTurn BY DEF Announced, SomeTurn
  <2>2. Dispatch(e) /\ job' = job /\ e \in DomainEvent BY <1>5, <2>1, Events DEF AnnounceStart
  <2> QED BY <1>1, <2>2, KnownEvent
<1>6. CASE DispatchNext
  <2> PICK e : e = Head(todo) OBVIOUS
  <2>1. todo # <<>> /\ Dispatch(e) /\ job' = job BY <1>6 DEF DispatchNext
  <2>2. e \in DomainEvent BY <1>0, <2>1 DEF Ingested
  <2> QED BY <1>1, <2>1, <2>2, KnownEvent
<1>7. CASE RecordCapture
  <2> PICK e : e = DiffCompleted(job.turn, job.count, job.mark, TRUE) OBVIOUS
  <2>1. job.step = "captured" /\ Dispatch(e) /\ e.type = "turn-diff-completed" /\ e.turn = job.turn
    BY <1>7 DEF RecordCapture, DiffCompleted
  <2>2. job.turn \in Turn /\ job.mark \in Mark /\ job.count \in Nat BY <1>0, <2>1, JobFields
  <2>3. TRUE \in BOOLEAN OBVIOUS
  <2>4. e \in DomainEvent BY <2>2, <2>3, Events
  <2> QED BY <1>1, <2>1, <2>4, KnownEvent
<1>8. CASE FinishRevert
  <2> PICK e : e = Reverted(job.count) OBVIOUS
  <2>1. job.step = "finish" /\ Dispatch(e) BY <1>8 DEF FinishRevert
  <2>2. e \in DomainEvent BY <1>0, <2>1, JobFields, Events
  <2> QED BY <1>1, <2>1, <2>2, KnownEvent
<1> QED BY <1>2, <1>3, <1>4, <1>5, <1>6, <1>7, <1>8

\* What the read model lacks of the tables' checkpoints, the reactor is to add.
THEOREM CheckpointsFollow == WithinCap => (Spec => []KnownInv)
<1> SUFFICES ASSUME WithinCap PROVE Spec => []KnownInv OBVIOUS
<1>1. Init => KnownInv
  <2> SUFFICES ASSUME Init PROVE KnownInv OBVIOUS
  <2>1. \A t \in Turn : rows[t].count = 0 BY DEF Init, NoRow
  <2> QED BY <2>1 DEF KnownInv
<1>2. ASSUME IInv, SameInv, KnownInv, [Next]_vars PROVE KnownInv'
  <2>1. CASE Environment BY <1>2, <2>1, KnownDispatch, KnownReports, KnownOthers DEF Environment
  <2>2. CASE Start BY <1>2, <2>2, KnownDispatch, KnownReports DEF Start
  <2>3. CASE Ingestion BY <1>2, <2>3, KnownDispatch, KnownOthers DEF Ingestion
  <2>4. CASE Reactor BY <1>2, <2>4, KnownDispatch, KnownTake, KnownOthers DEF Reactor
  <2>5. CASE UNCHANGED vars BY <1>2, <2>5, KnownOthers
  <2> QED BY <1>2, <2>1, <2>2, <2>3, <2>4, <2>5 DEF Next
<1>3. IInv /\ SameInv /\ KnownInv /\ [Next]_vars => KnownInv' BY <1>2
<1> QED BY <1>1, <1>3, Invariance, ReducersSame, PTL DEF Spec

\* When everything has been processed and no call failed, the tables, the read
\* model and the clients hold the same checkpoint of every turn, whatever
\* placeholders came late and whatever was reverted, for as many turns as the
\* read model keeps checkpoints.
THEOREM CheckpointsAgree == WithinCap => (Spec => []CheckpointsKnown)
<1>1. ASSUME SameInv, KnownInv PROVE CheckpointsKnown
  <2> SUFFICES ASSUME Still, used.faults = 0
               PROVE  /\ mem.checkpoints = view.checkpoints
                      /\ \A t \in Turn : rows[t].count # 0 =>
                           \E c \in ToSet(mem.checkpoints) :
                             c = [turn |-> t, count |-> rows[t].count, mark |-> rows[t].mark]
    BY DEF CheckpointsKnown
  <2>1. mem.checkpoints = view.checkpoints BY <1>1 DEF SameInv
  <2>2. ASSUME NEW t \in Turn, rows[t].count # 0 PROVE Matched(t)
    <3>1. work = <<>> /\ job.step = "idle" BY DEF Still, NoJob
    <3>2. ~ Queued(t) BY <3>1 DEF Queued
    <3>3. ~ AtWork(t) BY <3>1 DEF AtWork
    <3> QED BY <1>1, <2>2, <3>2, <3>3 DEF KnownInv, Awaited
  <2> QED BY <2>1, <2>2 DEF Matched
<1>2. SameInv /\ KnownInv => CheckpointsKnown BY <1>1
<1> QED BY <1>2, CheckpointsFollow, ReducersSame, PTL
=============================================================================
