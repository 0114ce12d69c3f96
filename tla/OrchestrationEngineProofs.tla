---------------------- MODULE OrchestrationEngineProofs ----------------------
(***************************************************************************)
(* Safety of the engine for every decider, every set of calls and commands,*)
(* any number of storage failures and crashes, and every release history.  *)
(*                                                                         *)
(* ExactlyOnce, AnswersDurable, ReceiptsFinal and HeadMonotonic follow from*)
(* IInv, which says what the fiber may rely on at each pc: between the     *)
(* receipt lookup and the end of the envelope nobody else writes the       *)
(* command's receipt (VerdictInv), the open transaction holds events of    *)
(* that command only (BatchInv), and the read model is never ahead of the  *)
(* log (HeadInv).                                                          *)
(*                                                                         *)
(* The second part is what the engine owes to its log: tables, read model  *)
(* and stream follow it, and the engine implements CommandLog.  Three      *)
(* conditions are needed there, which the code does not meet in every case *)
(* (README, 5):                                                            *)
(*   - the log is within what a bootstrap and a reconciliation read        *)
(*     (WithinLimit);                                                      *)
(*   - no commit reports a failure in a behaviour in which a               *)
(*     reconciliation fails (OneOfTwo);                                    *)
(*   - tables that reflect the whole log hydrate to its state, also for    *)
(*     the projectors an older release lacks (HydrateIsState, SomeCursor). *)
(***************************************************************************)
EXTENDS OrchestrationEngine, FiniteSetTheorems, SequenceTheorems, WellFoundedInduction, TLAPS

LogEvent == [command : Command, body : Body]

\* What getCommandReadModel reads is a read model.
HydrateTypes ==
  \A l \in Seq(LogEvent), a \in [Projector -> SUBSET Nat] : Hydrate(l, a) \in Model

\* The envelope in hand, by pc.
EnvelopeInv ==
  /\ pc \in {"receipt", "transaction", "publish", "reconcile", "replay", "fail"} => call \in Call
  /\ pc \in {"down", "boot", "idle", "receipt", "transaction"} => error = "none"
  /\ pc \in {"reconcile", "replay"} => error # "none"
  /\ pc \in {"down", "boot", "idle", "receipt", "transaction", "reconcile"} => outbox = <<>>

\* The command in hand keeps the verdict the lookup found, until this envelope
\* records its own.
VerdictInv ==
  /\ pc = "transaction" => receipts[Cmd] = NoReceipt
  /\ pc \in {"reconcile", "replay", "publish"} /\ error = "invariant" => receipts[Cmd] = NoReceipt
  /\ pc = "publish" /\ error = "none" => receipts[Cmd] = AcceptedReceipt(model.seq)

\* The open transaction is the command's own, and will not be empty.
BatchInv ==
  pc = "transaction" => /\ \A n \in DOMAIN tx.events : tx.events[n].command = Cmd
                        /\ todo # <<>> \/ tx.events # <<>>

\* Neither the projectors, the read model nor the publisher is ahead of the log.
HeadInv ==
  /\ boot.upto <= Len(log)
  /\ \A p \in Projector : cursor[p] <= Len(log)
  /\ model.seq <= Len(log)
  /\ pc \in {"down", "boot"} => model.seq = 0
  /\ pc \in {"receipt", "transaction", "reconcile", "replay"} => start = model.seq
  /\ pc = "replay" => /\ start + Len(outbox) <= Len(log)
                      /\ \A n \in DOMAIN outbox : outbox[n] <= start + Len(outbox)
  /\ pc = "publish" => \A n \in DOMAIN outbox : outbox[n] <= model.seq

Control == EnvelopeInv /\ VerdictInv /\ BatchInv

IInv == TypeOK /\ Control /\ ExactlyOnce /\ AnswersDurable /\ HeadInv

-----------------------------------------------------------------------------
(* Lemmas about the operators.                                              *)

LEMMA UpToProperties ==
  ASSUME NEW a \in Nat, NEW b \in Nat, a <= b
  PROVE  /\ UpTo(a, b) \in Seq(Nat)
         /\ Len(UpTo(a, b)) = b - a
         /\ DOMAIN UpTo(a, b) = 1..(b - a)
         /\ \A i \in 1..(b - a) : UpTo(a, b)[i] = a + i
<1>1. b - a \in Nat OBVIOUS
<1>2. \A i \in 1..(b - a) : a + i \in Nat OBVIOUS
<1>3. UpTo(a, b) \in [1..(b - a) -> Nat] BY <1>2 DEF UpTo
<1> QED BY <1>1, <1>3 DEF UpTo

\* The least cursor of the required projectors is a place in the log.
LEMMA SnapshotInLog ==
  ASSUME TypeOK, \A p \in Projector : cursor[p] <= Len(log)
  PROVE  SnapshotSequence \in Nat /\ SnapshotSequence <= Len(log)
<1> DEFINE cursors == {cursor[p] : p \in Required \cap release}
<1>1. cursors \subseteq Nat /\ \A n \in cursors : n <= Len(log)
  BY ProjectorsAssumption DEF TypeOK
<1>2. CASE cursors = {}
  BY <1>2 DEF SnapshotSequence, TypeOK
<1>3. CASE cursors # {}
  <2> DEFINE L == 1..Len(log)
             intervals == {1..n : n \in cursors}
  <2>1. Len(log) \in Nat BY DEF TypeOK
  <2>2. IsFiniteSet(L)
    <3>1. 1 \in Int /\ Len(log) \in Int BY <2>1
    <3> QED BY <3>1, FS_Interval
  <2>3. IsWellFoundedOn(StrictSubsetOrdering(L), FiniteSubsetsOf(L))
    BY FS_StrictSubsetOrderingWellFounded
  <2>4. intervals # {} BY <1>3
  <2>5. \A n \in cursors : 1..n \subseteq L BY <1>1, <2>1, SMTT(30)
  <2>6. \A n \in cursors : IsFiniteSet(1..n) BY <2>2, <2>5, FS_Subset
  <2>7. intervals \subseteq FiniteSubsetsOf(L) BY <2>5, <2>6 DEF FiniteSubsetsOf
  <2>8. PICK i \in intervals : \A j \in intervals : ~ (<<j, i>> \in StrictSubsetOrdering(L))
    BY <2>3, <2>4, <2>7, WFMin
  <2>9. PICK n \in cursors : i = 1..n OBVIOUS
  <2>10. ASSUME NEW m \in cursors PROVE n <= m
    <3>1. ~ (<<1..m, 1..n>> \in StrictSubsetOrdering(L)) BY <2>8, <2>9
    <3>2. 1..m \in SUBSET L /\ 1..n \in SUBSET L BY <2>5
    <3>3. ~ (1..m \subseteq 1..n /\ 1..m # 1..n) BY <3>1, <3>2 DEF StrictSubsetOrdering
    <3>4. m \in Nat /\ n \in Nat BY <1>1
    <3>5. SUFFICES ASSUME m < n PROVE FALSE BY <3>4
    <3>6. n \in 1..n /\ n \notin 1..m /\ 1..m \subseteq 1..n BY <3>4, <3>5
    <3> QED BY <3>3, <3>6
  <2>11. SnapshotSequence \in cursors BY <2>10 DEF SnapshotSequence
  <2> QED BY <1>1, <2>11
<1> QED BY <1>2, <1>3

LEMMA AtMostProperties ==
  ASSUME NEW a \in Nat, NEW b \in Nat
  PROVE  AtMost(a, b) \in Nat /\ AtMost(a, b) <= a /\ AtMost(a, b) <= b
  BY DEF AtMost

\* The records a verdict, an answer and an event can be.
LEMMA RecordTypes ==
  /\ \A n \in Nat : /\ AcceptedReceipt(n) \in [status : {"accepted"}, sequence : Nat]
                    /\ RejectedReceipt(n) \in [status : {"rejected"}, sequence : Nat]
  /\ \A c \in Command, b \in Body : Event(c, b) \in LogEvent
  /\ NoTx \in [events : Seq(LogEvent), state : Model]
  /\ <<>> \in Seq(Body) /\ <<>> \in Seq(Nat) /\ <<>> \in Seq(Call)
  /\ NoBoot \in [left : Seq(Projector), upto : Nat]
  BY DeciderAssumption DEF AcceptedReceipt, RejectedReceipt, Event, LogEvent, NoTx, NoBoot

\* The command in hand is a command.
LEMMA CommandInHand == call \in Call => Cmd \in Command
  BY CallsAssumption DEF Cmd

-----------------------------------------------------------------------------
(* Types.                                                                   *)

Answers == {Unasked, Waiting, Rejected, Failed, Lost} \cup [status : {"accepted"}, sequence : Nat]

\* Bootstrap and hydration.
LEMMA BootTypes ==
  ASSUME IInv, HydrateTypes, Boot
  PROVE  TypeOK'
<1> USE DEF IInv, durable, work, bounds
<1>0. TypeOK OBVIOUS
<1>1. \A left \in Seq(Projector) : BootOf(left) \in [left : Seq(Projector), upto : Nat]
  <2> TAKE left \in Seq(Projector)
  <2>1. CASE left = <<>> BY <2>1 DEF BootOf
  <2>2. CASE left # <<>>
    <3>1. Head(left) \in Projector BY <2>2
    <3>2. cursor[Head(left)] + ReadLimit \in Nat /\ Len(log) \in Nat
      BY <3>1, BoundsAssumption, SMTT(30) DEF TypeOK
    <3> QED BY <2>2, <3>2, AtMostProperties DEF BootOf
  <2> QED BY <2>1, <2>2
<1>2. CASE Start
  BY <1>1, <1>2, ProjectorsAssumption DEF Start, TypeOK
<1>3. CASE BootEvent
  <2> DEFINE p == Head(boot.left)
  <2>1. /\ p \in Projector /\ applied' = [applied EXCEPT ![p] = @ \cup {cursor[p] + 1}]
        /\ cursor' = [cursor EXCEPT ![p] = @ + 1]
    BY <1>3, ProjectorsAssumption DEF BootEvent, TypeOK
  <2>2. applied' \in [Projector -> SUBSET Nat] /\ cursor' \in [Projector -> Nat]
    BY <2>1, SMTT(30) DEF TypeOK
  <2> QED BY <1>3, <2>2 DEF BootEvent, TypeOK
<1>4. CASE BootNextProjector
  <2>1. boot.left \in Seq(Projector) /\ boot.left # <<>> BY <1>4 DEF BootNextProjector, TypeOK
  <2>2. Tail(boot.left) \in Seq(Projector) BY <2>1
  <2> QED BY <1>1, <1>4, <2>2 DEF BootNextProjector, TypeOK
<1>5. CASE HydrateModel
  <2>1. SnapshotSequence \in Nat BY SnapshotInLog DEF HeadInv
  <2>2. Hydrate(log, applied) \in Model BY DEF HydrateTypes, LogEvent, TypeOK
  <2> QED BY <1>5, <2>1, <2>2 DEF HydrateModel, TypeOK
<1> QED BY <1>2, <1>3, <1>4, <1>5 DEF Boot

\* The end of an envelope, and the two failure paths.
LEMMA TellTypes ==
  ASSUME TypeOK, NEW a \in Answers, Tell(a), UNCHANGED <<log, receipts, applied, cursor, failed, crashes>>
  PROVE  TypeOK'
<1>1. answer' \in [Call -> Answers] BY DEF Tell, TypeOK, Answers
<1>2. tx' \in [events : Seq(LogEvent), state : Model] BY RecordTypes DEF Tell
<1>3. todo' \in Seq(Body) /\ outbox' \in Seq(Nat) BY RecordTypes DEF Tell
<1> QED BY <1>1, <1>2, <1>3 DEF TypeOK, Tell, Answers, LogEvent, durable, bounds

LEMMA FailsTypes ==
  ASSUME TypeOK, NEW why \in {"storage", "invariant"}, Fails(why),
         failed' \subseteq UNION Faults, crashes' \in Nat
  PROVE  TypeOK'
<1>1. tx' \in [events : Seq(LogEvent), state : Model] /\ todo' \in Seq(Body)
  BY RecordTypes DEF Fails
<1> QED BY <1>1 DEF TypeOK, Fails, LogEvent, durable

LEMMA FailTypes ==
  ASSUME TypeOK, NEW f, Fail(f)
  PROVE  failed' \subseteq UNION Faults /\ crashes' \in Nat
  BY DEF TypeOK, Fail

\* What COMMIT makes durable.
LEMMA CommitTypes ==
  ASSUME TypeOK, call \in Call, CommitDurably
  PROVE  /\ log' \in Seq(LogEvent)
         /\ applied' \in [Projector -> SUBSET Nat]
         /\ cursor' \in [Projector -> Nat]
         /\ receipts' \in [Command -> {NoReceipt}
                             \cup [status : {"accepted", "rejected"}, sequence : Nat]]
         /\ Len(log') = Len(log) + Len(tx.events)
<1>1. log \in Seq(LogEvent) /\ tx.events \in Seq(LogEvent) BY DEF TypeOK, LogEvent
<1>2. log' = log \o tx.events BY DEF CommitDurably
<1>3. log' \in Seq(LogEvent) /\ Len(log') = Len(log) + Len(tx.events) BY <1>1, <1>2
<1> DEFINE last == Len(log) + Len(tx.events)
<1>4. last \in Nat /\ (Len(log) + 1)..last \in SUBSET Nat BY <1>1
<1>5. AcceptedReceipt(last) \in [status : {"accepted", "rejected"}, sequence : Nat]
  BY <1>4 DEF AcceptedReceipt
<1>6. receipts' = [receipts EXCEPT ![Cmd] = AcceptedReceipt(last)] BY DEF CommitDurably
<1>7. /\ applied' \in [Projector -> SUBSET Nat]
      /\ cursor' \in [Projector -> Nat]
  BY <1>4 DEF CommitDurably, TypeOK
<1> HIDE DEF last
<1> QED BY <1>3, <1>5, <1>6, <1>7, CommandInHand DEF TypeOK

\* Every other step of the fiber.
LEMMA ProcessTypes ==
  ASSUME IInv, Process
  PROVE  TypeOK'
<1> USE DEF IInv, durable, work, bounds
<1>0. TypeOK OBVIOUS
<1>c. pc \in {"receipt", "transaction", "publish", "reconcile", "replay", "fail"}
        => call \in Call /\ Cmd \in Command
  BY CommandInHand DEF Control, EnvelopeInv
<1>1. CASE Take
  <2>1. queue \in Seq(Call) /\ queue # <<>> BY <1>1 DEF Take, TypeOK
  <2>2. Head(queue) \in Call /\ Tail(queue) \in Seq(Call) BY <2>1
  <2> QED BY <1>1, <2>2 DEF Take, TypeOK
<1>2. CASE ReplayAccepted
  <2>1. receipts[Cmd] \in Answers
    BY <1>c, <1>2 DEF ReplayAccepted, TypeOK, Answers, NoReceipt
  <2> QED BY <1>2, <2>1, TellTypes DEF ReplayAccepted, Tell
<1>3. CASE ReplayRejected \/ AnswerRejected
  <2>1. Rejected \in Answers BY DEF Answers
  <2> QED BY <1>3, <2>1, TellTypes DEF ReplayRejected, AnswerRejected, Tell
<1>4. CASE ReceiptReadFails \/ TransactionFails
  BY <1>4, FailTypes, FailsTypes DEF ReceiptReadFails, TransactionFails
<1>5. CASE DecideRejects
  <2>1. failed' \subseteq UNION Faults /\ crashes' \in Nat BY <1>5 DEF DecideRejects, TypeOK
  <2> QED BY <1>5, <2>1, FailsTypes DEF DecideRejects
<1>6. CASE DecideAccepts
  <2>1. Decide(model.state, Cmd) \in Seq(Body)
    BY <1>c, <1>6, DeciderAssumption DEF DecideAccepts, TypeOK
  <2>2. tx' \in [events : Seq(LogEvent), state : Model] BY <1>6 DEF DecideAccepts, TypeOK
  <2> QED BY <1>6, <2>1, <2>2 DEF DecideAccepts, TypeOK, LogEvent
<1>7. CASE PersistEvent
  <2>1. todo \in Seq(Body) /\ todo # <<>> BY <1>7 DEF PersistEvent, TypeOK
  <2>2. Head(todo) \in Body /\ Tail(todo) \in Seq(Body) BY <2>1
  <2>3. Event(Cmd, Head(todo)) \in LogEvent BY <1>c, <1>7, <2>2, RecordTypes DEF PersistEvent
  <2>4. Append(tx.events, Event(Cmd, Head(todo))) \in Seq(LogEvent)
    BY <2>3 DEF TypeOK, LogEvent
  <2>5. Apply(tx.state, Head(todo)) \in Model BY <2>2, DeciderAssumption DEF TypeOK
  <2>6. tx' \in [events : Seq(LogEvent), state : Model] BY <1>7, <2>4, <2>5 DEF PersistEvent
  <2> QED BY <1>7, <2>2, <2>6 DEF PersistEvent, TypeOK, LogEvent
<1>8. CASE Commit
  <2>1. outbox' \in Seq(Nat) /\ Len(log') \in Nat
    <3>1. Len(log) \in Nat /\ Len(tx.events) \in Nat BY DEF TypeOK
    <3>2. Len(log') = Len(log) + Len(tx.events) BY <1>c, <1>8, CommitTypes DEF Commit
    <3>3. Len(log') \in Nat /\ Len(log) <= Len(log') BY <3>1, <3>2
    <3>4. UpTo(Len(log), Len(log')) \in Seq(Nat) BY ONLY <3>1, <3>3, UpToProperties
    <3>5. outbox' = UpTo(Len(log), Len(log')) BY <1>8 DEF Commit
    <3> QED BY <3>3, <3>4, <3>5
  <2>2. model' \in [state : Model, seq : Nat] BY <1>8, <2>1 DEF Commit, TypeOK
  <2> QED BY <1>c, <1>8, <2>1, <2>2, CommitTypes, RecordTypes DEF Commit, TypeOK, LogEvent
<1>9. CASE CommitReportsFailure
  BY <1>c, <1>9, CommitTypes, FailTypes, RecordTypes DEF CommitReportsFailure, TypeOK, LogEvent
<1>10. CASE PublishEvent
  <2>1. outbox \in Seq(Nat) /\ outbox # <<>> /\ bus \in Seq(Nat)
    BY <1>10 DEF PublishEvent, TypeOK
  <2>2. Append(bus, Head(outbox)) \in Seq(Nat) /\ Tail(outbox) \in Seq(Nat) BY <2>1
  <2> QED BY <1>10, <2>2 DEF PublishEvent, TypeOK
<1>11. CASE AnswerAccepted
  <2>1. AcceptedReceipt(model.seq) \in Answers BY DEF TypeOK, Answers, AcceptedReceipt
  <2> QED BY <1>11, <2>1, TellTypes DEF AnswerAccepted, Tell
<1>12. CASE Reconcile
  <2> DEFINE upto == AtMost(start + ReadLimit, Len(log))
  <2>1. start \in Nat /\ Len(log) \in Nat /\ start <= Len(log) /\ start + ReadLimit \in Nat
    BY <1>12, BoundsAssumption DEF Reconcile, HeadInv, TypeOK
  <2>2. upto \in Nat /\ start <= upto /\ upto <= Len(log)
    BY <2>1, BoundsAssumption DEF AtMost
  <2> HIDE DEF upto
  <2>3. \A i \in 1..(upto - start) : start + i \in 1..Len(log) BY <2>1, <2>2
  <2>4. ASSUME NEW i \in 1..Len(log) PROVE log[i].body \in Body
    <3>1. log \in Seq(LogEvent) BY DEF TypeOK, LogEvent
    <3>2. log[i] \in LogEvent BY <3>1
    <3> QED BY <3>2 DEF LogEvent
  <2>5. upto - start \in Nat BY <2>1, <2>2
  <2>6. todo' \in [1..(upto - start) -> Body] BY <1>12, <2>3, <2>4 DEF Reconcile, upto
  <2>7. todo' \in Seq(Body) BY <2>5, <2>6
  <2>8. outbox' \in Seq(Nat) BY <1>12, <2>1, <2>2, UpToProperties DEF Reconcile, upto
  <2>9. tx' \in [events : Seq(LogEvent), state : Model] BY <1>12 DEF Reconcile, TypeOK
  <2> QED BY <1>12, <2>7, <2>8, <2>9 DEF Reconcile, TypeOK, LogEvent
<1>13. CASE ReplayEvent
  <2>1. todo \in Seq(Body) /\ todo # <<>> BY <1>13 DEF ReplayEvent, TypeOK
  <2>2. Head(todo) \in Body /\ Tail(todo) \in Seq(Body) BY <2>1
  <2>3. Apply(tx.state, Head(todo)) \in Model BY <2>2, DeciderAssumption DEF TypeOK
  <2> QED BY <1>13, <2>2, <2>3 DEF ReplayEvent, TypeOK
<1>14. CASE ReplaySwap
  <2>1. tx' \in [events : Seq(LogEvent), state : Model] BY <1>14, RecordTypes DEF ReplaySwap
  <2>2. model' \in [state : Model, seq : Nat] BY <1>14 DEF ReplaySwap, TypeOK
  <2> QED BY <1>14, <2>1, <2>2 DEF ReplaySwap, TypeOK, LogEvent
<1>15. CASE ReconcileFails
  BY <1>15, FailTypes DEF ReconcileFails, TypeOK
<1>16. CASE RecordRefusal
  <2>1. RejectedReceipt(model.seq) \in [status : {"accepted", "rejected"}, sequence : Nat]
    BY DEF TypeOK, RejectedReceipt
  <2> QED BY <1>c, <1>16, <2>1 DEF RecordRefusal, TypeOK
<1>17. CASE RecordRefusalFails
  BY <1>17, FailTypes DEF RecordRefusalFails, TypeOK
<1>18. CASE AnswerFailed
  <2>1. Failed \in Answers BY DEF Answers
  <2> QED BY <1>18, <2>1, TellTypes DEF AnswerFailed, Tell
<1> QED BY <1>1, <1>2, <1>3, <1>4, <1>5, <1>6, <1>7, <1>8, <1>9, <1>10, <1>11, <1>12,
           <1>13, <1>14, <1>15, <1>16, <1>17, <1>18 DEF Process

LEMMA TypeStep ==
  ASSUME IInv, HydrateTypes, [Next]_vars
  PROVE  TypeOK'
<1> USE DEF IInv, durable, work, bounds
<1>1. CASE Crash
  <2>1. answer' \in [Call -> Answers] BY <1>1 DEF Crash, TypeOK, Answers
  <2>2. model' \in [state : Model, seq : Nat] BY <1>1, DeciderAssumption DEF Crash
  <2>3. /\ tx' \in [events : Seq(LogEvent), state : Model]
        /\ boot' \in [left : Seq(Projector), upto : Nat]
        /\ todo' \in Seq(Body) /\ outbox' \in Seq(Nat) /\ bus' \in Seq(Nat)
        /\ queue' \in Seq(Call)
    <3>1. /\ tx' = NoTx /\ boot' = NoBoot
          /\ todo' = <<>> /\ outbox' = <<>> /\ bus' = <<>> /\ queue' = <<>>
      BY <1>1 DEF Crash
    <3> QED BY <3>1, RecordTypes
  <2>4. UNCHANGED <<log, receipts, applied, cursor, release>> BY <1>1 DEF Crash
  <2>5. /\ pc' = "down" /\ call' = NoCall /\ start' = 0 /\ error' = "none" /\ booted' = 0
        /\ failed' = failed /\ crashes' = crashes + 1
    BY <1>1 DEF Crash
  <2> QED BY <2>1, <2>2, <2>3, <2>4, <2>5, SMTT(30) DEF TypeOK, LogEvent, Answers
<1>2. ASSUME NEW k \in Call, Dispatch(k) PROVE TypeOK'
  <2>1. answer' \in [Call -> Answers] BY <1>2 DEF Dispatch, TypeOK, Answers
  <2> QED BY <1>2, <2>1 DEF Dispatch, TypeOK, Answers
<1>3. CASE UNCHANGED vars
  BY <1>3 DEF vars, TypeOK
<1> QED BY <1>1, <1>2, <1>3, BootTypes, ProcessTypes DEF Next

-----------------------------------------------------------------------------
(* What the fiber may rely on.                                              *)

\* A step that ends the envelope, or that only touches what Control ignores.
LEMMA ControlFrame ==
  ASSUME Control,
         \/ pc' \in {"down", "boot", "idle"} /\ error' = "none" /\ outbox' = <<>>
         \/ UNCHANGED <<pc, call, error, outbox, receipts, model, tx, todo>>
  PROVE  Control'
<1> USE DEF Control, EnvelopeInv, VerdictInv, BatchInv, Cmd
<1>1. CASE pc' \in {"down", "boot", "idle"} /\ error' = "none" /\ outbox' = <<>>
  BY <1>1
<1>2. CASE UNCHANGED <<pc, call, error, outbox, receipts, model, tx, todo>>
  BY <1>2
<1> QED BY <1>1, <1>2

LEMMA ControlStep ==
  ASSUME IInv, [Next]_vars
  PROVE  Control'
<1> USE DEF IInv, durable, work, bounds
<1> DEFINE Parts == EnvelopeInv /\ VerdictInv /\ BatchInv
<1>1. CASE Boot
  <2>1. pc \in {"down", "boot"} /\ pc' \in {"boot", "idle"}
    BY <1>1 DEF Boot, Start, BootEvent, BootNextProjector, HydrateModel
  <2>2. error' = error /\ outbox' = outbox
    BY <1>1 DEF Boot, Start, BootEvent, BootNextProjector, HydrateModel
  <2>3. error = "none" /\ outbox = <<>> BY <2>1 DEF Control, EnvelopeInv
  <2> QED BY <2>1, <2>2, <2>3, ControlFrame
<1>2. CASE Take
  <2>1. call' \in Call
    <3>1. queue \in Seq(Call) /\ queue # <<>> BY <1>2 DEF Take, TypeOK
    <3> QED BY <1>2, <3>1 DEF Take
  <2> QED BY <1>2, <2>1 DEF Take, Control, EnvelopeInv, VerdictInv, BatchInv
<1>3. CASE ReplayAccepted \/ ReplayRejected \/ AnswerAccepted \/ AnswerRejected \/ AnswerFailed
  BY <1>3, ControlFrame
     DEF ReplayAccepted, ReplayRejected, AnswerAccepted, AnswerRejected, AnswerFailed, Tell
<1>4. CASE ReceiptReadFails \/ TransactionFails
  BY <1>4 DEF ReceiptReadFails, TransactionFails, Fails, Control, EnvelopeInv, VerdictInv,
              BatchInv, Cmd
<1>5. CASE DecideRejects
  BY <1>5 DEF DecideRejects, Fails, Control, EnvelopeInv, VerdictInv, BatchInv, Cmd
<1>6. CASE DecideAccepts
  BY <1>6 DEF DecideAccepts, Control, EnvelopeInv, VerdictInv, BatchInv, Cmd
<1>7. CASE PersistEvent
  <2>1. tx.events \in Seq(LogEvent) BY DEF TypeOK, LogEvent
  <2>2. \A n \in DOMAIN tx.events : tx.events[n].command = Cmd
    BY <1>7 DEF PersistEvent, Control, BatchInv
  <2>3. tx'.events = Append(tx.events, Event(Cmd, Head(todo))) /\ Cmd' = Cmd
    BY <1>7 DEF PersistEvent, Cmd
  <2>4. Event(Cmd, Head(todo)).command = Cmd BY DEF Event
  <2>5. /\ DOMAIN tx'.events = 1..(Len(tx.events) + 1)
        /\ \A n \in DOMAIN tx.events : tx'.events[n] = tx.events[n]
        /\ tx'.events[Len(tx.events) + 1] = Event(Cmd, Head(todo))
        /\ DOMAIN tx.events = 1..Len(tx.events)
        /\ tx'.events # <<>> /\ Len(tx.events) \in Nat
    BY <2>1, <2>3
  <2>6. BatchInv' BY <2>2, <2>3, <2>4, <2>5 DEF BatchInv
  <2>7. EnvelopeInv' /\ VerdictInv'
    BY <1>7, <2>3 DEF PersistEvent, Control, EnvelopeInv, VerdictInv
  <2> QED BY <2>6, <2>7 DEF Control
<1>8. CASE Commit
  <2>1. Cmd' = Cmd /\ call \in Call /\ Cmd \in Command
    BY <1>8, CommandInHand DEF Commit, Cmd, Control, EnvelopeInv
  <2>2. receipts' = [receipts EXCEPT ![Cmd] = AcceptedReceipt(Len(log) + Len(tx.events))]
    BY <1>8 DEF Commit, CommitDurably
  <2>3. model'.seq = Len(log') /\ Len(log') = Len(log) + Len(tx.events)
    BY <1>8, <2>1, CommitTypes DEF Commit
  <2>4. receipts'[Cmd] = AcceptedReceipt(model'.seq) BY <2>1, <2>2, <2>3 DEF TypeOK
  <2>5. error' = "none" BY <1>8 DEF Commit, Control, EnvelopeInv
  <2> QED BY <1>8, <2>1, <2>4, <2>5 DEF Commit, Control, EnvelopeInv, VerdictInv, BatchInv
<1>9. CASE CommitReportsFailure
  BY <1>9 DEF CommitReportsFailure, Control, EnvelopeInv, VerdictInv, BatchInv
<1>10. CASE PublishEvent
  BY <1>10 DEF PublishEvent, Control, EnvelopeInv, VerdictInv, BatchInv, Cmd
<1>11. CASE Reconcile \/ ReplayEvent \/ ReplaySwap \/ ReconcileFails
  BY <1>11 DEF Reconcile, ReplayEvent, ReplaySwap, ReconcileFails,
               Control, EnvelopeInv, VerdictInv, BatchInv, Cmd
<1>12. CASE RecordRefusal \/ RecordRefusalFails
  BY <1>12 DEF RecordRefusal, RecordRefusalFails, Control, EnvelopeInv, VerdictInv, BatchInv
<1>13. CASE Crash
  BY <1>13, ControlFrame DEF Crash
<1>14. ASSUME NEW k \in Call, Dispatch(k) PROVE Control'
  BY <1>14, ControlFrame DEF Dispatch
<1>15. CASE UNCHANGED vars
  BY <1>15, ControlFrame DEF vars
<1> QED BY <1>1, <1>2, <1>3, <1>4, <1>5, <1>6, <1>7, <1>8, <1>9, <1>10, <1>11, <1>12, <1>13,
           <1>14, <1>15 DEF Next, Process

-----------------------------------------------------------------------------
(* The log, the receipts and the answers.                                   *)

Durably == /\ pc = "transaction"
           /\ todo = <<>>
           /\ CommitDurably
           /\ UNCHANGED answer

RecordsRefusal == /\ receipts[Cmd] = NoReceipt
                  /\ Cmd \in Command
                  /\ receipts' = [receipts EXCEPT ![Cmd] = RejectedReceipt(model.seq)]
                  /\ UNCHANGED <<log, answer>>

\* Only a commit writes the log, and only a commit or a refusal writes a receipt.
LEMMA DurableSteps ==
  ASSUME IInv, [Next]_vars
  PROVE  Durably \/ RecordsRefusal \/ UNCHANGED <<log, receipts>>
<1> USE DEF IInv, durable, work, bounds
<1>1. CASE Boot
  BY <1>1 DEF Boot, Start, BootEvent, BootNextProjector, HydrateModel
<1>2. CASE Commit \/ CommitReportsFailure
  BY <1>2 DEF Commit, CommitReportsFailure, Durably
<1>3. CASE RecordRefusal
  BY <1>3, CommandInHand DEF RecordRefusal, RecordsRefusal, Control, EnvelopeInv, VerdictInv
<1>4. CASE ReplayAccepted \/ ReplayRejected \/ AnswerAccepted \/ AnswerRejected \/ AnswerFailed
  BY <1>4
     DEF ReplayAccepted, ReplayRejected, AnswerAccepted, AnswerRejected, AnswerFailed, Tell
<1>5. CASE ReceiptReadFails \/ TransactionFails \/ DecideRejects
  BY <1>5 DEF ReceiptReadFails, TransactionFails, DecideRejects, Fails
<1>6. CASE Take \/ DecideAccepts \/ PersistEvent \/ PublishEvent
  BY <1>6 DEF Take, DecideAccepts, PersistEvent, PublishEvent
<1>7. CASE Reconcile \/ ReplayEvent \/ ReplaySwap \/ ReconcileFails \/ RecordRefusalFails
  BY <1>7 DEF Reconcile, ReplayEvent, ReplaySwap, ReconcileFails, RecordRefusalFails
<1>8. CASE Crash
  BY <1>8 DEF Crash
<1>9. ASSUME NEW k \in Call, Dispatch(k) PROVE UNCHANGED <<log, receipts>>
  BY <1>9 DEF Dispatch
<1>10. CASE UNCHANGED vars
  BY <1>10 DEF vars
<1> QED BY <1>1, <1>2, <1>3, <1>4, <1>5, <1>6, <1>7, <1>8, <1>9, <1>10 DEF Next, Process

\* A commit adds the command's events at the end of the log, and no others.
LEMMA CommitEvents ==
  ASSUME IInv, Durably
  PROVE  LET last == Len(log) + Len(tx.events) IN
         /\ Cmd \in Command /\ receipts[Cmd] = NoReceipt
         /\ Len(log) \in Nat /\ Len(log) < last /\ last \in Nat
         /\ receipts' = [receipts EXCEPT ![Cmd] = AcceptedReceipt(last)]
         /\ \A c \in Command : EventsOf(c)' = IF c = Cmd THEN (Len(log) + 1)..last
                                                        ELSE EventsOf(c)
<1> USE DEF IInv, Durably
<1> DEFINE last == Len(log) + Len(tx.events)
<1>1. call \in Call /\ Cmd \in Command /\ receipts[Cmd] = NoReceipt
  BY CommandInHand DEF Control, EnvelopeInv, VerdictInv
<1>2. log \in Seq(LogEvent) /\ tx.events \in Seq(LogEvent) BY DEF TypeOK, LogEvent
<1>3. tx.events # <<>> /\ \A n \in DOMAIN tx.events : tx.events[n].command = Cmd
  BY DEF Control, BatchInv
<1>4. Len(log) \in Nat /\ Len(tx.events) \in Nat \ {0} BY <1>2, <1>3
<1>5. log' = log \o tx.events BY DEF CommitDurably
<1>6. /\ DOMAIN log = 1..Len(log) /\ DOMAIN log' = 1..last
      /\ \A n \in 1..Len(log) : log'[n] = log[n]
      /\ \A n \in (Len(log) + 1)..last : log'[n] = tx.events[n - Len(log)]
  BY <1>2, <1>5
<1>7. \A n \in (Len(log) + 1)..last : n - Len(log) \in DOMAIN tx.events BY <1>2, <1>4
<1>8. \A n \in (Len(log) + 1)..last : log'[n].command = Cmd BY <1>3, <1>6, <1>7
<1>9. EventsOf(Cmd) = {} BY <1>1 DEF ExactlyOnce, NoReceipt
<1>10. receipts' = [receipts EXCEPT ![Cmd] = AcceptedReceipt(last)] BY DEF CommitDurably
<1>11. ASSUME NEW c \in Command
       PROVE  EventsOf(c)' = IF c = Cmd THEN (Len(log) + 1)..last ELSE EventsOf(c)
  BY <1>4, <1>6, <1>8, <1>9 DEF EventsOf
<1> QED BY <1>1, <1>4, <1>10, <1>11

LEMMA ExactlyOnceStep ==
  ASSUME IInv, [Next]_vars
  PROVE  ExactlyOnce'
<1> USE DEF IInv
<1>1. CASE Durably
  <2> DEFINE last == Len(log) + Len(tx.events)
  <2>1. /\ Cmd \in Command /\ Len(log) \in Nat /\ Len(log) < last /\ last \in Nat
        /\ receipts' = [receipts EXCEPT ![Cmd] = AcceptedReceipt(last)]
        /\ \A c \in Command : EventsOf(c)' = IF c = Cmd THEN (Len(log) + 1)..last
                                                       ELSE EventsOf(c)
    BY <1>1, CommitEvents
  <2> HIDE DEF last
  <2> SUFFICES ASSUME NEW c \in Command
               PROVE  IF receipts'[c].status = "accepted"
                        THEN \E n \in 1..receipts'[c].sequence :
                               EventsOf(c)' = n..receipts'[c].sequence
                        ELSE EventsOf(c)' = {}
    BY DEF ExactlyOnce
  <2>2. CASE c = Cmd
    <3>1. receipts'[c] = AcceptedReceipt(last) BY <2>1, <2>2 DEF TypeOK
    <3>2. receipts'[c].status = "accepted" /\ receipts'[c].sequence = last
      BY <3>1 DEF AcceptedReceipt
    <3>3. Len(log) + 1 \in 1..last BY <2>1
    <3> QED BY <2>1, <2>2, <3>2, <3>3
  <2>3. CASE c # Cmd
    <3>1. receipts'[c] = receipts[c] BY <2>1, <2>3 DEF TypeOK
    <3> QED BY <2>1, <2>3, <3>1 DEF ExactlyOnce
  <2> QED BY <2>2, <2>3
<1>2. CASE RecordsRefusal
  <2>1. \A c \in Command : EventsOf(c)' = EventsOf(c) BY <1>2 DEF RecordsRefusal, EventsOf
  <2>2. \A c \in Command : receipts'[c] = IF c = Cmd THEN RejectedReceipt(model.seq)
                                                     ELSE receipts[c]
    BY <1>2 DEF RecordsRefusal, TypeOK
  <2>3. EventsOf(Cmd) = {} BY <1>2 DEF RecordsRefusal, ExactlyOnce, NoReceipt
  <2>4. RejectedReceipt(model.seq).status # "accepted" BY DEF RejectedReceipt
  <2> QED BY <2>1, <2>2, <2>3, <2>4 DEF ExactlyOnce
<1>3. CASE UNCHANGED <<log, receipts>>
  BY <1>3 DEF ExactlyOnce, EventsOf
<1> QED BY <1>1, <1>2, <1>3, DurableSteps

\* A receipt never changes once it is there.
LEMMA ReceiptsStep ==
  ASSUME IInv, [Next]_vars
  PROVE  \A c \in Command : receipts[c] # NoReceipt => receipts'[c] = receipts[c]
<1> USE DEF IInv
<1>1. CASE Durably
  BY <1>1, CommitEvents DEF TypeOK
<1>2. CASE RecordsRefusal
  BY <1>2 DEF RecordsRefusal, TypeOK
<1> QED BY <1>1, <1>2, DurableSteps

\* The events of a command that has a receipt stay as they are.
LEMMA EventsStep ==
  ASSUME IInv, [Next]_vars, NEW c \in Command, receipts[c] # NoReceipt
  PROVE  EventsOf(c)' = EventsOf(c)
<1> USE DEF IInv
<1>1. CASE Durably
  BY <1>1, CommitEvents
<1>2. CASE RecordsRefusal
  BY <1>2 DEF RecordsRefusal, EventsOf
<1>3. CASE UNCHANGED <<log, receipts>>
  BY <1>3 DEF EventsOf
<1> QED BY <1>1, <1>2, <1>3, DurableSteps

\* What may be told of a command: that it was accepted only with its receipt.
TrueOf(a, k) == a.status = "accepted" => a = receipts[CommandOf[k]]

\* A step changes no answer, or gives the call in hand a true one, or gives
\* answers that are not acceptances.
LEMMA AnswerSteps ==
  ASSUME IInv, [Next]_vars, NEW k \in Call
  PROVE  \/ answer'[k] = answer[k]
         \/ answer'[k].status # "accepted"
         \/ TrueOf(answer'[k], k) /\ UNCHANGED <<log, receipts>>
<1> USE DEF IInv, durable, work, bounds
<1>1. CASE Boot
  BY <1>1 DEF Boot, Start, BootEvent, BootNextProjector, HydrateModel
<1>2. ASSUME NEW a, Tell(a), TrueOf(a, call), UNCHANGED <<log, receipts>>
      PROVE  answer'[k] = answer[k] \/ TrueOf(answer'[k], k)
  <2>1. CASE k = call BY <1>2, <2>1 DEF Tell, TypeOK, TrueOf
  <2>2. CASE k # call BY <1>2, <2>2 DEF Tell, TypeOK
  <2> QED BY <2>1, <2>2
<1>3. CASE ReplayAccepted
  <2>1. TrueOf(receipts[Cmd], call) BY DEF TrueOf, Cmd
  <2> QED BY <1>2, <1>3, <2>1 DEF ReplayAccepted, Tell
<1>4. CASE AnswerAccepted
  <2>1. TrueOf(AcceptedReceipt(model.seq), call)
    BY <1>4 DEF AnswerAccepted, TrueOf, Cmd, Control, VerdictInv
  <2> QED BY <1>2, <1>4, <2>1 DEF AnswerAccepted, Tell
<1>5. CASE ReplayRejected \/ AnswerRejected \/ AnswerFailed
  <2>1. TrueOf(Rejected, call) /\ TrueOf(Failed, call) BY DEF TrueOf, Rejected, Failed
  <2> QED BY <1>2, <1>5, <2>1 DEF ReplayRejected, AnswerRejected, AnswerFailed, Tell
<1>6. CASE ReceiptReadFails \/ TransactionFails \/ DecideRejects
  BY <1>6 DEF ReceiptReadFails, TransactionFails, DecideRejects, Fails
<1>7. CASE Take \/ DecideAccepts \/ PersistEvent \/ PublishEvent \/ Commit \/ CommitReportsFailure
  BY <1>7 DEF Take, DecideAccepts, PersistEvent, PublishEvent, Commit, CommitReportsFailure
<1>8. CASE \/ Reconcile \/ ReplayEvent \/ ReplaySwap \/ ReconcileFails
           \/ RecordRefusal \/ RecordRefusalFails
  BY <1>8
     DEF Reconcile, ReplayEvent, ReplaySwap, ReconcileFails, RecordRefusal, RecordRefusalFails
<1>9. CASE Crash
  <2>1. answer'[k] = answer[k] \/ answer'[k] = Lost BY <1>9 DEF Crash
  <2> QED BY <2>1 DEF Lost
<1>10. ASSUME NEW j \in Call, Dispatch(j)
       PROVE  answer'[k] = answer[k] \/ answer'[k].status # "accepted"
  <2>1. answer'[k] = answer[k] \/ answer'[k] = Waiting BY <1>10 DEF Dispatch, TypeOK
  <2> QED BY <2>1 DEF Waiting
<1>11. CASE UNCHANGED vars
  BY <1>11 DEF vars
<1> QED BY <1>1, <1>3, <1>4, <1>5, <1>6, <1>7, <1>8, <1>9, <1>10, <1>11 DEF Next, Process

\* The last event of an accepted command is where its receipt says.
LEMMA LastEvent ==
  ASSUME TypeOK, ExactlyOnce, NEW c \in Command, receipts[c].status = "accepted"
  PROVE  /\ receipts[c].sequence \in EventsOf(c)
         /\ receipts[c].sequence + 1 \notin EventsOf(c)
<1>1. PICK n \in 1..receipts[c].sequence : EventsOf(c) = n..receipts[c].sequence
  BY DEF ExactlyOnce
<1>2. receipts[c].sequence \in Nat
  BY DEF TypeOK, NoReceipt
<1> QED BY <1>1, <1>2

LEMMA AnswersStep ==
  ASSUME IInv, [Next]_vars
  PROVE  AnswersDurable'
<1> USE DEF IInv
<1> SUFFICES ASSUME NEW k \in Call, answer'[k].status = "accepted"
             PROVE  /\ answer'[k] = receipts'[CommandOf[k]]
                    /\ answer'[k].sequence \in EventsOf(CommandOf[k])'
                    /\ answer'[k].sequence + 1 \notin EventsOf(CommandOf[k])'
  BY DEF AnswersDurable
<1> DEFINE c == CommandOf[k]
<1>1. c \in Command BY CallsAssumption
<1>2. CASE answer'[k] = answer[k]
  <2>1. /\ answer[k] = receipts[c] /\ answer[k].sequence \in EventsOf(c)
        /\ answer[k].sequence + 1 \notin EventsOf(c)
    BY <1>2 DEF AnswersDurable
  <2>2. receipts[c] # NoReceipt BY <1>2, <2>1 DEF NoReceipt
  <2>3. receipts'[c] = receipts[c] BY <1>1, <2>2, ReceiptsStep
  <2>4. EventsOf(c)' = EventsOf(c) BY <1>1, <2>2, EventsStep
  <2> QED BY <1>2, <2>1, <2>3, <2>4
<1>3. CASE TrueOf(answer'[k], k) /\ UNCHANGED <<log, receipts>>
  <2>1. answer'[k] = receipts[c] BY <1>3 DEF TrueOf
  <2>2. receipts[c].sequence \in EventsOf(c) /\ receipts[c].sequence + 1 \notin EventsOf(c)
    BY <1>1, <2>1, LastEvent
  <2>3. EventsOf(c)' = EventsOf(c) BY <1>3 DEF EventsOf
  <2> QED BY <1>3, <2>1, <2>2, <2>3
<1> QED BY <1>2, <1>3, AnswerSteps

-----------------------------------------------------------------------------
(* The head.                                                                *)

LEMMA HeadStep ==
  ASSUME IInv, TypeOK', [Next]_vars
  PROVE  HeadInv'
<1> USE DEF IInv, durable, work, bounds
<1>0. /\ Len(log) \in Nat /\ start \in Nat /\ model.seq \in Nat /\ boot.upto \in Nat
      /\ cursor \in [Projector -> Nat] /\ Len(outbox) \in Nat /\ outbox \in Seq(Nat)
  <2>1. log \in Seq(LogEvent) /\ outbox \in Seq(Nat) BY DEF TypeOK, LogEvent
  <2>2. Len(log) \in Nat /\ Len(outbox) \in Nat BY <2>1
  <2> QED BY <2>1, <2>2 DEF TypeOK
<1>1. \A left \in Seq(Projector) : BootOf(left).upto <= Len(log)
  <2> TAKE left \in Seq(Projector)
  <2>1. CASE left = <<>> BY <1>0, <2>1 DEF BootOf
  <2>2. CASE left # <<>>
    <3>1. cursor[Head(left)] + ReadLimit \in Nat BY <1>0, <2>2, BoundsAssumption
    <3> QED BY <1>0, <2>2, <3>1, AtMostProperties DEF BootOf
  <2> QED BY <2>1, <2>2
<1>2. CASE Start
  BY <1>1, <1>2, ProjectorsAssumption DEF Start, HeadInv
<1>3. CASE BootEvent
  <2> DEFINE p == Head(boot.left)
  <2>1. cursor' = [cursor EXCEPT ![p] = @ + 1] /\ cursor[p] < boot.upto /\ p \in Projector
    BY <1>3, ProjectorsAssumption DEF BootEvent, TypeOK
  <2>2. \A q \in Projector : cursor'[q] <= Len(log)
    BY <1>0, <2>1 DEF HeadInv
  <2> QED BY <1>3, <2>2 DEF BootEvent, HeadInv
<1>4. CASE BootNextProjector
  <2>1. boot.left \in Seq(Projector) /\ boot.left # <<>> BY <1>4 DEF BootNextProjector, TypeOK
  <2>2. Tail(boot.left) \in Seq(Projector) BY <2>1
  <2> QED BY <1>1, <1>4, <2>2 DEF BootNextProjector, HeadInv
<1>5. CASE HydrateModel
  BY <1>5, SnapshotInLog DEF HydrateModel, HeadInv
<1>6. CASE Take
  BY <1>6 DEF Take, HeadInv
<1>7. CASE ReplayAccepted \/ ReplayRejected \/ AnswerAccepted \/ AnswerRejected \/ AnswerFailed
  BY <1>7
     DEF ReplayAccepted, ReplayRejected, AnswerAccepted, AnswerRejected, AnswerFailed, Tell, HeadInv
<1>8. CASE ReceiptReadFails \/ TransactionFails \/ DecideRejects
  BY <1>8 DEF ReceiptReadFails, TransactionFails, DecideRejects, Fails, HeadInv
<1>9. CASE DecideAccepts \/ PersistEvent
  BY <1>9 DEF DecideAccepts, PersistEvent, HeadInv
<1>10. ASSUME CommitDurably, call \in Call, boot' = boot
       PROVE  /\ boot'.upto <= Len(log') /\ Len(log') \in Nat /\ Len(log) <= Len(log')
              /\ \A p \in Projector : cursor'[p] <= Len(log')
  <2>1. Len(log') = Len(log) + Len(tx.events) /\ Len(tx.events) \in Nat
    <3>1. tx.events \in Seq(LogEvent) BY DEF TypeOK, LogEvent
    <3>2. Len(tx.events) \in Nat BY <3>1
    <3> QED BY <1>10, <3>2, CommitTypes
  <2>2. Len(log') \in Nat /\ Len(log) <= Len(log') BY <1>0, <2>1
  <2>3. \A p \in Projector : cursor'[p] = Len(log') \/ cursor'[p] = cursor[p]
    BY <1>10, <2>1 DEF CommitDurably
  <2> QED BY <1>0, <1>10, <2>2, <2>3 DEF HeadInv
<1>11. CASE Commit
  <2>1. /\ call \in Call /\ boot' = boot /\ outbox' = UpTo(Len(log), Len(log'))
        /\ model'.seq = Len(log') /\ pc' = "publish"
    BY <1>11 DEF Commit, Control, EnvelopeInv
  <2>2. Len(log') \in Nat /\ Len(log) <= Len(log') BY <1>10, <1>11, <2>1 DEF Commit
  <2>3. \A n \in DOMAIN outbox' : outbox'[n] <= Len(log')
    <3>1. /\ DOMAIN outbox' = 1..(Len(log') - Len(log))
          /\ \A n \in 1..(Len(log') - Len(log)) : outbox'[n] = Len(log) + n
      BY <1>0, <2>1, <2>2, UpToProperties
    <3> QED BY <1>0, <2>2, <3>1
  <2>4. \A p \in Projector : cursor'[p] <= Len(log') BY <1>10, <1>11, <2>1 DEF Commit
  <2>5. boot'.upto <= Len(log') BY <1>10, <1>11, <2>1 DEF Commit
  <2> QED BY <2>1, <2>2, <2>3, <2>4, <2>5 DEF HeadInv
<1>12. CASE CommitReportsFailure
  <2>1. call \in Call /\ boot' = boot BY <1>12 DEF CommitReportsFailure, Control, EnvelopeInv
  <2>2. /\ boot'.upto <= Len(log') /\ Len(log') \in Nat /\ Len(log) <= Len(log')
        /\ \A p \in Projector : cursor'[p] <= Len(log')
    BY <1>10, <1>12, <2>1 DEF CommitReportsFailure
  <2>3. model'.seq <= Len(log') BY <1>0, <1>12, <2>2 DEF CommitReportsFailure, HeadInv
  <2> QED BY <1>12, <2>2, <2>3 DEF CommitReportsFailure, HeadInv
<1>13. CASE PublishEvent
  <2>1. outbox # <<>> /\ outbox' = Tail(outbox) BY <1>13 DEF PublishEvent
  <2>2. /\ DOMAIN outbox' = 1..(Len(outbox) - 1)
        /\ \A n \in DOMAIN outbox' : outbox'[n] = outbox[n + 1] /\ n + 1 \in DOMAIN outbox
    BY <1>0, <2>1
  <2> QED BY <1>13, <2>2 DEF PublishEvent, HeadInv
<1>14. CASE Reconcile
  <2> DEFINE upto == AtMost(start + ReadLimit, Len(log))
  <2>1. start <= Len(log) BY <1>14 DEF Reconcile, HeadInv
  <2>2. upto \in Nat /\ start <= upto /\ upto <= Len(log)
    BY <1>0, <2>1, BoundsAssumption DEF AtMost
  <2>3. outbox' = UpTo(start, upto) BY <1>14 DEF Reconcile
  <2> HIDE DEF upto
  <2>4. /\ Len(outbox') = upto - start /\ DOMAIN outbox' = 1..(upto - start)
        /\ \A n \in 1..(upto - start) : outbox'[n] = start + n
    BY <1>0, <2>2, <2>3, UpToProperties
  <2>5. \A n \in DOMAIN outbox' : outbox'[n] <= start + Len(outbox') BY <1>0, <2>2, <2>4
  <2>6. start + Len(outbox') <= Len(log) BY <1>0, <2>2, <2>4
  <2> QED BY <1>14, <2>5, <2>6 DEF Reconcile, HeadInv
<1>15. CASE ReplayEvent \/ RecordRefusal \/ RecordRefusalFails
  BY <1>15 DEF ReplayEvent, RecordRefusal, RecordRefusalFails, HeadInv
<1>16. CASE ReplaySwap
  <2>1. /\ model'.seq <= Len(log)
        /\ outbox # <<>> => model'.seq = start + Len(outbox)
    BY <1>16 DEF ReplaySwap, HeadInv
  <2>2. \A n \in DOMAIN outbox : outbox[n] <= model'.seq
    <3>1. outbox = <<>> => DOMAIN outbox = {} OBVIOUS
    <3> QED BY <1>16, <2>1, <3>1 DEF ReplaySwap, HeadInv
  <2> QED BY <1>16, <2>1, <2>2 DEF ReplaySwap, HeadInv
<1>17. CASE ReconcileFails
  <2>1. outbox' = <<>> BY <1>17 DEF ReconcileFails, Control, EnvelopeInv
  <2> QED BY <1>17, <2>1 DEF ReconcileFails, HeadInv
<1>18. CASE Crash
  <2>1. boot'.upto = 0 /\ model'.seq = 0 BY <1>18 DEF Crash, NoBoot
  <2> QED BY <1>0, <1>18, <2>1 DEF Crash, HeadInv
<1>19. ASSUME NEW k \in Call, Dispatch(k) PROVE HeadInv'
  BY <1>19 DEF Dispatch, HeadInv
<1>20. CASE UNCHANGED vars
  BY <1>20 DEF vars, HeadInv
<1> QED BY <1>2, <1>3, <1>4, <1>5, <1>6, <1>7, <1>8, <1>9, <1>11, <1>12, <1>13, <1>14, <1>15,
           <1>16, <1>17, <1>18, <1>19, <1>20 DEF Next, Boot, Process

LEMMA InitIInv == Init => IInv
<1> SUFFICES ASSUME Init PROVE IInv OBVIOUS
<1>1. TypeOK
  <2>1. answer \in [Call -> Answers] BY DEF Init, Answers
  <2>2. model \in [state : Model, seq : Nat] BY DeciderAssumption DEF Init
  <2>3. log \in Seq(LogEvent) /\ receipts \in [Command -> {NoReceipt}
                     \cup [status : {"accepted", "rejected"}, sequence : Nat]]
    BY DEF Init
  <2>4. tx \in [events : Seq(LogEvent), state : Model] /\ boot \in [left : Seq(Projector), upto : Nat]
    BY RecordTypes DEF Init
  <2> QED BY <2>1, <2>2, <2>3, <2>4 DEF Init, TypeOK, Answers, LogEvent
<1>2. Control BY DEF Init, Control, EnvelopeInv, VerdictInv, BatchInv
<1>3. ExactlyOnce
  <2>1. NoReceipt.status # "accepted" BY DEF NoReceipt
  <2> QED BY <2>1 DEF Init, ExactlyOnce, EventsOf
<1>4. AnswersDurable
  <2>1. Unasked.status # "accepted" BY DEF Unasked
  <2> QED BY <2>1 DEF Init, AnswersDurable
<1>5. HeadInv BY DEF Init, HeadInv, NoBoot
<1> QED BY <1>1, <1>2, <1>3, <1>4, <1>5 DEF IInv

-----------------------------------------------------------------------------
\* The invariant of the engine, for every decider and projector.
THEOREM Invariance == HydrateTypes => (Spec => []IInv)
<1> SUFFICES ASSUME HydrateTypes PROVE Spec => []IInv OBVIOUS
<1>1. IInv /\ [Next]_vars => IInv'
  <2> SUFFICES ASSUME IInv, [Next]_vars PROVE IInv' OBVIOUS
  <2>1. TypeOK' BY TypeStep
  <2>2. Control' /\ ExactlyOnce' /\ AnswersDurable'
    BY ControlStep, ExactlyOnceStep, AnswersStep
  <2>3. HeadInv' BY <2>1, HeadStep
  <2> QED BY <2>1, <2>2, <2>3 DEF IInv
<1> QED BY InitIInv, <1>1, PTL DEF Spec

\* Types of the engine's memory and tables, in every reachable state.
THEOREM TypeCorrect == HydrateTypes => (Spec => []TypeOK)
<1>1. IInv => TypeOK BY DEF IInv
<1> QED BY Invariance, <1>1, PTL

\* However often a command is dispatched, and whatever fails or crashes, its
\* events enter the log once, together, and with its receipt
\* (OrchestrationEngine.ts:138-213).
THEOREM CommandsTakeEffectOnce == HydrateTypes => (Spec => []ExactlyOnce)
<1>1. IInv => ExactlyOnce BY DEF IInv
<1> QED BY Invariance, <1>1, PTL

\* A dispatch() call that is told a sequence is told the durable one of its
\* command (OrchestrationEngine.ts:138-151 and 259-262).
THEOREM AnswersAreTrue == HydrateTypes => (Spec => []AnswersDurable)
<1>1. IInv => AnswersDurable BY DEF IInv
<1> QED BY Invariance, <1>1, PTL

\* Neither a retry nor a failure rewrites a receipt (OrchestrationEngine.ts:279-290).
THEOREM ReceiptsAreFinal == HydrateTypes => (Spec => ReceiptsFinal)
<1>1. IInv /\ [Next]_vars => [\A c \in Command : receipts[c] # NoReceipt => receipts'[c] = receipts[c]]_vars
  BY ReceiptsStep
<1> QED BY Invariance, <1>1, PTL DEF Spec, ReceiptsFinal

\* A step while the process lives: the head does not go back, and what is
\* published is not past it.
HeadMoves ==
  pc # "down" /\ pc' # "down" =>
    /\ model'.seq >= model.seq
    /\ bus' # bus => bus'[Len(bus')] <= model'.seq

LEMMA HeadMovesStep ==
  ASSUME IInv, TypeOK', HeadInv', [Next]_vars
  PROVE  HeadMoves
<1> USE DEF IInv, durable, work, bounds, HeadMoves
<1>0. model.seq \in Nat /\ model'.seq \in Nat BY DEF TypeOK
<1>1. CASE model' = model /\ bus' = bus
  BY <1>0, <1>1
<1>2. CASE HydrateModel
  <2>1. model.seq = 0 /\ bus' = bus BY <1>2 DEF HydrateModel, HeadInv
  <2> QED BY <1>0, <2>1
<1>3. CASE Commit
  <2>1. call \in Call BY <1>3 DEF Commit, Control, EnvelopeInv
  <2>2. Len(log') = Len(log) + Len(tx.events) BY <1>3, <2>1, CommitTypes DEF Commit
  <2>3. Len(log) \in Nat /\ Len(tx.events) \in Nat
    <3>1. log \in Seq(LogEvent) /\ tx.events \in Seq(LogEvent) BY DEF TypeOK, LogEvent
    <3> QED BY <3>1
  <2>4. model'.seq = Len(log') /\ bus' = bus BY <1>3 DEF Commit
  <2>5. model.seq <= Len(log) BY DEF HeadInv
  <2> QED BY <1>0, <2>2, <2>3, <2>4, <2>5
<1>4. CASE PublishEvent
  <2>1. bus \in Seq(Nat) /\ outbox \in Seq(Nat) /\ outbox # <<>>
    BY <1>4 DEF PublishEvent, TypeOK
  <2>2. bus' = Append(bus, Head(outbox)) /\ model' = model BY <1>4 DEF PublishEvent
  <2>3. bus'[Len(bus')] = outbox[1] /\ 1 \in DOMAIN outbox BY <2>1, <2>2
  <2>4. outbox[1] <= model.seq BY <1>4, <2>3 DEF PublishEvent, HeadInv
  <2> QED BY <1>0, <2>2, <2>3, <2>4
<1>5. CASE ReplaySwap
  <2>1. bus' = bus /\ (model' = model \/ model'.seq = start + Len(outbox)) BY <1>5 DEF ReplaySwap
  <2>2. start = model.seq BY <1>5 DEF ReplaySwap, HeadInv
  <2>3. Len(outbox) \in Nat
    <3>1. outbox \in Seq(Nat) BY DEF TypeOK
    <3> QED BY <3>1
  <2> QED BY <1>0, <2>1, <2>2, <2>3
<1>6. CASE Crash
  BY <1>6 DEF Crash
<1>7. CASE \/ Start \/ BootEvent \/ BootNextProjector \/ Take \/ DecideAccepts \/ PersistEvent
           \/ CommitReportsFailure \/ Reconcile \/ ReplayEvent \/ ReconcileFails
           \/ RecordRefusal \/ RecordRefusalFails
  BY <1>1, <1>7
     DEF Start, BootEvent, BootNextProjector, Take, DecideAccepts, PersistEvent,
         CommitReportsFailure, Reconcile, ReplayEvent, ReconcileFails, RecordRefusal,
         RecordRefusalFails
<1>8. CASE \/ ReplayAccepted \/ ReplayRejected \/ AnswerAccepted \/ AnswerRejected \/ AnswerFailed
           \/ ReceiptReadFails \/ TransactionFails \/ DecideRejects
  BY <1>1, <1>8
     DEF ReplayAccepted, ReplayRejected, AnswerAccepted, AnswerRejected, AnswerFailed, Tell,
         ReceiptReadFails, TransactionFails, DecideRejects, Fails
<1>9. ASSUME NEW k \in Call, Dispatch(k) PROVE HeadMoves
  BY <1>1, <1>9 DEF Dispatch
<1>10. CASE UNCHANGED vars
  BY <1>1, <1>10 DEF vars
<1> QED BY <1>2, <1>3, <1>4, <1>5, <1>6, <1>7, <1>8, <1>9, <1>10 DEF Next, Boot, Process

\* latestSequence never goes back while the process lives, and no event is
\* published before it (OrchestrationEngine.ts:215-231 and 343-347).
THEOREM HeadIsMonotonic == HydrateTypes => (Spec => HeadMonotonic)
<1>1. IInv /\ IInv' /\ [Next]_vars => [HeadMoves]_vars
  BY HeadMovesStep DEF IInv
<1>2. [HeadMoves]_vars =>
        [pc # "down" /\ pc' # "down" =>
           /\ model'.seq >= model.seq
           /\ bus' # bus => bus'[Len(bus')] <= model'.seq]_vars
  BY DEF HeadMoves
<1> QED BY Invariance, <1>1, <1>2, PTL DEF Spec, HeadMonotonic
-----------------------------------------------------------------------------
(* The engine and its log.                                                   *)

WithinLimit == Len(log) <= ReadLimit
OneOfTwo == \A F \in Faults : ~ ({"commit", "reconcile"} \subseteq F)
HydrateIsState ==
  \A l \in Seq(LogEvent), a \in [Projector -> SUBSET Nat] :
    (\A p \in Projector \ Later : a[p] = 1..Len(l)) => Hydrate(l, a) = StateOf(l)
SomeCursor == Required \ Later # {}

-----------------------------------------------------------------------------
(* The states of a log.                                                      *)

LEMMA LeastNat == ASSUME NEW T \in SUBSET Nat, T # {} PROVE \E x \in T : \A y \in T : x <= y
<1>1. PICK R : IsWellFoundedOn(R, Nat) /\ \A x, y \in Nat : y < x => <<y, x>> \in R
  <2>1. IsWellFoundedOn(OpToRel(<, Nat), Nat) BY NatLessThanWellFounded
  <2>2. \A x, y \in Nat : y < x => <<y, x>> \in OpToRel(<, Nat) BY DEF OpToRel
  <2> QED BY <2>1, <2>2, Zenon
<1>2. \E x \in T : \A y \in T : ~ (<<y, x>> \in R) BY <1>1, WFMin
<1>3. \A x, y \in T : x <= y \/ y < x OBVIOUS
<1> QED BY <1>1, <1>2, <1>3

\* s holds the states of the first n events of l.
Follows(s, l, n) ==
  s = [i \in 0..n |-> IF i = 0 THEN EmptyModel ELSE Apply(s[i - 1], l[i].body)]

\* There are such states: by the least n for which there are none.
LEMMA StatesExist ==
  ASSUME NEW l, NEW N \in Nat PROVE \E s : Follows(s, l, N)
<1> DEFINE Bad == {n \in Nat : ~ \E s : Follows(s, l, n)}
<1>1. Bad = {}
  <2> SUFFICES ASSUME Bad # {} PROVE FALSE OBVIOUS
  <2>1. PICK n \in Bad : \A m \in Bad : n <= m
    <3>1. Bad \in SUBSET Nat OBVIOUS
    <3> HIDE DEF Bad
    <3> QED BY <3>1, LeastNat
  <2>2. n \in Nat /\ ~ \E s : Follows(s, l, n) OBVIOUS
  <2>3. CASE n = 0
    <3>1. Follows([i \in 0..0 |-> EmptyModel], l, 0) BY DEF Follows
    <3> QED BY <2>2, <2>3, <3>1
  <2>4. CASE n # 0
    <3>1. n - 1 \in Nat /\ n - 1 \notin Bad
      <4> HIDE DEF Bad
      <4> QED BY <2>1, <2>2, <2>4
    <3>2. PICK s : Follows(s, l, n - 1) BY <3>1
    <3>3. PICK t : t = [i \in 0..n |-> IF i < n THEN s[i] ELSE Apply(s[n - 1], l[n].body)] OBVIOUS
    <3>4. ASSUME NEW i \in 0..n
          PROVE  t[i] = IF i = 0 THEN EmptyModel ELSE Apply(t[i - 1], l[i].body)
      <4>1. CASE i = n
        <5>1. t[i] = Apply(s[n - 1], l[n].body) /\ t[i - 1] = s[n - 1]
          BY <2>2, <2>4, <3>3, <4>1
        <5> QED BY <2>4, <4>1, <5>1
      <4>2. CASE i < n
        <5>1. t[i] = s[i] BY <3>3, <4>2
        <5>2. i \in 0..(n - 1) BY <2>2, <4>2
        <5>3. s[i] = IF i = 0 THEN EmptyModel ELSE Apply(s[i - 1], l[i].body)
          BY <3>2, <5>2, Zenon DEF Follows
        <5>4. i # 0 => t[i - 1] = s[i - 1] BY <2>2, <3>3, <4>2
        <5> QED BY <5>1, <5>3, <5>4
      <4> QED BY <2>2, <4>1, <4>2
    <3>5. Follows(t, l, n)
      <4>1. t = [i \in 0..n |-> t[i]] BY <3>3
      <4> QED BY <3>4, <4>1 DEF Follows
    <3> QED BY <2>2, <3>5
  <2> QED BY <2>3, <2>4
<1> QED BY <1>1

\* Two logs that agree go through the same states: by the least place they do not.
LEMMA StatesAgree ==
  ASSUME NEW s, NEW t, NEW l, NEW m, NEW N \in Nat, NEW M \in Nat, N <= M,
         Follows(s, l, N), Follows(t, m, M), \A i \in 1..N : l[i] = m[i]
  PROVE  \A i \in 0..N : s[i] = t[i]
<1> DEFINE Bad == {i \in 0..N : s[i] # t[i]}
<1> SUFFICES ASSUME Bad # {} PROVE FALSE OBVIOUS
<1>1. PICK n \in Bad : \A m_1 \in Bad : n <= m_1
  <2>1. Bad \in SUBSET Nat OBVIOUS
  <2> HIDE DEF Bad
  <2> QED BY <2>1, LeastNat
<1>2. n \in 0..N /\ n \in 0..M /\ s[n] # t[n] OBVIOUS
<1>3. /\ s[n] = IF n = 0 THEN EmptyModel ELSE Apply(s[n - 1], l[n].body)
      /\ t[n] = IF n = 0 THEN EmptyModel ELSE Apply(t[n - 1], m[n].body)
  BY <1>2, Zenon DEF Follows
<1>4. CASE n = 0 BY <1>2, <1>3, <1>4
<1>5. CASE n # 0
  <2>1. n - 1 \in 0..N /\ n - 1 \notin Bad
    <3>1. n - 1 \in 0..N /\ ~ (n <= n - 1) BY <1>2, <1>5
    <3> HIDE DEF Bad
    <3> QED BY <1>1, <3>1
  <2>2. s[n - 1] = t[n - 1] BY <2>1
  <2>3. l[n] = m[n] BY <1>2, <1>5
  <2> QED BY <1>2, <1>3, <1>5, <2>2, <2>3
<1> QED BY <1>4, <1>5

LEMMA StatesFollow == ASSUME NEW l, Len(l) \in Nat PROVE Follows(StatesOf(l), l, Len(l))
<1>1. \E s : s = [n \in 0..Len(l) |-> IF n = 0 THEN EmptyModel ELSE Apply(s[n - 1], l[n].body)]
  BY StatesExist DEF Follows
<1>2. StatesOf(l) = CHOOSE s : s = [n \in 0..Len(l) |-> IF n = 0 THEN EmptyModel
                                                      ELSE Apply(s[n - 1], l[n].body)]
  BY DEF StatesOf
<1>3. StatesOf(l) = [n \in 0..Len(l) |-> IF n = 0 THEN EmptyModel
                                        ELSE Apply(StatesOf(l)[n - 1], l[n].body)]
  BY <1>1, <1>2, Zenon
<1> QED BY <1>3 DEF Follows

\* What a log went through stays when it grows; each event is applied to the state before it.
LEMMA States ==
  ASSUME NEW l \in Seq(LogEvent)
  PROVE  /\ StatesOf(l)[0] = EmptyModel
         /\ \A n \in 1..Len(l) : StatesOf(l)[n] = Apply(StatesOf(l)[n - 1], l[n].body)
         /\ \A b \in Seq(LogEvent), n \in 0..Len(l) : StatesOf(l \o b)[n] = StatesOf(l)[n]
         /\ \A e \in LogEvent : StateOf(Append(l, e)) = Apply(StateOf(l), e.body)
<1>0. Len(l) \in Nat OBVIOUS
<1>1. Follows(StatesOf(l), l, Len(l)) BY <1>0, StatesFollow
<1>2. \A n \in 0..Len(l) :
        StatesOf(l)[n] = IF n = 0 THEN EmptyModel ELSE Apply(StatesOf(l)[n - 1], l[n].body)
  BY <1>1, Zenon DEF Follows
<1>3. StatesOf(l)[0] = EmptyModel BY <1>0, <1>2
<1>4. \A n \in 1..Len(l) : StatesOf(l)[n] = Apply(StatesOf(l)[n - 1], l[n].body) BY <1>0, <1>2
<1>5. ASSUME NEW b \in Seq(LogEvent), NEW n \in 0..Len(l) PROVE StatesOf(l \o b)[n] = StatesOf(l)[n]
  <2>1. Len(l \o b) \in Nat /\ Len(l) <= Len(l \o b) /\ \A i \in 1..Len(l) : l[i] = (l \o b)[i] OBVIOUS
  <2> PICK m : m = l \o b OBVIOUS
  <2>2. Follows(StatesOf(m), m, Len(m)) BY <2>1, StatesFollow
  <2>3. \A i \in 0..Len(l) : StatesOf(l)[i] = StatesOf(m)[i] BY <1>0, <1>1, <2>1, <2>2, StatesAgree, ZenonT(60)
  <2> QED BY <2>3
<1>6. ASSUME NEW e \in LogEvent PROVE StateOf(Append(l, e)) = Apply(StateOf(l), e.body)
  <2>1. PICK m : m = Append(l, e) OBVIOUS
  <2>2. Len(m) = Len(l) + 1 /\ m[Len(m)] = e /\ \A i \in 1..Len(l) : l[i] = m[i] BY <2>1
  <2>3. Follows(StatesOf(m), m, Len(m)) BY <1>0, <2>2, StatesFollow
  <2>4. \A n \in 0..Len(m) :
          StatesOf(m)[n] = IF n = 0 THEN EmptyModel ELSE Apply(StatesOf(m)[n - 1], m[n].body)
    BY <2>3, Zenon DEF Follows
  <2>5. Len(m) \in 0..Len(m) /\ Len(m) # 0 /\ Len(m) - 1 = Len(l) BY <1>0, <2>2
  <2>6. StatesOf(m)[Len(m)] = Apply(StatesOf(m)[Len(l)], e.body) BY <2>2, <2>4, <2>5
  <2>7. \A i \in 0..Len(l) : StatesOf(l)[i] = StatesOf(m)[i]
    BY <1>0, <1>1, <2>2, <2>3, StatesAgree
  <2>8. StatesOf(m)[Len(l)] = StatesOf(l)[Len(l)] BY <1>0, <2>7
  <2> QED BY <2>1, <2>6, <2>8 DEF StateOf
<1> QED BY <1>3, <1>4, <1>5, <1>6

-----------------------------------------------------------------------------
(* The tables.                                                               *)

\* A projector's tables hold what its cursor says; once the bootstrap is done with
\* a projector its cursor is at the end of the log.
TablesInv ==
  /\ Projector \ Later \subseteq release
  /\ \A p \in Projector : applied[p] = 1..cursor[p]
  /\ pc = "boot" =>
       /\ \A p \in release : cursor[p] = Len(log) \/ \E i \in DOMAIN boot.left : boot.left[i] = p
       /\ boot.left # <<>> => boot.upto = Len(log)
  /\ pc \notin {"down", "boot"} => \A p \in release : cursor[p] = Len(log)

LEMMA BootWithin ==
  ASSUME TypeOK, WithinLimit, NEW left \in Seq(Projector)
  PROVE  BootOf(left).left = left /\ (left # <<>> => BootOf(left).upto = Len(log))
<1>1. Len(log) \in Nat BY DEF TypeOK
<1>2. ASSUME left # <<>> PROVE BootOf(left).upto = Len(log)
  <2>1. Head(left) \in Projector BY <1>2
  <2>2. cursor[Head(left)] \in Nat BY <2>1 DEF TypeOK
  <2>3. AtMost(cursor[Head(left)] + ReadLimit, Len(log)) = Len(log)
    BY <1>1, <2>2, BoundsAssumption DEF AtMost, WithinLimit
  <2> QED BY <1>2, <2>3 DEF BootOf
<1> QED BY <1>2 DEF BootOf

LEMMA CommitTables ==
  ASSUME IInv, TablesInv, pc = "transaction", CommitDurably
  PROVE  /\ \A p \in Projector : applied'[p] = 1..cursor'[p]
         /\ \A p \in release : cursor'[p] = Len(log')
<1> PICK last : last = Len(log) + Len(tx.events) OBVIOUS
<1>1. log \in Seq(LogEvent) /\ tx.events \in Seq(LogEvent) BY DEF IInv, TypeOK, LogEvent
<1>2. log' = log \o tx.events /\ Len(log') = last /\ last \in Nat /\ Len(log) <= last
  BY <1>1 DEF CommitDurably
<1>3. /\ applied' = [p \in Projector |->
                      IF p \in release THEN applied[p] \cup (Len(log) + 1)..last ELSE applied[p]]
      /\ cursor' = [p \in Projector |-> IF p \in release THEN last ELSE cursor[p]]
  BY DEF CommitDurably
<1>4. release \subseteq Projector BY DEF IInv, TypeOK
<1>5. ASSUME NEW p \in release PROVE applied[p] \cup (Len(log) + 1)..last = 1..last
  <2>1. applied[p] = 1..Len(log) BY <1>4 DEF TablesInv
  <2>2. 1..Len(log) \cup (Len(log) + 1)..last = 1..last
    <3>1. Len(log) \in Nat BY <1>1
    <3> QED BY <1>2, <3>1
  <2> QED BY <2>1, <2>2
<1>6. ASSUME NEW p \in Projector PROVE applied'[p] = 1..cursor'[p]
  <2>1. CASE p \in release BY <1>3, <1>5, <2>1
  <2>2. CASE p \notin release BY <1>3, <2>2 DEF TablesInv
  <2> QED BY <2>1, <2>2
<1>7. \A p \in release : cursor'[p] = Len(log') BY <1>2, <1>3, <1>4
<1> QED BY <1>6, <1>7

LEMMA TablesStep ==
  ASSUME IInv, TablesInv, WithinLimit, [Next]_vars PROVE TablesInv'
<1> USE DEF durable, work, bounds
<1>0. TypeOK /\ Len(log) \in Nat /\ release \subseteq Projector /\ boot.left \in Seq(Projector)
  BY DEF IInv, TypeOK
<1>1. CASE Start
  <2>1. /\ release' \in {release, Projector} /\ boot' = BootOf(ProjectorOrder) /\ pc' = "boot"
        /\ log' = log /\ cursor' = cursor /\ applied' = applied
    BY <1>1 DEF Start
  <2>2. boot'.left = ProjectorOrder /\ (boot'.left # <<>> => boot'.upto = Len(log))
    BY <1>0, <2>1, BootWithin, ProjectorsAssumption
  <2>3. \A p \in Projector : \E i \in DOMAIN ProjectorOrder : ProjectorOrder[i] = p
    BY ProjectorsAssumption DEF ToSet
  <2>4. Projector \ Later \subseteq release' /\ release' \subseteq Projector BY <1>0, <2>1 DEF TablesInv
  <2> QED BY <2>1, <2>2, <2>3, <2>4 DEF TablesInv
<1>2. CASE BootEvent
  <2> PICK p : p = Head(boot.left) OBVIOUS
  <2>1. /\ pc = "boot" /\ pc' = "boot" /\ boot.left # <<>> /\ p \in release /\ cursor[p] < boot.upto
        /\ applied' = [applied EXCEPT ![p] = @ \cup {cursor[p] + 1}]
        /\ cursor' = [cursor EXCEPT ![p] = @ + 1]
        /\ log' = log /\ release' = release /\ boot' = boot
    BY <1>2 DEF BootEvent
  <2>2. p \in Projector /\ cursor[p] \in Nat /\ cursor \in [Projector -> Nat] /\ applied \in [Projector -> SUBSET Nat]
    BY <1>0, <2>1 DEF TypeOK
  <2>3. \A q \in Projector : applied'[q] = 1..cursor'[q]
    <3> TAKE q \in Projector
    <3>1. applied[q] = 1..cursor[q] BY DEF TablesInv
    <3>2. CASE q = p
      <4>1. applied'[q] = (1..cursor[p]) \cup {cursor[p] + 1} /\ cursor'[q] = cursor[p] + 1
        BY <2>1, <2>2, <3>1, <3>2
      <4> QED BY <2>2, <4>1
    <3>3. CASE q # p
      <4>1. applied'[q] = applied[q] /\ cursor'[q] = cursor[q] BY <2>1, <2>2, <3>3
      <4> QED BY <3>1, <4>1
    <3> QED BY <3>2, <3>3
  <2>4. \A q \in release : cursor'[q] = Len(log') \/ \E i \in DOMAIN boot'.left : boot'.left[i] = q
    <3> TAKE q \in release
    <3>1. CASE q = p
      <4>1. 1 \in DOMAIN boot.left /\ boot.left[1] = p BY <1>0, <2>1
      <4> QED BY <2>1, <3>1, <4>1
    <3>2. CASE q # p
      <4>1. cursor'[q] = cursor[q] BY <1>0, <2>1, <2>2, <3>2
      <4> QED BY <2>1, <4>1 DEF TablesInv
    <3> QED BY <3>1, <3>2
  <2> QED BY <2>1, <2>3, <2>4 DEF TablesInv
<1>3. CASE BootNextProjector
  <2> PICK p : p = Head(boot.left) OBVIOUS
  <2>1. /\ pc = "boot" /\ pc' = pc /\ boot.left # <<>> /\ (p \in release => cursor[p] >= boot.upto)
        /\ boot' = BootOf(Tail(boot.left))
        /\ log' = log /\ release' = release /\ cursor' = cursor /\ applied' = applied
    BY <1>3 DEF BootNextProjector
  <2>2. Tail(boot.left) \in Seq(Projector) BY <1>0, <2>1
  <2>3. boot'.left = Tail(boot.left) /\ (boot'.left # <<>> => boot'.upto = Len(log))
    BY <1>0, <2>1, <2>2, BootWithin
  <2>4. \A q \in release : cursor'[q] = Len(log') \/ \E i \in DOMAIN boot'.left : boot'.left[i] = q
    <3> TAKE q \in release
    <3>1. CASE q = p
      <4>1. cursor[p] <= Len(log) /\ cursor[p] \in Nat BY <1>0, <3>1 DEF IInv, HeadInv, TypeOK
      <4>2. cursor[p] >= Len(log) BY <2>1, <3>1 DEF TablesInv
      <4> QED BY <1>0, <2>1, <3>1, <4>1, <4>2
    <3>2. CASE q # p /\ cursor[q] # Len(log)
      <4>1. PICK i \in DOMAIN boot.left : boot.left[i] = q BY <2>1, <3>2 DEF TablesInv
      <4>2. i # 1 BY <1>0, <2>1, <3>2, <4>1
      <4>3. i - 1 \in DOMAIN Tail(boot.left) /\ Tail(boot.left)[i - 1] = q
        BY <1>0, <2>1, <4>1, <4>2, SMTT(30)
      <4> QED BY <2>3, <4>3
    <3> QED BY <2>1, <3>1, <3>2
  <2> QED BY <2>1, <2>3, <2>4 DEF TablesInv
<1>4. CASE HydrateModel
  <2>1. /\ pc = "boot" /\ boot.left = <<>> /\ pc' = "idle"
        /\ log' = log /\ release' = release /\ cursor' = cursor /\ applied' = applied
    BY <1>4 DEF HydrateModel
  <2>2. \A p \in release : cursor[p] = Len(log) BY <2>1 DEF TablesInv
  <2> QED BY <2>1, <2>2 DEF TablesInv
<1>5. CASE Commit \/ CommitReportsFailure
  <2>1. /\ pc = "transaction" /\ CommitDurably /\ release' = release
        /\ pc' \in {"publish", "reconcile"}
    BY <1>5 DEF Commit, CommitReportsFailure
  <2>2. /\ \A p \in Projector : applied'[p] = 1..cursor'[p]
        /\ \A p \in release : cursor'[p] = Len(log')
    BY <2>1, CommitTables
  <2> QED BY <2>1, <2>2 DEF TablesInv
<1>6. ASSUME log' = log, cursor' = cursor, applied' = applied, release' = release,
             \/ pc' = "down"
             \/ pc' = pc /\ boot' = boot
             \/ pc \notin {"down", "boot"} /\ pc' \notin {"down", "boot"}
      PROVE  TablesInv'
  BY <1>6 DEF TablesInv
<1>7. CASE Crash BY <1>6, <1>7 DEF Crash
<1>8. CASE \/ Take \/ DecideAccepts \/ PersistEvent \/ PublishEvent \/ Reconcile \/ ReplayEvent
           \/ ReplaySwap \/ ReconcileFails \/ RecordRefusal \/ RecordRefusalFails
  BY <1>6, <1>8
     DEF Take, DecideAccepts, PersistEvent, PublishEvent, Reconcile, ReplayEvent, ReplaySwap,
         ReconcileFails, RecordRefusal, RecordRefusalFails
<1>9. CASE \/ ReplayAccepted \/ ReplayRejected \/ AnswerAccepted \/ AnswerRejected \/ AnswerFailed
           \/ ReceiptReadFails \/ TransactionFails \/ DecideRejects
  BY <1>6, <1>9
     DEF ReplayAccepted, ReplayRejected, AnswerAccepted, AnswerRejected, AnswerFailed, Tell,
         ReceiptReadFails, TransactionFails, DecideRejects, Fails
<1>10. ASSUME NEW k \in Call, Dispatch(k) PROVE TablesInv' BY <1>6, <1>10 DEF Dispatch
<1>11. CASE UNCHANGED vars BY <1>6, <1>11 DEF vars
<1> QED BY <1>1, <1>2, <1>3, <1>4, <1>5, <1>7, <1>8, <1>9, <1>10, <1>11 DEF Next, Boot, Process

-----------------------------------------------------------------------------
(* The read model and the stream.                                            *)

\* How far the stream is.
Sent == booted + Len(bus)

\* Between two envelopes the read model is the log's state and all is published; a
\* commit that reported a failure leaves both at `start` until the replay is done.
ModelInv ==
  /\ bus = UpTo(booted, Sent)
  /\ pc \in {"down", "boot"} => bus = <<>> /\ booted = 0
  /\ pc \in {"idle", "receipt", "transaction", "publish", "fail"} =>
       model.seq = Len(log) /\ model.state = StateOf(log)
  /\ pc \in {"idle", "receipt", "transaction", "fail"} => Sent = Len(log)
  /\ pc = "publish" => Sent <= Len(log) /\ outbox = UpTo(Sent, Len(log))
  /\ pc \in {"reconcile", "replay"} =>
       /\ Sent = start /\ model.state = StatesOf(log)[start]
       /\ start = Len(log) \/ "commit" \in failed
  /\ pc = "transaction" => tx.state = StateOf(log \o tx.events)
  /\ pc = "replay" =>
       /\ outbox = UpTo(start, Len(log))
       /\ start + Len(todo) <= Len(log)
       /\ \A i \in 1..Len(todo) : todo[i] = log[(Len(log) - Len(todo)) + i].body
       /\ tx.state = StatesOf(log)[Len(log) - Len(todo)]
  /\ failed = {} \/ failed \in Faults

LEMMA UpToShape ==
  ASSUME NEW a \in Nat, NEW n \in Nat, a <= n
  PROVE  /\ UpTo(a, n) = <<>> <=> a = n
         /\ UpTo(a, n + 1) = Append(UpTo(a, n), n + 1)
         /\ a < n => Head(UpTo(a, n)) = a + 1 /\ Tail(UpTo(a, n)) = UpTo(a + 1, n)
<1> PICK u : u = UpTo(a, n) OBVIOUS
<1>1. u \in Seq(Nat) /\ Len(u) = n - a /\ \A i \in 1..(n - a) : u[i] = a + i
  BY UpToProperties
<1>2. u = <<>> <=> a = n BY <1>1
<1>3. UpTo(a, n + 1) = Append(u, n + 1)
  <2> PICK x, y : x = UpTo(a, n + 1) /\ y = Append(u, n + 1) OBVIOUS
  <2>1. n + 1 \in Nat /\ a <= n + 1 OBVIOUS
  <2>2. x \in Seq(Nat) /\ Len(x) = (n + 1) - a /\ \A i \in 1..((n + 1) - a) : x[i] = a + i
    BY <2>1, UpToProperties
  <2>3. /\ y \in Seq(Nat) /\ Len(y) = (n - a) + 1
        /\ \A i \in 1..(n - a) : y[i] = u[i]
        /\ y[(n - a) + 1] = n + 1
    <3>1. PICK v : v = n + 1 OBVIOUS
    <3>2. v \in Nat /\ y = Append(u, v) BY <2>1, <3>1
    <3>3. /\ y \in Seq(Nat) /\ Len(y) = Len(u) + 1
          /\ \A i \in 1..Len(u) : y[i] = u[i]
          /\ y[Len(u) + 1] = v
      BY <1>1, <3>2, AppendProperties
    <3> QED BY <1>1, <3>1, <3>3
  <2>4. \A i \in 1..((n + 1) - a) : y[i] = a + i
    <3> TAKE i \in 1..((n + 1) - a)
    <3>1. CASE i \in 1..(n - a)
      <4>1. y[i] = u[i] BY <2>3, <3>1
      <4> QED BY <1>1, <3>1, <4>1
    <3>2. CASE i = (n - a) + 1
      <4>1. y[i] = n + 1 BY <2>3, <3>2
      <4>2. a + i = n + 1 BY <3>2
      <4> QED BY <4>1, <4>2
    <3>3. i \in 1..(n - a) \/ i = (n - a) + 1 OBVIOUS
    <3> QED BY <3>1, <3>2, <3>3
  <2>5. Len(x) = Len(y) /\ \A i \in 1..Len(x) : x[i] = y[i] BY <2>2, <2>3, <2>4
  <2>6. x = y BY <2>2, <2>3, <2>5, SeqEqual
  <2> QED BY <2>6
<1>4. ASSUME a < n PROVE Head(u) = a + 1 /\ Tail(u) = UpTo(a + 1, n)
  <2> PICK x, y : x = Tail(u) /\ y = UpTo(a + 1, n) OBVIOUS
  <2>0. a + 1 \in Nat /\ a + 1 <= n BY <1>4
  <2>1. /\ y \in Seq(Nat) /\ Len(y) = n - (a + 1) /\ \A i \in 1..(n - (a + 1)) : y[i] = (a + 1) + i
    BY <2>0, UpToProperties
  <2>2. u # <<>> BY <1>2, <1>4
  <2>3. /\ x \in Seq(Nat) /\ Len(x) = (n - a) - 1
        /\ \A i \in 1..Len(x) : x[i] = u[i + 1]
    BY <1>1, <2>2, HeadTailProperties, Zenon
  <2>4. \A i \in 1..(n - (a + 1)) : x[i] = (a + 1) + i
    <3> TAKE i \in 1..(n - (a + 1))
    <3>1. x[i] = u[i + 1] BY <2>3
    <3>2. i + 1 \in 1..(n - a) BY <1>4
    <3> QED BY <1>1, <3>1, <3>2
  <2>5. Len(x) = Len(y) /\ \A i \in 1..Len(x) : x[i] = y[i] BY <2>1, <2>3, <2>4
  <2>6. x = y BY <2>1, <2>3, <2>5, SeqEqual
  <2>7. Head(u) = a + 1 BY <1>1, <1>4, <2>2
  <2> QED BY <2>6, <2>7
<1> QED BY <1>2, <1>3, <1>4

\* A start finds the end of the log and its state.
LEMMA Hydrated ==
  ASSUME IInv, TablesInv, HydrateIsState, SomeCursor, pc = "boot", boot.left = <<>>
  PROVE  SnapshotSequence = Len(log) /\ Hydrate(log, applied) = StateOf(log)
<1>1. \A p \in release : cursor[p] = Len(log) BY DEF TablesInv
<1>2. Projector \ Later \subseteq release /\ release \subseteq Projector BY DEF TablesInv, IInv, TypeOK
<1>3. {cursor[p] : p \in Required \cap release} = {Len(log)}
  <2>1. PICK p : p \in Required \cap release BY <1>2, ProjectorsAssumption DEF SomeCursor
  <2> QED BY <1>1, <2>1
<1>4. SnapshotSequence = Len(log)
  <2>1. Len(log) \in Nat BY DEF IInv, TypeOK
  <2>2. (CHOOSE n \in {Len(log)} : \A m \in {Len(log)} : n <= m) = Len(log) BY <2>1
  <2> QED BY <1>3, <2>2 DEF SnapshotSequence
<1>5. \A p \in Projector \ Later : applied[p] = 1..Len(log) BY <1>1, <1>2 DEF TablesInv
<1>6. log \in Seq(LogEvent) /\ applied \in [Projector -> SUBSET Nat] BY DEF IInv, TypeOK, LogEvent
<1>7. Hydrate(log, applied) = StateOf(log) BY <1>5, <1>6, Zenon DEF HydrateIsState
<1> QED BY <1>4, <1>7

LEMMA Facts ==
  ASSUME IInv, ModelInv
  PROVE  /\ log \in Seq(LogEvent) /\ Len(log) \in Nat /\ tx.events \in Seq(LogEvent)
         /\ bus \in Seq(Nat) /\ Len(bus) \in Nat /\ booted \in Nat /\ Sent \in Nat
         /\ outbox \in Seq(Nat) /\ todo \in Seq(Body) /\ Len(todo) \in Nat
         /\ start \in Nat /\ StateOf(log) = StatesOf(log)[Len(log)]
         /\ pc \in {"receipt", "transaction", "reconcile", "replay"} => start = model.seq /\ start <= Len(log)
<1>1. /\ log \in Seq(LogEvent) /\ tx.events \in Seq(LogEvent) /\ bus \in Seq(Nat) /\ booted \in Nat
      /\ outbox \in Seq(Nat) /\ todo \in Seq(Body) /\ start \in Nat
  BY DEF IInv, TypeOK, LogEvent
<1>2. Len(log) \in Nat /\ Len(bus) \in Nat /\ Len(todo) \in Nat BY <1>1
<1>3. Sent \in Nat BY <1>1, <1>2 DEF Sent
<1>4. pc \in {"receipt", "transaction", "reconcile", "replay"} => start = model.seq /\ start <= Len(log)
  BY DEF IInv, HeadInv
<1> QED BY <1>1, <1>2, <1>3, <1>4 DEF StateOf

\* Between two envelopes.
LEMMA RestStep ==
  ASSUME IInv, ModelInv, UNCHANGED <<log, model, bus, booted>>, failed' = failed \/ failed' \in Faults,
         pc' \in {"idle", "receipt", "fail"},
         pc \in {"idle", "receipt", "fail"} \/ (pc = "publish" /\ outbox = <<>>)
  PROVE  ModelInv'
<1>1. Sent' = Sent BY DEF Sent
<1>2. Sent = Len(log)
  <2>1. CASE pc = "publish" /\ outbox = <<>>
    <3>1. Sent \in Nat /\ Len(log) \in Nat BY Facts
    <3>2. Sent <= Len(log) /\ UpTo(Sent, Len(log)) = <<>> BY <2>1 DEF ModelInv
    <3> QED BY <3>1, <3>2, UpToShape
  <2> QED BY <2>1 DEF ModelInv
<1>3. model.seq = Len(log) /\ model.state = StateOf(log) BY DEF ModelInv
<1> QED BY <1>1, <1>2, <1>3 DEF ModelInv

\* To the reconciliation, when nothing was committed.
LEMMA FailsStep ==
  ASSUME IInv, ModelInv, NEW why, Fails(why), failed' = failed \/ failed' \in Faults,
         pc \in {"receipt", "transaction"}
  PROVE  ModelInv'
<1>1. /\ log' = log /\ model' = model /\ bus' = bus /\ booted' = booted /\ start' = start
      /\ pc' = "reconcile"
  BY DEF Fails, durable
<1>2. Sent' = Sent BY <1>1 DEF Sent
<1>3. start = Len(log) /\ Sent = start /\ model.state = StatesOf(log)[start]
  BY Facts DEF ModelInv
<1> QED BY <1>1, <1>2, <1>3 DEF ModelInv

LEMMA ConcatAppend ==
  ASSUME NEW S, NEW s \in Seq(S), NEW t \in Seq(S), NEW e \in S
  PROVE  s \o Append(t, e) = Append(s \o t, e)
<1> PICK x, y : x = s \o Append(t, e) /\ y = Append(s \o t, e) OBVIOUS
<1>1. x \in Seq(S) /\ y \in Seq(S) /\ Len(x) = Len(y) OBVIOUS
<1>2. \A i \in 1..Len(x) : x[i] = y[i] OBVIOUS
<1>3. x = y BY <1>1, <1>2, SeqEqual
<1> QED BY <1>3

LEMMA PersistModel == ASSUME IInv, ModelInv, DecideAccepts \/ PersistEvent PROVE ModelInv'
<1>0. /\ log \in Seq(LogEvent) /\ tx.events \in Seq(LogEvent) /\ todo \in Seq(Body) BY Facts
<1>1. /\ log' = log /\ model' = model /\ bus' = bus /\ booted' = booted /\ failed' = failed
      /\ pc' = "transaction" /\ pc \in {"receipt", "transaction"}
  BY DEF DecideAccepts, PersistEvent, durable, bounds
<1>2. Sent' = Sent BY <1>1 DEF Sent
<1>3. tx'.state = StateOf(log \o tx'.events)
  <2>1. CASE DecideAccepts
    <3>1. tx'.events = <<>> /\ tx'.state = StateOf(log) BY <2>1 DEF DecideAccepts, ModelInv
    <3>2. log \o <<>> = log BY <1>0, ConcatEmptySeq
    <3> QED BY <3>1, <3>2
  <2>2. CASE PersistEvent
    <3> PICK e : e = Event(Cmd, Head(todo)) OBVIOUS
    <3>1. /\ tx'.events = Append(tx.events, e) /\ tx'.state = Apply(tx.state, Head(todo))
          /\ pc = "transaction" /\ todo # <<>>
      BY <2>2 DEF PersistEvent
    <3>2. Head(todo) \in Body BY <1>0, <3>1
    <3>3. Cmd \in Command BY <3>1, CommandInHand DEF IInv, Control, EnvelopeInv
    <3>4. e \in LogEvent /\ e.body = Head(todo) BY <3>2, <3>3 DEF Event, LogEvent
    <3>5. log \o Append(tx.events, e) = Append(log \o tx.events, e)
      BY <1>0, <3>4, ConcatAppend
    <3>6. StateOf(Append(log \o tx.events, e)) = Apply(StateOf(log \o tx.events), e.body)
      <4>1. log \o tx.events \in Seq(LogEvent) BY <1>0, ConcatProperties
      <4> QED BY <3>4, <4>1, States
    <3>7. tx.state = StateOf(log \o tx.events) BY <3>1 DEF ModelInv
    <3> QED BY <3>1, <3>4, <3>5, <3>6, <3>7
  <2> QED BY <2>1, <2>2
<1>4. Sent = Len(log) /\ model.seq = Len(log) /\ model.state = StateOf(log)
  BY <1>1 DEF ModelInv
<1> QED BY <1>1, <1>2, <1>3, <1>4 DEF ModelInv

LEMMA CommitModel == ASSUME IInv, ModelInv, Commit \/ CommitReportsFailure PROVE ModelInv'
<1>0. /\ log \in Seq(LogEvent) /\ tx.events \in Seq(LogEvent) /\ Len(log) \in Nat BY Facts
<1>1. /\ log' = log \o tx.events /\ bus' = bus /\ booted' = booted /\ pc = "transaction"
  BY DEF Commit, CommitReportsFailure, CommitDurably
<1>2. Sent' = Sent /\ Sent = Len(log) BY <1>1 DEF Sent, ModelInv
<1>3. Len(log') \in Nat /\ Len(log) <= Len(log')
  <2>1. Len(log') = Len(log) + Len(tx.events) BY <1>0, <1>1, ConcatProperties
  <2> QED BY <1>0, <2>1
<1>4. model.seq = Len(log) /\ model.state = StateOf(log) /\ tx.state = StateOf(log')
  BY <1>1 DEF ModelInv
<1>5. CASE Commit
  <2>1. /\ model' = [state |-> tx.state, seq |-> Len(log')] /\ outbox' = UpTo(Len(log), Len(log'))
        /\ pc' = "publish" /\ failed' = failed
    BY <1>5 DEF Commit, bounds
  <2> QED BY <1>1, <1>2, <1>3, <1>4, <2>1 DEF ModelInv
<1>6. CASE CommitReportsFailure
  <2>1. /\ model' = model /\ pc' = "reconcile" /\ start' = start
        /\ failed' = failed \cup {"commit"} /\ failed' \in Faults
    BY <1>6 DEF CommitReportsFailure, Fail
  <2>2. start = Len(log) BY <1>1, <1>4, Facts
  <2>3. StatesOf(log')[start] = StatesOf(log)[start]
    <3>1. start \in 0..Len(log) BY <1>0, <2>2
    <3> QED BY <1>0, <1>1, <3>1, States
  <2>4. model'.state = StatesOf(log')[start] BY <1>4, <2>1, <2>2, <2>3 DEF StateOf
  <2> QED BY <1>1, <1>2, <2>1, <2>2, <2>4 DEF ModelInv
<1> QED BY <1>5, <1>6

LEMMA PublishModel == ASSUME IInv, ModelInv, PublishEvent PROVE ModelInv'
<1>1. /\ pc = "publish" /\ pc' = pc /\ outbox # <<>> /\ bus' = Append(bus, Head(outbox))
      /\ outbox' = Tail(outbox) /\ log' = log /\ model' = model /\ booted' = booted /\ failed' = failed
  BY DEF PublishEvent, durable, bounds
<1>2. /\ Sent \in Nat /\ Len(log) \in Nat /\ Sent <= Len(log) /\ outbox = UpTo(Sent, Len(log))
      /\ bus \in Seq(Nat) /\ booted \in Nat
  BY <1>1, Facts DEF ModelInv
<1>3. Sent < Len(log) BY <1>1, <1>2, UpToShape
<1>4. Head(outbox) = Sent + 1 /\ Tail(outbox) = UpTo(Sent + 1, Len(log)) BY <1>2, <1>3, UpToShape
<1>5. Sent' = Sent + 1
  <2>1. Len(bus') = Len(bus) + 1 /\ Len(bus) \in Nat BY <1>1, <1>2
  <2> QED BY <1>1, <1>2, <2>1 DEF Sent
<1>6. bus' = UpTo(booted', Sent')
  <2>1. booted <= Sent
    <3>1. Len(bus) \in Nat BY <1>2
    <3> QED BY <1>2, <3>1 DEF Sent
  <2>2. UpTo(booted, Sent + 1) = Append(UpTo(booted, Sent), Sent + 1) BY <1>2, <2>1, UpToShape
  <2> QED BY <1>1, <1>4, <1>5, <2>2 DEF ModelInv
<1>7. Sent' <= Len(log') BY <1>1, <1>2, <1>3, <1>5
<1> QED BY <1>1, <1>4, <1>5, <1>6, <1>7 DEF ModelInv

LEMMA ReplayModel ==
  ASSUME IInv, ModelInv, WithinLimit, OneOfTwo,
         Reconcile \/ ReplayEvent \/ ReplaySwap \/ ReconcileFails
  PROVE  ModelInv'
<1>0. /\ log \in Seq(LogEvent) /\ Len(log) \in Nat /\ todo \in Seq(Body) /\ Len(todo) \in Nat
      /\ start \in Nat /\ Sent \in Nat /\ pc \in {"reconcile", "replay"} /\ start <= Len(log)
  BY Facts DEF Reconcile, ReplayEvent, ReplaySwap, ReconcileFails
<1>1. /\ Sent = start /\ model.state = StatesOf(log)[start]
      /\ start = Len(log) \/ "commit" \in failed
  BY <1>0 DEF ModelInv
<1>2. /\ log' = log /\ bus' = bus /\ booted' = booted /\ start' = start
  BY DEF Reconcile, ReplayEvent, ReplaySwap, ReconcileFails, durable, work
<1>3. Sent' = Sent BY <1>2 DEF Sent
<1>4. CASE Reconcile
  <2> PICK upto : upto = AtMost(start + ReadLimit, Len(log)) OBVIOUS
  <2>1. upto = Len(log) BY <1>0, BoundsAssumption DEF AtMost, WithinLimit
  <2>2. /\ outbox' = UpTo(start, Len(log)) /\ pc' = "replay" /\ model' = model /\ failed' = failed
        /\ todo' = [i \in 1..(Len(log) - start) |-> log[start + i].body]
        /\ tx'.state = model.state
    BY <1>4, <2>1 DEF Reconcile, bounds
  <2>3. Len(todo') = Len(log) - start BY <1>0, <2>2
  <2>4. \A i \in 1..Len(todo') : todo'[i] = log[(Len(log) - Len(todo')) + i].body
    <3> TAKE i \in 1..Len(todo')
    <3>1. (Len(log) - Len(todo')) + i = start + i BY <1>0, <2>3
    <3>2. todo'[i] = log[start + i].body BY <2>2, <2>3
    <3> QED BY <3>1, <3>2
  <2>5. tx'.state = StatesOf(log)[Len(log) - Len(todo')]
    <3>1. Len(log) - Len(todo') = start BY <1>0, <2>3
    <3> QED BY <1>1, <2>2, <3>1
  <2>6. start + Len(todo') <= Len(log) BY <1>0, <2>3
  <2> QED BY <1>1, <1>2, <1>3, <2>2, <2>4, <2>5, <2>6 DEF ModelInv
<1>5. CASE ReplayEvent
  <2> PICK k : k = Len(log) - Len(todo) OBVIOUS
  <2>1. /\ pc = "replay" /\ pc' = "replay" /\ todo # <<>> /\ tx'.state = Apply(tx.state, Head(todo))
        /\ todo' = Tail(todo) /\ outbox' = outbox /\ model' = model /\ failed' = failed
    <3>1. tx \in [events : Seq([command : Command, body : Body]), state : Model]
      BY DEF IInv, TypeOK
    <3> QED BY <1>5, <3>1 DEF ReplayEvent, bounds
  <2>2. Len(todo') = Len(todo) - 1 /\ \A i \in 1..Len(todo') : todo'[i] = todo[i + 1]
    BY <1>0, <2>1, HeadTailProperties
  <2>3. Len(todo) > 0 /\ start + Len(todo) <= Len(log)
    <3>1. Len(todo) # 0 BY <1>0, <2>1
    <3> QED BY <1>0, <2>1, <3>1 DEF ModelInv
  <2>4. k \in Nat /\ k + 1 \in 1..Len(log) /\ Len(log) - Len(todo') = k + 1
    BY <1>0, <2>2, <2>3
  <2>5. \A i \in 1..Len(todo) : todo[i] = log[k + i].body BY <2>1 DEF ModelInv
  <2>6. Head(todo) = log[k + 1].body
    <3>1. 1 \in 1..Len(todo) BY <1>0, <2>3
    <3> QED BY <1>0, <2>1, <2>5, <3>1
  <2>7. tx'.state = StatesOf(log)[k + 1]
    <3>1. tx.state = StatesOf(log)[k] BY <2>1 DEF ModelInv
    <3>2. StatesOf(log)[k + 1] = Apply(StatesOf(log)[(k + 1) - 1], log[k + 1].body)
      BY <1>0, <2>4, States
    <3>3. (k + 1) - 1 = k BY <2>4
    <3> QED BY <2>1, <2>6, <3>1, <3>2, <3>3
  <2>8. \A i \in 1..Len(todo') : todo'[i] = log[(k + 1) + i].body
    <3> TAKE i \in 1..Len(todo')
    <3>1. i + 1 \in 1..Len(todo) /\ k + (i + 1) = (k + 1) + i BY <1>0, <2>2, <2>4
    <3> QED BY <2>2, <2>5, <3>1
  <2>9. start + Len(todo') <= Len(log) BY <1>0, <2>2, <2>3
  <2>10. outbox = UpTo(start, Len(log)) BY <2>1 DEF ModelInv
  <2>11. /\ \A i \in 1..Len(todo') : todo'[i] = log[(Len(log) - Len(todo')) + i].body
         /\ tx'.state = StatesOf(log)[Len(log) - Len(todo')]
    BY <2>4, <2>7, <2>8
  <2> QED BY <1>1, <1>2, <1>3, <2>1, <2>9, <2>10, <2>11 DEF ModelInv
<1>6. CASE ReplaySwap
  <2>1. /\ pc = "replay" /\ pc' = "publish" /\ todo = <<>> /\ outbox' = outbox /\ failed' = failed
        /\ model' = IF outbox = <<>> THEN model ELSE [state |-> tx.state, seq |-> start + Len(outbox)]
    BY <1>6 DEF ReplaySwap, bounds
  <2>2. outbox = UpTo(start, Len(log)) /\ tx.state = StateOf(log)
    <3>1. Len(todo) = 0 BY <2>1
    <3>2. Len(log) - Len(todo) = Len(log) BY <1>0, <3>1
    <3> QED BY <2>1, <3>2 DEF ModelInv, StateOf
  <2>3. Len(outbox) = Len(log) - start /\ (outbox = <<>> <=> start = Len(log))
    BY <1>0, <2>2, UpToProperties, UpToShape
  <2>4. model'.seq = Len(log) /\ model'.state = StateOf(log)
    <3>1. CASE outbox = <<>>
      <4>1. model.seq = start BY <1>0, Facts
      <4> QED BY <1>1, <2>1, <2>3, <3>1, <4>1 DEF StateOf
    <3>2. CASE outbox # <<>>
      <4>1. start + Len(outbox) = Len(log) BY <1>0, <2>3
      <4> QED BY <2>1, <2>2, <3>2, <4>1
    <3> QED BY <3>1, <3>2
  <2> QED BY <1>0, <1>1, <1>2, <1>3, <2>1, <2>2, <2>4 DEF ModelInv
<1>7. CASE ReconcileFails
  <2>1. /\ pc = "reconcile" /\ pc' = "publish" /\ outbox' = outbox /\ model' = model
        /\ failed' = failed \cup {"reconcile"} /\ failed' \in Faults
    BY <1>7 DEF ReconcileFails, Fail, work
  <2>2. start = Len(log) BY <1>1, <2>1 DEF OneOfTwo
  <2>3. outbox = <<>> BY <2>1 DEF IInv, Control, EnvelopeInv
  <2>4. UpTo(Sent, Len(log)) = <<>> BY <1>0, <1>1, <2>2, UpToShape
  <2>5. model.seq = start BY <1>0, Facts
  <2>6. model.seq = Len(log) /\ model.state = StateOf(log) BY <1>1, <2>2, <2>5 DEF StateOf
  <2>7. Sent' <= Len(log') /\ outbox' = UpTo(Sent', Len(log'))
    BY <1>0, <1>1, <1>2, <1>3, <2>1, <2>2, <2>3, <2>4
  <2> QED BY <1>2, <1>3, <2>1, <2>6, <2>7 DEF ModelInv
<1> QED BY <1>4, <1>5, <1>6, <1>7

LEMMA ModelStep ==
  ASSUME IInv, TablesInv, ModelInv, WithinLimit, OneOfTwo, HydrateIsState, SomeCursor, [Next]_vars
  PROVE  ModelInv'
<1> USE DEF durable, work, bounds
<1>1. CASE Start \/ BootEvent \/ BootNextProjector
  <2>1. /\ pc \in {"down", "boot"} /\ pc' = "boot" /\ bus' = bus /\ booted' = booted /\ failed' = failed
    BY <1>1 DEF Start, BootEvent, BootNextProjector
  <2>2. Sent' = Sent BY <2>1 DEF Sent
  <2> QED BY <2>1, <2>2 DEF ModelInv
<1>2. CASE HydrateModel
  <2>1. /\ pc = "boot" /\ pc' = "idle" /\ log' = log /\ bus' = bus /\ failed' = failed
        /\ model' = [state |-> Hydrate(log, applied), seq |-> SnapshotSequence]
        /\ booted' = model'.seq /\ boot.left = <<>>
    BY <1>2 DEF HydrateModel
  <2>2. model'.seq = Len(log) /\ model'.state = StateOf(log) BY <2>1, Hydrated
  <2>3. bus = <<>> /\ Len(bus) = 0 /\ Len(log) \in Nat BY <2>1, Facts DEF ModelInv
  <2>4. Sent' = Len(log) BY <2>1, <2>2, <2>3 DEF Sent
  <2>5. UpTo(Len(log), Len(log)) = <<>> BY <2>3, UpToShape
  <2> QED BY <2>1, <2>2, <2>3, <2>4, <2>5 DEF ModelInv
<1>3. CASE Take
  <2>1. UNCHANGED <<log, model, bus, booted>> /\ failed' = failed /\ pc = "idle" /\ pc' = "receipt"
    BY <1>3 DEF Take
  <2> QED BY <2>1, RestStep
<1>4. CASE ReplayAccepted \/ ReplayRejected \/ AnswerAccepted \/ AnswerRejected \/ AnswerFailed
  <2>1. /\ UNCHANGED <<log, model, bus, booted>> /\ failed' = failed /\ pc' = "idle"
        /\ pc \in {"receipt", "fail"} \/ (pc = "publish" /\ outbox = <<>>)
    BY <1>4 DEF ReplayAccepted, ReplayRejected, AnswerAccepted, AnswerRejected, AnswerFailed, Tell
  <2> QED BY <2>1, RestStep
<1>5. CASE RecordRefusal \/ RecordRefusalFails
  <2>1. /\ UNCHANGED <<log, model, bus, booted>> /\ (failed' = failed \/ failed' \in Faults)
        /\ pc' = "fail" /\ pc = "publish" /\ outbox = <<>>
    BY <1>5 DEF RecordRefusal, RecordRefusalFails, Fail
  <2> QED BY <2>1, RestStep
<1>6. CASE ReceiptReadFails \/ TransactionFails \/ DecideRejects
  <2>1. /\ Fails("storage") \/ Fails("invariant")
        /\ failed' = failed \/ failed' \in Faults
        /\ pc \in {"receipt", "transaction"}
    BY <1>6 DEF ReceiptReadFails, TransactionFails, DecideRejects, Fail
  <2> QED BY <2>1, FailsStep
<1>7. CASE Crash
  <2>1. /\ log' = log /\ pc' = "down" /\ bus' = <<>> /\ booted' = 0 /\ failed' = failed
    BY <1>7 DEF Crash
  <2>2. Sent' = 0 BY <2>1 DEF Sent
  <2>3. UpTo(0, 0) = <<>> BY UpToShape
  <2> QED BY <2>1, <2>2, <2>3 DEF ModelInv
<1>8. ASSUME log' = log, pc' = pc, model' = model, bus' = bus, booted' = booted, start' = start,
             todo' = todo, tx' = tx, outbox' = outbox, failed' = failed
      PROVE  ModelInv'
  <2>1. Sent' = Sent BY <1>8 DEF Sent
  <2> QED BY <1>8, <2>1 DEF ModelInv
<1>9. ASSUME NEW k \in Call, Dispatch(k) PROVE ModelInv' BY <1>8, <1>9 DEF Dispatch
<1>10. CASE UNCHANGED vars BY <1>8, <1>10 DEF vars
<1>11. CASE DecideAccepts \/ PersistEvent BY <1>11, PersistModel
<1>12. CASE Commit \/ CommitReportsFailure BY <1>12, CommitModel
<1>13. CASE PublishEvent BY <1>13, PublishModel
<1>14. CASE Reconcile \/ ReplayEvent \/ ReplaySwap \/ ReconcileFails BY <1>14, ReplayModel
<1> QED BY <1>1, <1>2, <1>3, <1>4, <1>5, <1>6, <1>7, <1>9, <1>10, <1>11, <1>12, <1>13, <1>14
        DEF Next, Boot, Process

LEMMA LogInit == Init => TablesInv /\ ModelInv
<1> SUFFICES ASSUME Init PROVE TablesInv /\ ModelInv OBVIOUS
<1>1. /\ pc = "down" /\ release = Projector \ Later /\ bus = <<>> /\ booted = 0 /\ failed = {}
      /\ applied = [p \in Projector |-> {}] /\ cursor = [p \in Projector |-> 0]
  BY DEF Init
<1>2. 1..0 = {} OBVIOUS
<1>3. TablesInv BY <1>1, <1>2 DEF TablesInv
<1>4. Sent = 0 /\ UpTo(0, 0) = <<>> BY <1>1, UpToShape DEF Sent
<1>5. ModelInv BY <1>1, <1>4 DEF ModelInv
<1> QED BY <1>3, <1>5

-----------------------------------------------------------------------------
\* While the log is within what a bootstrap reads, a running engine's tables reflect
\* all of it, projector by projector, for every decider, sequence of failures and
\* crashes, and release (ProjectionPipeline.ts:1706-1762, OrchestrationEngine.ts:170-213).
THEOREM TablesFollowLog == HydrateTypes => (Spec /\ []WithinLimit => []TablesAreLog)
<1> SUFFICES ASSUME HydrateTypes PROVE Spec /\ []WithinLimit => []TablesAreLog OBVIOUS
<1>1. Init => TablesInv BY LogInit
<1>2. IInv /\ TablesInv /\ WithinLimit /\ [Next]_vars => TablesInv' BY TablesStep
<1>3. TablesInv /\ IInv => TablesAreLog
  <2> SUFFICES ASSUME TablesInv, IInv, pc \notin {"down", "boot"}, NEW p \in release
               PROVE  applied[p] = 1..Len(log) /\ cursor[p] = Len(log)
    BY DEF TablesAreLog
  <2>1. p \in Projector BY DEF IInv, TypeOK
  <2> QED BY <2>1 DEF TablesInv
<1> QED BY Invariance, <1>1, <1>2, <1>3, PTL DEF Spec

\* What the three conditions together give.
LEMMA LogInvariance ==
  HydrateTypes /\ OneOfTwo /\ HydrateIsState /\ SomeCursor =>
    (Spec /\ []WithinLimit => [](IInv /\ TablesInv /\ ModelInv))
<1> SUFFICES ASSUME HydrateTypes, OneOfTwo, HydrateIsState, SomeCursor
             PROVE  Spec /\ []WithinLimit => [](IInv /\ TablesInv /\ ModelInv)
  OBVIOUS
<1>1. Init => TablesInv /\ ModelInv BY LogInit
<1>2. IInv /\ TablesInv /\ WithinLimit /\ [Next]_vars => TablesInv' BY TablesStep
<1>3. IInv /\ TablesInv /\ ModelInv /\ WithinLimit /\ [Next]_vars => ModelInv' BY ModelStep
<1> QED BY Invariance, <1>1, <1>2, <1>3, PTL DEF Spec

\* A command is decided on the state of the whole log: after bootstraps, crashes and
\* commits that reported a failure (OrchestrationEngine.ts:96-120, 159-213, 264-277).
THEOREM DecidedOnLog ==
  HydrateTypes /\ OneOfTwo /\ HydrateIsState /\ SomeCursor =>
    (Spec /\ []WithinLimit => []ModelIsLog)
<1>1. ModelInv => ModelIsLog BY DEF ModelInv, ModelIsLog
<1> QED BY LogInvariance, <1>1, PTL

\* Subscribers get each committed event once and in order, commits that reported a
\* failure included (OrchestrationEngine.ts:112-119, 208-213, 264-277).
THEOREM StreamIsLog ==
  HydrateTypes /\ OneOfTwo /\ HydrateIsState /\ SomeCursor =>
    (Spec /\ []WithinLimit => []PublishedIsLog)
<1>1. IInv /\ ModelInv => PublishedIsLog
  <2> SUFFICES ASSUME IInv, ModelInv PROVE PublishedIsLog OBVIOUS
  <2>1. bus = UpTo(booted, Sent) /\ Sent = booted + Len(bus) BY DEF ModelInv, Sent
  <2>2. Sent <= Len(log)
    <3>1. CASE pc \in {"down", "boot"}
      <4>1. bus = <<>> /\ booted = 0 BY <3>1 DEF ModelInv
      <4>2. Sent = 0 /\ Len(log) \in Nat BY <4>1, Facts DEF Sent
      <4> QED BY <4>2
    <3>2. CASE pc \in {"idle", "receipt", "transaction", "fail"}
      <4>1. Sent = Len(log) /\ Len(log) \in Nat BY <3>2, Facts DEF ModelInv
      <4> QED BY <4>1
    <3>3. CASE pc = "publish" BY <3>3 DEF ModelInv
    <3>4. CASE pc \in {"reconcile", "replay"}
      <4>1. Sent = start /\ start <= Len(log) BY <3>4, Facts DEF ModelInv
      <4> QED BY <4>1
    <3> QED BY <3>1, <3>2, <3>3, <3>4 DEF IInv, TypeOK
  <2> QED BY <2>1, <2>2 DEF PublishedIsLog
<1> QED BY LogInvariance, <1>1, PTL

-----------------------------------------------------------------------------
(* The refinement.                                                           *)

Busy == {"receipt", "transaction", "publish", "reconcile", "replay", "fail"}

\* Who is in the queue or in hand waits for an answer, and is there once.
CallersInv ==
  /\ pc \in {"down", "boot"} => queue = <<>>
  /\ \A i \in DOMAIN queue : answer[queue[i]] = Waiting
  /\ \A i, j \in DOMAIN queue : i # j => queue[i] # queue[j]
  /\ pc \in Busy => answer[call] = Waiting /\ \A i \in DOMAIN queue : queue[i] # call

\* What the log's state says of the command in hand.
Verdict == Decide(StateOf(log), Cmd)

\* The open transaction and what is left of it are that; a refusal stands on it.
DecisionInv ==
  /\ pc = "transaction" =>
       /\ Len(tx.events) + Len(todo) = Len(Verdict)
       /\ \A i \in 1..Len(tx.events) : tx.events[i] = Event(Cmd, Verdict[i])
       /\ \A i \in 1..Len(todo) : todo[i] = Verdict[Len(tx.events) + i]
  /\ pc \in {"reconcile", "replay", "publish"} /\ error = "invariant" => Verdict = <<>>
  /\ pc = "fail" => \/ receipts[Cmd].status = "rejected"
                    \/ receipts[Cmd] = NoReceipt /\ Verdict = <<>>

LEMMA CallersStep == ASSUME IInv, CallersInv, [Next]_vars PROVE CallersInv'
<1> USE DEF durable, work, bounds
<1>0. queue \in Seq(Call) /\ answer \in [Call -> Answers] BY DEF IInv, TypeOK, Answers
<1>1. CASE Take
  <2>1. /\ pc = "idle" /\ pc' = "receipt" /\ queue # <<>> /\ call' = Head(queue)
        /\ queue' = Tail(queue) /\ answer' = answer
    BY <1>1 DEF Take
  <2>2. /\ 1 \in DOMAIN queue /\ call' = queue[1]
        /\ \A i \in DOMAIN queue' : i + 1 \in DOMAIN queue /\ i + 1 # 1 /\ queue'[i] = queue[i + 1]
    BY <1>0, <2>1
  <2>3. \A i, j \in DOMAIN queue' : i # j => i + 1 # j + 1 BY <1>0, <2>1
  <2> QED BY <2>1, <2>2, <2>3 DEF CallersInv
<1>2. ASSUME NEW k \in Call, Dispatch(k) PROVE CallersInv'
  <2>1. /\ pc \notin {"down", "boot"} /\ pc' = pc /\ call' = call /\ answer[k] = Unasked
        /\ answer' = [answer EXCEPT ![k] = Waiting] /\ queue' = Append(queue, k)
    BY <1>2 DEF Dispatch
  <2>2. Unasked # Waiting BY DEF Unasked, Waiting
  <2>3. \A i \in DOMAIN queue : queue[i] # k BY <2>1, <2>2 DEF CallersInv
  <2>4. answer'[k] = Waiting /\ \A c \in Call : c # k => answer'[c] = answer[c] BY <1>0, <2>1
  <2>5. /\ Len(queue) \in Nat /\ DOMAIN queue = 1..Len(queue)
        /\ DOMAIN queue' = 1..(Len(queue) + 1) /\ queue'[Len(queue) + 1] = k
        /\ \A i \in DOMAIN queue : queue'[i] = queue[i] /\ queue[i] \in Call
    BY <1>0, <2>1
  <2>6. \A i \in DOMAIN queue' : i \in DOMAIN queue \/ (i = Len(queue) + 1 /\ i \notin DOMAIN queue)
    BY <2>5
  <2>7. \A i \in DOMAIN queue' : answer'[queue'[i]] = Waiting
    BY <2>3, <2>4, <2>5, <2>6 DEF CallersInv
  <2>8. \A i, j \in DOMAIN queue' : i # j => queue'[i] # queue'[j]
    BY <2>3, <2>5, <2>6 DEF CallersInv
  <2>9. pc \in Busy => answer'[call] = Waiting /\ \A i \in DOMAIN queue' : queue'[i] # call
    <3> HAVE pc \in Busy
    <3>1. call \in Call /\ call # k BY <2>1, <2>2 DEF CallersInv, IInv, Control, EnvelopeInv, Busy
    <3> QED BY <2>4, <2>5, <2>6, <3>1 DEF CallersInv
  <2> QED BY <2>1, <2>7, <2>8, <2>9 DEF CallersInv
<1>3. ASSUME NEW a, Tell(a), pc \in Busy PROVE CallersInv'
  <2>1. pc' = "idle" /\ queue' = queue /\ answer' = [answer EXCEPT ![call] = a]
    BY <1>3 DEF Tell
  <2>2. \A i \in DOMAIN queue : queue[i] # call /\ queue[i] \in Call BY <1>0, <1>3 DEF CallersInv
  <2>3. \A i \in DOMAIN queue : answer'[queue[i]] = answer[queue[i]] BY <1>0, <2>1, <2>2
  <2> QED BY <2>1, <2>3 DEF CallersInv, Busy
<1>4. CASE ReplayAccepted \/ ReplayRejected \/ AnswerAccepted \/ AnswerRejected \/ AnswerFailed
  <2>1. pc \in Busy /\ \E a : Tell(a)
    BY <1>4 DEF ReplayAccepted, ReplayRejected, AnswerAccepted, AnswerRejected, AnswerFailed, Busy
  <2> QED BY <1>3, <2>1
<1>5. ASSUME queue' = queue, answer' = answer,
             \/ pc' = pc /\ call' = call
             \/ pc \in Busy /\ pc' \in Busy /\ call' = call
             \/ pc \in {"down", "boot"} /\ pc' \in {"boot", "idle"}
      PROVE  CallersInv'
  BY <1>5 DEF CallersInv, Busy
<1>6. CASE Boot
  BY <1>5, <1>6 DEF Boot, Start, BootEvent, BootNextProjector, HydrateModel
<1>7. CASE Crash BY <1>7 DEF Crash, CallersInv, Busy
<1>8. CASE \/ ReceiptReadFails \/ DecideRejects \/ DecideAccepts \/ PersistEvent \/ TransactionFails
           \/ RecordRefusal \/ RecordRefusalFails
  BY <1>5, <1>8 DEF ReceiptReadFails, DecideRejects, DecideAccepts, PersistEvent, TransactionFails,
                    RecordRefusal, RecordRefusalFails, Fails, Busy
<1>9. CASE \/ Commit \/ CommitReportsFailure \/ PublishEvent \/ Reconcile \/ ReplayEvent
           \/ ReplaySwap \/ ReconcileFails
  BY <1>5, <1>9 DEF Commit, CommitReportsFailure, PublishEvent, Reconcile, ReplayEvent,
                    ReplaySwap, ReconcileFails, Busy
<1>10. CASE UNCHANGED vars BY <1>5, <1>10 DEF vars
<1> QED BY <1>1, <1>2, <1>4, <1>6, <1>7, <1>8, <1>9, <1>10 DEF Next, Process

LEMMA OneFurther ==
  ASSUME NEW n \in Nat, NEW m \in Nat, NEW i \in 1..(m - 1)
  PROVE  i + 1 \in 1..m /\ n + (i + 1) = (n + 1) + i
OBVIOUS

LEMMA DecisionStep == ASSUME IInv, ModelInv, DecisionInv, [Next]_vars PROVE DecisionInv'
<1> USE DEF durable, work, bounds
<1>0. /\ tx.events \in Seq(LogEvent) /\ todo \in Seq(Body)
      /\ tx \in [events : Seq(LogEvent), state : Model]
  BY DEF IInv, TypeOK, LogEvent
<1>1. CASE DecideAccepts
  <2>1. /\ pc' = "transaction" /\ todo' = Decide(model.state, Cmd) /\ tx'.events = <<>>
        /\ log' = log /\ call' = call /\ pc = "receipt"
    BY <1>1 DEF DecideAccepts
  <2>2. Verdict' = Verdict /\ todo' = Verdict /\ Verdict \in Seq(Body)
    <3>1. model.state = StateOf(log) /\ model.state \in Model /\ Cmd \in Command
      BY <2>1, CommandInHand DEF ModelInv, IInv, TypeOK, Control, EnvelopeInv
    <3> QED BY <2>1, <3>1, DeciderAssumption DEF Verdict, Cmd
  <2>3. Len(tx'.events) = 0 /\ Len(todo') \in Nat BY <2>1, <2>2
  <2> QED BY <2>1, <2>2, <2>3 DEF DecisionInv
<1>2. CASE PersistEvent
  <2> PICK n, m : n = Len(tx.events) /\ m = Len(todo) OBVIOUS
  <2>1. /\ pc = "transaction" /\ pc' = "transaction" /\ todo # <<>> /\ todo' = Tail(todo)
        /\ tx'.events = Append(tx.events, Event(Cmd, Head(todo)))
        /\ log' = log /\ call' = call
    BY <1>2 DEF PersistEvent
  <2>2. Verdict' = Verdict /\ Cmd' = Cmd BY <2>1 DEF Verdict, Cmd
  <2>3. n \in Nat /\ m \in Nat /\ m > 0 /\ n + m = Len(Verdict)
    <3>1. n \in Nat /\ m \in Nat /\ m # 0 BY <1>0, <2>1
    <3> QED BY <2>1, <3>1 DEF DecisionInv
  <2>4. /\ Len(todo') = m - 1 /\ \A i \in 1..(m - 1) : todo'[i] = todo[i + 1]
        /\ Head(todo) = todo[1]
    BY <1>0, <2>1, <2>3, HeadTailProperties
  <2>5. /\ Len(tx'.events) = n + 1 /\ tx'.events[n + 1] = Event(Cmd, Head(todo))
        /\ \A i \in 1..n : tx'.events[i] = tx.events[i]
    BY <1>0, <2>1, AppendProperties
  <2>6. \A i \in 1..m : todo[i] = Verdict[n + i] BY <2>1 DEF DecisionInv
  <2>7. \A i \in 1..(n + 1) : tx'.events[i] = Event(Cmd, Verdict[i])
    <3> TAKE i \in 1..(n + 1)
    <3>1. CASE i = n + 1
      <4>1. Head(todo) = Verdict[n + 1] BY <2>3, <2>4, <2>6
      <4> QED BY <2>5, <3>1, <4>1
    <3>2. CASE i # n + 1
      <4>1. i \in 1..n BY <2>3, <3>2
      <4> QED BY <2>1, <2>5, <4>1 DEF DecisionInv
    <3> QED BY <3>1, <3>2
  <2>8. \A i \in 1..(m - 1) : todo'[i] = Verdict[(n + 1) + i]
    <3> TAKE i \in 1..(m - 1)
    <3>0. n \in Nat /\ m \in Nat /\ i \in Nat BY <2>3
    <3>1. i + 1 \in 1..m /\ n + (i + 1) = (n + 1) + i BY <3>0, OneFurther
    <3>2. todo[i + 1] = Verdict[n + (i + 1)] BY <2>6, <3>1
    <3>3. todo'[i] = todo[i + 1] BY <2>4
    <3> QED BY <3>1, <3>2, <3>3
  <2>9. (n + 1) + (m - 1) = Len(Verdict) BY <2>3
  <2> QED BY <2>1, <2>2, <2>4, <2>5, <2>7, <2>8, <2>9 DEF DecisionInv
<1>3. ASSUME pc' \notin {"transaction", "fail"}, pc' \in {"reconcile", "replay", "publish"} => error' # "invariant"
      PROVE  DecisionInv'
  BY <1>3 DEF DecisionInv
<1>4. CASE Commit \/ CommitReportsFailure
  <2>1. error = "none" BY <1>4 DEF Commit, CommitReportsFailure, IInv, Control, EnvelopeInv
  <2> QED BY <1>3, <1>4, <2>1 DEF Commit, CommitReportsFailure
<1>5. CASE ReceiptReadFails \/ TransactionFails
  BY <1>3, <1>5 DEF ReceiptReadFails, TransactionFails, Fails
<1>6. CASE ReplayAccepted \/ ReplayRejected \/ AnswerAccepted \/ AnswerRejected \/ AnswerFailed
  BY <1>3, <1>6 DEF ReplayAccepted, ReplayRejected, AnswerAccepted, AnswerRejected, AnswerFailed, Tell
<1>7. CASE Take \/ Crash BY <1>3, <1>7 DEF Take, Crash
<1>8. CASE Boot BY <1>3, <1>8 DEF Boot, Start, BootEvent, BootNextProjector, HydrateModel
<1>9. CASE DecideRejects
  <2>1. /\ pc = "receipt" /\ pc' = "reconcile" /\ Decide(model.state, Cmd) = <<>>
        /\ log' = log /\ call' = call
    BY <1>9 DEF DecideRejects, Fails
  <2>2. model.state = StateOf(log) BY <2>1 DEF ModelInv
  <2>3. Verdict' = <<>> BY <2>1, <2>2 DEF Verdict, Cmd
  <2> QED BY <2>1, <2>3 DEF DecisionInv
<1>10. ASSUME log' = log, call' = call, receipts' = receipts, error' = error,
              \/ pc' = pc /\ todo' = todo /\ tx' = tx
              \/ /\ pc \in {"reconcile", "replay", "publish"}
                 /\ pc' \in {"reconcile", "replay", "publish"}
       PROVE  DecisionInv'
  <2>1. Verdict' = Verdict /\ Cmd' = Cmd BY <1>10 DEF Verdict, Cmd
  <2> QED BY <1>10, <2>1 DEF DecisionInv
<1>11. CASE Reconcile \/ ReplayEvent \/ ReplaySwap \/ ReconcileFails \/ PublishEvent
  BY <1>10, <1>11 DEF Reconcile, ReplayEvent, ReplaySwap, ReconcileFails, PublishEvent
<1>12. ASSUME NEW k \in Call, Dispatch(k) PROVE DecisionInv' BY <1>10, <1>12 DEF Dispatch
<1>13. CASE UNCHANGED vars BY <1>10, <1>13 DEF vars
<1>14. CASE RecordRefusal \/ RecordRefusalFails
  <2>1. /\ pc = "publish" /\ pc' = "fail" /\ error = "invariant" /\ log' = log /\ call' = call
        /\ receipts' = receipts \/ receipts' = [receipts EXCEPT ![Cmd] = RejectedReceipt(model.seq)]
    BY <1>14 DEF RecordRefusal, RecordRefusalFails
  <2>2. Verdict = <<>> /\ receipts[Cmd] = NoReceipt
    BY <2>1 DEF DecisionInv, IInv, Control, VerdictInv
  <2>3. Verdict' = Verdict /\ Cmd' = Cmd BY <2>1 DEF Verdict, Cmd
  <2>4. receipts'[Cmd] = NoReceipt \/ receipts'[Cmd].status = "rejected"
    <3>1. receipts' = receipts => receipts'[Cmd] = NoReceipt BY <2>2
    <3>2. Cmd \in DOMAIN receipts
      BY <2>1, CommandInHand DEF IInv, TypeOK, Control, EnvelopeInv
    <3>3. receipts' # receipts => receipts'[Cmd] = RejectedReceipt(model.seq) BY <2>1, <3>2
    <3>4. RejectedReceipt(model.seq).status = "rejected" BY DEF RejectedReceipt
    <3> QED BY <3>1, <3>3, <3>4
  <2> QED BY <2>1, <2>2, <2>3, <2>4 DEF DecisionInv
<1> QED BY <1>1, <1>2, <1>4, <1>5, <1>6, <1>7, <1>8, <1>9, <1>11, <1>12, <1>13, <1>14
        DEF Next, Process

\* CommandLog reads a ledger as the engine reads its log.
LEMMA SameState == Promise!StateOf(log) = StateOf(log)
<1>1. Promise!StatesOf(log) = StatesOf(log) BY DEF Promise!StatesOf, StatesOf
<1>2. Promise!StateOf(log) = Promise!StatesOf(log)[Len(log)] BY DEF Promise!StateOf
<1> QED BY <1>1, <1>2 DEF StateOf

\* A committed transaction is the batch of its command.
LEMMA AcceptStep ==
  ASSUME IInv, ModelInv, DecisionInv, pc = "transaction", todo = <<>>, CommitDurably, answer' = answer,
         answer[call] = Waiting
  PROVE  Promise!Accept(Cmd)
<1>1. call \in Call /\ Cmd \in Command BY CommandInHand DEF IInv, Control, EnvelopeInv
<1>2. tx.events \in Seq(LogEvent) /\ log \in Seq(LogEvent) /\ tx.events # <<>>
  BY DEF IInv, TypeOK, LogEvent, Control, BatchInv
<1>3. Promise!Batch(Cmd) = [n \in DOMAIN Verdict |-> Event(Cmd, Verdict[n])]
  BY SameState DEF Promise!Batch, Promise!Event, Event, Verdict
<1>4. Len(tx.events) = Len(Verdict) /\ \A i \in 1..Len(tx.events) : tx.events[i] = Event(Cmd, Verdict[i])
  <2>1. Len(todo) = 0 BY DEF IInv
  <2> QED BY <1>2, <2>1 DEF DecisionInv
<1>5. Verdict \in Seq(Body)
  <2>1. StateOf(log) \in Model BY DEF ModelInv, IInv, TypeOK
  <2> QED BY <1>1, <2>1, DeciderAssumption DEF Verdict
<1>6. Promise!Batch(Cmd) = tx.events
  <2>1. DOMAIN Verdict = 1..Len(tx.events) BY <1>4, <1>5
  <2>2. tx.events = [i \in 1..Len(tx.events) |-> tx.events[i]] BY <1>2
  <2> QED BY <1>3, <1>4, <2>1, <2>2
<1>7. receipts[Cmd] = Promise!Undecided BY DEF IInv, Control, VerdictInv, NoReceipt, Promise!Undecided
<1>8. /\ log' = log \o tx.events
      /\ receipts' = [receipts EXCEPT ![Cmd] = AcceptedReceipt(Len(log) + Len(tx.events))]
  BY DEF CommitDurably
<1>9. Len(log') = Len(log) + Len(tx.events) BY <1>2, <1>8, ConcatProperties
<1>10. receipts' = [receipts EXCEPT ![Cmd] = Promise!Accepted(Len(log'))]
  BY <1>8, <1>9 DEF Promise!Accepted, AcceptedReceipt
<1>11. answer[call] = Promise!Waiting /\ CommandOf[call] = Cmd BY DEF Waiting, Promise!Waiting, Cmd
<1> QED BY <1>1, <1>2, <1>6, <1>7, <1>8, <1>10, <1>11 DEF Promise!Accept

\* The steps that answer.
LEMMA AnswerStep ==
  ASSUME IInv, ModelInv, CallersInv, DecisionInv,
         ReplayAccepted \/ ReplayRejected \/ AnswerAccepted \/ AnswerRejected \/ AnswerFailed
  PROVE  Promise!AnswerAccepted(call) \/ Promise!AnswerRejected(call) \/ Promise!AnswerFailed(call)
<1>1. call \in Call /\ answer[call] = Promise!Waiting
  BY DEF ReplayAccepted, ReplayRejected, AnswerAccepted, AnswerRejected, AnswerFailed, IInv, Control,
         EnvelopeInv, CallersInv, Busy, Waiting, Promise!Waiting
<1>2. UNCHANGED <<log, receipts>>
  BY DEF ReplayAccepted, ReplayRejected, AnswerAccepted, AnswerRejected, AnswerFailed, Tell, durable
<1>3. ASSUME Tell(receipts[Cmd]), receipts[Cmd].status = "accepted" PROVE Promise!AnswerAccepted(call)
  BY <1>1, <1>2, <1>3 DEF Tell, Promise!AnswerAccepted, Cmd
<1>4. CASE ReplayAccepted BY <1>3, <1>4 DEF ReplayAccepted
<1>5. CASE AnswerAccepted
  <2>1. Tell(AcceptedReceipt(model.seq)) /\ receipts[Cmd] = AcceptedReceipt(model.seq)
    BY <1>5 DEF AnswerAccepted, IInv, Control, VerdictInv
  <2>2. AcceptedReceipt(model.seq).status = "accepted" BY DEF AcceptedReceipt
  <2>3. Tell(receipts[Cmd]) /\ receipts[Cmd].status = "accepted" BY <2>1, <2>2
  <2> QED BY <1>3, <2>3
<1>6. ASSUME Tell(Rejected),
             receipts[Cmd].status = "rejected" \/ (receipts[Cmd] = NoReceipt /\ Verdict = <<>>)
      PROVE  Promise!AnswerRejected(call)
  <2>1. answer' = [answer EXCEPT ![call] = Promise!Rejected]
    BY <1>6 DEF Tell, Rejected, Promise!Rejected
  <2>2. Verdict = <<>> => Promise!Batch(Cmd) = <<>>
    <3>1. Promise!Batch(Cmd) = [n \in DOMAIN Verdict |-> Event(Cmd, Verdict[n])]
      BY SameState DEF Promise!Batch, Promise!Event, Event, Verdict
    <3>2. ASSUME Verdict = <<>> PROVE [n \in DOMAIN Verdict |-> Event(Cmd, Verdict[n])] = <<>>
      BY <3>2
    <3> QED BY <3>1, <3>2
  <2>3. Promise!IsRefused(receipts[Cmd]) \/ (receipts[Cmd] = Promise!Undecided /\ Promise!Batch(Cmd) = <<>>)
    BY <1>6, <2>2 DEF Promise!IsRefused, Promise!Undecided, NoReceipt
  <2>4. Cmd = CommandOf[call] BY DEF Cmd
  <2> QED BY <1>1, <1>2, <2>1, <2>3, <2>4 DEF Promise!AnswerRejected
<1>7. CASE ReplayRejected BY <1>6, <1>7 DEF ReplayRejected
<1>8. CASE AnswerRejected BY <1>6, <1>8 DEF AnswerRejected, DecisionInv
<1>9. CASE AnswerFailed
  <2>1. answer' = [answer EXCEPT ![call] = Promise!Failed]
    BY <1>9 DEF AnswerFailed, Tell, Failed, Promise!Failed
  <2> QED BY <1>1, <1>2, <2>1 DEF Promise!AnswerFailed
<1> QED BY <1>4, <1>5, <1>7, <1>8, <1>9

LEMMA RefuseStep == ASSUME IInv, DecisionInv, RecordRefusal PROVE Promise!Refuse(Cmd)
<1>1. /\ pc = "publish" /\ error = "invariant" /\ log' = log /\ answer' = answer
      /\ receipts' = [receipts EXCEPT ![Cmd] = RejectedReceipt(model.seq)]
  BY DEF RecordRefusal
<1>2. Verdict = <<>> /\ receipts[Cmd] = Promise!Undecided
  BY <1>1 DEF DecisionInv, IInv, Control, VerdictInv, NoReceipt, Promise!Undecided
<1>3. Promise!Batch(Cmd) = <<>>
  <2>1. Promise!Batch(Cmd) = [n \in DOMAIN Verdict |-> Event(Cmd, Verdict[n])]
    BY SameState DEF Promise!Batch, Promise!Event, Event, Verdict
  <2>2. [n \in DOMAIN Verdict |-> Event(Cmd, Verdict[n])] = <<>> BY <1>2
  <2> QED BY <2>1, <2>2
<1>4. model.seq \in 0..Len(log) BY DEF IInv, HeadInv, TypeOK
<1>5. receipts' = [receipts EXCEPT ![Cmd] = [status |-> "rejected", sequence |-> model.seq]]
  BY <1>1 DEF RejectedReceipt
<1> QED BY <1>1, <1>2, <1>3, <1>4, <1>5 DEF Promise!Refuse

LEMMA PromiseStep ==
  ASSUME IInv, ModelInv, CallersInv, DecisionInv, [Next]_vars
  PROVE  [Promise!Next]_Promise!vars
<1> USE DEF durable, work, bounds
<1>1. ASSUME log' = log, receipts' = receipts, answer' = answer PROVE UNCHANGED Promise!vars
  BY <1>1 DEF Promise!vars
<1>2. CASE ReplayAccepted \/ ReplayRejected \/ AnswerAccepted \/ AnswerRejected \/ AnswerFailed
  <2>1. call \in Call
    BY <1>2 DEF ReplayAccepted, ReplayRejected, AnswerAccepted, AnswerRejected, AnswerFailed,
                IInv, Control, EnvelopeInv
  <2> QED BY <1>2, <2>1, AnswerStep DEF Promise!Next
<1>3. CASE Commit \/ CommitReportsFailure
  <2>1. pc = "transaction" /\ todo = <<>> /\ CommitDurably /\ answer' = answer
    BY <1>3 DEF Commit, CommitReportsFailure
  <2>2. call \in Call /\ answer[call] = Waiting
    BY <2>1 DEF IInv, Control, EnvelopeInv, CallersInv, Busy
  <2> QED BY <2>1, <2>2, AcceptStep, CommandInHand DEF Promise!Next
<1>4. CASE RecordRefusal
  <2>1. call \in Call BY <1>4 DEF RecordRefusal, IInv, Control, EnvelopeInv
  <2> QED BY <1>4, <2>1, RefuseStep, CommandInHand DEF Promise!Next
<1>5. ASSUME NEW k \in Call, Dispatch(k) PROVE Promise!Next
  <2>1. Promise!Submit(k)
    BY <1>5 DEF Dispatch, Promise!Submit, Unasked, Waiting, Promise!Unasked, Promise!Waiting
  <2> QED BY <2>1 DEF Promise!Next
<1>6. CASE Crash
  <2>1. Promise!Lose BY <1>6 DEF Crash, Promise!Lose, Waiting, Lost, Promise!Waiting, Promise!Lost
  <2> QED BY <2>1 DEF Promise!Next
<1>7. CASE Boot \/ Take BY <1>1, <1>7 DEF Boot, Start, BootEvent, BootNextProjector, HydrateModel, Take
<1>8. CASE \/ ReceiptReadFails \/ DecideRejects \/ DecideAccepts \/ PersistEvent \/ TransactionFails
           \/ RecordRefusalFails
  BY <1>1, <1>8 DEF ReceiptReadFails, DecideRejects, DecideAccepts, PersistEvent, TransactionFails,
                    RecordRefusalFails, Fails
<1>9. CASE PublishEvent \/ Reconcile \/ ReplayEvent \/ ReplaySwap \/ ReconcileFails
  BY <1>1, <1>9 DEF PublishEvent, Reconcile, ReplayEvent, ReplaySwap, ReconcileFails
<1>10. CASE UNCHANGED vars BY <1>1, <1>10 DEF vars
<1> QED BY <1>2, <1>3, <1>4, <1>5, <1>6, <1>7, <1>8, <1>9, <1>10 DEF Next, Process

\* The engine keeps CommandLog's promise: what a caller is told and what enters the
\* log is what one atomic decision per command on the whole log would give, whatever
\* fails or crashes (OrchestrationEngine.ts:122-303).
THEOREM EngineKeepsPromise ==
  HydrateTypes /\ OneOfTwo /\ HydrateIsState /\ SomeCursor =>
    (Spec /\ []WithinLimit => ImplementsCommandLog)
<1>1. Init => Promise!Init
  BY DEF Init, Promise!Init, NoReceipt, Promise!Undecided, Unasked, Promise!Unasked
<1>2. Init => CallersInv /\ DecisionInv BY DEF Init, CallersInv, DecisionInv, Busy
<1>3. IInv /\ CallersInv /\ [Next]_vars => CallersInv' BY CallersStep
<1>4. IInv /\ ModelInv /\ DecisionInv /\ [Next]_vars => DecisionInv' BY DecisionStep
<1>5. IInv /\ ModelInv /\ CallersInv /\ DecisionInv /\ [Next]_vars => [Promise!Next]_Promise!vars
  BY PromiseStep
<1> QED BY LogInvariance, <1>1, <1>2, <1>3, <1>4, <1>5, PTL DEF Spec, ImplementsCommandLog, Promise!Spec
=============================================================================
