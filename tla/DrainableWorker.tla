--------------------------- MODULE DrainableWorker ---------------------------
(***************************************************************************)
(* packages/shared/src/DrainableWorker.ts: one fiber takes items from an   *)
(* unbounded queue and processes them one at a time; drain() resolves when *)
(* the transactional counter `outstanding` is zero.  The reactors of the   *)
(* server (provider commands, runtime ingestion, checkpoints, thread       *)
(* deletion) are all built on it.                                          *)
(*                                                                         *)
(* An item is one call of enqueue, so it has an identity of its own.       *)
(* `finished` and `owed` are history variables: the code has no such state,*)
(* the properties need it.                                                 *)
(***************************************************************************)
EXTENDS Naturals, Sequences, FiniteSets

CONSTANTS Item,     \* calls of enqueue
          Drainer,  \* calls of drain
          Fallible  \* items whose processing may end in a failure or an interrupt

ASSUME ItemsAssumption == IsFiniteSet(Item) /\ Fallible \subseteq Item

VARIABLES queue,        \* the TxQueue
          outstanding,  \* the TxRef counter
          worker,       \* what the fiber forked by makeDrainableWorker does
          drainer,      \* the state of each drain() call
          sent,         \* history: items enqueued so far
          finished,     \* history: items whose process(a) has ended
          owed          \* history: items enqueued before each drain() call

vars == <<queue, outstanding, worker, drainer, sent, finished, owed>>

Idle == [pc |-> "take"]
Processing(i) == [pc |-> "process", item |-> i]
Dead == [pc |-> "dead"]

\* Items taken from the queue and not finished.
InHand == IF worker.pc = "process" THEN {worker.item} ELSE {}

Queued == {queue[n] : n \in DOMAIN queue}

Init ==
  /\ queue = <<>>
  /\ outstanding = 0
  /\ worker = Idle
  /\ drainer = [d \in Drainer |-> "idle"]
  /\ sent = {}
  /\ finished = {}
  /\ owed = [d \in Drainer |-> {}]

\* Mutated forms of the code, for the checks of the properties only.
TakeSettles ==                \* the counter goes down at the take, not at the end
  /\ worker = Idle
  /\ queue # <<>>
  /\ worker' = Processing(Head(queue))
  /\ queue' = Tail(queue)
  /\ outstanding' = outstanding - 1
  /\ UNCHANGED <<drainer, sent, finished, owed>>

SettleLeaks ==                \* no ensuring: the counter never goes down
  /\ worker.pc = "process"
  /\ finished' = finished \cup {worker.item}
  /\ UNCHANGED <<queue, outstanding, drainer, sent, owed>>

\* The offer and the increment are one transaction.
Enqueue(i) ==
  /\ i \notin sent
  /\ queue' = Append(queue, i)
  /\ outstanding' = outstanding + 1
  /\ sent' = sent \cup {i}
  /\ UNCHANGED <<worker, drainer, finished, owed>>

\* TxQueue.take is a transaction of its own: the counter is not touched.
Take ==
  /\ worker = Idle
  /\ queue # <<>>
  /\ worker' = Processing(Head(queue))
  /\ queue' = Tail(queue)
  /\ UNCHANGED <<outstanding, drainer, sent, finished, owed>>

\* Effect.ensuring: the counter goes down however process(a) ends.
Settle ==
  /\ worker.pc = "process"
  /\ outstanding' = outstanding - 1
  /\ finished' = finished \cup {worker.item}
  /\ UNCHANGED <<queue, drainer, sent, owed>>

ProcessSucceeds == Settle /\ worker' = Idle

\* A failure leaves Effect.forever: the fiber ends and nothing restarts it.
ProcessFails ==
  /\ Settle
  /\ worker.item \in Fallible
  /\ worker' = Dead

DrainCall(d) ==
  /\ drainer[d] = "idle"
  /\ drainer' = [drainer EXCEPT ![d] = "waiting"]
  /\ owed' = [owed EXCEPT ![d] = sent]
  /\ UNCHANGED <<queue, outstanding, worker, sent, finished>>

\* txRetry suspends the transaction until the counter it read has changed.
DrainResolve(d) ==
  /\ drainer[d] = "waiting"
  /\ ~ (outstanding > 0)
  /\ drainer' = [drainer EXCEPT ![d] = "resolved"]
  /\ UNCHANGED <<queue, outstanding, worker, sent, finished, owed>>

Work == Take \/ ProcessSucceeds \/ ProcessFails

Next ==
  \/ \E i \in Item : Enqueue(i)
  \/ Work
  \/ \E d \in Drainer : DrainCall(d) \/ DrainResolve(d)

Spec == Init /\ [][Next]_vars

\* The fibers the runtime schedules: the worker, and a drain() waiting on the
\* counter.  Callers owe nothing.
Fairness == WF_vars(Work) /\ \A d \in Drainer : WF_vars(DrainResolve(d))

FairSpec == Spec /\ Fairness

-----------------------------------------------------------------------------
\* Types of the variables.
TypeOK ==
  /\ queue \in Seq(Item)
  /\ outstanding \in Nat
  /\ worker \in {Idle, Dead} \cup {Processing(i) : i \in Item}
  /\ drainer \in [Drainer -> {"idle", "waiting", "resolved"}]
  /\ sent \subseteq Item
  /\ finished \subseteq Item
  /\ owed \in [Drainer -> SUBSET Item]

\* The counter is exact in every state another fiber can see: it counts the
\* items waiting in the queue and the one being processed, although the take
\* and the decrement are different transactions (DrainableWorker.ts:47-56).
CounterExact == outstanding = Len(queue) + Cardinality(InHand)

\* Every item sent is in exactly one place: nothing is lost between the
\* queue, the fiber and the end of its processing, and nothing runs twice.
ItemsConserved ==
  /\ sent = Queued \cup InHand \cup finished
  /\ Queued \cap (InHand \cup finished) = {}
  /\ InHand \cap finished = {}
  /\ \A m, n \in DOMAIN queue : queue[m] = queue[n] => m = n

\* What drain() promises: once it resolves, every item enqueued before the
\* call has been processed, even if other items arrived in between.
DrainMeansProcessed ==
  \A d \in Drainer : drainer[d] = "resolved" => owed[d] \subseteq finished

\* Unless processing an item failed, everything enqueued is processed and
\* every drain() call resolves.  It needs `process` not to fail: the reactors
\* catch every cause but interruption before handing it to the worker.
DrainResolves ==
  \A d \in Drainer :
    drainer[d] = "waiting" ~> (drainer[d] = "resolved" \/ worker = Dead)
=============================================================================
