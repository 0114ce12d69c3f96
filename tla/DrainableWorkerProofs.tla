------------------------ MODULE DrainableWorkerProofs ------------------------
(***************************************************************************)
(* What DrainableWorker's runs check on three items and two drainers,      *)
(* proved for every set of items and drainers.                             *)
(*                                                                         *)
(* DrainMeansProcessed is not inductive: that drain() may resolve when the *)
(* counter is zero is only right because the counter is exact and every    *)
(* item sent is in the queue, in hand or finished.  IInv adds that what a  *)
(* drainer is owed has been sent.                                          *)
(***************************************************************************)
EXTENDS DrainableWorker, FiniteSetTheorems, SequenceTheorems, TLAPS

\* What a drain() call was owed when it was made has been enqueued.
OwedSent == \A d \in Drainer : owed[d] \subseteq sent

IInv == TypeOK /\ CounterExact /\ ItemsConserved /\ DrainMeansProcessed /\ OwedSent

\* The three forms of the worker are told apart by their pc.
LEMMA WorkerForms ==
  ASSUME TypeOK
  PROVE  /\ worker = Idle <=> worker.pc = "take"
         /\ worker = Dead <=> worker.pc = "dead"
         /\ worker.pc = "process" => worker.item \in Item /\ worker = Processing(worker.item)
         /\ worker.pc \in {"take", "dead", "process"}
  BY DEF TypeOK, Idle, Dead, Processing

\* What is in hand is at most one item.
LEMMA InHandCardinality ==
  /\ worker.pc = "process" => Cardinality(InHand) = 1
  /\ worker.pc # "process" => Cardinality(InHand) = 0
  BY FS_EmptySet, FS_Singleton DEF InHand

LEMMA InHandCardinalityNext ==
  /\ worker'.pc = "process" => Cardinality(InHand') = 1
  /\ worker'.pc # "process" => Cardinality(InHand') = 0
  BY FS_EmptySet, FS_Singleton DEF InHand

\* The types are inductive, but for the counter, which must not go below zero.
LEMMA TypeStep ==
  ASSUME IInv, [Next]_vars
  PROVE  TypeOK'
<1> USE DEF IInv
<1>1. ASSUME NEW i \in Item, Enqueue(i) PROVE TypeOK'
  BY <1>1 DEF Enqueue, TypeOK
<1>2. CASE Take
  <2>1. queue \in Seq(Item) /\ queue # <<>> BY <1>2 DEF Take, TypeOK
  <2>2. Head(queue) \in Item /\ Tail(queue) \in Seq(Item) BY <2>1
  <2> QED BY <1>2, <2>2 DEF Take, TypeOK
<1>3. ASSUME Settle PROVE outstanding' \in Nat /\ finished' \in SUBSET Item
  BY <1>3, WorkerForms, InHandCardinality DEF Settle, TypeOK, CounterExact
<1>4. CASE ProcessSucceeds
  BY <1>3, <1>4 DEF ProcessSucceeds, Settle, TypeOK
<1>5. CASE ProcessFails
  BY <1>3, <1>5 DEF ProcessFails, Settle, TypeOK
<1>6. ASSUME NEW d \in Drainer, DrainCall(d) PROVE TypeOK'
  BY <1>6 DEF DrainCall, TypeOK
<1>7. ASSUME NEW d \in Drainer, DrainResolve(d) PROVE TypeOK'
  BY <1>7 DEF DrainResolve, TypeOK
<1>8. CASE UNCHANGED vars
  BY <1>8 DEF vars, TypeOK
<1> QED BY <1>1, <1>2, <1>4, <1>5, <1>6, <1>7, <1>8 DEF Next, Work

\* The counter follows the queue and the item in hand through every step.
LEMMA CounterStep ==
  ASSUME IInv, TypeOK', [Next]_vars
  PROVE  CounterExact'
<1> USE DEF IInv
<1> USE WorkerForms, InHandCardinality, InHandCardinalityNext
<1>0. queue \in Seq(Item) /\ outstanding \in Nat BY DEF TypeOK
<1>1. ASSUME NEW i \in Item, Enqueue(i) PROVE CounterExact'
  <2>1. Len(queue') = Len(queue) + 1 BY <1>0, <1>1 DEF Enqueue
  <2>2. InHand' = InHand BY <1>1 DEF Enqueue, InHand
  <2> QED BY <1>0, <1>1, <2>1, <2>2 DEF Enqueue, CounterExact
<1>2. CASE Take
  <2>1. Len(queue') = Len(queue) - 1 BY <1>0, <1>2 DEF Take
  <2>2. worker.pc = "take" /\ worker'.pc = "process" BY <1>2 DEF Take, Processing, Idle
  <2> QED BY <1>0, <1>2, <2>1, <2>2 DEF Take, CounterExact
<1>3. CASE ProcessSucceeds \/ ProcessFails
  <2>1. worker.pc = "process" /\ worker'.pc # "process"
    BY <1>3 DEF ProcessSucceeds, ProcessFails, Settle, Idle, Dead
  <2> QED BY <1>0, <1>3, <2>1 DEF ProcessSucceeds, ProcessFails, Settle, CounterExact
<1>4. ASSUME NEW d \in Drainer, DrainCall(d) \/ DrainResolve(d) PROVE CounterExact'
  BY <1>4 DEF DrainCall, DrainResolve, CounterExact, InHand
<1>5. CASE UNCHANGED vars
  BY <1>5 DEF vars, CounterExact, InHand
<1> QED BY <1>1, <1>2, <1>3, <1>4, <1>5 DEF Next, Work

\* Enqueueing and taking move items between the places without losing one.
LEMMA ConservationStep ==
  ASSUME IInv, [Next]_vars
  PROVE  ItemsConserved'
<1> USE DEF IInv
<1> USE WorkerForms
<1>0. queue \in Seq(Item) BY DEF TypeOK
<1>1. ASSUME NEW i \in Item, Enqueue(i) PROVE ItemsConserved'
  <2>1. /\ DOMAIN queue' = 1..(Len(queue) + 1)
        /\ DOMAIN queue = 1..Len(queue)
        /\ \A n \in DOMAIN queue : queue'[n] = queue[n]
        /\ queue'[Len(queue) + 1] = i
    BY <1>0, <1>1 DEF Enqueue
  <2>2. Queued' = Queued \cup {i} BY <1>0, <2>1 DEF Queued
  <2>3. InHand' = InHand /\ finished' = finished BY <1>1 DEF Enqueue, InHand
  <2>4. i \notin sent /\ sent' = sent \cup {i} BY <1>1 DEF Enqueue
  <2>5. i \notin Queued \cup InHand \cup finished BY <2>4 DEF ItemsConserved
  <2>6. \A m, n \in DOMAIN queue' : queue'[m] = queue'[n] => m = n
    BY <1>0, <2>1, <2>5 DEF ItemsConserved, Queued
  <2> QED BY <2>2, <2>3, <2>4, <2>5, <2>6 DEF ItemsConserved
<1>2. CASE Take
  <2>0. queue # <<>> /\ queue' = Tail(queue) BY <1>2 DEF Take
  <2>1. /\ DOMAIN queue = 1..Len(queue) /\ Len(queue) \in Nat \ {0}
        /\ DOMAIN queue' = 1..(Len(queue) - 1)
        /\ \A n \in DOMAIN queue' : queue'[n] = queue[n + 1]
    BY <1>0, <2>0
  <2>2. Queued' = Queued \ {Head(queue)}
    <3>1. \A n \in DOMAIN queue : n # 1 => n - 1 \in DOMAIN queue' /\ queue'[n - 1] = queue[n]
      BY <2>1
    <3>2. \A n \in DOMAIN queue' : n + 1 \in DOMAIN queue /\ n + 1 # 1 BY <2>1
    <3>3. Head(queue) = queue[1] /\ 1 \in DOMAIN queue BY <1>0, <2>1
    <3>4. ASSUME NEW x \in Queued' PROVE x \in Queued /\ x # Head(queue)
      <4>1. PICK n \in DOMAIN queue' : x = queue'[n] BY DEF Queued
      <4>2. x = queue[n + 1] BY <4>1, <2>1
      <4> QED BY <4>2, <3>2, <3>3 DEF ItemsConserved, Queued
    <3>5. ASSUME NEW x \in Queued, x # Head(queue) PROVE x \in Queued'
      <4>1. PICK n \in DOMAIN queue : x = queue[n] BY DEF Queued
      <4>2. n # 1 BY <3>3, <3>5, <4>1
      <4> QED BY <3>1, <4>1, <4>2 DEF Queued
    <3> QED BY <3>4, <3>5
  <2>3. Head(queue) \in Queued BY <1>0, <2>1 DEF Queued
  <2>4. InHand = {} BY <1>2 DEF Take, InHand, Idle
  <2>5. InHand' = {Head(queue)} BY <1>2 DEF Take, InHand, Processing
  <2>6. finished' = finished /\ sent' = sent BY <1>2 DEF Take
  <2>7. \A m, n \in DOMAIN queue' : queue'[m] = queue'[n] => m = n
    BY <2>1 DEF ItemsConserved
  <2> QED BY <2>2, <2>3, <2>4, <2>5, <2>6, <2>7 DEF ItemsConserved
<1>3. CASE ProcessSucceeds \/ ProcessFails
  <2>1. InHand = {worker.item} /\ InHand' = {}
    BY <1>3 DEF ProcessSucceeds, ProcessFails, Settle, Idle, Dead, InHand
  <2>2. finished' = finished \cup {worker.item} /\ sent' = sent /\ queue' = queue
    BY <1>3 DEF ProcessSucceeds, ProcessFails, Settle
  <2>3. Queued' = Queued BY <2>2 DEF Queued
  <2> QED BY <2>1, <2>2, <2>3 DEF ItemsConserved
<1>4. ASSUME NEW d \in Drainer, DrainCall(d) \/ DrainResolve(d) PROVE ItemsConserved'
  BY <1>4 DEF DrainCall, DrainResolve, ItemsConserved, InHand, Queued
<1>5. CASE UNCHANGED vars
  BY <1>5 DEF vars, ItemsConserved, InHand, Queued
<1> QED BY <1>1, <1>2, <1>3, <1>4, <1>5 DEF Next, Work

\* When the counter is zero, everything sent is finished.
LEMMA ZeroMeansFinished ==
  ASSUME IInv, ~ (outstanding > 0)
  PROVE  sent = finished
<1>1. outstanding = 0 BY DEF IInv, TypeOK
<1>2. Len(queue) \in Nat /\ queue \in Seq(Item) BY DEF IInv, TypeOK
<1>3. Len(queue) = 0 /\ worker.pc # "process"
  BY <1>1, <1>2, InHandCardinality DEF IInv, CounterExact
<1>4. Queued = {} BY <1>2, <1>3 DEF Queued
<1>5. InHand = {} BY <1>3 DEF InHand
<1> QED BY <1>4, <1>5 DEF IInv, ItemsConserved

LEMMA DrainStep ==
  ASSUME IInv, [Next]_vars
  PROVE  DrainMeansProcessed' /\ OwedSent'
<1> USE DEF IInv
<1>1. ASSUME NEW i \in Item, Enqueue(i) PROVE DrainMeansProcessed' /\ OwedSent'
  BY <1>1 DEF Enqueue, DrainMeansProcessed, OwedSent
<1>2. CASE Work
  BY <1>2 DEF Work, Take, ProcessSucceeds, ProcessFails, Settle, DrainMeansProcessed, OwedSent
<1>3. ASSUME NEW d \in Drainer, DrainCall(d) PROVE DrainMeansProcessed' /\ OwedSent'
  BY <1>3 DEF DrainCall, DrainMeansProcessed, OwedSent, TypeOK
<1>4. ASSUME NEW d \in Drainer, DrainResolve(d) PROVE DrainMeansProcessed' /\ OwedSent'
  <2>1. sent = finished BY <1>4, ZeroMeansFinished DEF DrainResolve
  <2> QED BY <1>4, <2>1 DEF DrainResolve, DrainMeansProcessed, OwedSent, TypeOK
<1>5. CASE UNCHANGED vars
  BY <1>5 DEF vars, DrainMeansProcessed, OwedSent
<1> QED BY <1>1, <1>2, <1>3, <1>4, <1>5 DEF Next

LEMMA InitIInv == Init => IInv
<1> SUFFICES ASSUME Init PROVE IInv OBVIOUS
<1>1. TypeOK BY DEF Init, TypeOK
<1>2. Len(queue) = 0 /\ worker.pc # "process" BY DEF Init, Idle
<1>3. CounterExact BY <1>2, InHandCardinality DEF Init, CounterExact
<1>4. ItemsConserved BY <1>2 DEF Init, ItemsConserved, Queued, InHand
<1>5. DrainMeansProcessed /\ OwedSent BY DEF Init, DrainMeansProcessed, OwedSent
<1> QED BY <1>1, <1>3, <1>4, <1>5 DEF IInv

\* The invariant of the worker.
THEOREM Invariance == Spec => []IInv
<1>1. IInv /\ [Next]_vars => IInv'
  BY TypeStep, CounterStep, ConservationStep, DrainStep DEF IInv
<1> QED BY InitIInv, <1>1, PTL DEF Spec

\* Types: in particular the counter `outstanding` never goes below zero.
THEOREM TypeCorrect == Spec => []TypeOK
<1>1. IInv => TypeOK BY DEF IInv
<1> QED BY Invariance, <1>1, PTL

\* `outstanding` is exact between any two transactions of the worker and of its
\* callers (DrainableWorker.ts:44-67), for any number of items.
THEOREM CounterIsExact == Spec => []CounterExact
<1>1. IInv => CounterExact BY DEF IInv
<1> QED BY Invariance, <1>1, PTL

\* No item is lost or processed twice.
THEOREM NothingLost == Spec => []ItemsConserved
<1>1. IInv => ItemsConserved BY DEF IInv
<1> QED BY Invariance, <1>1, PTL

\* drain() keeps its promise for any number of items and of concurrent callers
\* (DrainableWorker.ts:58-61).
THEOREM DrainIsSound == Spec => []DrainMeansProcessed
<1>1. IInv => DrainMeansProcessed BY DEF IInv
<1> QED BY Invariance, <1>1, PTL
=============================================================================
