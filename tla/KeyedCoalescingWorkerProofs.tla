--------------------- MODULE KeyedCoalescingWorkerProofs ---------------------
(***************************************************************************)
(* The safety of KeyedCoalescingWorker for every set of keys, updates and  *)
(* drainers.  The invariants the runs check need three more facts to be    *)
(* inductive: a value only holds updates of its key, an active key is not  *)
(* queued, and what a drainer is owed has been sent.                       *)
(***************************************************************************)
EXTENDS KeyedCoalescingWorker, SequenceTheorems, TLAPS

\* A key's value, waiting or in hand, is made of updates of that key.
ValuesKeyed ==
  /\ \A k \in Key : \A u \in latest[k] : KeyOf[u] = k
  /\ worker.pc = "process" => \A u \in worker.value : KeyOf[u] = worker.key

\* A key being processed is not in the queue as well.
ActiveNotQueued == queuedKeys \cap activeKeys = {}

OwedSent == \A d \in Drainer : owed[d] \subseteq {u \in sent : KeyOf[u] = DrainKey[d]}

Flags == FlagsMatchQueue /\ ValueWaits /\ OneActive /\ ActiveNotQueued

Values == ValuesKeyed /\ UpdatesConserved

Drains == DrainMeansSettled /\ OwedSent

IInv == TypeOK /\ Flags /\ Values /\ Drains

\* The forms of the worker are told apart by their pc.
LEMMA WorkerForms ==
  ASSUME TypeOK
  PROVE  /\ worker.pc \in {"take", "activate", "process", "offer"}
         /\ worker = NoKey <=> worker.pc = "take"
         /\ worker.pc \in {"activate", "process", "offer"} => worker.key \in Key
         /\ worker.pc = "process" => worker.value \in SUBSET Update
  BY DEF TypeOK, NoKey, Taken, Processing, Requeueing

\* What pc, key and value the constructors give the worker.
LEMMA WorkerFields ==
  /\ NoKey.pc = "take"
  /\ \A k : Taken(k).pc = "activate" /\ Taken(k).key = k
  /\ \A k : Requeueing(k).pc = "offer" /\ Requeueing(k).key = k
  /\ \A k, v : /\ Processing(k, v).pc = "process"
               /\ Processing(k, v).key = k /\ Processing(k, v).value = v
  BY DEF NoKey, Taken, Processing, Requeueing

\* The keys in a queue, and that none is in it twice.
KeysIn(q) == {q[n] : n \in DOMAIN q}
Distinct(q) == \A m, n \in DOMAIN q : q[m] = q[n] => m = n

LEMMA FlagsForm ==
  FlagsMatchQueue <=> /\ queuedKeys = KeysIn(queue) \cup InTransit
                      /\ Distinct(queue)
                      /\ KeysIn(queue) \cap InTransit = {}
  BY DEF FlagsMatchQueue, KeysIn, Distinct

LEMMA FlagsFormNext ==
  FlagsMatchQueue' <=> /\ queuedKeys' = KeysIn(queue') \cup InTransit'
                       /\ Distinct(queue')
                       /\ KeysIn(queue') \cap InTransit' = {}
  BY DEF FlagsMatchQueue, KeysIn, Distinct

\* The keys in a queue after an Append and after a take.
LEMMA AppendKeys ==
  ASSUME NEW q \in Seq(Key), NEW k \in Key
  PROVE  /\ Append(q, k) \in Seq(Key)
         /\ KeysIn(Append(q, k)) = KeysIn(q) \cup {k}
         /\ k \notin KeysIn(q) /\ Distinct(q) => Distinct(Append(q, k))
<1> DEFINE r == Append(q, k)
<1>1. /\ r \in Seq(Key) /\ DOMAIN r = 1..(Len(q) + 1) /\ DOMAIN q = 1..Len(q)
      /\ \A n \in DOMAIN q : r[n] = q[n]
      /\ r[Len(q) + 1] = k /\ Len(q) \in Nat
  OBVIOUS
<1> HIDE DEF r
<1>2. KeysIn(r) = KeysIn(q) \cup {k} BY <1>1 DEF KeysIn
<1>3. ASSUME k \notin KeysIn(q), Distinct(q) PROVE Distinct(r)
  BY <1>1, <1>3 DEF KeysIn, Distinct
<1> QED BY <1>1, <1>2, <1>3 DEF r

LEMMA TailKeys ==
  ASSUME NEW q \in Seq(Key), q # <<>>
  PROVE  /\ Tail(q) \in Seq(Key) /\ Head(q) \in Key
         /\ Head(q) \in KeysIn(q)
         /\ Distinct(q) => /\ KeysIn(Tail(q)) = KeysIn(q) \ {Head(q)}
                           /\ Distinct(Tail(q))
<1> DEFINE r == Tail(q)
<1>1. /\ r \in Seq(Key) /\ DOMAIN r = 1..(Len(q) - 1) /\ DOMAIN q = 1..Len(q)
      /\ Len(q) \in Nat \ {0} /\ \A n \in DOMAIN r : r[n] = q[n + 1]
      /\ Head(q) = q[1]
  OBVIOUS
<1> HIDE DEF r
<1>2. Head(q) \in Key /\ 1 \in DOMAIN q BY <1>1
<1>3. ASSUME Distinct(q) PROVE KeysIn(r) = KeysIn(q) \ {Head(q)} /\ Distinct(r)
  <2>1. \A n \in DOMAIN r : n + 1 \in DOMAIN q /\ n + 1 # 1 BY <1>1
  <2>2. \A n \in DOMAIN q : n # 1 => n - 1 \in DOMAIN r /\ r[n - 1] = q[n] BY <1>1
  <2>3. ASSUME NEW n \in DOMAIN r PROVE r[n] \in KeysIn(q) \ {Head(q)}
    BY <1>1, <1>2, <1>3, <2>1 DEF KeysIn, Distinct
  <2>4. ASSUME NEW n \in DOMAIN q, q[n] # Head(q) PROVE q[n] \in KeysIn(r)
    BY <1>1, <2>2, <2>4 DEF KeysIn
  <2>5. Distinct(r) BY <1>1, <1>3 DEF Distinct
  <2> QED BY <2>3, <2>4, <2>5 DEF KeysIn
<1>4. Head(q) \in KeysIn(q) BY <1>1, <1>2 DEF KeysIn
<1> QED BY <1>1, <1>2, <1>3, <1>4 DEF r

LEMMA TypeStep ==
  ASSUME IInv, [Next]_vars
  PROVE  TypeOK'
<1> USE KeysAssumption DEF IInv
<1>0. TypeOK OBVIOUS
<1>1. ASSUME NEW u \in Update, Enqueue(u) PROVE TypeOK'
  <2>1. KeyOf[u] \in Key /\ queue \in Seq(Key) BY DEF TypeOK
  <2>2. queue' \in Seq(Key) /\ queuedKeys' \subseteq Key
    <3>1. Append(queue, KeyOf[u]) \in Seq(Key) BY <2>1, AppendKeys
    <3>2. queuedKeys \subseteq Key BY DEF TypeOK
    <3> QED BY <1>1, <2>1, <3>1, <3>2 DEF Enqueue
  <2>3. latest' \in [Key -> SUBSET Update] BY <1>1, <2>1 DEF Enqueue, TypeOK
  <2> QED BY <1>1, <2>2, <2>3 DEF Enqueue, TypeOK, drains
<1>2. CASE Take
  <2>1. queue \in Seq(Key) /\ queue # <<>> BY <1>2 DEF Take, TypeOK
  <2>2. Head(queue) \in Key /\ Tail(queue) \in Seq(Key) BY <2>1, TailKeys
  <2> QED BY <1>2, <2>2 DEF Take, TypeOK, state, history, drains
<1>3. CASE Activate
  BY <1>3, WorkerForms DEF Activate, TypeOK, history, drains
<1>4. CASE ProcessSucceeds
  <2> DEFINE k == worker.key
  <2>1. worker.pc = "process" /\ k \in Key /\ worker.value \in SUBSET Update
    BY <1>4, WorkerForms DEF ProcessSucceeds
  <2>2. latest' \in [Key -> SUBSET Update] /\ activeKeys' \subseteq Key
    BY <1>4, <2>1 DEF ProcessSucceeds, TypeOK
  <2>3. worker' = NoKey \/ worker' = Processing(k, latest[k]) BY <1>4 DEF ProcessSucceeds
  <2>4. latest[k] \in SUBSET Update BY <2>1 DEF TypeOK
  <2> QED BY <1>4, <2>1, <2>2, <2>3, <2>4 DEF ProcessSucceeds, TypeOK, drains
<1>5. CASE ProcessFails
  BY <1>5, WorkerForms DEF ProcessFails, TypeOK, drains
<1>6. CASE RequeueOffer
  BY <1>6, WorkerForms, AppendKeys DEF RequeueOffer, TypeOK, state, history, drains
<1>7. ASSUME NEW d \in Drainer, DrainCall(d) PROVE TypeOK'
  BY <1>7 DEF DrainCall, TypeOK, state, history
<1>8. ASSUME NEW d \in Drainer, DrainResolve(d) PROVE TypeOK'
  BY <1>8 DEF DrainResolve, TypeOK, state, history
<1>9. CASE UNCHANGED vars
  BY <1>9 DEF vars, TypeOK, state, history, drains
<1> QED BY <1>1, <1>2, <1>3, <1>4, <1>5, <1>6, <1>7, <1>8, <1>9 DEF Next, Work

\* The flags: each transaction leaves them in agreement with the queue.
LEMMA FlagsStep ==
  ASSUME IInv, [Next]_vars
  PROVE  Flags'
<1> USE KeysAssumption, WorkerForms, WorkerFields, FlagsForm, FlagsFormNext DEF IInv, Flags
<1>0. queue \in Seq(Key) /\ latest \in [Key -> SUBSET Update] BY DEF TypeOK
<1>1. ASSUME NEW u \in Update, Enqueue(u) PROVE Flags'
  <2> DEFINE k == KeyOf[u]
  <2>0. k \in Key OBVIOUS
  <2>1. worker' = worker /\ activeKeys' = activeKeys /\ latest' = [latest EXCEPT ![k] = @ \cup {u}]
    BY <1>1 DEF Enqueue
  <2>2. FlagsMatchQueue'
    <3>1. CASE k \in queuedKeys \cup activeKeys
      BY <1>1, <3>1 DEF Enqueue, FlagsMatchQueue, InTransit
    <3>2. CASE k \notin queuedKeys \cup activeKeys
      <4>1. queue' = Append(queue, k) /\ queuedKeys' = queuedKeys \cup {k}
        BY <1>1, <3>2 DEF Enqueue
      <4>2. k \notin KeysIn(queue) /\ k \notin InTransit BY <3>2
      <4>3. /\ KeysIn(queue') = KeysIn(queue) \cup {k}
            /\ Distinct(queue')
        BY <1>0, <2>0, <4>1, <4>2, AppendKeys
      <4>4. InTransit' = InTransit BY <2>1 DEF InTransit
      <4> QED BY <4>1, <4>2, <4>3, <4>4
    <3> QED BY <3>1, <3>2
  <2>3. ValueWaits' /\ ActiveNotQueued'
    BY <1>0, <1>1, <2>0, <2>1 DEF Enqueue, ValueWaits, ActiveNotQueued
  <2>4. OneActive' BY <2>1 DEF OneActive
  <2> QED BY <2>2, <2>3, <2>4
<1>2. CASE Take
  <2>1. /\ queue # <<>> /\ queue' = Tail(queue) /\ worker' = Taken(Head(queue))
        /\ UNCHANGED <<latest, queuedKeys, activeKeys>> /\ worker.pc = "take"
    BY <1>2 DEF Take, state
  <2>2. /\ Head(queue) \in KeysIn(queue) /\ KeysIn(queue') = KeysIn(queue) \ {Head(queue)}
        /\ Distinct(queue')
    BY <1>0, <2>1, TailKeys
  <2>3. InTransit = {} /\ InTransit' = {Head(queue)} BY <2>1 DEF InTransit
  <2>4. FlagsMatchQueue' BY <2>1, <2>2, <2>3
  <2>5. ValueWaits' /\ ActiveNotQueued' BY <2>1 DEF ValueWaits, ActiveNotQueued
  <2>6. OneActive' BY <2>1 DEF OneActive
  <2> QED BY <2>4, <2>5, <2>6
<1>3. CASE Activate
  <2> DEFINE k == worker.key
  <2>1. /\ worker.pc = "activate" /\ k \in Key /\ queue' = queue
        /\ queuedKeys' = queuedKeys \ {k} /\ activeKeys' = activeKeys \cup {k}
        /\ latest' = [latest EXCEPT ![k] = {}] /\ worker' = Processing(k, latest[k])
    BY <1>3 DEF Activate
  <2>2. InTransit = {k} /\ InTransit' = {} BY <2>1 DEF InTransit
  <2>3. k \notin KeysIn(queue) BY <2>2
  <2>4. FlagsMatchQueue' BY <2>1, <2>2, <2>3
  <2>5. activeKeys = {} BY <2>1 DEF OneActive
  <2>6. OneActive' BY <2>1, <2>5 DEF OneActive
  <2>7. ValueWaits' /\ ActiveNotQueued' BY <1>0, <2>1, <2>5 DEF ValueWaits, ActiveNotQueued
  <2> QED BY <2>4, <2>6, <2>7
<1>4. CASE ProcessSucceeds
  <2> DEFINE k == worker.key
  <2>1. /\ worker.pc = "process" /\ k \in Key /\ queue' = queue /\ queuedKeys' = queuedKeys
        /\ worker'.pc \in {"take", "process"}
        /\ worker'.pc = "process" => worker'.key = k /\ activeKeys' = activeKeys
        /\ worker'.pc = "take" => activeKeys' = activeKeys \ {k} /\ latest[k] = {}
        /\ latest' = [latest EXCEPT ![k] = {}]
    BY <1>0, <1>4 DEF ProcessSucceeds
  <2>2. InTransit = {} /\ InTransit' = {} BY <2>1 DEF InTransit
  <2>3. FlagsMatchQueue' BY <2>1, <2>2
  <2>4. activeKeys = {k} BY <2>1 DEF OneActive
  <2>5. OneActive' BY <2>1, <2>4 DEF OneActive
  <2>6. ActiveNotQueued' BY <2>1 DEF ActiveNotQueued
  <2>7. k \notin queuedKeys BY <2>4 DEF ActiveNotQueued
  <2>8. ValueWaits' BY <1>0, <2>1, <2>4, <2>7 DEF ValueWaits
  <2> QED BY <2>3, <2>5, <2>6, <2>8
<1>5. CASE ProcessFails
  <2> DEFINE k == worker.key
  <2>1. /\ worker.pc = "process" /\ k \in Key /\ queue' = queue /\ latest' = latest
        /\ activeKeys' = activeKeys \ {k}
        /\ \/ latest[k] # {} /\ queuedKeys' = queuedKeys \cup {k} /\ worker' = Requeueing(k)
           \/ latest[k] = {} /\ queuedKeys' = queuedKeys /\ worker' = NoKey
           \/ k \in queuedKeys /\ queuedKeys' = queuedKeys /\ worker' = NoKey
    BY <1>5 DEF ProcessFails
  <2>2. activeKeys = {k} BY <2>1 DEF OneActive
  <2>3. k \notin queuedKeys BY <2>2 DEF ActiveNotQueued
  <2>4. k \notin KeysIn(queue) /\ InTransit = {} BY <2>1, <2>3 DEF InTransit
  <2>5. FlagsMatchQueue'
    <3>1. CASE latest[k] # {} /\ queuedKeys' = queuedKeys \cup {k} /\ worker' = Requeueing(k)
      <4>1. InTransit' = {k} BY <3>1 DEF InTransit
      <4> QED BY <2>1, <2>4, <3>1, <4>1
    <3>2. CASE queuedKeys' = queuedKeys /\ worker' = NoKey
      <4>1. InTransit' = {} BY <3>2 DEF InTransit
      <4> QED BY <2>1, <2>4, <3>2, <4>1
    <3> QED BY <2>1, <3>1, <3>2
  <2>6. OneActive' /\ ActiveNotQueued' BY <2>1, <2>2 DEF OneActive, ActiveNotQueued
  <2>7. ValueWaits' BY <2>1, <2>2, <2>3 DEF ValueWaits
  <2> QED BY <2>5, <2>6, <2>7
<1>6. CASE RequeueOffer
  <2> DEFINE k == worker.key
  <2>1. /\ worker.pc = "offer" /\ k \in Key /\ queue' = Append(queue, k) /\ worker' = NoKey
        /\ UNCHANGED <<latest, queuedKeys, activeKeys>>
    BY <1>6 DEF RequeueOffer, state
  <2>2. InTransit = {k} /\ InTransit' = {} BY <2>1 DEF InTransit
  <2>3. k \notin KeysIn(queue) BY <2>2
  <2>4. /\ KeysIn(queue') = KeysIn(queue) \cup {k}
        /\ Distinct(queue')
    BY <1>0, <2>1, <2>3, AppendKeys
  <2>5. FlagsMatchQueue' BY <2>1, <2>2, <2>4
  <2>6. OneActive' /\ ActiveNotQueued' /\ ValueWaits'
    BY <2>1 DEF OneActive, ActiveNotQueued, ValueWaits
  <2> QED BY <2>5, <2>6
<1>7. ASSUME NEW d \in Drainer, DrainCall(d) \/ DrainResolve(d) PROVE Flags'
  BY <1>7 DEF DrainCall, DrainResolve, state, FlagsMatchQueue, InTransit, ValueWaits,
              OneActive, ActiveNotQueued
<1>8. CASE UNCHANGED vars
  BY <1>8 DEF vars, state, FlagsMatchQueue, InTransit, ValueWaits, OneActive, ActiveNotQueued
<1> QED BY <1>1, <1>2, <1>3, <1>4, <1>5, <1>6, <1>7, <1>8 DEF Next, Work

\* The values: an update moves from the value that waits to the value in hand and
\* from there to `done` or `failed`; it never is in two places or in none.
LEMMA ValuesStep ==
  ASSUME IInv, [Next]_vars
  PROVE  Values'
<1> USE KeysAssumption, WorkerForms, WorkerFields DEF IInv, Values
<1>0. /\ latest \in [Key -> SUBSET Update] /\ done \subseteq Update /\ failed \subseteq Update
  BY DEF TypeOK
<1> DEFINE waiting == UNION {latest[k] : k \in Key}
<1>1. ASSUME NEW u \in Update, Enqueue(u) PROVE Values'
  <2> DEFINE k == KeyOf[u]
  <2>1. /\ u \notin sent /\ sent' = sent \cup {u} /\ k \in Key
        /\ latest' = [latest EXCEPT ![k] = @ \cup {u}]
        /\ UNCHANGED <<worker, done, failed>>
    BY <1>1 DEF Enqueue
  <2>2. waiting' = waiting \cup {u} BY <1>0, <2>1
  <2>3. InHand' = InHand BY <2>1 DEF InHand
  <2>4. UpdatesConserved' BY <2>1, <2>2, <2>3 DEF UpdatesConserved
  <2>5. ValuesKeyed' BY <1>0, <2>1 DEF ValuesKeyed
  <2> QED BY <2>4, <2>5
<1>2. CASE Take \/ RequeueOffer
  <2>1. /\ UNCHANGED <<latest, sent, done, failed>>
        /\ worker.pc # "process" /\ worker'.pc # "process"
    BY <1>2 DEF Take, RequeueOffer, state, history
  <2>2. InHand' = InHand BY <2>1 DEF InHand
  <2>3. UpdatesConserved' BY <2>1, <2>2 DEF UpdatesConserved
  <2>4. ValuesKeyed' BY <2>1 DEF ValuesKeyed
  <2> QED BY <2>3, <2>4
<1>4. CASE Activate
  <2> DEFINE k == worker.key
  <2>1. /\ worker.pc = "activate" /\ k \in Key
        /\ latest' = [latest EXCEPT ![k] = {}] /\ worker' = Processing(k, latest[k])
        /\ UNCHANGED <<sent, done, failed>>
    BY <1>4 DEF Activate, history
  <2>2. waiting' = waiting \ latest[k] /\ latest[k] \subseteq waiting
    <3>1. ValuesKeyed OBVIOUS
    <3>2. \A j \in Key : latest'[j] = IF j = k THEN {} ELSE latest[j] BY <1>0, <2>1
    <3>3. \A j \in Key : j # k => latest[j] \cap latest[k] = {} BY <2>1, <3>1 DEF ValuesKeyed
    <3> QED BY <2>1, <3>2, <3>3
  <2>3. InHand = {} /\ InHand' = latest[k] BY <2>1 DEF InHand
  <2>4. UpdatesConserved' BY <2>1, <2>2, <2>3 DEF UpdatesConserved
  <2>5. ValuesKeyed' BY <1>0, <2>1 DEF ValuesKeyed
  <2> QED BY <2>4, <2>5
<1>5. CASE ProcessSucceeds
  <2> DEFINE k == worker.key
  <2>1. /\ worker.pc = "process" /\ k \in Key /\ done' = done \cup worker.value
        /\ latest' = [latest EXCEPT ![k] = {}] /\ UNCHANGED <<sent, failed>>
        /\ \/ worker' = NoKey /\ latest[k] = {}
           \/ worker' = Processing(k, latest[k])
    BY <1>0, <1>5 DEF ProcessSucceeds
  <2>2. waiting' = waiting \ latest[k] /\ latest[k] \subseteq waiting
    <3>1. ValuesKeyed OBVIOUS
    <3>2. \A j \in Key : latest'[j] = IF j = k THEN {} ELSE latest[j] BY <1>0, <2>1
    <3>3. \A j \in Key : j # k => latest[j] \cap latest[k] = {} BY <2>1, <3>1 DEF ValuesKeyed
    <3> QED BY <2>1, <3>2, <3>3
  <2>3. InHand = worker.value BY <2>1 DEF InHand
  <2>4. InHand' = latest[k]
    <3>1. CASE worker' = NoKey /\ latest[k] = {} BY <3>1 DEF InHand
    <3>2. CASE worker' = Processing(k, latest[k]) BY <3>2 DEF InHand
    <3> QED BY <2>1, <3>1, <3>2
  <2>5. UpdatesConserved' BY <2>1, <2>2, <2>3, <2>4 DEF UpdatesConserved
  <2>6. ValuesKeyed' BY <1>0, <2>1 DEF ValuesKeyed
  <2> QED BY <2>5, <2>6
<1>6. CASE ProcessFails
  <2>1. /\ worker.pc = "process" /\ failed' = failed \cup worker.value
        /\ UNCHANGED <<latest, sent, done>> /\ worker'.pc # "process"
    BY <1>6 DEF ProcessFails
  <2>2. InHand = worker.value /\ InHand' = {} BY <2>1 DEF InHand
  <2>3. UpdatesConserved' BY <2>1, <2>2 DEF UpdatesConserved
  <2>4. ValuesKeyed' BY <2>1 DEF ValuesKeyed
  <2> QED BY <2>3, <2>4
<1>7. ASSUME NEW d \in Drainer, DrainCall(d) \/ DrainResolve(d) PROVE Values'
  BY <1>7 DEF DrainCall, DrainResolve, state, history, ValuesKeyed, UpdatesConserved, InHand
<1>8. CASE UNCHANGED vars
  BY <1>8 DEF vars, state, history, ValuesKeyed, UpdatesConserved, InHand
<1> QED BY <1>1, <1>2, <1>4, <1>5, <1>6, <1>7, <1>8 DEF Next, Work

\* With no value, no flag and no activity, every update of the key is settled.
LEMMA QuietKeySettled ==
  ASSUME IInv, NEW k \in Key, latest[k] = {}, k \notin activeKeys
  PROVE  \A u \in sent : KeyOf[u] = k => u \in done \cup failed
<1> USE DEF IInv, Values, Flags
<1> TAKE u \in sent
<1> HAVE KeyOf[u] = k
<1>1. u \notin InHand BY DEF InHand, OneActive, ValuesKeyed
<1>2. \A j \in Key : u \notin latest[j] BY DEF ValuesKeyed
<1> QED BY <1>1, <1>2 DEF UpdatesConserved

LEMMA DrainsStep ==
  ASSUME IInv, [Next]_vars
  PROVE  Drains'
<1> USE KeysAssumption DEF IInv, Drains
<1>0. drainer \in [Drainer -> {"idle", "waiting", "resolved"}] /\ owed \in [Drainer -> SUBSET Update]
  BY DEF TypeOK
<1>1. ASSUME drainer' = drainer, owed' = owed, sent \subseteq sent',
             done \subseteq done', failed \subseteq failed'
      PROVE  Drains'
  BY <1>1 DEF DrainMeansSettled, OwedSent
<1>2. ASSUME NEW u \in Update, Enqueue(u) PROVE Drains'
  BY <1>1, <1>2 DEF Enqueue, drains
<1>3. CASE Work
  BY <1>1, <1>3 DEF Work, Take, Activate, ProcessSucceeds, ProcessFails, RequeueOffer,
                    drains, history
<1>4. ASSUME NEW d \in Drainer, DrainCall(d) PROVE Drains'
  BY <1>0, <1>4 DEF DrainCall, history, DrainMeansSettled, OwedSent
<1>5. ASSUME NEW d \in Drainer, DrainResolve(d) PROVE Drains'
  <2>1. \A u \in sent : KeyOf[u] = DrainKey[d] => u \in done \cup failed
    BY <1>5, QuietKeySettled DEF DrainResolve
  <2> QED BY <1>0, <1>5, <2>1 DEF DrainResolve, history, DrainMeansSettled, OwedSent
<1>6. CASE UNCHANGED vars
  BY <1>1, <1>6 DEF vars, drains, history
<1> QED BY <1>2, <1>3, <1>4, <1>5, <1>6 DEF Next

LEMMA InitIInv == Init => IInv
<1> SUFFICES ASSUME Init PROVE IInv OBVIOUS
<1> USE WorkerFields DEF Init
<1>1. TypeOK BY DEF TypeOK
<1>2. Flags
  BY DEF Flags, FlagsMatchQueue, InTransit, ValueWaits, OneActive, ActiveNotQueued
<1>3. Values BY DEF Values, ValuesKeyed, UpdatesConserved, InHand
<1>4. Drains BY DEF Drains, DrainMeansSettled, OwedSent
<1> QED BY <1>1, <1>2, <1>3, <1>4 DEF IInv

\* The invariant of the worker.
THEOREM Invariance == Spec => []IInv
<1>1. IInv /\ [Next]_vars => IInv'
  BY TypeStep, FlagsStep, ValuesStep, DrainsStep DEF IInv
<1> QED BY InitIInv, <1>1, PTL DEF Spec

\* Types of the worker's state.
THEOREM TypeCorrect == Spec => []TypeOK
<1>1. IInv => TypeOK BY DEF IInv
<1> QED BY Invariance, <1>1, PTL

\* The queue holds a key exactly when queuedKeys says so or the key is on its way
\* between the two, on the paths of take, enqueue and cleanup
\* (KeyedCoalescingWorker.ts:59-128), for any number of keys.
THEOREM FlagsAreRight == Spec => []FlagsMatchQueue
<1>1. IInv => FlagsMatchQueue BY DEF IInv, Flags
<1> QED BY Invariance, <1>1, PTL

\* No value waits for a key that nobody will look at again.
THEOREM NoValueForgotten == Spec => []ValueWaits
<1>1. IInv => ValueWaits BY DEF IInv, Flags
<1> QED BY Invariance, <1>1, PTL

\* One key at a time: the active keys are the one in the worker's hands.
THEOREM OneKeyActive == Spec => []OneActive
<1>1. IInv => OneActive BY DEF IInv, Flags
<1> QED BY Invariance, <1>1, PTL

\* Coalescing loses no update and settles none twice.
THEOREM NothingLost == Spec => []UpdatesConserved
<1>1. IInv => UpdatesConserved BY DEF IInv, Values
<1> QED BY Invariance, <1>1, PTL

\* drainKey() keeps its promise (KeyedCoalescingWorker.ts:130-139).
THEOREM DrainIsSound == Spec => []DrainMeansSettled
<1>1. IInv => DrainMeansSettled BY DEF IInv, Drains
<1> QED BY Invariance, <1>1, PTL
=============================================================================
