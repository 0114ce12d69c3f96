------------------------ MODULE KeyedCoalescingWorker ------------------------
(***************************************************************************)
(* packages/shared/src/KeyedCoalescingWorker.ts: one fiber processes the   *)
(* latest value of each key; an enqueue for a key that is already queued   *)
(* or active is merged into the value kept for it instead of being queued. *)
(* terminal/Manager.ts persists terminal histories through it.             *)
(*                                                                         *)
(* A value is the set of the updates (calls of enqueue) merged into it, so *)
(* that the properties can follow each update; {} stands for "no value".   *)
(***************************************************************************)
EXTENDS Naturals, Sequences, FiniteSets

CONSTANTS Key,
          Update,   \* calls of enqueue
          KeyOf,    \* the key each update is for
          Drainer,  \* calls of drainKey
          DrainKey  \* the key each drainKey call waits for

ASSUME KeysAssumption == /\ KeyOf \in [Update -> Key]
                         /\ DrainKey \in [Drainer -> Key]

VARIABLES queue,       \* the TxQueue of keys
          latest,      \* latestByKey
          queuedKeys,
          activeKeys,
          worker,      \* what the worker's fiber does
          drainer,     \* the state of each drainKey() call
          sent,        \* history: updates enqueued
          done,        \* history: updates in a value that was processed
          failed,      \* history: updates in a value whose processing failed
          owed         \* history: updates of its key sent before each drainKey()

state == <<latest, queuedKeys, activeKeys>>
history == <<sent, done, failed>>
drains == <<drainer, owed>>
vars == <<queue, state, worker, history, drains>>

NoKey == [pc |-> "take"]
Taken(k) == [pc |-> "activate", key |-> k]
Processing(k, v) == [pc |-> "process", key |-> k, value |-> v]
Requeueing(k) == [pc |-> "offer", key |-> k]

\* The value in the worker's hands.
InHand == IF worker.pc = "process" THEN worker.value ELSE {}

Init ==
  /\ queue = <<>>
  /\ latest = [k \in Key |-> {}]
  /\ queuedKeys = {}
  /\ activeKeys = {}
  /\ worker = NoKey
  /\ sent = {} /\ done = {} /\ failed = {}
  /\ drainer = [d \in Drainer |-> "idle"]
  /\ owed = [d \in Drainer |-> {}]

\* The merge, the flag and the offer are one transaction.
Enqueue(u) ==
  LET k == KeyOf[u] IN
  /\ u \notin sent
  /\ latest' = [latest EXCEPT ![k] = @ \cup {u}]
  /\ IF k \in queuedKeys \cup activeKeys
       THEN UNCHANGED <<queue, queuedKeys>>
       ELSE queue' = Append(queue, k) /\ queuedKeys' = queuedKeys \cup {k}
  /\ sent' = sent \cup {u}
  /\ UNCHANGED <<activeKeys, worker, done, failed, drains>>

Take ==
  /\ worker = NoKey
  /\ queue # <<>>
  /\ worker' = Taken(Head(queue))
  /\ queue' = Tail(queue)
  /\ UNCHANGED <<state, history, drains>>

\* Mutated form: the value is read but left in latestByKey.
ActivateKeepsLatest ==
  /\ worker.pc = "activate"
  /\ latest[worker.key] # {}
  /\ queuedKeys' = queuedKeys \ {worker.key}
  /\ activeKeys' = activeKeys \cup {worker.key}
  /\ worker' = Processing(worker.key, latest[worker.key])
  /\ UNCHANGED <<queue, latest, history, drains>>

\* The transaction after the take.  The branch for a key without a value
\* (lines 85-87) is left out: ValueWaits shows that it is never taken.
Activate ==
  /\ worker.pc = "activate"
  /\ latest[worker.key] # {}
  /\ queuedKeys' = queuedKeys \ {worker.key}
  /\ latest' = [latest EXCEPT ![worker.key] = {}]
  /\ activeKeys' = activeKeys \cup {worker.key}
  /\ worker' = Processing(worker.key, latest[worker.key])
  /\ UNCHANGED <<queue, history, drains>>

\* Mutated form: the key is released without another look at latestByKey.
ProcessSucceedsOnce ==
  /\ worker.pc = "process"
  /\ done' = done \cup worker.value
  /\ activeKeys' = activeKeys \ {worker.key}
  /\ worker' = NoKey
  /\ UNCHANGED <<queue, latest, queuedKeys, sent, failed, drains>>

\* processKey: a value that arrived meanwhile is processed next, without the
\* key leaving activeKeys; otherwise the key is released.
ProcessSucceeds ==
  /\ worker.pc = "process"
  /\ done' = done \cup worker.value
  /\ LET k == worker.key IN
       IF latest[k] = {}
         THEN /\ activeKeys' = activeKeys \ {k}
              /\ worker' = NoKey
              /\ UNCHANGED latest
         ELSE /\ latest' = [latest EXCEPT ![k] = {}]
              /\ worker' = Processing(k, latest[k])
              /\ UNCHANGED activeKeys
  /\ UNCHANGED <<queue, queuedKeys, sent, failed, drains>>

\* Mutated form: a value that waits flags the key, but nothing offers it.
ProcessFailsFlagsOnly ==
  /\ worker.pc = "process"
  /\ failed' = failed \cup worker.value
  /\ LET k == worker.key IN
       /\ activeKeys' = activeKeys \ {k}
       /\ queuedKeys' = IF latest[k] # {} THEN queuedKeys \cup {k} ELSE queuedKeys
  /\ worker' = NoKey
  /\ UNCHANGED <<queue, latest, sent, done, drains>>

\* process fails: cleanupFailedKey's transaction.  The value in hand is gone;
\* the offer that requeues the key is not part of the transaction.
ProcessFails ==
  /\ worker.pc = "process"
  /\ failed' = failed \cup worker.value
  /\ LET k == worker.key IN
       /\ activeKeys' = activeKeys \ {k}
       /\ IF latest[k] # {} /\ k \notin queuedKeys
            THEN queuedKeys' = queuedKeys \cup {k} /\ worker' = Requeueing(k)
            ELSE worker' = NoKey /\ UNCHANGED queuedKeys
  /\ UNCHANGED <<queue, latest, sent, done, drains>>

RequeueOffer ==
  /\ worker.pc = "offer"
  /\ queue' = Append(queue, worker.key)
  /\ worker' = NoKey
  /\ UNCHANGED <<state, history, drains>>

DrainCall(d) ==
  /\ drainer[d] = "idle"
  /\ drainer' = [drainer EXCEPT ![d] = "waiting"]
  /\ owed' = [owed EXCEPT ![d] = {u \in sent : KeyOf[u] = DrainKey[d]}]
  /\ UNCHANGED <<queue, state, worker, history>>

\* Mutated form: only the flags are consulted, not the key being processed.
DrainIgnoresActive(d) ==
  /\ drainer[d] = "waiting"
  /\ latest[DrainKey[d]] = {} /\ DrainKey[d] \notin queuedKeys
  /\ drainer' = [drainer EXCEPT ![d] = "resolved"]
  /\ UNCHANGED <<queue, state, worker, history, owed>>

DrainResolve(d) ==
  /\ drainer[d] = "waiting"
  /\ latest[DrainKey[d]] = {}
  /\ DrainKey[d] \notin queuedKeys \cup activeKeys
  /\ drainer' = [drainer EXCEPT ![d] = "resolved"]
  /\ UNCHANGED <<queue, state, worker, history, owed>>

Work == Take \/ Activate \/ ProcessSucceeds \/ ProcessFails \/ RequeueOffer

Next ==
  \/ \E u \in Update : Enqueue(u)
  \/ Work
  \/ \E d \in Drainer : DrainCall(d) \/ DrainResolve(d)

Spec == Init /\ [][Next]_vars

FairSpec == Spec /\ WF_vars(Work) /\ \A d \in Drainer : WF_vars(DrainResolve(d))

-----------------------------------------------------------------------------
\* Types of the variables.
TypeOK ==
  /\ queue \in Seq(Key)
  /\ latest \in [Key -> SUBSET Update]
  /\ queuedKeys \subseteq Key
  /\ activeKeys \subseteq Key
  /\ worker \in {NoKey} \cup {Taken(k) : k \in Key} \cup {Requeueing(k) : k \in Key}
                 \cup {Processing(k, v) : k \in Key, v \in SUBSET Update}
  /\ drainer \in [Drainer -> {"idle", "waiting", "resolved"}]
  /\ sent \subseteq Update /\ done \subseteq Update /\ failed \subseteq Update
  /\ owed \in [Drainer -> SUBSET Update]

\* The key the worker holds outside the queue although queuedKeys still has it:
\* between the take and its transaction, and between cleanup and its offer.
InTransit == IF worker.pc \in {"activate", "offer"} THEN {worker.key} ELSE {}

\* The flag queuedKeys and the queue are updated in different transactions on
\* three paths.  They still agree: a flagged key is in the queue exactly once or
\* on its way, and the queue holds no other key (a key queued twice would be
\* activated twice, a flagged key that is nowhere would never run again).
FlagsMatchQueue ==
  /\ queuedKeys = {queue[n] : n \in DOMAIN queue} \cup InTransit
  /\ \A m, n \in DOMAIN queue : queue[m] = queue[n] => m = n
  /\ \A n \in DOMAIN queue : queue[n] \notin InTransit

\* A value never waits for a key that nobody will look at again, and a queued
\* key always has a value: the null branch of the take is dead code.
ValueWaits ==
  \A k \in Key : /\ latest[k] # {} => k \in queuedKeys \cup activeKeys
                 /\ k \in queuedKeys => latest[k] # {}

\* One fiber: the active keys are exactly the key being processed, and it is
\* not queued as well.
OneActive ==
  activeKeys = IF worker.pc = "process" THEN {worker.key} ELSE {}

\* An update is in exactly one place: waiting in its key's value, in hand,
\* processed, or in a value whose processing failed.  Coalescing loses none.
UpdatesConserved ==
  LET waiting == UNION {latest[k] : k \in Key} IN
  /\ sent = waiting \cup InHand \cup done \cup failed
  /\ waiting \cap (InHand \cup done \cup failed) = {}
  /\ InHand \cap (done \cup failed) = {}
  /\ done \cap failed = {}

\* drainKey() resolves only when the updates of its key sent before the call
\* have been processed or were lost to a failure.
DrainMeansSettled ==
  \A d \in Drainer : drainer[d] = "resolved" => owed[d] \subseteq done \cup failed

\* Every update is settled and every drainKey() call resolves, failures and
\* requeues included.
EverythingSettles ==
  /\ \A u \in Update : u \in sent ~> u \in done \cup failed
  /\ \A d \in Drainer : drainer[d] = "waiting" ~> drainer[d] = "resolved"
=============================================================================
