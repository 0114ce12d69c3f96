------------------------------ MODULE ThreadSync ------------------------------
(***************************************************************************)
(* How a client keeps a copy of one thread: orchestration.subscribeThread  *)
(* (apps/server/src/ws.ts) over the engine's log and event stream, and the *)
(* client's thread state (packages/client-runtime/src/state/threads.ts)    *)
(* with its cache, over connections that come and go.                      *)
(*                                                                         *)
(* The engine appears through what OrchestrationEngine shows of it: events *)
(* are committed with their projection, then the head moves, then they are *)
(* published in order.  A copy of the thread is the set of the sequences   *)
(* whose events it reflects.                                               *)
(***************************************************************************)
EXTENDS Naturals, Sequences, FiniteSets

CONSTANTS MaxEvents,  \* bound: length of the log
          MaxMoves,   \* bound: connections, openings and wake-ups
          Version     \* servers met: "new" ones send the completion marker, "old" ones not

ASSUME BoundsAssumption == MaxEvents \in Nat /\ MaxMoves \in Nat
ASSUME VersionAssumption == Version \subseteq {"new", "old"}

VARIABLES
  log,        \* the kinds of the events committed
  head,       \* latestSequence: commandReadModel.snapshotSequence
  published,  \* events handed to eventPubSub
  session,    \* the client's RPC session: "down" or the version of the server
  sub,        \* the server's side of the subscription
  wire,       \* items on their way to the client
  client,     \* the thread state of the client
  pending,    \* the snapshot waiting in the persistence queue's debounce
  cache,      \* EnvironmentCacheStore: what loadThread returns
  moves,
  missed,     \* history: events published before the live stream was attached
  owed        \* history: what the marker of the current subscription vouches for

engine == <<log, head, published>>
stored == <<pending, cache>>
history == <<missed, owed>>
vars == <<engine, session, sub, wire, client, stored, moves, history>>

\* Events of this thread that leave its session idle or working, its deletion,
\* and everything else (its metadata, other threads).
Kind == {"idle", "busy", "deleted", "other"}

\* isThreadDetailEvent: thread.deleted is not among the events it names.
Detail(kind) == kind \in {"idle", "busy"}

\* The events a copy of the thread reflects at sequence n.
Thread(n) == {i \in DOMAIN log : i <= n /\ log[i] \in {"idle", "busy"}}

Deleted == \E i \in DOMAIN log : log[i] = "deleted"

\* shouldPersistThread is its negation.
Working(view) == \E i \in view : log[i] = "busy" /\ \A j \in view : j <= i

Copy(n, view) == [seq |-> n, view |-> view]
NoCopy == [seq |-> 0]
Has(copy) == copy # NoCopy

\* Items of the stream.
Snapshot(n) == [kind |-> "snapshot", seq |-> n]
EventItem(n) == [kind |-> "event", seq |-> n]
Synchronized == [kind |-> "synchronized", seq |-> 0]
NotFound == [kind |-> "not found", seq |-> 0]

Item == [kind : {"snapshot", "event", "synchronized", "not found"}, seq : Nat]
CopyState == {NoCopy} \cup [seq : Nat, view : SUBSET Nat]
SubState == [pc : {"none", "open", "replay", "marking", "live"}, attached : BOOLEAN,
             resume : BOOLEAN, after : Nat, buffer : Seq(Item)]
ClientState == [pc : {"closed", "idle", "load", "loaded", "ready", "subscribed", "retry"},
                copy : CopyState, seq : Nat, reply : Nat, waiting : BOOLEAN,
                status : {"empty", "cached", "synchronizing", "live", "deleted"}]

NoSub == [pc |-> "none", attached |-> FALSE, resume |-> FALSE, after |-> 0, buffer |-> <<>>]

Closed == [pc |-> "closed", copy |-> NoCopy, seq |-> 0, status |-> "empty",
           waiting |-> FALSE, reply |-> 0]

Init ==
  /\ log = <<>> /\ head = 0 /\ published = 0
  /\ session = "down"
  /\ sub = NoSub /\ wire = <<>>
  /\ client = Closed
  /\ pending = NoCopy /\ cache = NoCopy
  /\ moves = 0
  /\ missed = {} /\ owed = 0

Move == moves < MaxMoves /\ moves' = moves + 1

-----------------------------------------------------------------------------
(* The engine.                                                              *)

\* A command's events, one or two, are committed once the last one's are out.
Commit ==
  /\ published = Len(log)
  /\ \E batch \in [1..1 -> Kind] \cup [1..2 -> Kind] :
       /\ Len(log) + Len(batch) <= MaxEvents
       /\ Deleted => \A i \in DOMAIN batch : batch[i] = "other"
       /\ \A i \in DOMAIN batch : batch[i] = "deleted" => i = Len(batch)
       /\ log' = log \o batch
  /\ UNCHANGED <<head, published, session, sub, wire, client, stored, moves, history>>

Swap ==
  /\ head < Len(log)
  /\ head' = Len(log)
  /\ UNCHANGED <<log, published, session, sub, wire, client, stored, moves, history>>

\* The catch-up has read the log, or the tables, for the last time.
CaughtUp == sub.pc \in {"marking", "live"}

\* The live stream, once attached, keeps the thread's events in liveBuffer.  An
\* event published before that, and after the catch-up's last read, is missed.
Publish ==
  LET n == published + 1 IN
  /\ published < head
  /\ published' = n
  /\ sub' = IF sub.attached /\ Detail(log[n])
              THEN [sub EXCEPT !.buffer = Append(@, EventItem(n))] ELSE sub
  /\ missed' = IF CaughtUp /\ ~ sub.attached /\ sub.after < n /\ Detail(log[n])
                 THEN missed \cup {n} ELSE missed
  /\ UNCHANGED <<log, head, session, wire, client, stored, moves, owed>>

-----------------------------------------------------------------------------
(* subscribeThread.                                                         *)

\* Effect.forkScoped without startImmediately: the fiber that attaches the live
\* stream runs when the scheduler gets to it.
Attach ==
  /\ sub.pc # "none" /\ ~ sub.attached
  /\ sub' = [sub EXCEPT !.attached = TRUE]
  /\ UNCHANGED <<engine, session, wire, client, stored, moves, history>>

\* A cursor up to the head is resumed from.
ChooseReplay ==
  /\ sub.pc = "open"
  /\ sub.resume /\ sub.after <= head
  /\ sub' = [sub EXCEPT !.pc = "replay"]
  /\ UNCHANGED <<engine, session, wire, client, stored, moves, history>>

\* Mutated form: the snapshot is taken at latestSequence.
SendSnapshotOfHead ==
  /\ sub.pc = "open"
  /\ ~ (sub.resume /\ sub.after <= head)
  /\ ~ Deleted
  /\ wire' = Append(wire, Snapshot(head))
  /\ sub' = [sub EXCEPT !.pc = "marking", !.after = head]
  /\ UNCHANGED <<engine, session, client, stored, moves, history>>

\* getThreadDetailSnapshot: the thread and the sequence in one transaction.
SendSnapshot ==
  /\ sub.pc = "open"
  /\ ~ (sub.resume /\ sub.after <= head)
  /\ ~ Deleted
  /\ wire' = Append(wire, Snapshot(Len(log)))
  /\ sub' = [sub EXCEPT !.pc = "marking", !.after = Len(log)]
  /\ UNCHANGED <<engine, session, client, stored, moves, history>>

SendNotFound ==
  /\ sub.pc = "open"
  /\ ~ (sub.resume /\ sub.after <= head)
  /\ Deleted
  /\ wire' = Append(wire, NotFound)
  /\ sub' = NoSub
  /\ UNCHANGED <<engine, session, client, stored, moves, history>>

\* readThreadEvents, page after page until one is empty.
Unread == {n \in DOMAIN log : n > sub.after /\ Detail(log[n])}

ReplayEvent ==
  /\ sub.pc = "replay"
  /\ \E n \in Unread :
       /\ \A m \in Unread : n <= m
       /\ wire' = Append(wire, EventItem(n))
       /\ sub' = [sub EXCEPT !.after = n]
  /\ UNCHANGED <<engine, session, client, stored, moves, history>>

ReplayEnds ==
  /\ sub.pc = "replay"
  /\ Unread = {}
  /\ sub' = [sub EXCEPT !.pc = "marking", !.after = Len(log)]
  /\ UNCHANGED <<engine, session, wire, client, stored, moves, history>>

\* Mutated form: the marker is sent ahead of what was buffered meanwhile.
MarkFirst ==
  /\ sub.pc = "marking"
  /\ sub' = [sub EXCEPT !.pc = "live"]
  /\ wire' = IF session = "new" THEN Append(wire, Synchronized) ELSE wire
  /\ owed' = IF sub.after > published THEN sub.after ELSE published
  /\ UNCHANGED <<engine, session, client, stored, moves, missed>>

\* The marker goes into liveBuffer, behind what was published meanwhile.
Mark ==
  /\ sub.pc = "marking"
  /\ sub' = [sub EXCEPT !.pc = "live",
                        !.buffer = IF session = "new" THEN Append(@, Synchronized) ELSE @]
  /\ owed' = IF sub.after > published THEN sub.after ELSE published
  /\ UNCHANGED <<engine, session, wire, client, stored, moves, missed>>

Forward ==
  /\ sub.pc = "live" /\ sub.buffer # <<>>
  /\ wire' = Append(wire, Head(sub.buffer))
  /\ sub' = [sub EXCEPT !.buffer = Tail(@)]
  /\ UNCHANGED <<engine, session, client, stored, moves, history>>

-----------------------------------------------------------------------------
(* The client: makeEnvironmentThreadState.                                  *)

\* statusWithoutLiveData, in setDisconnected and setStreamError.
Offline(c) ==
  [c EXCEPT !.waiting = FALSE, !.reply = 0,
            !.status = IF @ = "deleted" THEN @ ELSE IF Has(c.copy) THEN "cached" ELSE "empty"]

\* makeSubscribeInput up to the HTTP request.
Begin(c, version) ==
  [c EXCEPT !.pc = IF ~ Has(c.copy) /\ c.status # "deleted" THEN "load" ELSE "ready",
            !.waiting = (version = "new"),
            !.reply = 0,
            !.status = IF @ = "deleted" THEN @ ELSE "synchronizing"]

\* setThread, at sequence n.
SetThread(n, view) ==
  /\ client' = [client EXCEPT !.copy = Copy(n, view), !.seq = n,
                              !.status = IF client.waiting THEN "synchronizing" ELSE "live"]
  /\ pending' = IF Working(view) THEN pending ELSE Copy(n, view)
  /\ UNCHANGED cache

\* The cached copy is removed, if the store can; the debounced save is left alone.
SetDeleted(n) ==
  /\ client' = [client EXCEPT !.copy = NoCopy, !.seq = n, !.status = "deleted",
                              !.waiting = FALSE]
  /\ cache' \in {cache, NoCopy}
  /\ UNCHANGED pending

\* The thread state is mounted, from the cache.
Open ==
  /\ client.pc = "closed"
  /\ Move
  /\ LET mounted == [Closed EXCEPT !.pc = "idle", !.copy = cache, !.seq = cache.seq,
                                   !.status = IF Has(cache) THEN "cached" ELSE "empty"]
     IN client' = IF session = "down" THEN mounted ELSE Begin(mounted, session)
  /\ UNCHANGED <<engine, session, sub, wire, stored, history>>

\* It is unmounted: the finalizer saves the copy, the debounce is interrupted.
Close ==
  /\ client.pc # "closed"
  /\ \/ UNCHANGED cache
     \/ /\ Has(client.copy) /\ ~ Working(client.copy.view)
        /\ cache' = Copy(client.seq, client.copy.view)
  /\ pending' = NoCopy
  /\ client' = Closed /\ sub' = NoSub /\ wire' = <<>> /\ owed' = 0
  /\ UNCHANGED <<engine, session, moves, missed>>

\* The supervisor publishes a session; subscribeDynamic switches to it.
Connect ==
  /\ session = "down"
  /\ Move
  /\ session' \in Version
  /\ client' = IF client.pc = "closed" THEN client ELSE Begin(client, session')
  /\ UNCHANGED <<engine, sub, wire, stored, history>>

\* The connection is lost, possibly because the server restarts; its bus starts
\* anew from the log.
Disconnect ==
  /\ session # "down"
  /\ session' = "down"
  /\ \/ UNCHANGED <<head, published>>
     \/ head' = Len(log) /\ published' = Len(log)
  /\ sub' = NoSub /\ wire' = <<>> /\ owed' = 0
  /\ client' = IF client.pc = "closed" THEN client ELSE Offline([client EXCEPT !.pc = "idle"])
  /\ UNCHANGED <<log, stored, moves, missed>>

\* The application comes to the foreground: switchMap drops the subscription.
Resubscribe ==
  /\ session # "down" /\ client.pc \notin {"closed", "idle"}
  /\ Move
  /\ client' = Begin(client, session)
  /\ sub' = NoSub /\ wire' = <<>> /\ owed' = 0
  /\ UNCHANGED <<engine, session, stored, missed>>

\* snapshotLoader.load reads the thread on the server, or gives up.
HttpRead ==
  /\ client.pc = "load"
  /\ ~ Deleted
  /\ client' = [client EXCEPT !.pc = "loaded", !.reply = Len(log)]
  /\ UNCHANGED <<engine, session, sub, wire, stored, moves, history>>

\* Mutated form: a failed request ends the subscription's fiber.
HttpFailsForGood ==
  /\ client.pc = "load"
  /\ client' = Offline([client EXCEPT !.pc = "idle"])
  /\ UNCHANGED <<engine, session, sub, wire, stored, moves, history>>

HttpFails ==
  /\ client.pc = "load"
  /\ client' = [client EXCEPT !.pc = "ready"]
  /\ UNCHANGED <<engine, session, sub, wire, stored, moves, history>>

\* Its answer arrives.  `reply` is the sequence it was read at.
HttpApply ==
  /\ client.pc = "loaded"
  /\ client' = [client EXCEPT !.pc = "ready", !.reply = 0, !.seq = client.reply,
                              !.copy = Copy(client.reply, Thread(client.reply)),
                              !.status = IF client.waiting THEN "synchronizing" ELSE "live"]
  /\ pending' = IF Working(Thread(client.reply)) THEN pending
                ELSE Copy(client.reply, Thread(client.reply))
  /\ UNCHANGED <<engine, session, sub, wire, cache, moves, history>>

Subscribe ==
  /\ client.pc = "ready"
  /\ sub' = [NoSub EXCEPT !.pc = "open", !.resume = Has(client.copy),
                          !.after = IF Has(client.copy) THEN client.seq ELSE 0]
  /\ client' = [client EXCEPT !.pc = "subscribed",
                  !.status = IF session = "old" /\ Has(client.copy) THEN "live" ELSE @]
  /\ UNCHANGED <<engine, session, wire, stored, moves, history>>

-----------------------------------------------------------------------------
(* applyItem.                                                               *)

Receive(kind) ==
  /\ client.pc = "subscribed"
  /\ wire # <<>> /\ Head(wire).kind = kind
  /\ wire' = Tail(wire)
  /\ UNCHANGED <<engine, session, sub, moves, history>>

ApplySynchronized ==
  /\ Receive("synchronized")
  /\ client' = [client EXCEPT !.waiting = FALSE,
                  !.status = IF Has(client.copy) /\ @ # "deleted" THEN "live" ELSE @]
  /\ UNCHANGED stored

ApplySnapshot ==
  /\ Receive("snapshot")
  /\ SetThread(Head(wire).seq, Thread(Head(wire).seq))

\* Mutated form: an event that was applied already is applied again.
ApplyDuplicateAgain ==
  LET n == Head(wire).seq IN
  /\ Receive("event")
  /\ n <= client.seq /\ Has(client.copy)
  /\ SetThread(n, client.copy.view \cup {n})

\* An event at or below lastSequence is a duplicate.
ApplyDuplicate ==
  /\ Receive("event")
  /\ Head(wire).seq <= client.seq
  /\ UNCHANGED <<client, stored>>

ApplyEvent ==
  LET n == Head(wire).seq IN
  /\ Receive("event")
  /\ n > client.seq
  /\ IF log[n] = "deleted" THEN SetDeleted(n)
     ELSE IF Has(client.copy) THEN SetThread(n, client.copy.view \cup {n})
     ELSE client' = [client EXCEPT !.seq = n] /\ UNCHANGED stored

\* setStreamError, and after 250 ms the next attempt.
ApplyNotFound ==
  /\ Receive("not found")
  /\ client' = Offline([client EXCEPT !.pc = "retry"])
  /\ UNCHANGED stored

Retry ==
  /\ client.pc = "retry"
  /\ client' = Begin(client, session)
  /\ UNCHANGED <<engine, session, sub, wire, stored, moves, history>>

\* The debounced persistence stream; a save that fails is only logged.
Persist ==
  /\ Has(pending)
  /\ cache' \in {cache, pending}
  /\ pending' = NoCopy
  /\ UNCHANGED <<engine, session, sub, wire, client, moves, history>>

Engine == Swap \/ Publish
Server == Attach \/ ChooseReplay \/ SendSnapshot \/ SendNotFound \/ ReplayEvent
          \/ ReplayEnds \/ Mark \/ Forward
Client == HttpRead \/ HttpFails \/ HttpApply \/ Subscribe \/ ApplySynchronized
          \/ ApplySnapshot \/ ApplyDuplicate \/ ApplyEvent \/ ApplyNotFound \/ Retry

Next == Commit \/ Engine \/ Server \/ Client \/ Persist
        \/ Open \/ Close \/ Connect \/ Disconnect \/ Resubscribe

Spec == Init /\ [][Next]_vars

\* The engine's fiber, the fibers of the server's stream, and the client's runtime
\* with the transport between them.  Commands, connections and users owe nothing.
FairSpec == Spec /\ WF_vars(Engine) /\ WF_vars(Server) /\ WF_vars(Client)

-----------------------------------------------------------------------------
\* Types of the variables, and the order in which the engine moves: events are
\* committed, then the head, then they are published.
TypeOK ==
  /\ log \in Seq(Kind) /\ Len(log) <= MaxEvents
  /\ published \in Nat /\ published <= head /\ head \in Nat /\ head <= Len(log)
  /\ session \in {"down"} \cup Version
  /\ sub \in SubState /\ sub.after <= Len(log)
  /\ wire \in Seq(Item)
  /\ client \in ClientState /\ client.seq <= Len(log) /\ client.reply <= Len(log)
  /\ \A copy \in {client.copy, pending, cache} : copy \in CopyState /\ copy.seq <= Len(log)
  /\ moves \in 0..MaxMoves /\ missed \subseteq Nat /\ owed \in Nat /\ owed <= Len(log)

Faithful(copy) ==
  Has(copy) => /\ copy.view \subseteq Thread(copy.seq)
               /\ Thread(copy.seq) \ copy.view \subseteq missed

\* Whatever snapshots, replays, live events, caches and reconnections a client has
\* been through, its copy, and the one it keeps, is the thread as it was at the
\* sequence it will resume from, but for events in `missed`: an event it lacks
\* would never be sent again.
ViewIsThread ==
  /\ Faithful(client.copy) /\ Faithful(pending) /\ Faithful(cache)
  /\ Has(client.copy) => client.copy.seq = client.seq

\* "Anything buffered while snapshot/replay work was in flight is delivered before
\* the client is told it is synchronized" (ws.ts:1624): the syncing pill clears only
\* over a copy that has everything published when the catch-up ended.
LiveIsCaughtUp ==
  session = "new" /\ client.status = "live" =>
    Thread(owed) \subseteq client.copy.view \cup missed

\* A mounted thread never goes back, even when the server answers a cursor with a
\* snapshot.
NeverBack ==
  [][Has(client.copy) /\ Has(client'.copy) =>
       client'.seq >= client.seq /\ client.copy.view \subseteq client'.copy.view]_vars

\* While a connection lasts, a mounted thread gets to show everything in the log and
\* to say so, unless the thread was deleted before it had a copy.
Converges ==
  <>[](session # "down" /\ client.pc # "closed") =>
    <>[](\/ ~ Has(client.copy) /\ Deleted
         \/ client.status = "live" /\ Thread(Len(log)) \subseteq client.copy.view \cup missed)
=============================================================================
