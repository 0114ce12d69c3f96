--------------------------- MODULE ThreadSyncProofs ---------------------------
(***************************************************************************)
(* ViewIsThread, LiveIsCaughtUp and NeverBack of ThreadSync for logs of    *)
(* every length, and any number of connections.  They speak of the copy    *)
(* and the status; what makes them inductive is where the events are that  *)
(* the copy still lacks: ahead of it on the wire, in order, behind them in *)
(* the live buffer, or still to be replayed (Stream), and that a client    *)
(* waits until the marker that stands behind them has come (Waits).        *)
(***************************************************************************)
EXTENDS ThreadSync, SequenceTheorems, TLAPS

\* The copy takes event m from an item.
Brings(item, m) == \/ item.kind = "event" /\ item.seq = m
                   \/ item.kind = "snapshot" /\ item.seq >= m

\* An event the client has not got yet.
Due(m) == m > client.seq /\ m \notin missed

OnWire(m) == \E j \in DOMAIN wire : Brings(wire[j], m)
Buffered(m) == \E k \in DOMAIN sub.buffer : Brings(sub.buffer[k], m)
ToReplay(m) == sub.pc \in {"open", "replay"} /\ m > sub.after

\* A stream exists only for a client that has subscribed.
Idle == /\ client.pc # "subscribed" => sub.pc = "none" /\ wire = <<>>
        /\ sub.pc = "none" => sub.buffer = <<>> /\ ~ sub.attached

Fresh == sub.pc = "open" => wire = <<>> /\ sub.after = (IF sub.resume THEN client.seq ELSE 0)

\* A refusal ends the stream, a snapshot begins it and is not behind the copy.
Refused == \A i \in DOMAIN wire : wire[i].kind = "not found" => Len(wire) = 1 /\ sub.pc = "none"

SnapFirst ==
  /\ \A i \in DOMAIN wire : wire[i].kind = "snapshot" =>
       i = 1 /\ wire[i].seq >= client.seq /\ wire[i].seq <= Len(log)
  /\ \A i \in DOMAIN sub.buffer : sub.buffer[i].kind \in {"event", "synchronized"}

Known(item) == item.kind = "event" => item.seq \in DOMAIN log /\ Detail(log[item.seq])
AllKnown == /\ \A i \in DOMAIN wire : Known(wire[i])
            /\ \A i \in DOMAIN sub.buffer : Known(sub.buffer[i])

\* What comes before an item: the thread's events older than an event, and all that
\* the marker vouches for.
Needs(item) ==
  CASE item.kind = "event" -> Thread(item.seq) \ {item.seq}
    [] item.kind = "synchronized" -> Thread(owed)
    [] OTHER -> {}

InOrder ==
  \A i \in DOMAIN wire : \A m \in Needs(wire[i]) :
    Due(m) => \E j \in DOMAIN wire : j < i /\ Brings(wire[j], m)

BufferInOrder ==
  \A k \in DOMAIN sub.buffer : \A m \in Needs(sub.buffer[k]) :
    Due(m) => \/ OnWire(m) \/ ToReplay(m)
              \/ \E l \in DOMAIN sub.buffer : l < k /\ Brings(sub.buffer[l], m)

\* The marker is sent when the catch-up is over.
Unmarked ==
  sub.pc # "live" =>
    /\ owed = 0
    /\ \A i \in DOMAIN wire : wire[i].kind # "synchronized"
    /\ \A k \in DOMAIN sub.buffer : sub.buffer[k].kind # "synchronized"

\* What the catch-up has read, and what was published, is on its way.
CaughtUpTo == sub.pc # "none" => \A m \in Thread(sub.after) : Due(m) => OnWire(m)

AllSent ==
  sub.pc # "none" =>
    \A m \in Thread(published) : Due(m) => OnWire(m) \/ ToReplay(m) \/ Buffered(m)

Stream == /\ Idle /\ Fresh /\ Refused /\ SnapFirst /\ AllKnown
          /\ InOrder /\ BufferInOrder /\ CaughtUpTo /\ AllSent /\ Unmarked

\* The HTTP snapshot is asked for by a client without a copy, and one that is not
\* mounted has none.
NoCopyYet == client.pc \in {"closed", "load", "loaded"} => ~ Has(client.copy)

Sessionless == session = "down" => client.pc \in {"closed", "idle"}

\* A client of a server that sends the marker waits for it from the start, shows
\* "live" over a copy, and once it has the marker is owed nothing more.
Waits ==
  session = "new" =>
    /\ client.pc \in {"load", "loaded", "ready"} => client.waiting
    /\ sub.pc \in {"open", "replay", "marking"} => client.waiting
    /\ client.status = "live" => ~ client.waiting /\ Has(client.copy)
    /\ sub.pc = "live" /\ ~ client.waiting => \A m \in Thread(owed) : ~ Due(m)

Offstage == client.pc \in {"closed", "idle"} => client.status # "live"

IInv == /\ TypeOK /\ Stream /\ NoCopyYet /\ Sessionless /\ ViewIsThread
        /\ Waits /\ Offstage

-----------------------------------------------------------------------------
(* Sequences and copies.                                                     *)

LEMMA TailShape ==
  ASSUME NEW S, NEW s \in Seq(S), s # <<>>
  PROVE  /\ Tail(s) \in Seq(S) /\ Len(Tail(s)) = Len(s) - 1
         /\ 1 \in DOMAIN s /\ Head(s) = s[1] /\ s[1] \in S
         /\ \A i \in DOMAIN Tail(s) : i + 1 \in DOMAIN s /\ Tail(s)[i] = s[i + 1]
         /\ \A j \in DOMAIN s : j > 1 => j - 1 \in DOMAIN Tail(s) /\ Tail(s)[j - 1] = s[j]
  OBVIOUS

LEMMA AppendShape ==
  ASSUME NEW S, NEW s \in Seq(S), NEW e \in S
  PROVE  /\ Append(s, e) \in Seq(S) /\ Len(Append(s, e)) = Len(s) + 1
         /\ Append(s, e)[Len(s) + 1] = e
         /\ \A i \in DOMAIN s : i \in DOMAIN Append(s, e) /\ Append(s, e)[i] = s[i]
         /\ \A i \in DOMAIN Append(s, e) : i \in DOMAIN s \/ i = Len(s) + 1
         /\ \A i \in DOMAIN s : i < Len(s) + 1
  OBVIOUS

LEMMA ItemTypes ==
  /\ Synchronized \in Item /\ NotFound \in Item
  /\ \A n \in Nat : Snapshot(n) \in Item /\ EventItem(n) \in Item
  BY DEF Synchronized, NotFound, Snapshot, EventItem, Item

LEMMA CopyTypes ==
  /\ NoCopy \in CopyState /\ NoCopy.seq = 0 /\ ~ Has(NoCopy)
  /\ \A n \in Nat, v \in SUBSET Nat : Copy(n, v) \in CopyState /\ Copy(n, v).seq = n /\ Copy(n, v).view = v
  BY DEF NoCopy, CopyState, Copy, Has

LEMMA Initials ==
  /\ NoSub \in SubState /\ NoSub.pc = "none" /\ NoSub.buffer = <<>> /\ NoSub.after = 0
  /\ ~ NoSub.attached
  /\ Closed \in ClientState /\ Closed.pc = "closed" /\ Closed.copy = NoCopy /\ Closed.seq = 0
  /\ Closed.reply = 0 /\ Closed.status # "live"
<1>1. <<>> \in Seq(Item) OBVIOUS
<1>2. NoCopy \in CopyState BY CopyTypes
<1> QED BY <1>1, <1>2 DEF NoSub, Closed, SubState, ClientState

LEMMA ThreadTypes == TypeOK => \A n : Thread(n) \in SUBSET Nat /\ \A m \in Thread(n) : m >= 1
  BY DEF TypeOK, Thread

\* What a new subscription and the loss of one do to the client.
LEMMA BeginShape ==
  ASSUME NEW c \in ClientState, NEW v
  PROVE  /\ Begin(c, v) \in ClientState
         /\ Begin(c, v).copy = c.copy /\ Begin(c, v).seq = c.seq /\ Begin(c, v).reply = 0
         /\ Begin(c, v).pc \in {"load", "ready"}
         /\ Begin(c, v).pc = "load" => ~ Has(c.copy)
         /\ Begin(c, v).waiting = (v = "new") /\ Begin(c, v).status # "live"
  BY DEF Begin, ClientState

LEMMA OfflineShape ==
  ASSUME NEW c \in ClientState
  PROVE  /\ Offline(c) \in ClientState
         /\ Offline(c).copy = c.copy /\ Offline(c).seq = c.seq /\ Offline(c).reply = 0
         /\ Offline(c).pc = c.pc /\ Offline(c).status # "live"
  BY DEF Offline, ClientState

-----------------------------------------------------------------------------
(* Types.                                                                    *)

LEMMA EngineTypes == TypeOK /\ (Commit \/ Swap \/ Publish) => TypeOK'
<1> SUFFICES ASSUME TypeOK, Commit \/ Swap \/ Publish PROVE TypeOK' OBVIOUS
<1> USE DEF TypeOK, stored, history
<1>1. CASE Commit
  <2>1. PICK batch \in [1..1 -> Kind] \cup [1..2 -> Kind] :
          Len(log) + Len(batch) <= MaxEvents /\ log' = log \o batch
    BY <1>1 DEF Commit
  <2>2. batch \in Seq(Kind) /\ Len(batch) \in Nat
    <3>1. batch \in Seq(Kind) BY <2>1, SeqDef
    <3> QED BY <3>1, LenProperties
  <2>3. log' \in Seq(Kind) /\ Len(log') = Len(log) + Len(batch) BY <2>1, <2>2
  <2>4. Len(log') <= MaxEvents /\ Len(log) <= Len(log') BY <2>1, <2>2, <2>3
  <2>5. UNCHANGED <<head, published, session, sub, wire, client, pending, cache, moves, missed, owed>>
    BY <1>1 DEF Commit
  <2> HIDE DEF TypeOK
  <2>6. /\ sub.after \in Nat /\ client.seq \in Nat /\ client.reply \in Nat /\ owed \in Nat
        /\ \A copy \in {client.copy, pending, cache} : copy.seq \in Nat
    BY DEF TypeOK, SubState, ClientState, CopyState, NoCopy
  <2>7. Len(log) \in Nat /\ Len(log') \in Nat BY <2>3, LenProperties DEF TypeOK
  <2>8. sub.after <= Len(log') /\ client.seq <= Len(log') /\ client.reply <= Len(log') /\ owed <= Len(log')
    BY <2>4, <2>6, <2>7 DEF TypeOK
  <2>9. \A copy \in {client.copy, pending, cache} : copy \in CopyState /\ copy.seq <= Len(log')
    BY <2>4, <2>6, <2>7 DEF TypeOK
  <2>10. head <= Len(log') BY <2>4, <2>7 DEF TypeOK
  <2> QED BY <2>3, <2>4, <2>5, <2>8, <2>9, <2>10 DEF TypeOK
<1>2. CASE Swap BY <1>2 DEF Swap
<1>3. CASE Publish
  <2>1. sub' \in SubState /\ sub'.after = sub.after
    <3>1. EventItem(published + 1) \in Item BY ItemTypes
    <3>2. Append(sub.buffer, EventItem(published + 1)) \in Seq(Item)
      BY <3>1, AppendShape DEF SubState
    <3> QED BY <1>3, <3>2 DEF Publish, SubState
  <2>2. missed' \subseteq Nat BY <1>3 DEF Publish
  <2>3. published' \in Nat /\ published' <= head BY <1>3 DEF Publish
  <2>4. UNCHANGED <<log, head, session, wire, client, pending, cache, moves, owed>>
    BY <1>3 DEF Publish
  <2> QED BY <2>1, <2>2, <2>3, <2>4
<1> QED BY <1>1, <1>2, <1>3

LEMMA ServerTypes == TypeOK /\ Server => TypeOK'
<1> SUFFICES ASSUME TypeOK, Server PROVE TypeOK' OBVIOUS
<1>1. sub' \in SubState /\ sub'.after <= Len(log) /\ wire' \in Seq(Item) /\ owed' \in Nat /\ owed' <= Len(log)
  <2>0. /\ sub \in SubState /\ sub.after \in Nat /\ sub.after <= Len(log) /\ Len(log) \in Nat
        /\ sub.buffer \in Seq(Item) /\ wire \in Seq(Item) /\ owed \in Nat /\ owed <= Len(log)
        /\ published \in Nat /\ published <= Len(log) /\ log \in Seq(Kind)
    BY DEF TypeOK, SubState
  <2> USE DEF history
  <2>1. CASE Attach BY <2>0, <2>1 DEF Attach, SubState
  <2>2. CASE ChooseReplay BY <2>0, <2>2 DEF ChooseReplay, SubState
  <2>3. CASE SendSnapshot
    <3>1. wire' \in Seq(Item) BY <2>0, <2>3, ItemTypes, AppendShape DEF SendSnapshot
    <3>2. sub' \in SubState /\ sub'.after = Len(log) BY <2>0, <2>3 DEF SendSnapshot, SubState
    <3> QED BY <2>0, <2>3, <3>1, <3>2 DEF SendSnapshot
  <2>4. CASE SendNotFound
    <3>1. wire' \in Seq(Item) BY <2>0, <2>4, ItemTypes, AppendShape DEF SendNotFound
    <3> QED BY <2>0, <2>4, <3>1, Initials DEF SendNotFound
  <2>5. CASE ReplayEvent
    <3>1. PICK n \in Unread : wire' = Append(wire, EventItem(n)) /\ sub' = [sub EXCEPT !.after = n]
      BY <2>5 DEF ReplayEvent
    <3>2. n \in Nat /\ n <= Len(log) BY <2>0 DEF Unread
    <3>3. wire' \in Seq(Item) BY <2>0, <3>1, <3>2, ItemTypes, AppendShape
    <3>4. sub' \in SubState /\ sub'.after = n BY <2>0, <3>1, <3>2 DEF SubState
    <3> QED BY <2>0, <2>5, <3>2, <3>3, <3>4 DEF ReplayEvent
  <2>6. CASE ReplayEnds
    <3>1. sub' \in SubState /\ sub'.after = Len(log) BY <2>0, <2>6 DEF ReplayEnds, SubState
    <3> QED BY <2>0, <2>6, <3>1 DEF ReplayEnds
  <2>7. CASE Mark
    <3>1. Append(sub.buffer, Synchronized) \in Seq(Item) BY <2>0, ItemTypes, AppendShape
    <3>2. owed' \in Nat /\ owed' <= Len(log) BY <2>0, <2>7 DEF Mark
    <3>3. sub' \in SubState /\ sub'.after = sub.after BY <2>0, <2>7, <3>1 DEF Mark, SubState
    <3> QED BY <2>0, <2>7, <3>2, <3>3 DEF Mark
  <2>8. CASE Forward
    <3>1. Head(sub.buffer) \in Item /\ Tail(sub.buffer) \in Seq(Item)
      BY <2>0, <2>8, TailShape DEF Forward
    <3>2. wire' \in Seq(Item) BY <2>0, <2>8, <3>1, AppendShape DEF Forward
    <3>3. sub' \in SubState /\ sub'.after = sub.after BY <2>0, <2>8, <3>1 DEF Forward, SubState
    <3> QED BY <2>0, <2>8, <3>2, <3>3 DEF Forward
  <2> QED BY <2>1, <2>2, <2>3, <2>4, <2>5, <2>6, <2>7, <2>8 DEF Server
<1>2. UNCHANGED <<log, head, published, session, client, pending, cache, moves, missed>>
  BY DEF Server, Attach, ChooseReplay, SendSnapshot, SendNotFound, ReplayEvent, ReplayEnds, Mark,
     Forward, engine, stored, history
<1> QED BY <1>1, <1>2 DEF TypeOK

\* What the client's steps do to its own part of the state.
ClientOK ==
  /\ client \in ClientState /\ client.seq <= Len(log) /\ client.reply <= Len(log)
  /\ \A copy \in {client.copy, pending, cache} : copy \in CopyState /\ copy.seq <= Len(log)

LEMMA ThreadCopies ==
  ASSUME TypeOK, NEW n \in Nat, n <= Len(log)
  PROVE  Copy(n, Thread(n)) \in CopyState /\ Copy(n, Thread(n)).seq <= Len(log)
  BY CopyTypes, ThreadTypes

LEMMA LoadTypes ==
  TypeOK /\ (HttpRead \/ HttpFails \/ HttpApply \/ Subscribe \/ Retry \/ Persist) => ClientOK'
<1> SUFFICES ASSUME TypeOK, HttpRead \/ HttpFails \/ HttpApply \/ Subscribe \/ Retry \/ Persist
             PROVE  ClientOK'
  OBVIOUS
<1>0. client \in ClientState /\ client.reply \in Nat /\ Len(log) \in Nat
  BY DEF TypeOK, ClientState
<1> USE DEF ClientOK, engine, stored, ClientState
<1>1. CASE HttpRead
  <2>1. client' \in ClientState /\ client'.copy = client.copy /\ client'.seq = client.seq
        /\ client'.reply = Len(log)
    BY <1>0, <1>1 DEF HttpRead
  <2> QED BY <1>0, <1>1, <2>1 DEF HttpRead, TypeOK
<1>2. CASE HttpFails BY <1>0, <1>2 DEF HttpFails, TypeOK
<1>3. CASE HttpApply
  <2> DEFINE copy == Copy(client.reply, Thread(client.reply))
  <2>1. copy \in CopyState /\ copy.seq <= Len(log) BY <1>0, ThreadCopies DEF TypeOK
  <2>2. pending' = pending \/ pending' = copy BY <1>3 DEF HttpApply
  <2>3. client' \in ClientState /\ client'.seq <= Len(log) /\ client'.reply <= Len(log)
        /\ client'.copy = copy
    <3> HIDE DEF copy
    <3>1. client' = [client EXCEPT !.pc = "ready", !.reply = 0, !.seq = client.reply, !.copy = copy,
                       !.status = IF client.waiting THEN "synchronizing" ELSE "live"]
      BY <1>3 DEF HttpApply, copy
    <3>2. client.reply <= Len(log) /\ 0 <= Len(log) BY <1>0 DEF TypeOK
    <3>3. client' \in ClientState /\ client'.seq = client.reply /\ client'.reply = 0 /\ client'.copy = copy
      BY <1>0, <2>1, <3>1
    <3> QED BY <3>2, <3>3
  <2> HIDE DEF copy
  <2> QED BY <1>3, <2>1, <2>2, <2>3 DEF HttpApply, TypeOK
<1>4. CASE Subscribe BY <1>0, <1>4 DEF Subscribe, TypeOK
<1>5. CASE Retry BY <1>0, <1>5, BeginShape DEF Retry, TypeOK
<1>6. CASE Persist BY <1>0, <1>6, CopyTypes DEF Persist, TypeOK
<1> QED BY <1>1, <1>2, <1>3, <1>4, <1>5, <1>6

LEMMA ApplyTypes ==
  TypeOK /\ (ApplySynchronized \/ ApplySnapshot \/ ApplyDuplicate \/ ApplyEvent \/ ApplyNotFound)
         /\ AllKnown /\ SnapFirst => ClientOK'
<1> SUFFICES ASSUME TypeOK, AllKnown, SnapFirst,
                    ApplySynchronized \/ ApplySnapshot \/ ApplyDuplicate \/ ApplyEvent \/ ApplyNotFound
             PROVE  ClientOK'
  OBVIOUS
<1>0. client \in ClientState /\ Len(log) \in Nat BY DEF TypeOK
<1>1. wire # <<>> /\ Head(wire) = wire[1] /\ wire[1] \in Item /\ 1 \in DOMAIN wire
  BY TailShape DEF TypeOK, ApplySynchronized, ApplySnapshot, ApplyDuplicate, ApplyEvent, ApplyNotFound,
     Receive
<1> USE DEF ClientOK, Receive, engine, stored
<1>2. CASE ApplySynchronized BY <1>0, <1>2 DEF ApplySynchronized, TypeOK, ClientState
<1>3. CASE ApplyDuplicate BY <1>0, <1>3 DEF ApplyDuplicate, TypeOK
<1>4. CASE ApplyNotFound
  <2>1. [client EXCEPT !.pc = "retry"] \in ClientState BY <1>0 DEF ClientState
  <2> DEFINE c == [client EXCEPT !.pc = "retry"]
  <2>2. c.copy = client.copy /\ c.seq = client.seq /\ c \in ClientState BY <1>0 DEF ClientState
  <2>3. client' = Offline(c) BY <1>4 DEF ApplyNotFound
  <2> HIDE DEF c
  <2>4. client' \in ClientState /\ client'.copy = client.copy /\ client'.seq = client.seq /\ client'.reply = 0
    BY <2>2, <2>3, OfflineShape
  <2>5. UNCHANGED <<log, pending, cache>> BY <1>4 DEF ApplyNotFound
  <2>6. client.seq <= Len(log) /\ 0 <= Len(log) BY <1>0 DEF TypeOK
  <2> QED BY <2>4, <2>5, <2>6 DEF TypeOK
\* setThread with a copy whose type is known.
<1>5. ASSUME NEW n \in Nat, n <= Len(log), NEW view \in SUBSET Nat, SetThread(n, view), UNCHANGED log
      PROVE  ClientOK'
  <2>1. Copy(n, view) \in CopyState /\ Copy(n, view).seq = n BY CopyTypes
  <2>2. client' \in ClientState /\ client'.seq = n /\ client'.reply = client.reply
        /\ client'.copy = Copy(n, view)
    BY <1>0, <1>5, <2>1 DEF SetThread, ClientState
  <2>3. pending' \in {pending, Copy(n, view)} /\ cache' = cache BY <1>5 DEF SetThread
  <2> QED BY <1>0, <1>5, <2>1, <2>2, <2>3 DEF TypeOK
<1>6. CASE ApplySnapshot
  <2>1. wire[1].seq \in Nat /\ wire[1].seq <= Len(log) BY <1>1, <1>6 DEF SnapFirst, ApplySnapshot, Item
  <2> QED BY <1>1, <1>5, <1>6, <2>1, ThreadTypes DEF ApplySnapshot
<1>7. CASE ApplyEvent
  <2>1. wire[1].seq \in Nat /\ wire[1].seq <= Len(log) /\ wire[1].kind = "event"
    <3>1. wire[1].kind = "event" BY <1>1, <1>7 DEF ApplyEvent
    <3>2. wire[1].seq \in DOMAIN log BY <1>1, <3>1 DEF AllKnown, Known
    <3> QED BY <3>1, <3>2 DEF TypeOK
  <2>2. CASE SetDeleted(wire[1].seq)
    <3>1. client' \in ClientState /\ client'.copy = NoCopy /\ client'.seq = wire[1].seq
          /\ client'.reply = client.reply
      BY <1>0, <2>1, <2>2, CopyTypes DEF SetDeleted, ClientState
    <3>2. pending' = pending /\ cache' \in {cache, NoCopy} BY <2>2 DEF SetDeleted
    <3> QED BY <1>0, <1>7, <2>1, <3>1, <3>2, CopyTypes DEF ApplyEvent, TypeOK
  <2>3. CASE Has(client.copy) /\ SetThread(wire[1].seq, client.copy.view \cup {wire[1].seq})
    <3>1. client.copy.view \in SUBSET Nat BY <1>0, <2>3 DEF ClientState, CopyState, Has
    <3> QED BY <1>1, <1>5, <1>7, <2>1, <2>3, <3>1 DEF ApplyEvent
  <2>4. CASE client' = [client EXCEPT !.seq = wire[1].seq] /\ UNCHANGED stored
    BY <1>0, <1>1, <1>7, <2>1, <2>4 DEF ApplyEvent, TypeOK, ClientState
  <2> QED BY <1>1, <1>7, <2>2, <2>3, <2>4 DEF ApplyEvent
<1> QED BY <1>2, <1>3, <1>4, <1>6, <1>7

LEMMA ClientTypes ==
  TypeOK /\ AllKnown /\ SnapFirst /\ (Client \/ Persist) => TypeOK'
<1> SUFFICES ASSUME TypeOK, AllKnown, SnapFirst, Client \/ Persist PROVE TypeOK' OBVIOUS
<1>1. ClientOK' BY LoadTypes, ApplyTypes DEF Client
<1>2. UNCHANGED <<log, head, published, session, moves, missed, owed>>
  BY DEF Client, HttpRead, HttpFails, HttpApply, Subscribe, Retry, Persist, ApplySynchronized,
     ApplySnapshot, ApplyDuplicate, ApplyEvent, ApplyNotFound, Receive, engine, history
<1>3. sub' \in SubState /\ sub'.after <= Len(log)
  <2>1. CASE Subscribe
    <3> DEFINE b == Has(client.copy)
               n == IF Has(client.copy) THEN client.seq ELSE 0
    <3>0. b \in BOOLEAN /\ n \in Nat BY DEF Has, TypeOK, ClientState
    <3>1. sub' \in SubState
      <4>1. sub' = [NoSub EXCEPT !.pc = "open", !.resume = b, !.after = n] BY <2>1 DEF Subscribe
      <4> HIDE DEF b, n
      <4> QED BY <3>0, <4>1, Initials DEF SubState
    <3>2. sub'.after \in {0, client.seq} BY <2>1, Initials DEF Subscribe, SubState
    <3> QED BY <3>1, <3>2 DEF TypeOK, ClientState
  <2>2. CASE ~ Subscribe
    <3>1. UNCHANGED sub
      BY <2>2 DEF Client, HttpRead, HttpFails, HttpApply, Retry, Persist, ApplySynchronized,
         ApplySnapshot, ApplyDuplicate, ApplyEvent, ApplyNotFound, Receive
    <3> QED BY <3>1 DEF TypeOK
  <2> QED BY <2>1, <2>2
<1>4. wire' \in Seq(Item)
  <2>1. wire \in Seq(Item) BY DEF TypeOK
  <2>2. UNCHANGED wire \/ (wire # <<>> /\ wire' = Tail(wire))
    BY DEF Client, HttpRead, HttpFails, HttpApply, Subscribe, Retry, Persist, ApplySynchronized,
       ApplySnapshot, ApplyDuplicate, ApplyEvent, ApplyNotFound, Receive
  <2> QED BY <2>1, <2>2, TailShape
<1> QED BY <1>1, <1>2, <1>3, <1>4 DEF TypeOK, ClientOK

LEMMA SessionTypes ==
  TypeOK /\ (Open \/ Close \/ Connect \/ Disconnect \/ Resubscribe) => TypeOK'
<1> SUFFICES ASSUME TypeOK, Open \/ Close \/ Connect \/ Disconnect \/ Resubscribe PROVE TypeOK'
  OBVIOUS
<1>0. /\ client \in ClientState /\ Len(log) \in Nat /\ 0 <= Len(log) /\ client.seq <= Len(log)
      /\ client.copy \in CopyState /\ client.copy.seq <= Len(log)
      /\ cache \in CopyState /\ cache.seq <= Len(log) /\ cache.seq \in Nat
      /\ pending \in CopyState /\ pending.seq <= Len(log) /\ client.reply <= Len(log)
  BY CopyTypes DEF TypeOK, ClientState, CopyState
<1> USE DEF engine, stored, history
<1>1. moves' \in 0..MaxMoves BY BoundsAssumption DEF TypeOK, Open, Close, Connect, Disconnect, Resubscribe, Move
<1>2. /\ log' = log /\ published' \in Nat /\ published' <= head' /\ head' \in Nat /\ head' <= Len(log)
  BY <1>0 DEF TypeOK, Open, Close, Connect, Disconnect, Resubscribe
<1>3. session' \in {"down"} \cup Version
  BY DEF TypeOK, Open, Close, Connect, Disconnect, Resubscribe
<1>4. /\ sub' \in SubState /\ sub'.after <= Len(log) /\ wire' \in Seq(Item)
      /\ owed' \in Nat /\ owed' <= Len(log) /\ missed' \subseteq Nat
  <2>1. sub' \in {sub, NoSub} /\ wire' \in {wire, <<>>} /\ owed' \in {owed, 0} /\ missed' = missed
    BY DEF Open, Close, Connect, Disconnect, Resubscribe
  <2>2. sub' \in SubState /\ sub'.after <= Len(log) BY <1>0, <2>1, Initials DEF TypeOK
  <2>3. wire \in Seq(Item) /\ <<>> \in Seq(Item) BY DEF TypeOK
  <2>4. wire' \in Seq(Item) BY <2>1, <2>3
  <2>5. owed' \in Nat /\ owed' <= Len(log) /\ missed' \subseteq Nat BY <1>0, <2>1 DEF TypeOK
  <2> QED BY <2>2, <2>4, <2>5
<1>5. ClientOK'
  <2> USE DEF ClientOK
  <2>1. CASE Open
    <3> DEFINE mounted == [Closed EXCEPT !.pc = "idle", !.copy = cache, !.seq = cache.seq,
                                   !.status = IF Has(cache) THEN "cached" ELSE "empty"]
    <3>1. mounted \in ClientState /\ mounted.copy = cache /\ mounted.seq = cache.seq /\ mounted.reply = 0
      BY <1>0, Initials DEF ClientState
    <3>2. client' = IF session = "down" THEN mounted ELSE Begin(mounted, session) BY <2>1 DEF Open
    <3> HIDE DEF mounted
    <3>3. client' \in ClientState /\ client'.copy = cache /\ client'.seq = cache.seq /\ client'.reply = 0
      BY <3>1, <3>2, BeginShape
    <3>4. UNCHANGED <<pending, cache>> BY <2>1 DEF Open
    <3> QED BY <1>0, <1>2, <3>3, <3>4
  <2>2. CASE Close
    <3>1. cache' \in CopyState /\ cache'.seq <= Len(log)
      <4>1. CASE UNCHANGED cache BY <1>0, <4>1
      <4>2. CASE Has(client.copy) /\ cache' = Copy(client.seq, client.copy.view)
        <5>1. client.copy.view \in SUBSET Nat /\ client.seq \in Nat BY <1>0, <4>2 DEF CopyState, Has, ClientState
        <5> QED BY <1>0, <4>2, <5>1, CopyTypes
      <4> QED BY <2>2, <4>1, <4>2 DEF Close
    <3>2. pending' = NoCopy /\ client' = Closed BY <2>2 DEF Close
    <3> QED BY <1>0, <1>2, <3>1, <3>2, CopyTypes, Initials
  <2>3. CASE Connect
    <3>1. client' \in ClientState /\ client'.copy = client.copy /\ client'.seq = client.seq
          /\ client'.reply \in {0, client.reply}
      BY <1>0, <2>3, BeginShape DEF Connect
    <3>2. UNCHANGED <<pending, cache>> BY <2>3 DEF Connect
    <3> QED BY <1>0, <1>2, <3>1, <3>2
  <2>4. CASE Disconnect
    <3> DEFINE c == [client EXCEPT !.pc = "idle"]
    <3>1. c \in ClientState /\ c.copy = client.copy /\ c.seq = client.seq BY <1>0 DEF ClientState
    <3>2. client' = client \/ client' = Offline(c) BY <2>4 DEF Disconnect
    <3> HIDE DEF c
    <3>3. client' \in ClientState /\ client'.copy = client.copy /\ client'.seq = client.seq
          /\ client'.reply \in {0, client.reply}
      BY <1>0, <3>1, <3>2, OfflineShape
    <3>4. UNCHANGED <<pending, cache>> BY <2>4 DEF Disconnect
    <3> QED BY <1>0, <1>2, <3>3, <3>4
  <2>5. CASE Resubscribe
    <3>1. client' \in ClientState /\ client'.copy = client.copy /\ client'.seq = client.seq
          /\ client'.reply = 0
      BY <1>0, <2>5, BeginShape DEF Resubscribe
    <3>2. UNCHANGED <<pending, cache>> BY <2>5 DEF Resubscribe
    <3> QED BY <1>0, <1>2, <3>1, <3>2
  <2> QED BY <2>1, <2>2, <2>3, <2>4, <2>5
<1> QED BY <1>1, <1>2, <1>3, <1>4, <1>5 DEF TypeOK, ClientOK

LEMMA TypeStep == IInv /\ [Next]_vars => TypeOK'
<1> SUFFICES ASSUME IInv, [Next]_vars PROVE TypeOK' OBVIOUS
<1>1. TypeOK /\ AllKnown /\ SnapFirst BY DEF IInv, Stream
<1>2. CASE UNCHANGED vars BY <1>1, <1>2 DEF TypeOK, vars, engine, stored, history
<1> QED BY <1>1, <1>2, EngineTypes, ServerTypes, ClientTypes, SessionTypes DEF Next, Engine

-----------------------------------------------------------------------------
(* The stream.                                                               *)

LEMMA NeedsStay ==
  ASSUME TypeOK
  PROVE  /\ \A item : Needs(item) \subseteq Thread(Len(log)) /\ Needs(item) \subseteq Nat
         /\ log' = log /\ owed' = owed => \A item : Needs(item)' = Needs(item)
<1>1. \A n : Thread(n) \subseteq Thread(Len(log)) /\ Thread(n) \subseteq Nat BY DEF TypeOK, Thread
<1>2. log' = log => \A n : Thread(n)' = Thread(n) BY DEF Thread
<1> QED BY <1>1, <1>2 DEF Needs

\* Without a subscription there is nothing to say about the stream.
LEMMA EmptyStream ==
  ASSUME sub'.pc = "none", sub'.buffer = <<>>, ~ sub'.attached, wire' = <<>>, owed' = 0
  PROVE  Stream'
  BY DEF Stream, Idle, Fresh, Refused, SnapFirst, AllKnown, InOrder, BufferInOrder, CaughtUpTo, AllSent,
     Unmarked

\* A step that leaves the stream alone.
LEMMA SameStream ==
  ASSUME TypeOK, Stream, UNCHANGED <<log, published, wire, missed, owed>>, client'.seq = client.seq,
         sub'.pc = sub.pc, sub'.after = sub.after, sub'.resume = sub.resume, sub'.buffer = sub.buffer,
         Idle'
  PROVE  Stream'
  BY ZenonT(60) DEF Stream, Idle, Fresh, Refused, SnapFirst, AllKnown, InOrder, BufferInOrder, CaughtUpTo, AllSent,
     Unmarked, Needs, Due, OnWire, ToReplay, Buffered, Thread, Known

\* The server moves on without sending: what it has to replay shrinks by nothing
\* that is due.
LEMMA ServerMoves ==
  ASSUME TypeOK, Stream, UNCHANGED <<log, published, wire, client, missed, owed>>,
         sub.pc \notin {"none", "live"}, sub'.pc \notin {"none", "open"}, sub'.buffer = sub.buffer,
         \A m \in Thread(Len(log)) : Due(m) /\ m <= sub'.after => OnWire(m),
         \A m \in Thread(Len(log)) : Due(m) /\ ToReplay(m) => ToReplay(m)'
  PROVE  Stream'
<1>0. /\ log \in Seq(Kind) /\ sub'.after \in Nat => Thread(sub'.after) \subseteq Thread(Len(log))
      /\ \A n : Thread(n) \subseteq Thread(Len(log)) /\ \A m \in Thread(n) : m <= n
      /\ \A n : Thread(n)' = Thread(n)
  BY DEF TypeOK, Thread
<1>1. /\ \A m : Due(m)' <=> Due(m)
      /\ \A m : OnWire(m)' <=> OnWire(m)
      /\ \A m : Buffered(m)' <=> Buffered(m)
  BY DEF Due, OnWire, Buffered
<1>2. Idle' /\ Fresh' /\ Refused' /\ SnapFirst' /\ AllKnown'
  BY DEF Stream, Idle, Fresh, Refused, SnapFirst, AllKnown, Known
<1>3. InOrder' BY <1>1, NeedsStay DEF Stream, InOrder
<1>4. BufferInOrder' BY <1>0, <1>1, NeedsStay DEF Stream, BufferInOrder
<1>5. CaughtUpTo' BY <1>0, <1>1 DEF CaughtUpTo
<1>6. AllSent' BY <1>0, <1>1 DEF Stream, AllSent
<1>7. Unmarked' BY DEF Stream, Unmarked
<1> QED BY <1>2, <1>3, <1>4, <1>5, <1>6, <1>7 DEF Stream

\* The log grows beyond all that the stream speaks of.
LEMMA LogGrows ==
  ASSUME TypeOK, Stream, UNCHANGED <<published, sub, wire, client, missed, owed>>,
         Len(log') \in Nat, Len(log') >= Len(log), DOMAIN log' = 1..Len(log'),
         \A i \in DOMAIN log : log'[i] = log[i]
  PROVE  Stream' /\ \A n \in Nat : n <= Len(log) => Thread(n)' = Thread(n)
<1>0. log \in Seq(Kind) /\ Len(log) \in Nat /\ DOMAIN log = 1..Len(log) BY DEF TypeOK
<1>1. \A n \in Nat : n <= Len(log) => Thread(n)' = Thread(n) BY <1>0 DEF Thread
<1>2. /\ \A m : Due(m)' <=> Due(m)
      /\ \A m : OnWire(m)' <=> OnWire(m)
      /\ \A m : Buffered(m)' <=> Buffered(m)
      /\ \A m : ToReplay(m)' <=> ToReplay(m)
  BY DEF Due, OnWire, Buffered, ToReplay
<1>3. Idle' /\ Fresh' /\ Refused' /\ AllKnown'
  <2>1. \A item : Known(item) => Known(item)' BY <1>0 DEF Known
  <2>2. AllKnown' BY <2>1 DEF Stream, AllKnown
  <2> QED BY <2>2 DEF Stream, Idle, Fresh, Refused
<1>4. SnapFirst'
  <2>1. \A i \in DOMAIN wire : wire[i] \in Item BY DEF TypeOK
  <2>2. \A i \in DOMAIN wire : wire[i].seq \in Nat BY <2>1 DEF Item
  <2>3. Len(log) <= Len(log') /\ Len(log') \in Nat OBVIOUS
  <2> QED BY <1>0, <2>2, <2>3 DEF Stream, SnapFirst
<1>5. \A item : Known(item) => Needs(item)' = Needs(item)
  <2>1. \A item : Known(item) /\ item.kind = "event" => Thread(item.seq)' = Thread(item.seq)
    BY <1>0, <1>1 DEF Known
  <2>2. Thread(owed)' = Thread(owed) BY <1>1 DEF TypeOK
  <2> QED BY <2>1, <2>2 DEF Needs
<1>6. /\ \A i \in DOMAIN wire : Needs(wire[i])' = Needs(wire[i])
      /\ \A k \in DOMAIN sub.buffer : Needs(sub.buffer[k])' = Needs(sub.buffer[k])
  BY <1>5 DEF Stream, AllKnown
<1>7. InOrder' BY <1>2, <1>6 DEF Stream, InOrder
<1>8. BufferInOrder' BY <1>2, <1>6 DEF Stream, BufferInOrder
<1>9. CaughtUpTo'
  <2>1. Thread(sub.after)' = Thread(sub.after) BY <1>1 DEF TypeOK, SubState
  <2> QED BY <1>2, <2>1 DEF Stream, CaughtUpTo
<1>10. AllSent'
  <2>1. published <= Len(log) /\ published \in Nat BY <1>0 DEF TypeOK
  <2>2. Thread(published)' = Thread(published) BY <1>1, <2>1
  <2> QED BY <1>2, <2>2 DEF Stream, AllSent
<1>11. Unmarked' BY DEF Stream, Unmarked
<1> QED BY <1>1, <1>3, <1>4, <1>7, <1>8, <1>9, <1>10, <1>11 DEF Stream

LEMMA PublishStream == ASSUME TypeOK, Stream, Publish PROVE Stream'
<1> PICK n : n = published + 1 OBVIOUS
<1>0. /\ log \in Seq(Kind) /\ Len(log) \in Nat /\ n \in DOMAIN log /\ n \in Nat /\ published \in Nat
      /\ sub \in SubState /\ sub.after \in Nat /\ sub.buffer \in Seq(Item) /\ client.seq \in Nat
      /\ missed' \in {missed, missed \cup {n}}
  BY DEF TypeOK, Publish, SubState, ClientState
<1>1. UNCHANGED <<log, wire, client, owed>> /\ published' = n BY DEF Publish
<1>2. \A k : Thread(k)' = Thread(k) BY <1>1 DEF Thread
<1>3. \A m : Due(m)' => Due(m) BY <1>0, <1>1 DEF Due
<1>4. \A m : OnWire(m)' <=> OnWire(m) BY <1>1 DEF OnWire
<1>5. \A m \in Thread(n) : m \in Nat /\ (m \in Thread(published) \/ m = n) BY <1>0 DEF Thread
<1>6. EventItem(n) \in Item /\ EventItem(n).kind = "event" /\ EventItem(n).seq = n
  BY <1>0, ItemTypes DEF EventItem
<1>7. InOrder' BY <1>1, <1>3, NeedsStay DEF Stream, InOrder
<1>8. CASE sub.attached /\ Detail(log[n])
  <2> PICK b : b = Append(sub.buffer, EventItem(n)) OBVIOUS
  <2>1. sub' = [sub EXCEPT !.buffer = b] BY <1>8 DEF Publish
  <2>2. /\ sub'.pc = sub.pc /\ sub'.after = sub.after /\ sub'.resume = sub.resume /\ sub'.buffer = b
        /\ sub'.attached = sub.attached
    BY <1>0, <2>1 DEF SubState
  <2>3. /\ b \in Seq(Item) /\ b[Len(sub.buffer) + 1] = EventItem(n) /\ Len(sub.buffer) + 1 \in DOMAIN b
        /\ \A i \in DOMAIN sub.buffer : i \in DOMAIN b /\ b[i] = sub.buffer[i] /\ i < Len(sub.buffer) + 1
        /\ \A i \in DOMAIN b : i \in DOMAIN sub.buffer \/ i = Len(sub.buffer) + 1
    BY <1>0, <1>6, AppendShape
  <2>4. \A m : ToReplay(m)' <=> ToReplay(m) BY <2>2 DEF ToReplay
  <2>5. \A m : Buffered(m) => Buffered(m)' BY <2>2, <2>3 DEF Buffered
  <2>6. Buffered(n)'
    <3>1. Brings(EventItem(n), n) BY <1>6 DEF Brings
    <3> QED BY <2>2, <2>3, <3>1 DEF Buffered
  <2>7. sub.pc # "none" BY <1>8 DEF Stream, Idle
  <2>8. Idle' /\ Fresh' /\ Refused' /\ SnapFirst' /\ AllKnown'
    <3>1. Idle' /\ Fresh' /\ Refused' BY <1>1, <2>2, <2>7 DEF Stream, Idle, Fresh, Refused
    <3>2. \A item : Known(item)' <=> Known(item) BY <1>1 DEF Known
    <3>3. Known(EventItem(n)) BY <1>0, <1>6, <1>8 DEF Known
    <3>4. SnapFirst' BY <1>1, <1>6, <2>2, <2>3 DEF Stream, SnapFirst
    <3>5. AllKnown' BY <1>1, <2>2, <2>3, <3>2, <3>3 DEF Stream, AllKnown
    <3> QED BY <3>1, <3>4, <3>5
  <2>9. BufferInOrder'
    <3> SUFFICES ASSUME NEW k \in DOMAIN b, NEW m \in Needs(b[k]), Due(m)
                 PROVE  \/ OnWire(m) \/ ToReplay(m)
                        \/ \E l \in DOMAIN b : l < k /\ Brings(b[l], m)
      BY <1>1, <1>3, <1>4, <2>2, <2>4, NeedsStay DEF BufferInOrder
    <3>1. CASE k \in DOMAIN sub.buffer BY <2>3, <3>1 DEF Stream, BufferInOrder
    <3>2. CASE k = Len(sub.buffer) + 1
      <4>1. m \in Thread(published) BY <1>5, <1>6, <2>3, <3>2 DEF Needs
      <4>2. OnWire(m) \/ ToReplay(m) \/ Buffered(m) BY <2>7, <4>1 DEF Stream, AllSent
      <4> QED BY <2>3, <3>2, <4>2 DEF Buffered
    <3> QED BY <2>3, <3>1, <3>2
  <2>10. CaughtUpTo' BY <1>2, <1>3, <1>4, <2>2 DEF Stream, CaughtUpTo
  <2>11. AllSent' BY <1>1, <1>2, <1>3, <1>4, <1>5, <2>2, <2>4, <2>5, <2>6 DEF Stream, AllSent
  <2>12. Unmarked' BY <1>1, <1>6, <2>2, <2>3 DEF Stream, Unmarked
  <2> QED BY <1>7, <2>8, <2>9, <2>10, <2>11, <2>12 DEF Stream
<1>9. CASE ~ (sub.attached /\ Detail(log[n]))
  <2>1. sub' = sub BY <1>9 DEF Publish
  <2>2. /\ \A m : ToReplay(m)' <=> ToReplay(m)
        /\ \A m : Buffered(m)' <=> Buffered(m)
    BY <2>1 DEF ToReplay, Buffered
  <2>3. Idle' /\ Fresh' /\ Refused' /\ SnapFirst' /\ AllKnown'
    BY <1>1, <2>1 DEF Stream, Idle, Fresh, Refused, SnapFirst, AllKnown, Known
  <2>4. BufferInOrder' BY <1>1, <1>3, <1>4, <2>1, <2>2, NeedsStay DEF Stream, BufferInOrder
  <2>5. CaughtUpTo' BY <1>2, <1>3, <1>4, <2>1 DEF Stream, CaughtUpTo
  <2>6. AllSent'
    <3> SUFFICES ASSUME sub.pc # "none", NEW m \in Thread(n), Due(m)'
                 PROVE  OnWire(m) \/ ToReplay(m) \/ Buffered(m)
      BY <1>1, <1>2, <1>4, <2>1, <2>2 DEF AllSent
    <3>1. CASE m \in Thread(published) BY <1>3, <3>1 DEF Stream, AllSent
    <3>2. CASE m = n /\ sub.pc \in {"open", "replay"} /\ m > sub.after BY <3>2 DEF ToReplay
    <3>3. CASE m = n /\ m <= sub.after
      <4>1. m \in Thread(sub.after) BY <3>3 DEF Thread
      <4> QED BY <1>3, <4>1 DEF Stream, CaughtUpTo
    <3>4. CASE m = n /\ sub.pc \notin {"open", "replay"} /\ m > sub.after
      <4>1. CaughtUp BY <1>0, <3>4 DEF CaughtUp, SubState
      <4>2. Detail(log[n]) BY <3>4 DEF Thread, Detail
      <4>3. n \in missed' BY <1>0, <1>9, <3>4, <4>1, <4>2 DEF Publish
      <4> QED BY <3>4, <4>3 DEF Due
    <3> QED BY <1>0, <1>5, <3>1, <3>2, <3>3, <3>4
  <2>7. Unmarked' BY <1>1, <2>1 DEF Stream, Unmarked
  <2> QED BY <1>7, <2>3, <2>4, <2>5, <2>6, <2>7 DEF Stream
<1> QED BY <1>8, <1>9

LEMMA WireGrows ==
  ASSUME TypeOK, NEW e \in Item, wire' = Append(wire, e)
  PROVE  /\ wire'[Len(wire) + 1] = e
         /\ \A i \in DOMAIN wire : i \in DOMAIN wire' /\ wire'[i] = wire[i] /\ i < Len(wire) + 1
         /\ \A i \in DOMAIN wire' : i \in DOMAIN wire \/ i = Len(wire) + 1
         /\ \A m : OnWire(m) => OnWire(m)'
         /\ \A m : Brings(e, m) => OnWire(m)'
<1>1. wire \in Seq(Item) BY DEF TypeOK
<1>2. /\ wire'[Len(wire) + 1] = e /\ Len(wire) + 1 \in DOMAIN wire'
      /\ \A i \in DOMAIN wire : i \in DOMAIN wire' /\ wire'[i] = wire[i] /\ i < Len(wire) + 1
      /\ \A i \in DOMAIN wire' : i \in DOMAIN wire \/ i = Len(wire) + 1
  BY <1>1, AppendShape
<1>3. \A m : OnWire(m) => OnWire(m)' BY <1>2 DEF OnWire
<1>4. \A m : Brings(e, m) => OnWire(m)' BY <1>2 DEF OnWire
<1> QED BY <1>2, <1>3, <1>4

LEMMA SnapshotStream == ASSUME TypeOK, Stream, SendSnapshot PROVE Stream'
<1> PICK n : n = Len(log) OBVIOUS
<1>0. /\ n \in Nat /\ log \in Seq(Kind) /\ sub \in SubState /\ published \in Nat /\ published <= n
      /\ client.seq <= n /\ wire = <<>> /\ wire' = Append(wire, Snapshot(n))
      /\ UNCHANGED <<log, published, client, missed, owed>>
  BY DEF TypeOK, SendSnapshot, Stream, Fresh, engine, history
<1>1. sub'.pc = "marking" /\ sub'.after = n /\ sub'.buffer = sub.buffer
  BY <1>0 DEF SendSnapshot, SubState
<1>2. Snapshot(n) \in Item /\ Snapshot(n).kind = "snapshot" /\ Snapshot(n).seq = n
  BY <1>0, ItemTypes DEF Snapshot
<1>3. \A i \in DOMAIN wire' : i = 1 /\ wire'[i] = Snapshot(n) BY <1>0, <1>2, WireGrows
<1>4. \A m \in Thread(n) : OnWire(m)'
  <2>1. \A m \in Thread(n) : n >= m BY DEF Thread
  <2> QED BY <1>0, <1>2, <2>1, WireGrows DEF Brings
<1>5. \A k : Thread(k)' = Thread(k) /\ Thread(k) \subseteq Thread(n) BY <1>0 DEF Thread
<1>6. Idle' /\ Fresh' /\ Refused' /\ AllKnown'
  BY <1>0, <1>1, <1>2, <1>3
  DEF Stream, Idle, Fresh, Refused, AllKnown, Known, SendSnapshot
<1>7. SnapFirst' BY <1>0, <1>1, <1>2, <1>3 DEF Stream, SnapFirst
<1>8. InOrder' BY <1>2, <1>3 DEF InOrder, Needs
<1>9. BufferInOrder'
  <2>1. \A item : Needs(item)' \subseteq Thread(n) BY <1>0, NeedsStay
  <2> QED BY <1>4, <2>1 DEF BufferInOrder
<1>10. CaughtUpTo' /\ AllSent' BY <1>4, <1>5 DEF CaughtUpTo, AllSent
<1>11. Unmarked' BY <1>0, <1>1, <1>2, <1>3 DEF Stream, Unmarked, SendSnapshot
<1> QED BY <1>6, <1>7, <1>8, <1>9, <1>10, <1>11 DEF Stream

LEMMA ReplayStream == ASSUME TypeOK, Stream, ReplayEvent PROVE Stream'
<1> PICK n \in Unread : /\ \A m \in Unread : n <= m
                        /\ wire' = Append(wire, EventItem(n)) /\ sub' = [sub EXCEPT !.after = n]
  BY DEF ReplayEvent
<1>0. /\ n \in Nat /\ n \in DOMAIN log /\ n > sub.after /\ Detail(log[n]) /\ log \in Seq(Kind)
      /\ sub \in SubState /\ sub.after \in Nat /\ client.seq \in Nat
      /\ UNCHANGED <<log, published, client, missed, owed>> /\ sub.pc = "replay"
  BY DEF TypeOK, ReplayEvent, Unread, engine, history, SubState, ClientState
<1>1. sub'.pc = "replay" /\ sub'.after = n /\ sub'.buffer = sub.buffer BY <1>0 DEF SubState
<1>2. EventItem(n) \in Item /\ EventItem(n).kind = "event" /\ EventItem(n).seq = n
  BY <1>0, ItemTypes DEF EventItem
<1>3. /\ wire'[Len(wire) + 1] = EventItem(n)
      /\ \A i \in DOMAIN wire : i \in DOMAIN wire' /\ wire'[i] = wire[i] /\ i < Len(wire) + 1
      /\ \A i \in DOMAIN wire' : i \in DOMAIN wire \/ i = Len(wire) + 1
      /\ \A m : OnWire(m) => OnWire(m)'
      /\ OnWire(n)'
  BY <1>2, WireGrows DEF Brings
<1>4. \A k : Thread(k)' = Thread(k) BY <1>0 DEF Thread
<1>5. \A m \in Thread(n) : m = n \/ m \in Thread(sub.after)
  BY <1>0 DEF Thread, Unread, Detail
<1>6. \A m : Due(m)' <=> Due(m) BY <1>0 DEF Due
<1>7. \A k, m : m \in Thread(k) /\ ToReplay(m) => OnWire(m)' \/ ToReplay(m)'
  <2> SUFFICES ASSUME NEW k, NEW m \in Thread(k), ToReplay(m), m # n PROVE ToReplay(m)'
    BY <1>3
  <2>1. m \in Unread BY <1>0 DEF Thread, Unread, Detail, ToReplay
  <2>2. m \in Nat /\ n <= m BY <1>0, <2>1 DEF Unread
  <2> QED BY <1>0, <1>1, <2>2 DEF ToReplay
<1>8. Idle' /\ Fresh' /\ Refused' BY <1>0, <1>1, <1>2, <1>3 DEF Stream, Idle, Fresh, Refused
<1>9. AllKnown'
  <2>1. \A item : Known(item)' <=> Known(item) BY <1>0 DEF Known
  <2>2. Known(EventItem(n)) BY <1>0, <1>2 DEF Known
  <2> QED BY <1>1, <1>3, <2>1, <2>2 DEF Stream, AllKnown
<1>10. SnapFirst' BY <1>0, <1>1, <1>2, <1>3 DEF Stream, SnapFirst
<1>11. InOrder'
  <2> SUFFICES ASSUME NEW i \in DOMAIN wire', NEW m \in Needs(wire'[i]), Due(m)
               PROVE  \E j \in DOMAIN wire' : j < i /\ Brings(wire'[j], m)
    BY <1>0, <1>6, NeedsStay DEF InOrder
  <2>1. CASE i \in DOMAIN wire BY <1>3, <2>1 DEF Stream, InOrder
  <2>2. CASE i = Len(wire) + 1
    <3>1. m \in Thread(sub.after) BY <1>2, <1>3, <1>5, <2>2 DEF Needs
    <3>2. OnWire(m) BY <1>0, <3>1 DEF Stream, CaughtUpTo
    <3> QED BY <1>3, <2>2, <3>2 DEF OnWire
  <2> QED BY <1>3, <2>1, <2>2
<1>12. BufferInOrder'
  <2> SUFFICES ASSUME NEW k \in DOMAIN sub.buffer, NEW m \in Needs(sub.buffer[k]), Due(m)
               PROVE  \/ OnWire(m)' \/ ToReplay(m)'
                      \/ \E l \in DOMAIN sub.buffer : l < k /\ Brings(sub.buffer[l], m)
    BY <1>0, <1>1, <1>6, NeedsStay DEF BufferInOrder
  <2>1. m \in Thread(Len(log)) BY NeedsStay
  <2> QED BY <1>3, <1>7, <2>1 DEF Stream, BufferInOrder
<1>13. CaughtUpTo' BY <1>0, <1>1, <1>3, <1>4, <1>5, <1>6 DEF Stream, CaughtUpTo
<1>14. AllSent'
  <2>1. \A m : Buffered(m)' <=> Buffered(m) BY <1>1 DEF Buffered
  <2> QED BY <1>0, <1>3, <1>4, <1>6, <1>7, <2>1 DEF Stream, AllSent
<1>15. Unmarked' BY <1>0, <1>1, <1>2, <1>3 DEF Stream, Unmarked
<1> QED BY <1>8, <1>9, <1>10, <1>11, <1>12, <1>13, <1>14, <1>15 DEF Stream

LEMMA ForwardStream == ASSUME TypeOK, Stream, Forward PROVE Stream'
<1> PICK b, e : b = sub.buffer /\ e = Head(b) OBVIOUS
<1>0. /\ sub \in SubState /\ b \in Seq(Item) /\ b # <<>> /\ sub.pc = "live"
      /\ wire' = Append(wire, e) /\ sub' = [sub EXCEPT !.buffer = Tail(b)]
      /\ UNCHANGED <<log, published, client, missed, owed>>
  BY DEF TypeOK, Forward, engine, history, SubState
<1>1. /\ sub'.pc = "live" /\ sub'.after = sub.after /\ sub'.buffer = Tail(b)
  BY <1>0 DEF SubState
<1>2. /\ 1 \in DOMAIN b /\ e = b[1] /\ e \in Item
      /\ \A i \in DOMAIN Tail(b) : i + 1 \in DOMAIN b /\ Tail(b)[i] = b[i + 1]
      /\ \A j \in DOMAIN b : j > 1 => j - 1 \in DOMAIN Tail(b) /\ Tail(b)[j - 1] = b[j]
      /\ \A j \in DOMAIN b : j \in Nat /\ (j = 1 \/ j > 1)
  BY <1>0, TailShape
<1>3. /\ wire'[Len(wire) + 1] = e
      /\ \A i \in DOMAIN wire : i \in DOMAIN wire' /\ wire'[i] = wire[i] /\ i < Len(wire) + 1
      /\ \A i \in DOMAIN wire' : i \in DOMAIN wire \/ i = Len(wire) + 1
      /\ \A m : OnWire(m) => OnWire(m)'
      /\ \A m : Brings(e, m) => OnWire(m)'
  BY <1>0, <1>2, WireGrows
<1>4. \A k : Thread(k)' = Thread(k) BY <1>0 DEF Thread
<1>5. /\ \A m : Due(m)' <=> Due(m)
      /\ \A m : ~ ToReplay(m) /\ ~ ToReplay(m)'
  BY <1>0, <1>1 DEF Due, ToReplay
<1>6. \A m : Buffered(m) => OnWire(m)' \/ Buffered(m)'
  <2> SUFFICES ASSUME NEW m, NEW l \in DOMAIN b, Brings(b[l], m) PROVE OnWire(m)' \/ Buffered(m)'
    BY <1>0 DEF Buffered
  <2>1. CASE l = 1 BY <1>2, <1>3, <2>1
  <2>2. CASE l > 1 BY <1>1, <1>2, <2>2 DEF Buffered
  <2> QED BY <1>2, <2>1, <2>2
<1>7. e.kind \in {"event", "synchronized"} /\ Known(e) BY <1>0, <1>2 DEF Stream, SnapFirst, AllKnown
<1>8. Idle' /\ Fresh' /\ Refused' BY <1>0, <1>1, <1>3, <1>7, ZenonT(60) DEF Stream, Idle, Fresh, Refused
<1>9. AllKnown'
  <2>1. \A item : Known(item)' <=> Known(item) BY <1>0 DEF Known
  <2> QED BY <1>0, <1>1, <1>2, <1>3, <1>7, <2>1 DEF Stream, AllKnown
<1>10. SnapFirst' BY <1>0, <1>1, <1>2, <1>3, <1>7 DEF Stream, SnapFirst
<1>11. InOrder'
  <2> SUFFICES ASSUME NEW i \in DOMAIN wire', NEW m \in Needs(wire'[i]), Due(m)
               PROVE  \E j \in DOMAIN wire' : j < i /\ Brings(wire'[j], m)
    BY <1>0, <1>5, NeedsStay DEF InOrder
  <2>1. CASE i \in DOMAIN wire BY <1>3, <2>1 DEF Stream, InOrder
  <2>2. CASE i = Len(wire) + 1
    <3>1. 1 \in DOMAIN sub.buffer /\ m \in Needs(sub.buffer[1]) BY <1>2, <1>3, <2>2
    <3>2. ~ \E l \in DOMAIN sub.buffer : l < 1 BY <1>2
    <3>3. OnWire(m) BY <1>5, <3>1, <3>2 DEF Stream, BufferInOrder
    <3> QED BY <1>3, <2>2, <3>3 DEF OnWire
  <2> QED BY <1>3, <2>1, <2>2
<1>12. BufferInOrder'
  <2> SUFFICES ASSUME NEW k \in DOMAIN Tail(b), NEW m \in Needs(Tail(b)[k]), Due(m)
               PROVE  OnWire(m)' \/ \E l \in DOMAIN Tail(b) : l < k /\ Brings(Tail(b)[l], m)
    BY <1>0, <1>1, <1>5, NeedsStay DEF BufferInOrder
  <2>1. OnWire(m) \/ \E l \in DOMAIN b : l < k + 1 /\ Brings(b[l], m)
    BY <1>0, <1>2, <1>5, ZenonT(60) DEF Stream, BufferInOrder
  <2>2. ASSUME NEW l \in DOMAIN b, l < k + 1, Brings(b[l], m)
        PROVE  OnWire(m)' \/ \E h \in DOMAIN Tail(b) : h < k /\ Brings(Tail(b)[h], m)
    <3>1. CASE l = 1 BY <1>2, <1>3, <2>2, <3>1
    <3>2. CASE l > 1
      <4>1. l - 1 \in DOMAIN Tail(b) /\ Brings(Tail(b)[l - 1], m) BY <1>2, <2>2, <3>2
      <4>2. l \in Nat /\ k \in Nat BY <1>0, <1>2, TailShape
      <4>3. l - 1 < k BY <2>2, <4>2
      <4> QED BY <4>1, <4>3
    <3> QED BY <1>2, <3>1, <3>2
  <2> QED BY <1>3, <2>1, <2>2
<1>13. CaughtUpTo' BY <1>0, <1>1, <1>3, <1>4, <1>5 DEF Stream, CaughtUpTo
<1>14. AllSent' BY <1>0, <1>3, <1>4, <1>5, <1>6 DEF Stream, AllSent
<1>15. Unmarked' BY <1>1 DEF Unmarked
<1> QED BY <1>8, <1>9, <1>10, <1>11, <1>12, <1>13, <1>14, <1>15 DEF Stream

LEMMA MarkStream == ASSUME TypeOK, Stream, Mark PROVE Stream'
<1> PICK b : b = sub.buffer OBVIOUS
<1>0. /\ sub \in SubState /\ b \in Seq(Item) /\ sub.pc = "marking"
      /\ UNCHANGED <<log, published, wire, client, missed>>
  BY DEF TypeOK, Mark, engine, history, SubState
<1>1. /\ sub'.pc = "live" /\ sub'.after = sub.after
      /\ sub'.buffer = b \/ sub'.buffer = Append(b, Synchronized)
  BY <1>0 DEF Mark, SubState
<1>2. Synchronized \in Item /\ Synchronized.kind = "synchronized" BY ItemTypes DEF Synchronized
<1>3. /\ \A i \in DOMAIN b : i \in DOMAIN sub'.buffer /\ sub'.buffer[i] = b[i]
      /\ \A i \in DOMAIN sub'.buffer : i \in DOMAIN b \/ sub'.buffer[i] = Synchronized
  BY <1>0, <1>1, <1>2, AppendShape
<1>4. /\ \A k : Thread(k)' = Thread(k)
      /\ \A m : Due(m)' <=> Due(m)
      /\ \A m : OnWire(m)' <=> OnWire(m)
      /\ \A m : ~ ToReplay(m) /\ ~ ToReplay(m)'
  BY <1>0, <1>1 DEF Thread, Due, OnWire, ToReplay
<1>5. \A m : Buffered(m) => Buffered(m)' BY <1>0, <1>3 DEF Buffered
<1>6. Idle' /\ Fresh' /\ Refused' BY <1>0, <1>1 DEF Stream, Idle, Fresh, Refused
<1>7. AllKnown' /\ SnapFirst'
  <2>1. \A item : Known(item)' <=> Known(item) BY <1>0 DEF Known
  <2>2. Known(Synchronized) BY <1>2 DEF Known
  <2>3. AllKnown' BY <1>0, <1>3, <2>1, <2>2 DEF Stream, AllKnown
  <2> QED BY <1>0, <1>2, <1>3, <2>3 DEF Stream, SnapFirst
<1>11. \A item : item.kind # "synchronized" => Needs(item)' = Needs(item) BY <1>4 DEF Needs
<1>8. InOrder'
  <2>1. \A i \in DOMAIN wire : Needs(wire[i])' = Needs(wire[i]) BY <1>0, <1>11 DEF Stream, Unmarked
  <2> QED BY <1>0, <1>4, <2>1 DEF Stream, InOrder
\* The marker stands behind all that it vouches for.
<1>9. BufferInOrder'
  <2> PICK c : c = sub'.buffer OBVIOUS
  <2> SUFFICES ASSUME NEW k \in DOMAIN c, NEW m \in Needs(c[k])', Due(m)
               PROVE  OnWire(m) \/ \E l \in DOMAIN c : l < k /\ Brings(c[l], m)
    BY <1>4 DEF BufferInOrder
  <2>1. CASE k \in DOMAIN b
    <3>1. Needs(b[k])' = Needs(b[k]) BY <1>0, <1>11, <2>1 DEF Stream, Unmarked
    <3>2. OnWire(m) \/ \E l \in DOMAIN b : l < k /\ Brings(b[l], m)
      BY <1>3, <1>4, <2>1, <3>1 DEF Stream, BufferInOrder
    <3> QED BY <1>3, <3>2
  <2>2. CASE k \notin DOMAIN b
    <3>1. c = Append(b, Synchronized) BY <1>1, <2>2
    <3>2. k = Len(b) + 1 /\ c[k] = Synchronized /\ \A l \in DOMAIN b : l < k
      BY <1>0, <1>2, <2>2, <3>1, AppendShape
    <3>3. m \in Thread(owed') BY <1>2, <1>4, <3>2 DEF Needs
    <3>4. m \in Thread(sub.after) \/ m \in Thread(published)
      <4>1. owed' = sub.after \/ owed' = published BY DEF Mark
      <4> QED BY <3>3, <4>1
    <3>5. OnWire(m) \/ Buffered(m) BY <1>0, <1>4, <3>4 DEF Stream, CaughtUpTo, AllSent
    <3> QED BY <1>3, <3>2, <3>5 DEF Buffered
  <2> QED BY <2>1, <2>2
<1>10. CaughtUpTo' /\ AllSent' BY <1>0, <1>1, <1>4, <1>5 DEF Stream, CaughtUpTo, AllSent
<1>12. Unmarked' BY <1>1 DEF Unmarked
<1> QED BY <1>6, <1>7, <1>8, <1>9, <1>10, <1>12 DEF Stream

LEMMA ReplayEndsStream == ASSUME TypeOK, Stream, ReplayEnds PROVE Stream'
<1>0. /\ sub \in SubState /\ log \in Seq(Kind) /\ sub.pc = "replay" /\ Unread = {}
      /\ sub.after \in Nat /\ UNCHANGED <<log, published, wire, client, missed, owed>>
  BY DEF TypeOK, ReplayEnds, engine, history, SubState
<1>1. sub'.pc = "marking" /\ sub'.after = Len(log) /\ sub'.buffer = sub.buffer
  BY <1>0 DEF ReplayEnds, SubState
<1>2. \A m \in Thread(Len(log)) : m \in Thread(sub.after)
  BY <1>0 DEF Thread, Unread, Detail
<1>3. \A m \in Thread(Len(log)) : ~ ToReplay(m) BY <1>0 DEF Thread, Unread, Detail, ToReplay
<1>4. \A m \in Thread(Len(log)) : Due(m) => OnWire(m) BY <1>0, <1>2 DEF Stream, CaughtUpTo
<1> QED BY <1>0, <1>1, <1>3, <1>4, ServerMoves

LEMMA ChooseReplayStream == ASSUME TypeOK, Stream, ChooseReplay PROVE Stream'
<1>0. /\ sub \in SubState /\ log \in Seq(Kind) /\ sub.pc = "open"
      /\ UNCHANGED <<log, published, wire, client, missed, owed>>
      /\ sub.after \in Nat /\ client.seq \in Nat
  BY DEF TypeOK, ChooseReplay, engine, history, SubState, ClientState
<1>1. sub'.pc = "replay" /\ sub'.after = sub.after /\ sub'.buffer = sub.buffer
  BY <1>0 DEF ChooseReplay, SubState
<1>2. \A m : ToReplay(m) => ToReplay(m)' BY <1>0, <1>1 DEF ToReplay
<1>3. \A m \in Thread(Len(log)) : Due(m) /\ m <= sub.after => OnWire(m)
  <2>1. \A m \in Thread(Len(log)) : m <= sub.after => m \in Thread(sub.after) BY DEF Thread
  <2> QED BY <1>0, <2>1 DEF Stream, CaughtUpTo
<1> QED BY <1>0, <1>1, <1>2, <1>3, ServerMoves

LEMMA SubscribeStream == ASSUME TypeOK, Stream, Subscribe PROVE Stream'
<1>0. /\ client \in ClientState /\ client.seq \in Nat /\ log \in Seq(Kind)
      /\ wire' = <<>> /\ UNCHANGED <<log, published, missed>> /\ sub.pc = "none" /\ owed' = owed
  BY DEF TypeOK, Subscribe, engine, history, ClientState, Stream, Idle
<1>1. client'.pc = "subscribed" /\ client'.seq = client.seq BY <1>0 DEF Subscribe, ClientState
<1>2. /\ sub'.pc = "open" /\ sub'.buffer = <<>> /\ sub'.resume = Has(client.copy)
      /\ sub'.after = IF Has(client.copy) THEN client.seq ELSE 0
  BY Initials DEF Subscribe, SubState
<1>3. Idle' /\ Fresh' BY <1>0, <1>1, <1>2 DEF Idle, Fresh
<1>4. Refused' /\ SnapFirst' /\ AllKnown' /\ InOrder' /\ BufferInOrder'
  BY <1>0, <1>2 DEF Refused, SnapFirst, AllKnown, InOrder, BufferInOrder
<1>5. \A k : Thread(k)' = Thread(k) /\ \A m \in Thread(k) : m \in Nat /\ m >= 1 /\ m <= k
  BY <1>0 DEF Thread
<1>6. CaughtUpTo' BY <1>0, <1>1, <1>2, <1>5 DEF CaughtUpTo, Due
<1>8. Unmarked' BY <1>0, <1>2 DEF Stream, Unmarked
<1>7. AllSent' BY <1>0, <1>1, <1>2, <1>5 DEF AllSent, Due, ToReplay
<1> QED BY <1>3, <1>4, <1>6, <1>7, <1>8 DEF Stream

\* The client takes an item and with it all it brings.
LEMMA ReceiveStream ==
  ASSUME TypeOK, Stream, wire # <<>>, wire' = Tail(wire), UNCHANGED <<log, published, sub, missed, owed>>,
         client.pc = "subscribed", client'.pc = "subscribed",
         client'.seq \in Nat, client'.seq >= client.seq,
         \A m \in Nat : Brings(wire[1], m) => m <= client'.seq
  PROVE  Stream'
<1>0. /\ wire \in Seq(Item) /\ log \in Seq(Kind) /\ client.seq \in Nat BY DEF TypeOK, ClientState
<1>1. /\ 1 \in DOMAIN wire
      /\ \A i \in DOMAIN wire' : i + 1 \in DOMAIN wire /\ wire'[i] = wire[i + 1]
      /\ \A j \in DOMAIN wire : j > 1 => j - 1 \in DOMAIN wire' /\ wire'[j - 1] = wire[j]
      /\ \A j \in DOMAIN wire : j \in Nat /\ (j = 1 \/ j > 1)
      /\ \A i \in DOMAIN wire' : i \in Nat /\ i >= 1
  BY <1>0, TailShape
<1>2. /\ \A k : Thread(k)' = Thread(k) /\ Thread(k) \subseteq Nat
      /\ \A m : ToReplay(m)' <=> ToReplay(m)
      /\ \A m : Buffered(m)' <=> Buffered(m)
  BY <1>0 DEF Thread, ToReplay, Buffered
<1>3. \A m \in Nat : Due(m)' => Due(m) /\ m > client'.seq BY <1>0 DEF Due
<1>4. ASSUME NEW m \in Nat, Due(m)', NEW j \in DOMAIN wire, Brings(wire[j], m)
      PROVE  j > 1 /\ j - 1 \in DOMAIN wire' /\ Brings(wire'[j - 1], m)
  <2>1. m > client'.seq BY <1>3, <1>4
  <2>2. j # 1 BY <1>4, <2>1
  <2> QED BY <1>1, <1>4, <2>2
<1>5. \A m \in Nat : Due(m)' /\ OnWire(m) => OnWire(m)' BY <1>4 DEF OnWire
<1>6. Idle' /\ Fresh' BY DEF Stream, Idle, Fresh
<1>7. Refused' /\ SnapFirst' /\ AllKnown'
  <2>1. \A item : Known(item)' <=> Known(item) BY DEF Known
  <2>2. \A i \in DOMAIN wire' : i + 1 # 1 /\ Len(wire) # 1 BY <1>0, <1>1
  <2>3. Refused' BY <1>1, <2>2 DEF Stream, Refused
  <2>4. SnapFirst' BY <1>1, <2>2 DEF Stream, SnapFirst
  <2>5. AllKnown' BY <1>1, <2>1 DEF Stream, AllKnown
  <2> QED BY <2>3, <2>4, <2>5
<1>8. InOrder'
  <2> SUFFICES ASSUME NEW i \in DOMAIN wire', NEW m \in Needs(wire'[i]), Due(m)'
               PROVE  \E j \in DOMAIN wire' : j < i /\ Brings(wire'[j], m)
    BY NeedsStay DEF InOrder
  <2>1. m \in Nat /\ Due(m) BY <1>3, NeedsStay
  <2>2. PICK j \in DOMAIN wire : j < i + 1 /\ Brings(wire[j], m) BY <1>1, <2>1 DEF Stream, InOrder
  <2>3. j - 1 \in DOMAIN wire' /\ Brings(wire'[j - 1], m) BY <1>4, <2>1, <2>2
  <2>4. j - 1 < i BY <1>1, <2>2
  <2> QED BY <2>3, <2>4
<1>9. BufferInOrder' BY <1>2, <1>3, <1>5, NeedsStay DEF Stream, BufferInOrder
<1>10. CaughtUpTo' /\ AllSent' BY <1>2, <1>3, <1>5 DEF Stream, CaughtUpTo, AllSent
<1>11. Unmarked' BY <1>1 DEF Stream, Unmarked
<1> QED BY <1>6, <1>7, <1>8, <1>9, <1>10, <1>11 DEF Stream

\* The subscriptions that end, with the connection, the mount or the client's wish.
LEMMA SessionStream ==
  ASSUME TypeOK, Stream, Sessionless, Open \/ Close \/ Connect \/ Disconnect \/ Resubscribe PROVE Stream'
<1>1. CASE Open
  <2>1. sub' = sub /\ wire' = wire /\ owed' = owed BY <1>1 DEF Open, history
  <2>2. sub.pc = "none" /\ wire = <<>> /\ sub.buffer = <<>> /\ ~ sub.attached /\ owed = 0
    BY <1>1 DEF Open, Stream, Idle, Unmarked
  <2> QED BY <2>1, <2>2, EmptyStream
<1>2. CASE Close \/ Disconnect \/ Resubscribe
  BY <1>2, Initials, EmptyStream DEF Close, Disconnect, Resubscribe
<1>3. CASE Connect
  <2>1. sub' = sub /\ wire' = wire /\ owed' = owed BY <1>3 DEF Connect, history
  <2>2. sub.pc = "none" /\ wire = <<>> /\ sub.buffer = <<>> /\ ~ sub.attached /\ owed = 0
    BY <1>3 DEF Connect, Sessionless, Stream, Idle, Unmarked
  <2> QED BY <2>1, <2>2, EmptyStream
<1> QED BY <1>1, <1>2, <1>3

\* What the client does before it subscribes.
LEMMA LoadStream ==
  ASSUME TypeOK, Stream, HttpRead \/ HttpFails \/ HttpApply \/ Retry PROVE Stream'
<1>1. client.pc # "subscribed" /\ sub' = sub /\ wire' = wire /\ owed' = owed
  BY DEF HttpRead, HttpFails, HttpApply, Retry, history
<1>2. sub.pc = "none" /\ wire = <<>> /\ sub.buffer = <<>> /\ ~ sub.attached /\ owed = 0
  BY <1>1 DEF Stream, Idle, Unmarked
<1> QED BY <1>1, <1>2, EmptyStream

\* The refusal of a thread that is gone ends the stream on both sides.
LEMMA RefusalStream == ASSUME TypeOK, Stream, SendNotFound \/ ApplyNotFound PROVE Stream'
<1>1. CASE SendNotFound
  <2>1. client.pc = "subscribed" /\ client' = client /\ wire = <<>> /\ sub' = NoSub
    BY <1>1 DEF SendNotFound, Stream, Idle, Fresh
  <2>2. wire' = <<NotFound>> BY <1>1, <2>1 DEF SendNotFound
  <2>3. NotFound.kind = "not found" BY DEF NotFound
  <2>4. /\ Len(wire') = 1 /\ \A i \in DOMAIN wire' : i = 1 /\ wire'[i] = NotFound
        /\ sub'.pc = "none" /\ sub'.buffer = <<>> /\ ~ sub'.attached
    BY <2>1, <2>2, Initials
  <2>5. Idle' /\ Fresh' /\ Refused' BY <2>1, <2>4 DEF Idle, Fresh, Refused
  <2>9. \A i \in DOMAIN wire' : wire'[i].kind = "not found" BY <2>3, <2>4
  <2>10. \A i \in DOMAIN sub'.buffer : FALSE BY <2>4
  <2>6. SnapFirst' /\ AllKnown' BY <2>9, <2>10 DEF SnapFirst, AllKnown, Known
  <2>7. InOrder' /\ BufferInOrder' BY <2>9, <2>10 DEF InOrder, BufferInOrder, Needs
  <2>11. Unmarked' BY <1>1, <2>9, <2>10 DEF Stream, Unmarked, SendNotFound, history
  <2>8. CaughtUpTo' /\ AllSent' BY <2>4 DEF CaughtUpTo, AllSent
  <2> QED BY <2>5, <2>6, <2>7, <2>8, <2>11 DEF Stream
<1>2. CASE ApplyNotFound
  <2>1. wire # <<>> /\ wire' = Tail(wire) /\ sub' = sub /\ Head(wire).kind = "not found"
        /\ owed' = owed
    BY <1>2 DEF ApplyNotFound, Receive, history
  <2>2. wire \in Seq(Item) BY DEF TypeOK
  <2>3. 1 \in DOMAIN wire /\ wire[1].kind = "not found" BY <2>1, <2>2, TailShape
  <2>4. Len(wire) = 1 /\ sub.pc = "none" BY <2>3 DEF Stream, Refused
  <2>5. Tail(wire) = <<>>
    <3>1. Tail(wire) \in Seq(Item) /\ Len(Tail(wire)) = Len(wire) - 1 BY <2>1, <2>2, TailShape
    <3>2. Len(Tail(wire)) = 0 BY <2>4, <3>1
    <3> QED BY <3>1, <3>2, EmptySeq
  <2>6. sub.buffer = <<>> /\ ~ sub.attached /\ owed = 0 BY <2>4 DEF Stream, Idle, Unmarked
  <2> QED BY <2>1, <2>4, <2>5, <2>6, EmptyStream
<1> QED BY <1>1, <1>2

LEMMA ApplyStream ==
  ASSUME TypeOK, Stream, ApplySynchronized \/ ApplySnapshot \/ ApplyDuplicate \/ ApplyEvent
  PROVE  Stream'
<1> PICK e : e = wire[1] OBVIOUS
<1>0. /\ client \in ClientState /\ client.seq \in Nat /\ wire \in Seq(Item) /\ client.pc = "subscribed"
      /\ wire # <<>> /\ wire' = Tail(wire) /\ UNCHANGED <<log, published, sub, missed, owed>>
  BY DEF TypeOK, ClientState, ApplySynchronized, ApplySnapshot, ApplyDuplicate, ApplyEvent, Receive,
     engine, history
<1>1. /\ Head(wire) = e /\ e \in Item /\ e.seq \in Nat /\ 1 \in DOMAIN wire
      /\ e.kind = "snapshot" => e.seq >= client.seq
  <2>1. Head(wire) = e /\ e \in Item /\ 1 \in DOMAIN wire BY <1>0, TailShape
  <2> QED BY <2>1 DEF Item, Stream, SnapFirst
<1>2. client'.pc = "subscribed" /\ client'.seq \in {client.seq, e.seq} /\ client'.seq >= client.seq
  <2>1. CASE ApplySynchronized
    <3>1. client'.pc = "subscribed" /\ client'.seq = client.seq
      BY <1>0, <2>1 DEF ApplySynchronized, ClientState
    <3> QED BY <1>0, <3>1
  <2>2. CASE ApplySnapshot
    <3>1. e.kind = "snapshot" BY <1>1, <2>2 DEF ApplySnapshot, Receive
    <3>2. client'.pc = "subscribed" /\ client'.seq = e.seq
      BY <1>0, <1>1, <2>2 DEF ApplySnapshot, SetThread, ClientState
    <3> QED BY <1>1, <3>1, <3>2
  <2>3. CASE ApplyEvent
    <3>1. e.seq > client.seq BY <1>1, <2>3 DEF ApplyEvent
    <3>2. client'.pc = "subscribed" /\ client'.seq = e.seq
      BY <1>0, <1>1, <2>3, ZenonT(60) DEF ApplyEvent, SetThread, SetDeleted, ClientState
    <3> QED BY <1>0, <1>1, <3>1, <3>2
  <2>4. CASE ApplyDuplicate
    <3>1. client' = client BY <2>4 DEF ApplyDuplicate
    <3> QED BY <1>0, <3>1
  <2> QED BY <2>1, <2>2, <2>3, <2>4
<1>3. ASSUME NEW m \in Nat, Brings(e, m) PROVE m <= client'.seq
  <2>1. CASE ApplySynchronized BY <1>1, <1>3, <2>1 DEF ApplySynchronized, Receive, Brings
  <2>2. CASE ApplySnapshot
    <3>1. client'.seq = e.seq BY <1>0, <1>1, <2>2 DEF ApplySnapshot, SetThread, ClientState
    <3> QED BY <1>1, <1>3, <2>2, <3>1 DEF ApplySnapshot, Receive, Brings
  <2>3. CASE ApplyDuplicate BY <1>0, <1>1, <1>3, <2>3 DEF ApplyDuplicate, Receive, Brings
  <2>4. CASE ApplyEvent
    <3>1. client'.seq = e.seq
      BY <1>0, <1>1, <2>4, ZenonT(60) DEF ApplyEvent, SetThread, SetDeleted, ClientState
    <3> QED BY <1>1, <1>3, <2>4, <3>1 DEF ApplyEvent, Receive, Brings
  <2> QED BY <2>1, <2>2, <2>3, <2>4
<1> QED BY <1>0, <1>1, <1>2, <1>3, ReceiveStream

LEMMA StreamStep == IInv /\ [Next]_vars => Stream'
<1> SUFFICES ASSUME TypeOK, Stream, Sessionless, [Next]_vars PROVE Stream' BY DEF IInv
<1>1. CASE Commit
  <2>1. PICK batch \in [1..1 -> Kind] \cup [1..2 -> Kind] : log' = log \o batch BY <1>1 DEF Commit
  <2>2. batch \in Seq(Kind) BY SeqDef
  <2>3. log \in Seq(Kind) BY DEF TypeOK
  <2>4. /\ log' \in Seq(Kind) /\ Len(log') = Len(log) + Len(batch) /\ Len(batch) \in Nat
        /\ \A i \in DOMAIN log : log'[i] = log[i]
    BY <2>1, <2>2, <2>3
  <2>5. Len(log') \in Nat /\ Len(log') >= Len(log) /\ DOMAIN log' = 1..Len(log') BY <2>3, <2>4
  <2>6. UNCHANGED <<published, sub, wire, client, missed, owed>> BY <1>1 DEF Commit, history
  <2> QED BY <2>4, <2>5, <2>6, LogGrows
<1>2. CASE Swap \/ Persist \/ Attach \/ UNCHANGED vars
  <2>1. /\ UNCHANGED <<log, published, wire, missed, client, owed>>
        /\ sub'.pc = sub.pc /\ sub'.after = sub.after /\ sub'.resume = sub.resume
        /\ sub'.buffer = sub.buffer
    BY <1>2 DEF Swap, Persist, Attach, vars, engine, history, TypeOK, SubState
  <2>2. sub' = sub \/ sub.pc # "none" BY <1>2 DEF Swap, Persist, Attach, vars
  <2>3. Idle' BY <2>1, <2>2 DEF Stream, Idle
  <2>4. UNCHANGED <<log, published, wire, missed, owed>> /\ client'.seq = client.seq BY <2>1
  <2> QED BY <2>1, <2>3, <2>4, SameStream
<1>3. CASE Client
  BY <1>3, LoadStream, SubscribeStream, RefusalStream, ApplyStream DEF Client
<1>4. CASE Server /\ ~ Attach
  BY <1>4, ChooseReplayStream, SnapshotStream, RefusalStream, ReplayStream, ReplayEndsStream, MarkStream,
     ForwardStream DEF Server
<1> QED BY <1>1, <1>2, <1>3, <1>4, PublishStream, SessionStream DEF Next, Engine

-----------------------------------------------------------------------------
(* The client without a copy, and without a session.                        *)

LEMMA IdleStep == IInv /\ [Next]_vars => NoCopyYet' /\ Sessionless'
<1> SUFFICES ASSUME TypeOK, NoCopyYet, Sessionless, [Next]_vars PROVE NoCopyYet' /\ Sessionless'
  BY DEF IInv
<1>0. client \in ClientState BY DEF TypeOK
<1> USE DEF NoCopyYet, Sessionless, engine, stored, history
<1>1. CASE UNCHANGED <<client, session>> BY <1>1
<1>2. CASE UNCHANGED vars BY <1>2 DEF vars
<1>3. CASE Commit \/ Engine \/ Server \/ Persist
  <2>1. UNCHANGED <<client, session>>
    BY <1>3 DEF Commit, Engine, Swap, Publish, Server, Attach, ChooseReplay, SendSnapshot, SendNotFound,
       ReplayEvent, ReplayEnds, Mark, Forward, Persist
  <2> QED BY <1>1, <2>1
<1>4. CASE Client
  <2>1. session' = session
    BY <1>4 DEF Client, HttpRead, HttpFails, HttpApply, Subscribe, Retry, ApplySynchronized,
       ApplySnapshot, ApplyDuplicate, ApplyEvent, ApplyNotFound, Receive
  <2>2. client.pc \notin {"closed", "idle"}
    BY <1>4 DEF Client, HttpRead, HttpFails, HttpApply, Subscribe, Retry, ApplySynchronized,
       ApplySnapshot, ApplyDuplicate, ApplyEvent, ApplyNotFound, Receive
  <2>3. CASE HttpRead BY <1>0, <2>1, <2>2, <2>3 DEF HttpRead, ClientState
  <2>4. CASE HttpFails \/ HttpApply \/ Subscribe
    <3>1. client'.pc \in {"ready", "subscribed"}
      BY <1>0, <2>4 DEF HttpFails, HttpApply, Subscribe, ClientState
    <3> QED BY <2>1, <2>2, <3>1
  <2>5. CASE Retry
    <3>1. client' = Begin(client, session) BY <2>5 DEF Retry
    <3>2. client'.pc \in {"load", "ready"} /\ (client'.pc = "load" => ~ Has(client.copy))
          /\ client'.copy = client.copy
      BY <1>0, <3>1, BeginShape
    <3> QED BY <2>1, <2>2, <3>2
  <2>6. CASE ApplySynchronized \/ ApplySnapshot \/ ApplyDuplicate \/ ApplyEvent
    <3>1. client'.pc = "subscribed"
      BY <1>0, <2>6 DEF ApplySynchronized, ApplySnapshot, ApplyDuplicate, ApplyEvent, Receive, SetThread,
         SetDeleted, ClientState
    <3> QED BY <2>1, <2>2, <3>1
  <2>7. CASE ApplyNotFound
    <3> PICK c : c = [client EXCEPT !.pc = "retry"] OBVIOUS
    <3>1. c \in ClientState /\ c.pc = "retry" /\ client' = Offline(c)
      BY <1>0, <2>7 DEF ApplyNotFound, ClientState
    <3>2. client'.pc = "retry" BY <3>1, OfflineShape
    <3> QED BY <2>1, <2>2, <3>2
  <2> QED BY <1>4, <2>3, <2>4, <2>5, <2>6, <2>7 DEF Client
<1>5. CASE Open
  <2> PICK c : c = [Closed EXCEPT !.pc = "idle", !.copy = cache, !.seq = cache.seq,
                                  !.status = IF Has(cache) THEN "cached" ELSE "empty"]
    OBVIOUS
  <2>1. cache \in CopyState /\ cache.seq \in Nat BY CopyTypes DEF TypeOK, CopyState
  <2>2. c \in ClientState /\ c.pc = "idle" /\ c.copy = cache BY <2>1, Initials DEF ClientState
  <2>3. client' = (IF session = "down" THEN c ELSE Begin(c, session)) /\ session' = session
    BY <1>5 DEF Open
  <2>4. CASE session = "down" BY <2>2, <2>3, <2>4
  <2>5. CASE session # "down" BY <2>2, <2>3, <2>5, BeginShape
  <2> QED BY <2>4, <2>5
<1>6. CASE Close
  <2>1. client'.pc = "closed" /\ client'.copy = NoCopy BY <1>6, Initials DEF Close
  <2> QED BY <2>1, CopyTypes
<1>7. CASE Connect
  <2>1. session' # "down" BY <1>7, VersionAssumption DEF Connect
  <2>2. CASE client.pc = "closed" BY <1>7, <2>1, <2>2 DEF Connect
  <2>3. CASE client.pc # "closed"
    <3>1. client' = Begin(client, session') BY <1>7, <2>3 DEF Connect
    <3>2. client'.pc \in {"load", "ready"} /\ (client'.pc = "load" => ~ Has(client.copy))
          /\ client'.copy = client.copy
      BY <1>0, <3>1, BeginShape
    <3> QED BY <2>1, <3>2
  <2> QED BY <2>2, <2>3
<1>8. CASE Disconnect
  <2>1. CASE client.pc = "closed" BY <1>8, <2>1 DEF Disconnect
  <2>2. CASE client.pc # "closed"
    <3> PICK c : c = [client EXCEPT !.pc = "idle"] OBVIOUS
    <3>1. c \in ClientState /\ c.pc = "idle" /\ client' = Offline(c)
      BY <1>0, <1>8, <2>2 DEF Disconnect, ClientState
    <3>2. client'.pc = "idle" BY <3>1, OfflineShape
    <3> QED BY <3>2
  <2> QED BY <2>1, <2>2
<1>9. CASE Resubscribe
  <2>1. client' = Begin(client, session) /\ session' # "down" BY <1>9 DEF Resubscribe
  <2>2. client'.pc \in {"load", "ready"} /\ (client'.pc = "load" => ~ Has(client.copy))
        /\ client'.copy = client.copy
    BY <1>0, <2>1, BeginShape
  <2> QED BY <2>1, <2>2
<1> QED BY <1>2, <1>3, <1>4, <1>5, <1>6, <1>7, <1>8, <1>9 DEF Next

-----------------------------------------------------------------------------
(* The copies.                                                               *)

Copies == Faithful(client.copy) /\ Faithful(pending) /\ Faithful(cache)

SameSeq == Has(client.copy) => client.copy.seq = client.seq

\* Copies that were faithful stay so, wherever they move.
LEMMA CopiesStay ==
  ASSUME NEW S, \A c \in S : c \in CopyState /\ Faithful(c), missed \subseteq missed',
         \A c \in S : Thread(c.seq)' = Thread(c.seq),
         client'.copy \in S, pending' \in S, cache' \in S
  PROVE  Copies'
<1>1. ASSUME NEW c \in S PROVE Faithful(c)' BY <1>1 DEF Faithful
<1>2. PICK a, b, c : a = client'.copy /\ b = pending' /\ c = cache' OBVIOUS
<1>3. Faithful(a)' /\ Faithful(b)' /\ Faithful(c)' BY <1>1, <1>2
<1> QED BY <1>2, <1>3 DEF Copies, Faithful

LEMMA NothingIsFaithful == Faithful(NoCopy) BY CopyTypes DEF Faithful

LEMMA WholeIsFaithful ==
  ASSUME TypeOK, NEW n \in Nat PROVE Copy(n, Thread(n)) \in CopyState /\ Faithful(Copy(n, Thread(n)))
<1>1. Thread(n) \in SUBSET Nat BY ThreadTypes
<1> QED BY <1>1, CopyTypes DEF Faithful

\* The copies at hand, their types and what they say.
LEMMA CopiesNow ==
  ASSUME TypeOK, ViewIsThread
  PROVE  \A c \in {client.copy, pending, cache, NoCopy} :
           c \in CopyState /\ Faithful(c) /\ c.seq \in Nat /\ c.seq <= Len(log)
<1>1. \A c \in {client.copy, pending, cache, NoCopy} : c \in CopyState /\ c.seq <= Len(log)
  BY CopyTypes DEF TypeOK
<1>2. \A c \in {client.copy, pending, cache, NoCopy} : Faithful(c)
  BY NothingIsFaithful DEF ViewIsThread
<1>3. \A c \in CopyState : c.seq \in Nat BY CopyTypes DEF CopyState
<1> QED BY <1>1, <1>2, <1>3

\* What was committed keeps its place in the log, and what was missed is missed.
LEMMA ThreadStays ==
  ASSUME TypeOK, Stream, [Next]_vars
  PROVE  missed \subseteq missed' /\ \A n \in Nat : n <= Len(log) => Thread(n)' = Thread(n)
<1>1. CASE Commit
  <2>1. PICK batch \in [1..1 -> Kind] \cup [1..2 -> Kind] : log' = log \o batch BY <1>1 DEF Commit
  <2>2. batch \in Seq(Kind) BY SeqDef
  <2>3. log \in Seq(Kind) BY DEF TypeOK
  <2>4. /\ log' \in Seq(Kind) /\ Len(log') = Len(log) + Len(batch) /\ Len(batch) \in Nat
        /\ \A i \in DOMAIN log : log'[i] = log[i]
    BY <2>1, <2>2, <2>3
  <2>5. Len(log') \in Nat /\ Len(log') >= Len(log) /\ DOMAIN log' = 1..Len(log') BY <2>3, <2>4
  <2>6. UNCHANGED <<published, sub, wire, client, missed, owed>> BY <1>1 DEF Commit, history
  <2> QED BY <2>4, <2>5, <2>6, LogGrows
<1>2. CASE ~ Commit
  <2>1. log' = log
    BY <1>2 DEF Next, Engine, Server, Client, Swap, Publish, Attach, ChooseReplay, SendSnapshot,
       SendNotFound, ReplayEvent, ReplayEnds, Mark, Forward, HttpRead, HttpFails, HttpApply, Subscribe,
       Retry, ApplySynchronized, ApplySnapshot, ApplyDuplicate, ApplyEvent, ApplyNotFound, Receive,
       Persist, Open, Close, Connect, Disconnect, Resubscribe, vars, engine
  <2>2. missed \subseteq missed'
    BY <1>2 DEF Next, Engine, Server, Client, Swap, Publish, Attach, ChooseReplay, SendSnapshot,
       SendNotFound, ReplayEvent, ReplayEnds, Mark, Forward, HttpRead, HttpFails, HttpApply, Subscribe,
       Retry, ApplySynchronized, ApplySnapshot, ApplyDuplicate, ApplyEvent, ApplyNotFound, Receive,
       Persist, Open, Close, Connect, Disconnect, Resubscribe, vars, history
  <2> QED BY <2>1, <2>2 DEF Thread
<1> QED BY <1>1, <1>2

\* setThread with a copy that is faithful.
LEMMA SetThreadView ==
  ASSUME TypeOK, Stream, ViewIsThread, [Next]_vars, NEW n \in Nat, n <= Len(log), NEW view,
         Copy(n, view) \in CopyState, Faithful(Copy(n, view)),
         client'.copy = Copy(n, view), client'.seq = n, pending' \in {pending, Copy(n, view)},
         cache' = cache
  PROVE  ViewIsThread'
<1> PICK S : S = {client.copy, pending, cache, NoCopy} \cup {Copy(n, view)} OBVIOUS
<1>1. \A c \in S : c \in CopyState /\ Faithful(c) /\ c.seq \in Nat /\ c.seq <= Len(log)
  BY CopiesNow DEF Copy
<1>2. missed \subseteq missed' /\ \A c \in S : Thread(c.seq)' = Thread(c.seq) BY <1>1, ThreadStays
<1>5. client'.copy \in S /\ pending' \in S /\ cache' \in S OBVIOUS
<1>6. \A c \in S : c \in CopyState /\ Faithful(c) BY <1>1
<1>3. Copies' BY <1>2, <1>5, <1>6, CopiesStay
<1>4. client'.copy.seq = client'.seq BY DEF Copy
<1> QED BY <1>3, <1>4 DEF Copies, ViewIsThread

\* The copies move between the client, the debounce and the cache.
LEMMA MovedView ==
  ASSUME TypeOK, Stream, ViewIsThread, [Next]_vars,
         client'.copy \in {client.copy, pending, cache, NoCopy},
         pending' \in {client.copy, pending, cache, NoCopy},
         cache' \in {client.copy, pending, cache, NoCopy},
         Has(client'.copy) => client'.copy.seq = client'.seq
  PROVE  ViewIsThread'
<1> PICK S : S = {client.copy, pending, cache, NoCopy} OBVIOUS
<1>1. \A c \in S : c \in CopyState /\ Faithful(c) /\ c.seq \in Nat /\ c.seq <= Len(log)
  BY CopiesNow
<1>2. missed \subseteq missed' /\ \A c \in S : Thread(c.seq)' = Thread(c.seq) BY <1>1, ThreadStays
<1>3. Copies' BY <1>1, <1>2, CopiesStay
<1> QED BY <1>3 DEF Copies, ViewIsThread, Has

\* The copy that an event in order extends: everything between it and the copy is
\* either in the copy or missed.
LEMMA NextEvent ==
  ASSUME TypeOK, Stream, ViewIsThread, Has(client.copy), NEW n \in Nat, n > client.seq,
         wire # <<>>, wire[1].kind = "event", wire[1].seq = n
  PROVE  /\ Copy(n, client.copy.view \cup {n}) \in CopyState
         /\ Faithful(Copy(n, client.copy.view \cup {n}))
<1> PICK v : v = client.copy.view \cup {n} OBVIOUS
<1>0. /\ log \in Seq(Kind) /\ wire \in Seq(Item) /\ client.seq \in Nat /\ client.copy \in CopyState
      /\ client.copy.seq = client.seq
  BY DEF TypeOK, ClientState, ViewIsThread
<1>1. 1 \in DOMAIN wire BY <1>0, TailShape
<1>2. n \in DOMAIN log /\ Detail(log[n]) BY <1>1 DEF Stream, AllKnown, Known
<1>3. client.copy.view \subseteq Thread(client.seq) /\ Thread(client.seq) \ client.copy.view \subseteq missed
  BY <1>0 DEF ViewIsThread, Faithful
<1>4. v \subseteq Thread(n)
  <2>1. Thread(client.seq) \subseteq Thread(n) BY <1>0 DEF Thread
  <2>2. n \in Thread(n) BY <1>2 DEF Thread, Detail
  <2> QED BY <1>3, <2>1, <2>2
<1>5. Thread(n) \ v \subseteq missed
  <2> SUFFICES ASSUME NEW m \in Thread(n), m \notin v, m \notin missed PROVE FALSE OBVIOUS
  <2>1. m \in Nat /\ m # n BY <1>0 DEF Thread
  <2>2. CASE m <= client.seq
    <3>1. m \in Thread(client.seq) BY <2>2 DEF Thread
    <3> QED BY <1>3, <3>1
  <2>3. CASE m > client.seq
    <3>1. Due(m) BY <2>3 DEF Due
    <3>2. PICK j \in DOMAIN wire : j < 1 BY <1>1, <2>1, <3>1 DEF Stream, InOrder, Needs
    <3> QED BY <1>0, <3>2
  <2> QED BY <1>0, <2>1, <2>2, <2>3
<1>6. v \in SUBSET Nat BY <1>4, ThreadTypes
<1>7. Copy(n, v) \in CopyState /\ Copy(n, v).seq = n /\ Copy(n, v).view = v BY <1>6, CopyTypes
<1> QED BY <1>4, <1>5, <1>7 DEF Faithful

LEMMA ApplyView ==
  ASSUME TypeOK, Stream, ViewIsThread, [Next]_vars, ApplySnapshot \/ ApplyEvent
  PROVE  ViewIsThread'
<1> PICK e, n : e = wire[1] /\ n = e.seq OBVIOUS
<1>0. /\ client \in ClientState /\ client.seq \in Nat /\ wire \in Seq(Item) /\ wire # <<>>
      /\ Len(log) \in Nat /\ log \in Seq(Kind)
  BY DEF TypeOK, ClientState, ApplySnapshot, ApplyEvent, Receive
<1>1. Head(wire) = e /\ e \in Item /\ n \in Nat /\ 1 \in DOMAIN wire
  <2>1. Head(wire) = e /\ e \in Item /\ 1 \in DOMAIN wire BY <1>0, TailShape
  <2> QED BY <2>1 DEF Item
<1>2. CASE ApplySnapshot
  <2>1. n <= Len(log) BY <1>1, <1>2 DEF Stream, SnapFirst, ApplySnapshot, Receive
  <2> PICK v : v = Thread(n) OBVIOUS
  <2>2. Copy(n, v) \in CopyState /\ Faithful(Copy(n, v)) BY <1>1, WholeIsFaithful
  <2>3. SetThread(n, v) BY <1>1, <1>2 DEF ApplySnapshot
  <2>4. client'.copy = Copy(n, v) /\ client'.seq = n /\ pending' \in {pending, Copy(n, v)} /\ cache' = cache
    BY <1>0, <2>3 DEF SetThread, ClientState
  <2> QED BY <1>1, <2>1, <2>2, <2>4, SetThreadView
<1>3. CASE ApplyEvent
  <2>1. e.kind = "event" /\ n > client.seq BY <1>1, <1>3 DEF ApplyEvent, Receive
  <2>2. n \in DOMAIN log /\ Detail(log[n]) /\ n <= Len(log)
    <3>1. n \in DOMAIN log /\ Detail(log[n]) BY <1>1, <2>1 DEF Stream, AllKnown, Known
    <3> QED BY <1>0, <3>1
  <2>3. log[n] # "deleted" BY <2>2 DEF Detail
  <2>4. CASE Has(client.copy)
    <3> PICK v : v = client.copy.view \cup {n} OBVIOUS
    <3>1. Copy(n, v) \in CopyState /\ Faithful(Copy(n, v)) BY <1>0, <1>1, <2>1, <2>4, NextEvent
    <3>2. SetThread(n, v) BY <1>1, <1>3, <2>3, <2>4 DEF ApplyEvent
    <3>3. client'.copy = Copy(n, v) /\ client'.seq = n /\ pending' \in {pending, Copy(n, v)}
          /\ cache' = cache
      BY <1>0, <3>2 DEF SetThread, ClientState
    <3> QED BY <1>1, <2>2, <3>1, <3>3, SetThreadView
  <2>5. CASE ~ Has(client.copy)
    <3>1. client' = [client EXCEPT !.seq = n] /\ UNCHANGED <<pending, cache>>
      BY <1>1, <1>3, <2>3, <2>5 DEF ApplyEvent, stored
    <3>2. client'.copy = client.copy BY <1>0, <3>1 DEF ClientState
    <3>3. ~ Has(client'.copy) BY <2>5, <3>2 DEF Has
    <3> QED BY <3>1, <3>2, <3>3, MovedView
  <2> QED BY <2>4, <2>5
<1> QED BY <1>2, <1>3

LEMMA ViewStep == IInv /\ [Next]_vars => ViewIsThread'
<1> SUFFICES ASSUME TypeOK, Stream, NoCopyYet, ViewIsThread, [Next]_vars PROVE ViewIsThread' BY DEF IInv
<1>0. /\ client \in ClientState /\ client.seq \in Nat /\ client.reply \in Nat
      /\ Has(client.copy) => client.copy.seq = client.seq
      /\ client.copy \in CopyState /\ cache \in CopyState /\ cache.seq \in Nat
  BY CopyTypes DEF TypeOK, ClientState, ViewIsThread, CopyState
<1> USE DEF engine, stored, history
<1>1. CASE UNCHANGED <<client, pending, cache>> BY <1>0, <1>1, MovedView DEF Has
<1>2. CASE UNCHANGED vars BY <1>1, <1>2 DEF vars
<1>3. CASE Commit \/ Engine \/ Server
  <2>1. UNCHANGED <<client, pending, cache>>
    BY <1>3 DEF Commit, Engine, Swap, Publish, Server, Attach, ChooseReplay, SendSnapshot, SendNotFound,
       ReplayEvent, ReplayEnds, Mark, Forward
  <2> QED BY <1>1, <2>1
\* The client's copy and cursor, and what is saved of them, stay.
<1>4. ASSUME client'.copy = client.copy, client'.seq = client.seq, pending' \in {pending, NoCopy},
             cache' \in {cache, pending}
      PROVE  ViewIsThread'
  BY <1>0, <1>4, MovedView DEF Has
<1>5. CASE HttpRead \/ HttpFails \/ Subscribe \/ ApplySynchronized
  <2>1. client'.copy = client.copy /\ client'.seq = client.seq /\ UNCHANGED <<pending, cache>>
    BY <1>0, <1>5 DEF HttpRead, HttpFails, Subscribe, ApplySynchronized, ClientState
  <2> QED BY <1>4, <2>1
<1>6. CASE HttpApply
  <2> PICK n, v : n = client.reply /\ v = Thread(n) OBVIOUS
  <2>1. n \in Nat /\ n <= Len(log) BY <1>0 DEF TypeOK
  <2>2. Copy(n, v) \in CopyState /\ Faithful(Copy(n, v)) BY <2>1, WholeIsFaithful
  <2>3. client'.copy = Copy(n, v) /\ client'.seq = n BY <1>0, <1>6 DEF HttpApply, ClientState
  <2>4. pending' \in {pending, Copy(n, v)} /\ cache' = cache BY <1>6 DEF HttpApply
  <2> QED BY <2>1, <2>2, <2>3, <2>4, SetThreadView
<1>7. CASE ApplyDuplicate BY <1>1, <1>7 DEF ApplyDuplicate
<1>8. CASE ApplyNotFound
  <2> PICK c : c = [client EXCEPT !.pc = "retry"] OBVIOUS
  <2>1. c \in ClientState /\ c.copy = client.copy /\ c.seq = client.seq BY <1>0 DEF ClientState
  <2>2. client' = Offline(c) /\ UNCHANGED <<pending, cache>> BY <1>8 DEF ApplyNotFound
  <2>3. client'.copy = client.copy /\ client'.seq = client.seq BY <2>1, <2>2, OfflineShape
  <2> QED BY <1>4, <2>2, <2>3
<1>9. CASE Retry \/ Resubscribe
  <2>1. client' = Begin(client, session) /\ UNCHANGED <<pending, cache>>
    BY <1>9 DEF Retry, Resubscribe
  <2>2. client'.copy = client.copy /\ client'.seq = client.seq BY <1>0, <2>1, BeginShape
  <2> QED BY <1>4, <2>1, <2>2
<1>10. CASE Persist BY <1>4, <1>10 DEF Persist
<1>11. CASE Open
  <2> PICK c : c = [Closed EXCEPT !.pc = "idle", !.copy = cache, !.seq = cache.seq,
                                  !.status = IF Has(cache) THEN "cached" ELSE "empty"]
    OBVIOUS
  <2>1. c \in ClientState /\ c.copy = cache /\ c.seq = cache.seq BY <1>0, Initials DEF ClientState
  <2>2. (client' = c \/ client' = Begin(c, session)) /\ UNCHANGED <<pending, cache>> BY <1>11 DEF Open
  <2> PICK b : b = Begin(c, session) OBVIOUS
  <2>4. b.copy = cache /\ b.seq = cache.seq BY <2>1, BeginShape
  <2>3. client'.copy = cache /\ client'.seq = cache.seq BY <2>1, <2>2, <2>4
  <2> QED BY <2>2, <2>3, MovedView
<1>12. CASE Close
  <2>1. client'.copy = NoCopy /\ pending' = NoCopy BY <1>12, Initials DEF Close
  <2>2. cache' \in {cache, client.copy}
    <3>1. CASE UNCHANGED cache BY <3>1
    <3>2. CASE Has(client.copy) /\ cache' = Copy(client.seq, client.copy.view)
      <4>1. client.copy \in [seq : Nat, view : SUBSET Nat] BY <1>0, <3>2 DEF CopyState, Has
      <4>2. client.copy = Copy(client.copy.seq, client.copy.view) BY <4>1 DEF Copy
      <4> QED BY <1>0, <3>2, <4>2
    <3> QED BY <1>12, <3>1, <3>2 DEF Close
  <2>3. ~ Has(client'.copy) BY <2>1, CopyTypes
  <2> QED BY <2>1, <2>2, <2>3, MovedView
<1>13. CASE Connect
  <2>1. client' \in {client, Begin(client, session')} /\ UNCHANGED <<pending, cache>> BY <1>13 DEF Connect
  <2>2. client'.copy = client.copy /\ client'.seq = client.seq
    <3> PICK s : s = session' OBVIOUS
    <3> QED BY <1>0, <2>1, BeginShape
  <2> QED BY <1>4, <2>1, <2>2
<1>14. CASE Disconnect
  <2> PICK c : c = [client EXCEPT !.pc = "idle"] OBVIOUS
  <2>1. c \in ClientState /\ c.copy = client.copy /\ c.seq = client.seq BY <1>0 DEF ClientState
  <2>2. client' \in {client, Offline(c)} /\ UNCHANGED <<pending, cache>> BY <1>14 DEF Disconnect
  <2>3. client'.copy = client.copy /\ client'.seq = client.seq BY <2>1, <2>2, OfflineShape
  <2> QED BY <1>4, <2>2, <2>3
<1> QED BY <1>2, <1>3, <1>5, <1>6, <1>7, <1>8, <1>9, <1>10, <1>11, <1>12, <1>13, <1>14, ApplyView
        DEF Next, Client

-----------------------------------------------------------------------------
(* The wait for the marker.                                                  *)

\* A client that starts over waits.
LEMMA Starts ==
  ASSUME NEW c \in ClientState, NEW s, session' = s, client' = Begin(c, s), sub'.pc = "none"
  PROVE  Waits' /\ Offstage'
<1>1. /\ client'.pc \in {"load", "ready"} /\ client'.status # "live"
      /\ client'.waiting = (session' = "new")
  BY BeginShape
<1> QED BY <1>1 DEF Waits, Offstage

\* One that has no stream, and does not ask for one, shows nothing live.
LEMMA Dark ==
  ASSUME client'.pc \in {"closed", "idle", "retry"}, client'.status # "live", sub'.pc = "none"
  PROVE  Waits' /\ Offstage'
  BY DEF Waits, Offstage

\* What the client was not owed, it is not owed later.
LEMMA NotDueAgain ==
  ASSUME TypeOK, Stream, [Next]_vars, \A m \in Thread(owed) : ~ Due(m), owed' = owed,
         client'.seq \in Nat, client'.seq >= client.seq
  PROVE  (\A m \in Thread(owed) : ~ Due(m))'
<1>1. Thread(owed)' = Thread(owed) /\ missed \subseteq missed' BY ThreadStays DEF TypeOK
<1>2. \A m \in Thread(owed) : m \in Nat BY ThreadTypes
<1>3. client.seq \in Nat BY DEF TypeOK, ClientState
<1> QED BY <1>1, <1>2, <1>3 DEF Due

\* The steps of the others.
LEMMA OthersWaits ==
  ASSUME TypeOK, Stream, Waits, Offstage, [Next]_vars, UNCHANGED <<client, session>>,
         sub'.pc \in {"open", "replay", "marking"} => sub.pc \in {"open", "replay", "marking"},
         sub'.pc = "live" => (sub.pc = "live" /\ owed' = owed) \/ sub.pc = "marking"
  PROVE  Waits' /\ Offstage'
<1>1. client.seq \in Nat /\ client.seq >= client.seq BY DEF TypeOK, ClientState
<1>2. ASSUME session = "new", sub'.pc = "live", ~ client.waiting
      PROVE  (\A m \in Thread(owed) : ~ Due(m))'
  <2>1. sub.pc = "live" /\ owed' = owed BY <1>2 DEF Waits
  <2>2. \A m \in Thread(owed) : ~ Due(m) BY <1>2, <2>1 DEF Waits
  <2> QED BY <1>1, <2>1, <2>2, NotDueAgain
<1>3. session' = "new" => /\ client'.pc \in {"load", "loaded", "ready"} => client'.waiting
                          /\ sub'.pc \in {"open", "replay", "marking"} => client'.waiting
                          /\ client'.status = "live" => ~ client'.waiting /\ Has(client'.copy)
  BY DEF Waits, Has
<1> QED BY <1>2, <1>3 DEF Waits, Offstage, Has

\* Before it subscribes.
LEMMA LoadWaits ==
  ASSUME TypeOK, Stream, Waits, HttpRead \/ HttpFails \/ HttpApply \/ Subscribe
  PROVE  Waits' /\ Offstage'
<1>0. /\ client \in ClientState /\ session' = session /\ client.pc \in {"load", "loaded", "ready"}
      /\ sub.pc = "none"
  BY DEF TypeOK, HttpRead, HttpFails, HttpApply, Subscribe, Stream, Idle
<1>1. client'.pc \in {"loaded", "ready", "subscribed"} /\ client'.waiting = client.waiting
  BY <1>0 DEF HttpRead, HttpFails, HttpApply, Subscribe, ClientState
<1>2. sub'.pc \in {"none", "open"} BY <1>0, Initials DEF HttpRead, HttpFails, HttpApply, Subscribe, SubState
<1>3. session = "new" => client'.status # "live"
  <2> SUFFICES ASSUME session = "new" PROVE client'.status # "live" OBVIOUS
  <2>1. client.waiting /\ client.status # "live" BY <1>0 DEF Waits
  <2>2. CASE HttpApply BY <1>0, <2>1, <2>2 DEF HttpApply, ClientState
  <2>3. CASE ~ HttpApply BY <1>0, <2>1, <2>3 DEF HttpRead, HttpFails, Subscribe, ClientState
  <2> QED BY <2>2, <2>3
<1>4. session = "new" => client.waiting BY <1>0 DEF Waits
<1> QED BY <1>0, <1>1, <1>2, <1>3, <1>4 DEF Waits, Offstage

LEMMA ApplyWaits ==
  ASSUME TypeOK, Stream, Waits, [Next]_vars, ApplySynchronized \/ ApplySnapshot \/ ApplyEvent
  PROVE  Waits' /\ Offstage'
<1> PICK e : e = wire[1] OBVIOUS
<1>0. /\ client \in ClientState /\ client.seq \in Nat /\ wire \in Seq(Item) /\ client.pc = "subscribed"
      /\ wire # <<>> /\ UNCHANGED <<log, sub, session, owed, missed>>
  BY DEF TypeOK, ClientState, ApplySynchronized, ApplySnapshot, ApplyEvent, Receive, engine, history
<1>1. /\ Head(wire) = e /\ e \in Item /\ e.seq \in Nat /\ 1 \in DOMAIN wire
      /\ e.kind = "snapshot" => e.seq >= client.seq
  <2>1. Head(wire) = e /\ e \in Item /\ 1 \in DOMAIN wire BY <1>0, TailShape
  <2> QED BY <2>1 DEF Item, Stream, SnapFirst
<1>2. client'.pc = "subscribed"
  BY <1>0, ZenonT(60) DEF ApplySynchronized, ApplySnapshot, ApplyEvent, SetThread, SetDeleted, ClientState
<1>3. CASE ApplySynchronized
  <2>1. /\ client'.waiting = FALSE /\ client'.copy = client.copy /\ client'.seq = client.seq
        /\ client'.status = "live" => Has(client.copy) \/ client.status = "live"
    BY <1>0, <1>3 DEF ApplySynchronized, ClientState
  <2>2. e.kind = "synchronized" BY <1>1, <1>3 DEF ApplySynchronized, Receive
  <2>3. sub.pc \notin {"open", "replay", "marking"} BY <1>1, <2>2 DEF Stream, Unmarked
\* The marker has come, and nothing it vouches for is still ahead of it.
  <2>4. \A m \in Thread(owed) : ~ Due(m)
    <3> SUFFICES ASSUME NEW m \in Thread(owed), Due(m) PROVE FALSE OBVIOUS
    <3>1. m \in Needs(e) BY <2>2 DEF Needs
    <3>2. PICK j \in DOMAIN wire : j < 1 BY <1>1, <3>1 DEF Stream, InOrder
    <3> QED BY <1>0, <3>2
  <2>5. (\A m \in Thread(owed) : ~ Due(m))' BY <1>0, <2>1, <2>4 DEF Thread, Due
  <2>6. session = "new" /\ client'.status = "live" => Has(client.copy) BY <2>1 DEF Waits
  <2>7. Has(client.copy)' <=> Has(client.copy) BY <2>1 DEF Has
  <2> QED BY <1>0, <1>2, <2>1, <2>3, <2>5, <2>6, <2>7 DEF Waits, Offstage
<1>4. CASE ApplySnapshot \/ ApplyEvent
  <2>1. PICK n : n = e.seq OBVIOUS
  <2>2. n >= client.seq BY <1>0, <1>1, <1>4, <2>1 DEF ApplySnapshot, ApplyEvent, Receive
  <2>3. \/ \E view : SetThread(n, view)
        \/ ~ Has(client.copy) /\ client' = [client EXCEPT !.seq = n]
    <3>1. CASE ApplySnapshot BY <1>1, <2>1, <3>1 DEF ApplySnapshot
    <3>2. CASE ApplyEvent
      <4>1. e.kind = "event" BY <1>1, <3>2 DEF ApplyEvent, Receive
      <4>2. Detail(log[n]) BY <1>1, <2>1, <4>1 DEF Stream, AllKnown, Known
      <4>3. log[n] # "deleted" BY <4>2 DEF Detail
      <4> QED BY <1>1, <2>1, <3>2, <4>3 DEF ApplyEvent
    <3> QED BY <1>4, <3>1, <3>2
  <2>4. /\ client'.waiting = client.waiting /\ client'.seq = n
        /\ \/ /\ \E view : client'.copy = Copy(n, view)
              /\ client'.status = "live" => ~ client.waiting
           \/ client'.copy = client.copy /\ client'.status = client.status
    <3>1. CASE \E view : SetThread(n, view)
      <4>1. PICK view : SetThread(n, view) BY <3>1
      <4> PICK c : c = Copy(n, view) OBVIOUS
      <4>2. client' = [client EXCEPT !.copy = c, !.seq = n,
                                     !.status = IF client.waiting THEN "synchronizing" ELSE "live"]
        BY <4>1 DEF SetThread
      <4>3. /\ client'.waiting = client.waiting /\ client'.seq = n /\ client'.copy = c
            /\ client'.status = IF client.waiting THEN "synchronizing" ELSE "live"
        BY <1>0, <4>2 DEF ClientState
      <4> QED BY <4>3
    <3>2. CASE client' = [client EXCEPT !.seq = n] BY <1>0, <3>2 DEF ClientState
    <3> QED BY <2>3, <3>1, <3>2
  <2>5. session = "new" /\ client'.status = "live" => ~ client.waiting /\ Has(client.copy)'
    <3>1. \A view : Copy(n, view) # NoCopy BY DEF Copy, NoCopy
    <3> QED BY <2>4, <3>1 DEF Waits, Has
  <2>6. session = "new" /\ sub.pc = "live" /\ ~ client.waiting => (\A m \in Thread(owed) : ~ Due(m))'
    <3>1. client'.seq \in Nat /\ client'.seq >= client.seq BY <1>1, <2>1, <2>2, <2>4
    <3> QED BY <1>0, <3>1, NotDueAgain DEF Waits
  <2> QED BY <1>0, <1>2, <2>4, <2>5, <2>6 DEF Waits, Offstage
<1> QED BY <1>3, <1>4

LEMMA SessionWaits ==
  ASSUME TypeOK, Stream, Sessionless, Offstage, Open \/ Close \/ Connect \/ Disconnect \/ Resubscribe
  PROVE  Waits' /\ Offstage'
<1>0. client \in ClientState /\ cache \in CopyState /\ cache.seq \in Nat
  BY CopyTypes DEF TypeOK, CopyState
<1>1. CASE Open
  <2> PICK c : c = [Closed EXCEPT !.pc = "idle", !.copy = cache, !.seq = cache.seq,
                                  !.status = IF Has(cache) THEN "cached" ELSE "empty"]
    OBVIOUS
  <2>1. c \in ClientState /\ c.pc = "idle" /\ c.status # "live" BY <1>0, Initials DEF ClientState
  <2>2. client' = (IF session = "down" THEN c ELSE Begin(c, session)) /\ session' = session /\ sub' = sub
    BY <1>1 DEF Open
  <2>3. sub.pc = "none" BY <1>1 DEF Open, Stream, Idle
  <2>4. CASE session = "down" BY <2>1, <2>2, <2>3, <2>4, Dark
  <2>5. CASE session # "down" BY <2>1, <2>2, <2>3, <2>5, Starts
  <2> QED BY <2>4, <2>5
<1>2. CASE Close BY <1>2, Initials, Dark DEF Close
<1>3. CASE Connect
  <2> PICK s : s = session' OBVIOUS
  <2>1. sub.pc = "none" /\ sub' = sub BY <1>3 DEF Connect, Sessionless, Stream, Idle
  <2>2. CASE client.pc = "closed"
    <3>1. client' = client BY <1>3, <2>2 DEF Connect
    <3>2. client'.pc = "closed" /\ client'.status # "live" BY <2>2, <3>1 DEF Offstage
    <3> QED BY <2>1, <3>2, Dark
  <2>3. CASE client.pc # "closed"
    <3>1. client' = Begin(client, s) BY <1>3, <2>3 DEF Connect
    <3> QED BY <1>0, <2>1, <3>1, Starts
  <2> QED BY <2>2, <2>3
<1>4. CASE Disconnect
  <2>1. sub'.pc = "none" BY <1>4, Initials DEF Disconnect
  <2>2. client'.pc \in {"closed", "idle"} /\ client'.status # "live"
    <3>1. CASE client.pc = "closed"
      <4>1. client' = client BY <1>4, <3>1 DEF Disconnect
      <4> QED BY <3>1, <4>1 DEF Offstage
    <3>2. CASE client.pc # "closed"
      <4> PICK c : c = [client EXCEPT !.pc = "idle"] OBVIOUS
      <4>1. c \in ClientState /\ c.pc = "idle" /\ client' = Offline(c)
        BY <1>0, <1>4, <3>2 DEF Disconnect, ClientState
      <4> QED BY <4>1, OfflineShape
    <3> QED BY <3>1, <3>2
  <2> QED BY <2>1, <2>2, Dark
<1>5. CASE Resubscribe
  <2>1. client' = Begin(client, session) /\ session' = session /\ sub'.pc = "none"
    BY <1>5, Initials DEF Resubscribe
  <2> QED BY <1>0, <2>1, Starts
<1> QED BY <1>1, <1>2, <1>3, <1>4, <1>5

LEMMA WaitsStep == IInv /\ [Next]_vars => Waits' /\ Offstage'
<1> SUFFICES ASSUME TypeOK, Stream, Sessionless, Waits, Offstage, [Next]_vars PROVE Waits' /\ Offstage'
  BY DEF IInv
<1>0. client \in ClientState /\ sub \in SubState BY DEF TypeOK
<1>1. CASE Commit \/ Engine \/ Server \/ Persist \/ ApplyDuplicate \/ UNCHANGED vars
  <2>1. UNCHANGED <<client, session>>
    BY <1>1 DEF Commit, Engine, Swap, Publish, Server, Attach, ChooseReplay, SendSnapshot, SendNotFound,
       ReplayEvent, ReplayEnds, Mark, Forward, Persist, ApplyDuplicate, Receive, vars
  <2>2. /\ sub'.pc \in {"open", "replay", "marking"} => sub.pc \in {"open", "replay", "marking"}
        /\ sub'.pc = "live" => (sub.pc = "live" /\ owed' = owed) \/ sub.pc = "marking"
    <3>1. CASE Commit \/ Swap \/ Publish \/ Persist \/ ApplyDuplicate \/ UNCHANGED vars \/ Attach
      <4>1. sub'.pc = sub.pc /\ owed' = owed
        BY <1>0, <3>1 DEF Commit, Swap, Publish, Persist, ApplyDuplicate, Receive, vars, Attach,
           history, SubState
      <4> QED BY <4>1
    <3>2. CASE ChooseReplay \/ SendSnapshot \/ ReplayEvent \/ ReplayEnds
      <4>1. sub.pc \in {"open", "replay"} /\ sub'.pc \in {"replay", "marking"}
        BY <1>0, <3>2 DEF ChooseReplay, SendSnapshot, ReplayEvent, ReplayEnds, SubState
      <4> QED BY <4>1
    <3>3. CASE SendNotFound
      <4>1. sub'.pc = "none" BY <3>3, Initials DEF SendNotFound
      <4> QED BY <4>1
    <3>4. CASE Mark
      <4>1. sub.pc = "marking" /\ sub'.pc = "live" BY <1>0, <3>4 DEF Mark, SubState
      <4> QED BY <4>1
    <3>5. CASE Forward
      <4>1. sub.pc = "live" /\ sub'.pc = "live" /\ owed' = owed
        BY <1>0, <3>5 DEF Forward, SubState, history
      <4> QED BY <4>1
    <3> QED BY <1>1, <3>1, <3>2, <3>3, <3>4, <3>5 DEF Engine, Server
  <2> QED BY <2>1, <2>2, OthersWaits
<1>2. CASE Retry
  <2>1. client' = Begin(client, session) /\ session' = session /\ sub'.pc = "none"
    BY <1>2 DEF Retry, Stream, Idle
  <2> QED BY <1>0, <2>1, Starts
<1>3. CASE ApplyNotFound
  <2> PICK c : c = [client EXCEPT !.pc = "retry"] OBVIOUS
  <2>1. c \in ClientState /\ c.pc = "retry" /\ client' = Offline(c) BY <1>0, <1>3 DEF ApplyNotFound, ClientState
  <2>2. client'.pc = "retry" /\ client'.status # "live" BY <2>1, OfflineShape
  <2>3. sub'.pc = "none"
    <3>1. wire # <<>> /\ sub' = sub /\ Head(wire).kind = "not found" BY <1>3 DEF ApplyNotFound, Receive
    <3>2. wire \in Seq(Item) BY DEF TypeOK
    <3>3. 1 \in DOMAIN wire /\ wire[1].kind = "not found" BY <3>1, <3>2, TailShape
    <3> QED BY <3>1, <3>3 DEF Stream, Refused
  <2> QED BY <2>2, <2>3, Dark
<1> QED BY <1>1, <1>2, <1>3, LoadWaits, ApplyWaits, SessionWaits DEF Next, Client

-----------------------------------------------------------------------------
LEMMA InitIInv == Init => IInv
<1> SUFFICES ASSUME Init PROVE IInv OBVIOUS
<1>1. log \in Seq(Kind) /\ Len(log) = 0 /\ wire \in Seq(Item) /\ wire = <<>>
  <2>1. <<>> \in Seq(Kind) /\ <<>> \in Seq(Item) OBVIOUS
  <2> QED BY <2>1 DEF Init
<1>2. TypeOK BY <1>1, BoundsAssumption, Initials, CopyTypes DEF Init, TypeOK
<1>3. sub.pc = "none" /\ sub.buffer = <<>> /\ ~ sub.attached /\ wire = <<>> /\ owed = 0
  BY Initials DEF Init
<1>4. Stream
  BY <1>3 DEF Stream, Idle, Fresh, Refused, SnapFirst, AllKnown, InOrder, BufferInOrder, CaughtUpTo, AllSent,
     Unmarked
<1>5. NoCopyYet /\ Sessionless BY Initials, CopyTypes DEF Init, NoCopyYet, Sessionless
<1>6. ViewIsThread BY Initials, CopyTypes, NothingIsFaithful DEF Init, ViewIsThread
<1>7. Waits /\ Offstage BY <1>3, Initials DEF Init, Waits, Offstage
<1> QED BY <1>2, <1>4, <1>5, <1>6, <1>7 DEF IInv

\* The inductive invariant: the state is typed, whatever the client is still owed
\* is on its way in order with the marker behind it, its copies are the thread at
\* their sequences, and it waits for the marker.
THEOREM Invariance == Spec => []IInv
<1>1. IInv /\ [Next]_vars => IInv' BY TypeStep, StreamStep, IdleStep, ViewStep, WaitsStep DEF IInv
<1> QED BY InitIInv, <1>1, PTL DEF Spec

\* Every variable of subscribeThread and of the client's thread state keeps its
\* type, and the engine commits before it swaps and swaps before it publishes.
THEOREM TypeCorrect == Spec => []TypeOK
<1>1. IInv => TypeOK BY DEF IInv
<1> QED BY Invariance, <1>1, PTL

\* A client's copy, the one that waits to be saved and the one in the cache are the
\* thread at the sequence they carry, but for what was published before the live
\* stream was attached: for every log, and any number of connections, mounts,
\* replays and snapshots.
THEOREM CopyIsThread == Spec => []ViewIsThread
<1>1. IInv => ViewIsThread BY DEF IInv
<1> QED BY Invariance, <1>1, PTL

\* "Anything buffered while snapshot/replay work was in flight is delivered before
\* the client is told it is synchronized" (ws.ts:1624), for every log and any number
\* of connections: the marker stands behind all it vouches for, in the live buffer
\* and on the wire, and only the marker makes a waiting client show "live".
THEOREM LiveIsSynchronized == Spec => []LiveIsCaughtUp
<1>1. IInv => LiveIsCaughtUp
  <2> SUFFICES ASSUME TypeOK, Stream, ViewIsThread, Waits, session = "new", client.status = "live",
                      NEW m \in Thread(owed), m \notin missed
               PROVE  m \in client.copy.view
    BY DEF IInv, LiveIsCaughtUp
  <2>1. ~ client.waiting /\ Has(client.copy) BY DEF Waits
  <2>2. client.copy.seq = client.seq /\ client.seq \in Nat /\ m \in Nat /\ m >= 1 /\ m \in DOMAIN log
        /\ log[m] \in {"idle", "busy"} /\ m <= owed
    BY <2>1, ThreadTypes DEF ViewIsThread, TypeOK, ClientState, Thread
  <2>3. sub.pc = "live" BY <2>2 DEF Stream, Unmarked
  <2>4. ~ Due(m) BY <2>1, <2>3 DEF Waits
  <2>5. m <= client.seq BY <2>2, <2>4 DEF Due
  <2>6. m \in Thread(client.seq) BY <2>2, <2>5 DEF Thread
  <2> QED BY <2>1, <2>2, <2>6 DEF ViewIsThread, Faithful
<1> QED BY Invariance, <1>1, PTL

\* A step of a mounted client moves its cursor and its copy forward, even one that
\* takes a snapshot: the server sends none that is behind the cursor (SnapFirst),
\* and the copy was the thread at its sequence.
THEOREM NeverGoesBack == Spec => NeverBack
<1>1. ASSUME IInv, IInv', [Next]_vars, Has(client.copy), Has(client'.copy)
      PROVE  client'.seq >= client.seq /\ client.copy.view \subseteq client'.copy.view
  <2>0. /\ TypeOK /\ Stream /\ NoCopyYet /\ ViewIsThread BY <1>1 DEF IInv
  <2>1. /\ client \in ClientState /\ client.seq \in Nat /\ client.copy.seq = client.seq
        /\ client.copy \in CopyState /\ wire \in Seq(Item)
    BY <1>1, <2>0 DEF TypeOK, ClientState, ViewIsThread
  <2> USE DEF engine, stored, history
  <2>2. CASE client'.copy = client.copy /\ client'.seq = client.seq BY <2>1, <2>2
  <2>3. CASE UNCHANGED vars \/ Commit \/ Engine \/ Server \/ Persist \/ ApplyDuplicate
    <3>1. client' = client
      BY <2>3 DEF vars, Commit, Engine, Swap, Publish, Server, Attach, ChooseReplay, SendSnapshot,
         SendNotFound, ReplayEvent, ReplayEnds, Mark, Forward, Persist, ApplyDuplicate
    <3> QED BY <2>2, <3>1
  <2>4. CASE HttpRead \/ HttpFails \/ Subscribe \/ ApplySynchronized
    BY <2>1, <2>2, <2>4 DEF HttpRead, HttpFails, Subscribe, ApplySynchronized, ClientState
  <2>5. CASE HttpApply \/ Open \/ Close
    <3>1. CASE HttpApply BY <1>1, <2>0, <3>1 DEF HttpApply, NoCopyYet
    <3>2. CASE Open BY <1>1, <2>0, <3>2 DEF Open, NoCopyYet
    <3>3. CASE Close
      <4>1. client'.copy = NoCopy BY <3>3, Initials DEF Close
      <4> QED BY <1>1, <4>1, CopyTypes
    <3> QED BY <2>5, <3>1, <3>2, <3>3
  <2>6. CASE Retry \/ Resubscribe
    <3>1. client' = Begin(client, session) BY <2>6 DEF Retry, Resubscribe
    <3> QED BY <2>1, <2>2, <3>1, BeginShape
  <2>7. CASE Connect
    <3> PICK s : s = session' OBVIOUS
    <3>1. client' = client \/ client' = Begin(client, s) BY <2>7 DEF Connect
    <3> QED BY <2>1, <2>2, <3>1, BeginShape
  <2>8. CASE ApplyNotFound \/ Disconnect
    <3> PICK a, b : a = [client EXCEPT !.pc = "retry"] /\ b = [client EXCEPT !.pc = "idle"] OBVIOUS
    <3>1. /\ a \in ClientState /\ a.copy = client.copy /\ a.seq = client.seq
          /\ b \in ClientState /\ b.copy = client.copy /\ b.seq = client.seq
      BY <2>1 DEF ClientState
    <3>2. client' = client \/ client' = Offline(a) \/ client' = Offline(b)
      BY <2>8 DEF ApplyNotFound, Disconnect
    <3> QED BY <2>1, <2>2, <3>1, <3>2, OfflineShape
  <2>9. CASE ApplySnapshot \/ ApplyEvent
    <3> PICK e, n : e = wire[1] /\ n = e.seq OBVIOUS
    <3>1. wire # <<>> BY <2>9 DEF ApplySnapshot, ApplyEvent, Receive
    <3>2. Head(wire) = e /\ e \in Item /\ n \in Nat /\ 1 \in DOMAIN wire
      <4>1. Head(wire) = e /\ e \in Item /\ 1 \in DOMAIN wire BY <2>1, <3>1, TailShape
      <4> QED BY <4>1 DEF Item
    <3>3. CASE ApplySnapshot
      <4>1. n >= client.seq BY <2>0, <3>2, <3>3 DEF ApplySnapshot, Receive, Stream, SnapFirst
      <4> PICK v : v = Thread(n) OBVIOUS
      <4>2. client'.copy = Copy(n, v) /\ client'.seq = n
        BY <2>1, <3>2, <3>3 DEF ApplySnapshot, SetThread, ClientState
      <4>3. client'.copy.view = v BY <4>2 DEF Copy
      <4>4. client.copy.view \subseteq Thread(client.seq) BY <1>1, <2>0, <2>1 DEF ViewIsThread, Faithful
      <4>5. log \in Seq(Kind) BY <2>0 DEF TypeOK
      <4>6. Thread(client.seq) \subseteq v BY <2>1, <3>2, <4>1, <4>5 DEF Thread
      <4> QED BY <4>1, <4>2, <4>3, <4>4, <4>6
    <3>4. CASE ApplyEvent
      <4>1. n > client.seq BY <3>2, <3>4 DEF ApplyEvent
      <4> PICK v : v = client.copy.view \cup {n} OBVIOUS
      <4>2. SetDeleted(n) \/ SetThread(n, v) BY <1>1, <3>2, <3>4 DEF ApplyEvent
      <4>3. CASE SetDeleted(n)
        <5>1. client'.copy = NoCopy BY <2>1, <4>3 DEF SetDeleted, ClientState
        <5> QED BY <1>1, <5>1, CopyTypes
      <4>4. CASE SetThread(n, v)
        <5>1. client'.copy = Copy(n, v) /\ client'.seq = n BY <2>1, <4>4 DEF SetThread, ClientState
        <5>2. client'.copy.view = v BY <5>1 DEF Copy
        <5>3. client'.seq >= client.seq BY <2>1, <3>2, <4>1, <5>1
        <5>4. client.copy.view \subseteq client'.copy.view BY <5>2
        <5> QED BY <5>3, <5>4
      <4> QED BY <4>2, <4>3, <4>4
    <3> QED BY <2>9, <3>3, <3>4
  <2> QED BY <1>1, <2>3, <2>4, <2>5, <2>6, <2>7, <2>8, <2>9 DEF Next, Client
<1>2. IInv /\ IInv' /\ [Next]_vars =>
        [Has(client.copy) /\ Has(client'.copy) =>
           client'.seq >= client.seq /\ client.copy.view \subseteq client'.copy.view]_vars
  BY <1>1
<1> QED BY Invariance, <1>2, PTL DEF Spec, NeverBack
=============================================================================
