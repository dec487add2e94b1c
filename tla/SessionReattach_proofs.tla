---------------------- MODULE SessionReattach_proofs ----------------------
(***************************************************************************)
(* Proofs about SessionStream and SessionReattach, for every number of     *)
(* subscriptions, every queue and socket capacity, history length, run     *)
(* length and number of drops.                                             *)
(*                                                                         *)
(* The session.  The invariant StreamInv says of one queue what survives   *)
(* every race: a marker is only ever at the front, queued output is in     *)
(* order, and unless the consumer is told, the queue still holds every     *)
(* chunk the consumer lacks.  The lemmas of the first part show that a     *)
(* push and a pop keep this of a queue, those of the second that the       *)
(* threads keep it of the session.                                         *)
(*                                                                         *)
(* The connection.  The composed system takes only steps of the session,   *)
(* so StreamInv holds in it.  On top of it, ReattachInv follows the chunks *)
(* between the daemon and the screen: whatever is still coming over the    *)
(* connection, the reply that is not written yet included, carries every   *)
(* chunk the screen lacks in order, or else a marker, a snapshot or a      *)
(* request for one, so that a gap is repaired.                             *)
(***************************************************************************)
EXTENDS SessionReattach, SequenceTheorems, TLAPS

-----------------------------------------------------------------------------
(* Events and queues. *)

\* The constructors build events.
LEMMA EventTypes ==
    /\ \A n \in Nat : Output(n) \in Event /\ ResyncRequired(n) \in Event /\ Exited(n) \in Event
    /\ \A n \in Nat, st \in Statuses : StatusEvent(n, st) \in Event
    /\ \A e \in Event : e.seq \in Nat /\ e.kind \in {"output", "resync", "exited", "status"}
BY DEF Event, Output, ResyncRequired, Exited, StatusEvent

\* A push leaves a queue of events.
LEMMA PushType ==
    ASSUME NEW q \in Queue, NEW e \in Event
    PROVE  Push(q, e) \in Queue
<1> DEFINE r == ResyncRequired(e.seq)
<1>1. r \in Event
  BY EventTypes
<1>2. q.events \in Seq(Event) /\ q.resyncPending \in BOOLEAN
  BY DEF Queue
<1>3. Append(q.events, e) \in Seq(Event) /\ <<r>> \in Seq(Event)
      /\ <<r, e>> \in Seq(Event) /\ <<e>> \in Seq(Event)
  BY <1>1, <1>2
<1> HIDE DEF r
<1>4. /\ [events |-> <<r>>, resyncPending |-> TRUE] \in Queue
      /\ [events |-> <<r, e>>, resyncPending |-> TRUE] \in Queue
      /\ [q EXCEPT !.events = Append(@, e)] \in Queue
      /\ [q EXCEPT !.events = <<e>>] \in Queue
  BY <1>2, <1>3 DEF Queue
<1> QED
  BY <1>4 DEF Push, r

\* A pop leaves a queue of events.
LEMMA PopType ==
    ASSUME NEW q \in Queue, q.events # <<>>
    PROVE  Pop(q) \in Queue /\ Head(q.events) \in Event
<1>1. q.events \in Seq(Event) /\ q.resyncPending \in BOOLEAN
  BY DEF Queue
<1>2. Tail(q.events) \in Seq(Event) /\ Head(q.events) \in Event
  BY <1>1
<1> QED
  BY <1>1, <1>2 DEF Pop, Queue

\* The most events a queue ever holds: a full queue of capacity one is replaced
\* by a ResyncRequired and the event that did not fit.
Limit == IF Capacity = 1 THEN 2 ELSE Capacity

\* A queue within its limit is within it after any push.
LEMMA PushBounded ==
    ASSUME NEW q \in Queue, NEW e \in Event, Len(q.events) <= Limit
    PROVE  Len(Push(q, e).events) <= Limit
<1>1. q.events \in Seq(Event)
  BY DEF Queue
<1>2. Len(Append(q.events, e)) = Len(q.events) + 1 /\ Len(q.events) \in Nat
  BY <1>1
<1> DEFINE r == ResyncRequired(e.seq)
<1>3. Len(<<r>>) = 1 /\ Len(<<r, e>>) = 2 /\ Len(<<e>>) = 1
  OBVIOUS
<1> HIDE DEF r
<1> QED
  BY <1>1, <1>2, <1>3, CapacityAssumption DEF Push, IsFull, Limit, r, Queue

-----------------------------------------------------------------------------
(* What a push and a pop keep of one queue. *)

\* The marker stays in front of a queue that takes no output.
LEMMA PushMarker ==
    ASSUME NEW q \in Queue, NEW e \in Event, e.kind # "resync", MarkerInFront(q)
    PROVE  MarkerInFront(Push(q, e))
<1>1. q.events \in Seq(Event) /\ q.resyncPending \in BOOLEAN
  BY DEF Queue
<1> DEFINE r == ResyncRequired(e.seq)
<1>2. r.kind = "resync"
  BY DEF ResyncRequired
<1>3. /\ Len(<<r>>) = 1 /\ <<r>>[1] = r /\ <<r>> # <<>>
      /\ Len(<<r, e>>) = 2 /\ <<r, e>>[1] = r /\ <<r, e>>[2] = e /\ <<r, e>> # <<>>
      /\ Len(<<e>>) = 1 /\ <<e>>[1] = e /\ <<e>> # <<>>
  OBVIOUS
<1> DEFINE a == Append(q.events, e)
<1>4. /\ Len(a) = Len(q.events) + 1 /\ Len(q.events) \in Nat
      /\ \A i \in 1 .. Len(q.events) : a[i] = q.events[i]
      /\ a[Len(q.events) + 1] = e
      /\ q.events = <<>> <=> Len(q.events) = 0
      /\ a # <<>>
  BY <1>1
<1>a. CASE e.kind = "output" /\ q.resyncPending
  BY <1>a DEF Push
<1>b. CASE e.kind = "output" /\ ~q.resyncPending /\ IsFull(q)
  <2>1. Push(q, e) = [events |-> <<r>>, resyncPending |-> TRUE]
    BY <1>b DEF Push
  <2> HIDE DEF r
  <2> QED
    BY <2>1, <1>2, <1>3 DEF MarkerInFront, HoldsOutput
<1>c. CASE ~IsFull(q) /\ (e.kind = "output" => ~q.resyncPending)
  <2>1. Push(q, e) = [events |-> a, resyncPending |-> q.resyncPending]
    BY <1>c, <1>1 DEF Push, Queue
  <2> HIDE DEF a
  <2>2. q.resyncPending <=> a[1].kind = "resync"
    BY <1>4 DEF MarkerInFront
  <2>3. \A i \in 2 .. Len(a) : a[i].kind # "resync"
    BY <1>4 DEF MarkerInFront
  <2>4. q.resyncPending => \A i \in 1 .. Len(a) : a[i].kind # "output"
    BY <1>4, <1>c DEF MarkerInFront, HoldsOutput
  <2> QED
    BY <2>1, <2>2, <2>3, <2>4, <1>4 DEF MarkerInFront, HoldsOutput
<1>d. CASE e.kind # "output" /\ IsFull(q) /\ (q.resyncPending \/ HoldsOutput(q))
  <2>1. Push(q, e) = [events |-> <<r, e>>, resyncPending |-> TRUE]
    BY <1>d DEF Push
  <2> HIDE DEF r
  <2> QED
    BY <2>1, <1>2, <1>3, <1>d DEF MarkerInFront, HoldsOutput
<1>e. CASE e.kind # "output" /\ IsFull(q) /\ ~q.resyncPending /\ ~HoldsOutput(q)
  <2>1. Push(q, e) = [events |-> <<e>>, resyncPending |-> FALSE]
    BY <1>e, <1>1 DEF Push, Queue
  <2> QED
    BY <2>1, <1>3 DEF MarkerInFront, HoldsOutput
<1> QED
  BY <1>a, <1>b, <1>c, <1>d, <1>e

\* Queued output stays in order: a push of output is of a newer chunk.
LEMMA PushInOrder ==
    ASSUME NEW q \in Queue, NEW e \in Event, NEW c \in Nat, NEW d \in Nat, c <= d,
           InOrder(q, c),
           e.kind = "output" => c < e.seq /\ e.seq <= d
    PROVE  InOrder(Push(q, e), d)
<1>1. q.events \in Seq(Event) /\ q.resyncPending \in BOOLEAN
  BY DEF Queue
<1> DEFINE r == ResyncRequired(e.seq)
<1>2. r.kind = "resync"
  BY DEF ResyncRequired
<1>3. /\ Len(<<r>>) = 1 /\ <<r>>[1] = r
      /\ Len(<<r, e>>) = 2 /\ <<r, e>>[1] = r /\ <<r, e>>[2] = e
      /\ Len(<<e>>) = 1 /\ <<e>>[1] = e
  OBVIOUS
<1> DEFINE a == Append(q.events, e)
<1>4. /\ Len(a) = Len(q.events) + 1 /\ Len(q.events) \in Nat
      /\ \A i \in 1 .. Len(q.events) : a[i] = q.events[i]
      /\ a[Len(q.events) + 1] = e
  BY <1>1
<1>5. \A i \in 1 .. Len(q.events) : q.events[i].seq \in Nat
  BY <1>1, EventTypes
<1>6. e.seq \in Nat
  BY EventTypes
<1>a. CASE Push(q, e) = q
  BY <1>a, <1>5 DEF InOrder
<1>b. CASE Push(q, e) = [q EXCEPT !.events = a] /\ (e.kind = "output" => ~q.resyncPending)
  <2>1. Push(q, e).events = a
    BY <1>b, <1>1 DEF Queue
  <2> HIDE DEF a
  <2>2. ASSUME NEW i \in 1 .. Len(a), a[i].kind = "output" PROVE a[i].seq <= d
    <3>1. CASE i \in 1 .. Len(q.events)
      <4>1. a[i] = q.events[i] /\ q.events[i].seq \in Nat /\ q.events[i].seq <= c
        BY <2>2, <3>1, <1>4, <1>5 DEF InOrder
      <4> QED
        BY <4>1
    <3>2. CASE i = Len(q.events) + 1
      BY <2>2, <3>2, <1>4
    <3> QED
      BY <3>1, <3>2, <1>4
  <2>3. \A i, j \in 1 .. Len(a) :
          (i < j /\ a[i].kind = "output" /\ a[j].kind = "output") => a[i].seq < a[j].seq
    <3> SUFFICES ASSUME NEW i \in 1 .. Len(a), NEW j \in 1 .. Len(a),
                        i < j, a[i].kind = "output", a[j].kind = "output"
                 PROVE  a[i].seq < a[j].seq
      OBVIOUS
    <3>1. i \in 1 .. Len(q.events) /\ a[i] = q.events[i]
      BY <1>4
    <3>2. CASE j \in 1 .. Len(q.events)
      <4>1. a[j] = q.events[j]
        BY <3>2, <1>4
      <4> QED
        BY <3>1, <3>2, <4>1 DEF InOrder
    <3>3. CASE j = Len(q.events) + 1
      <4>1. a[j] = e /\ q.events[i].seq \in Nat /\ q.events[i].seq <= c
        BY <3>1, <3>3, <1>4, <1>5 DEF InOrder
      <4> QED
        BY <3>1, <4>1, <1>6
    <3> QED
      BY <3>2, <3>3, <1>4
  <2> QED
    BY <2>1, <2>2, <2>3 DEF InOrder
<1>c. CASE Push(q, e).events = <<r>>
  <2> HIDE DEF r
  <2> QED
    BY <1>c, <1>2, <1>3 DEF InOrder
<1>d. CASE Push(q, e).events = <<r, e>>
  <2> HIDE DEF r
  <2> QED
    BY <1>d, <1>2, <1>3, <1>6 DEF InOrder
<1>e. CASE Push(q, e).events = <<e>>
  BY <1>e, <1>3, <1>6 DEF InOrder
<1> QED
  <2>1. [q EXCEPT !.events = <<e>>].events = <<e>>
    BY DEF Queue
  <2> HIDE DEF a
  <2> QED
    BY <2>1, <1>a, <1>b, <1>c, <1>d, <1>e DEF Push, a

\* A push loses no chunk silently: a queue that was complete up to c and is
\* offered chunk c + 1, or an event that is no output, is complete afterwards
\* or carries the marker.
LEMMA PushComplete ==
    ASSUME NEW q \in Queue, NEW e \in Event, NEW from \in Nat, NEW c \in Nat, NEW d \in Nat,
           ~q.resyncPending => Complete(q, from, c),
           IF e.kind = "output" THEN e = Output(d) /\ d = c + 1 ELSE d = c,
           ~Push(q, e).resyncPending
    PROVE  Complete(Push(q, e), from, d)
<1>1. q.events \in Seq(Event) /\ q.resyncPending \in BOOLEAN
  BY DEF Queue
<1> DEFINE a == Append(q.events, e)
<1>4. /\ Len(a) = Len(q.events) + 1 /\ Len(q.events) \in Nat
      /\ \A i \in 1 .. Len(q.events) : a[i] = q.events[i]
      /\ a[Len(q.events) + 1] = e
  BY <1>1
<1>2. ~q.resyncPending
  BY <1>1 DEF Push
<1>a. CASE ~IsFull(q)
  <2>1. Push(q, e).events = a
    BY <1>a, <1>1, <1>2 DEF Push, Queue
  <2> HIDE DEF a
  <2> QED
    BY <2>1, <1>2, <1>4 DEF Complete
<1>b. CASE IsFull(q)
  <2>1. e.kind # "output" /\ ~HoldsOutput(q)
    BY <1>b, <1>2 DEF Push
  <2>2. ASSUME NEW n \in (from + 1) .. c PROVE FALSE
    <3>1. PICK i \in 1 .. Len(q.events) : q.events[i] = Output(n)
      BY <1>2 DEF Complete
    <3>2. Output(n).kind = "output"
      BY DEF Output
    <3> QED
      BY <3>1, <3>2, <2>1 DEF HoldsOutput
  <2> QED
    BY <2>1, <2>2 DEF Complete
<1> QED
  BY <1>a, <1>b

\* After a pop the marker is gone from the queue, if it was there.
LEMMA PopMarker ==
    ASSUME NEW q \in Queue, q.events # <<>>, MarkerInFront(q)
    PROVE  MarkerInFront(Pop(q)) /\ ~Pop(q).resyncPending
<1>1. q.events \in Seq(Event) /\ q.resyncPending \in BOOLEAN
  BY DEF Queue
<1> DEFINE b == Tail(q.events)
<1>2. /\ Len(b) = Len(q.events) - 1 /\ Len(q.events) \in Nat /\ Len(b) \in Nat
      /\ \A i \in 1 .. Len(b) : b[i] = q.events[i + 1]
      /\ Head(q.events) = q.events[1]
      /\ b # <<>> => Len(b) > 0
  BY <1>1
<1> HIDE DEF b
<1>3. \A i \in 1 .. Len(b) : b[i].kind # "resync"
  BY <1>2 DEF MarkerInFront
<1>4. ~(q.resyncPending /\ Head(q.events).kind # "resync")
  BY <1>2 DEF MarkerInFront
<1>5. Pop(q).events = b /\ Pop(q).resyncPending = FALSE
  BY <1>1, <1>4 DEF Pop, b
<1>6. ~(b # <<>> /\ b[1].kind = "resync")
  BY <1>2, <1>3
<1>7. \A i \in 2 .. Len(b) : b[i].kind # "resync"
  BY <1>2, <1>3
<1> QED
  BY <1>5, <1>6, <1>7 DEF MarkerInFront

\* A pop keeps the order.
LEMMA PopInOrder ==
    ASSUME NEW q \in Queue, q.events # <<>>, NEW c \in Nat, InOrder(q, c)
    PROVE  InOrder(Pop(q), c)
<1>1. q.events \in Seq(Event)
  BY DEF Queue
<1> DEFINE b == Tail(q.events)
<1>2. /\ Len(b) = Len(q.events) - 1 /\ Len(q.events) \in Nat /\ Len(b) \in Nat
      /\ \A i \in 1 .. Len(b) : b[i] = q.events[i + 1]
      /\ Pop(q).events = b
  BY <1>1 DEF Pop
<1> HIDE DEF b
<1>3. \A i \in 1 .. Len(b) : i + 1 \in 1 .. Len(q.events)
  BY <1>2
<1>4. \A i \in 1 .. Len(b) : b[i].kind = "output" => b[i].seq <= c
  BY <1>2, <1>3 DEF InOrder
<1>5. \A i, j \in 1 .. Len(b) : (i < j /\ b[i].kind = "output" /\ b[j].kind = "output")
                               => b[i].seq < b[j].seq
  BY <1>2, <1>3 DEF InOrder
<1> QED
  BY <1>2, <1>4, <1>5 DEF InOrder

\* The output at the front of a complete queue is a chunk the consumer has, or
\* the one that comes next.
LEMMA FrontIsNext ==
    ASSUME NEW q \in Queue, q.events # <<>>, NEW from \in Nat, NEW c \in Nat,
           InOrder(q, c), Complete(q, from, c), Head(q.events).kind = "output"
    PROVE  Head(q.events).seq <= from + 1
<1>1. /\ q.events \in Seq(Event) /\ Len(q.events) \in Nat /\ 1 \in 1 .. Len(q.events)
      /\ Head(q.events) = q.events[1]
  BY DEF Queue
<1>2. q.events[1].seq \in Nat /\ q.events[1].seq <= c
  BY <1>1, EventTypes DEF InOrder
<1> SUFFICES ASSUME q.events[1].seq > from + 1 PROVE FALSE
  BY <1>1, <1>2
<1>3. PICK i \in 1 .. Len(q.events) : q.events[i] = Output(from + 1)
  BY <1>2 DEF Complete
<1>4. q.events[i].kind = "output" /\ q.events[i].seq = from + 1
  BY <1>3 DEF Output
<1>5. 1 < i
  BY <1>2, <1>4
<1> QED
  BY <1>1, <1>2, <1>4, <1>5 DEF InOrder

\* What is left after a pop is complete from what the consumer has then.
LEMMA PopComplete ==
    ASSUME NEW q \in Queue, q.events # <<>>, NEW from \in Nat, NEW c \in Nat,
           InOrder(q, c), Complete(q, from, c), NEW to \in Nat,
           LET e == Head(q.events)
           IN  to = IF e.kind = "output" /\ e.seq > from THEN e.seq ELSE from
    PROVE  Complete(Pop(q), to, c)
<1>1. q.events \in Seq(Event)
  BY DEF Queue
<1> DEFINE b == Tail(q.events)
<1>2. /\ Len(b) = Len(q.events) - 1 /\ Len(q.events) \in Nat /\ Len(b) \in Nat
      /\ \A i \in 1 .. Len(b) : b[i] = q.events[i + 1]
      /\ Pop(q).events = b
      /\ Head(q.events) = q.events[1]
  BY <1>1 DEF Pop
<1> HIDE DEF b
<1>3. q.events[1].seq \in Nat
  BY <1>1, EventTypes
<1> SUFFICES ASSUME NEW n \in (to + 1) .. c
             PROVE  \E i \in 1 .. Len(b) : b[i] = Output(n)
  BY <1>2 DEF Complete
<1>4. n \in (from + 1) .. c /\ Output(n).kind = "output" /\ Output(n).seq = n
  BY <1>2, <1>3 DEF Output
<1>5. PICK i \in 1 .. Len(q.events) : q.events[i] = Output(n)
  BY <1>4 DEF Complete
<1>6. i # 1
  BY <1>2, <1>3, <1>4, <1>5
<1>7. i - 1 \in 1 .. Len(b) /\ b[i - 1] = Output(n)
  BY <1>2, <1>5, <1>6
<1> QED
  BY <1>7

-----------------------------------------------------------------------------
(* Type correctness. *)

\* The values threads, handshakes and queues start from, and return to, have their types.
LEMMA RestingTypes ==
    /\ Resting \in [stage : Stages, event : Event, to : SUBSET Subs]
    /\ \A e \in Event : Holding(e) \in [stage : Stages, event : Event, to : SUBSET Subs]
    /\ NotAttached \in [phase : Phases, seq : Nat, status : Statuses]
    /\ EmptyQueue \in Queue
BY EventTypes, StatusAssumption
   DEF Resting, NoEvent, Holding, NotAttached, EmptyQueue, Queue, Stages, Phases

\* A session that has produced nothing has its types.
LEMMA InitType == Init => TypeOK
<1> SUFFICES ASSUME Init PROVE TypeOK
  OBVIOUS
<1>1. queue \in [Subs -> Queue]
  BY RestingTypes DEF Init
<1>2. handshake \in [Subs -> [phase : Phases, seq : Nat, status : Statuses]]
  BY RestingTypes DEF Init
<1>3. outbox \in [Threads -> [stage : Stages, event : Event, to : SUBSET Subs]]
  BY RestingTypes DEF Init
<1>4. applied \in [Subs -> Nat] /\ told \in [Subs -> BOOLEAN]
  BY DEF Init
<1> QED
  BY <1>1, <1>2, <1>3, <1>4, StatusAssumption DEF Init, TypeOK

\* Every step of the reader, the status thread, a consumer or an attach keeps the types.
LEMMA NextType == TypeOK /\ [Next]_vars => TypeOK'
<1> SUFFICES ASSUME TypeOK, [Next]_vars PROVE TypeOK'
  OBVIOUS
<1> USE DEF TypeOK
<1>1. ASSUME RecordOutput PROVE TypeOK'
  <2>1. sequence + 1 \in Nat /\ oldest + 1 \in Nat
    OBVIOUS
  <2>2. Holding(Output(sequence + 1)) \in [stage : Stages, event : Event, to : SUBSET Subs]
    BY <2>1, EventTypes, RestingTypes
  <2>3. outbox' \in [Threads -> [stage : Stages, event : Event, to : SUBSET Subs]]
    BY <1>1, <2>2 DEF RecordOutput
  <2> QED
    BY <1>1, <2>1, <2>3 DEF RecordOutput
<1>2. ASSUME Finish PROVE TypeOK'
  BY <1>2, EventTypes, RestingTypes DEF Finish
<1>3. ASSUME CheckAlive PROVE TypeOK'
  BY <1>3 DEF CheckAlive, Stages, sessionVars, consumerVars
<1>4. ASSUME KeepStatus PROVE TypeOK'
  BY <1>4, RestingTypes DEF KeepStatus, sessionVars, consumerVars
<1>5. ASSUME NEW st \in Statuses, StoreStatus(st) PROVE TypeOK'
  BY <1>5 DEF StoreStatus, Stages, consumerVars
<1>6. ASSUME StampStatus PROVE TypeOK'
  BY <1>6, EventTypes, RestingTypes DEF StampStatus, sessionVars, consumerVars
<1>7. ASSUME NEW p \in Threads, SnapshotSubscribers(p) PROVE TypeOK'
  BY <1>7, ZenonT(40) DEF SnapshotSubscribers, Stages, sessionVars, consumerVars
<1>8. ASSUME NEW p \in Threads, NEW s \in Subs, PushTo(p, s) PROVE TypeOK'
  <2>1. Push(queue[s], outbox[p].event) \in Queue
    BY PushType
  <2> QED
    BY <1>8, <2>1 DEF PushTo, sessionVars, consumerVars
<1>9. ASSUME NEW p \in Threads, BroadcastDone(p) PROVE TypeOK'
  BY <1>9, RestingTypes DEF BroadcastDone, sessionVars, consumerVars
<1>10. ASSUME NEW s \in Subs, Register(s) PROVE TypeOK'
  BY <1>10, RestingTypes DEF Register, Phases, sessionVars
<1>11. ASSUME NEW s \in Subs, ReadStatus(s) PROVE TypeOK'
  BY <1>11, ZenonT(40) DEF ReadStatus, Phases, sessionVars, consumerVars
<1>12. ASSUME NEW s \in Subs, PushStatus(s) PROVE TypeOK'
  <2>1. Push(queue[s], StatusEvent(handshake[s].seq, handshake[s].status)) \in Queue
    BY PushType, EventTypes
  <2> QED
    BY <1>12, <2>1 DEF PushStatus, Phases, sessionVars, consumerVars
<1>13. ASSUME NEW s \in Subs, ReplayExit(s) PROVE TypeOK'
  <2>1. Push(queue[s], Exited(handshake[s].seq)) \in Queue
    BY PushType, EventTypes
  <2> QED
    BY <1>13, <2>1 DEF ReplayExit, Phases, sessionVars, consumerVars
<1>14. ASSUME NEW s \in Subs, Forward(s) PROVE TypeOK'
  <2>1. Pop(queue[s]) \in Queue /\ Head(queue[s].events) \in Event
    BY <1>14, PopType DEF Forward
  <2>2. Head(queue[s].events).seq \in Nat
    BY <2>1, EventTypes
  <2> QED
    BY <1>14, <2>1, <2>2, ZenonT(40) DEF Forward, Phases, sessionVars
<1>15. ASSUME NEW s \in Subs, Close(s) PROVE TypeOK'
  BY <1>15, RestingTypes DEF Close, sessionVars, consumerVars
<1>16. ASSUME UNCHANGED vars PROVE TypeOK'
  BY <1>16 DEF vars
<1> QED
  BY <1>1, <1>2, <1>3, <1>4, <1>5, <1>6, <1>7, <1>8, <1>9, <1>10, <1>11, <1>12,
     <1>13, <1>14, <1>15, <1>16
     DEF Next, ReaderSteps, StatusSteps, BroadcastSteps, AttachSteps

\* Every state of the session, its queues and its threads is well formed.
THEOREM TypeCorrect == Spec => []TypeOK
BY InitType, NextType, PTL DEF Spec

-----------------------------------------------------------------------------
(* The stream invariant. *)

\* What a subscriber has been offered never runs ahead of the session.
LEMMA CoveredType ==
    ASSUME TypeOK, StreamInv, NEW s \in Subs
    PROVE  Covered(s) \in Nat /\ Covered(s) <= sequence
BY DEF TypeOK, StreamInv, OnlyTheReaderSendsOutput, Covered, InFlight, Threads

\* Being offered more only widens what a queue may hold.
LEMMA InOrderWeakens ==
    ASSUME NEW q \in Queue, NEW c \in Nat, NEW d \in Nat, c <= d, InOrder(q, c)
    PROVE  InOrder(q, d)
<1>1. \A i \in 1 .. Len(q.events) : q.events[i].seq \in Nat
  BY EventTypes DEF Queue
<1> QED
  BY <1>1 DEF InOrder

\* A step that touches neither the queues nor what is in flight to them.
LEMMA Undisturbed ==
    ASSUME StreamInv, UNCHANGED <<sequence, subscribers, queue, applied, told>>,
           \A s \in Subs : InFlight(s)' <=> InFlight(s)
    PROVE  \A s \in Subs : QueueInv(s)'
BY DEF StreamInv, QueueInv, Covered

\* A step that pushes an event that is no output to one queue.
LEMMA PushedNoOutput ==
    ASSUME TypeOK, StreamInv, NEW s \in Subs, NEW e \in Event, e.kind \notin {"output", "resync"},
           queue' = [queue EXCEPT ![s] = Push(@, e)],
           UNCHANGED <<sequence, subscribers, applied, told, outbox>>
    PROVE  \A u \in Subs : QueueInv(u)'
<1>1. \A u \in Subs : /\ QueueInv(u) /\ queue[u] \in Queue /\ applied[u] \in Nat
                      /\ Covered(u) \in Nat /\ Covered(u)' = Covered(u)
  BY CoveredType DEF StreamInv, TypeOK, Covered, InFlight
<1>2. queue'[s] = Push(queue[s], e) /\ \A u \in Subs : u # s => queue'[u] = queue[u]
  BY DEF TypeOK
<1>3. MarkerInFront(Push(queue[s], e))
  BY <1>1, PushMarker DEF QueueInv
<1>4. InOrder(Push(queue[s], e), Covered(s))
  BY <1>1, PushInOrder DEF QueueInv
<1>5. (s \in subscribers /\ ~told[s] /\ ~Push(queue[s], e).resyncPending)
      => Complete(Push(queue[s], e), applied[s], Covered(s))
  BY <1>1, PushComplete DEF QueueInv
<1>6. QueueInv(s)'
  BY <1>1, <1>2, <1>3, <1>4, <1>5 DEF QueueInv
<1>7. ASSUME NEW u \in Subs, u # s PROVE QueueInv(u)'
  BY <1>1, <1>2, <1>7 DEF QueueInv
<1> QED
  BY <1>6, <1>7

\* With no subscription there is nothing to be lost.
LEMMA InitStream == Init => StreamInv
<1> SUFFICES ASSUME Init PROVE StreamInv
  OBVIOUS
<1>1. OnlyTheReaderSendsOutput
  BY DEF Init, OnlyTheReaderSendsOutput, Resting, NoEvent, Exited, Threads, Reader, StatusThread
<1>2. OnlyTheLiveAreServed
  BY DEF Init, OnlyTheLiveAreServed, Resting, NotAttached, Threads
<1>3. ASSUME NEW s \in Subs PROVE QueueInv(s)
  <2>1. queue[s].events = <<>> /\ queue[s].resyncPending = FALSE /\ Len(queue[s].events) = 0
    BY DEF Init, EmptyQueue
  <2> QED
    BY <2>1 DEF Init, QueueInv, MarkerInFront, HoldsOutput, InOrder
<1> QED
  BY <1>1, <1>2, <1>3 DEF StreamInv

\* Every step keeps the stream invariant: the lemmas on Push and Pop, queue by queue.
LEMMA NextStream == TypeOK /\ TypeOK' /\ StreamInv /\ [Next]_vars => StreamInv'
<1> SUFFICES ASSUME TypeOK, TypeOK', StreamInv, [Next]_vars PROVE StreamInv'
  OBVIOUS
<1>t. /\ sequence \in Nat
      /\ Reader \in Threads /\ StatusThread \in Threads /\ Reader # StatusThread
      /\ \A p \in Threads : p = Reader \/ p = StatusThread
      /\ outbox \in [Threads -> [stage : Stages, event : Event, to : SUBSET Subs]]
      /\ \A s \in Subs : queue[s] \in Queue /\ applied[s] \in Nat
      /\ \A s \in Subs : handshake[s].seq \in Nat /\ handshake[s].status \in Statuses
  BY DEF TypeOK, Threads, Reader, StatusThread
<1>r. OnlyTheReaderSendsOutput /\ OnlyTheLiveAreServed /\ \A s \in Subs : QueueInv(s)
  BY DEF StreamInv
<1>1. ASSUME RecordOutput PROVE StreamInv'
  <2>1. OnlyTheReaderSendsOutput'
    BY <1>1, <1>t, <1>r DEF RecordOutput, OnlyTheReaderSendsOutput, Holding, Output
  <2>2. OnlyTheLiveAreServed'
    BY <1>1, <1>t, <1>r DEF RecordOutput, OnlyTheLiveAreServed, Holding, TypeOK
  <2>3. ASSUME NEW s \in Subs PROVE QueueInv(s)'
    <3>1. Covered(s) = sequence /\ Covered(s)' \in Nat /\ Covered(s) <= Covered(s)'
          /\ (s \in subscribers => Covered(s)' = Covered(s))
      BY <1>1, <1>t DEF RecordOutput, Covered, InFlight, Holding, Output
    <3>2. InOrder(queue[s], Covered(s)')
      BY <3>1, <1>t, <1>r, InOrderWeakens DEF QueueInv
    <3> QED
      BY <1>1, <1>r, <3>1, <3>2 DEF RecordOutput, QueueInv
  <2> QED
    BY <2>1, <2>2, <2>3 DEF StreamInv
<1>2. ASSUME Finish PROVE StreamInv'
  <2>1. OnlyTheReaderSendsOutput'
    BY <1>2, <1>t, <1>r DEF Finish, OnlyTheReaderSendsOutput, Holding, Exited
  <2>2. OnlyTheLiveAreServed'
    BY <1>2, <1>t, <1>r DEF Finish, OnlyTheLiveAreServed, Holding
  <2>3. \A s \in Subs : InFlight(s)' <=> InFlight(s)
    BY <1>2, <1>t DEF Finish, InFlight, Holding, Exited
  <2> QED
    BY <1>2, <2>1, <2>2, <2>3, Undisturbed DEF StreamInv, Finish
<1>3. ASSUME CheckAlive \/ KeepStatus \/ StampStatus \/ \E st \in Statuses : StoreStatus(st)
      PROVE  StreamInv'
  <2> USE DEF CheckAlive, KeepStatus, StampStatus, StoreStatus, sessionVars, consumerVars
  <2>1. /\ UNCHANGED <<sequence, subscribers, queue, handshake, applied, told>>
        /\ outbox'[Reader] = outbox[Reader]
        /\ \/ outbox'[StatusThread].event = outbox[StatusThread].event
           \/ outbox'[StatusThread].event.kind \in {"status", "exited"}
        /\ outbox'[StatusThread].stage # "sending"
        /\ outbox'[StatusThread].to = {}
    BY <1>3, <1>t, <1>r DEF OnlyTheLiveAreServed, Resting, NoEvent, Exited, Holding, StatusEvent
  <2>2. OnlyTheReaderSendsOutput'
    BY <2>1, <1>t, <1>r DEF OnlyTheReaderSendsOutput
  <2>3. OnlyTheLiveAreServed'
    BY <2>1, <1>t, <1>r DEF OnlyTheLiveAreServed
  <2>4. \A s \in Subs : InFlight(s)' <=> InFlight(s)
    BY <2>1 DEF InFlight
  <2> QED
    BY <2>1, <2>2, <2>3, <2>4, Undisturbed DEF StreamInv
<1>4. ASSUME NEW p \in Threads, SnapshotSubscribers(p) PROVE StreamInv'
  <2> USE DEF SnapshotSubscribers, sessionVars, consumerVars
  <2>1. OnlyTheReaderSendsOutput'
    BY <1>4, <1>t, <1>r DEF OnlyTheReaderSendsOutput
  <2>2. OnlyTheLiveAreServed'
    BY <1>4, <1>t, <1>r DEF OnlyTheLiveAreServed
  <2>3. \A s \in Subs : InFlight(s)' <=> InFlight(s)
    BY <1>4, <1>t DEF InFlight
  <2> QED
    BY <1>4, <2>1, <2>2, <2>3, Undisturbed DEF StreamInv
<1>5. ASSUME NEW p \in Threads, BroadcastDone(p) PROVE StreamInv'
  <2> USE DEF BroadcastDone, sessionVars, consumerVars
  <2>1. OnlyTheReaderSendsOutput'
    BY <1>5, <1>t, <1>r DEF OnlyTheReaderSendsOutput, Resting, NoEvent, Exited
  <2>2. OnlyTheLiveAreServed'
    BY <1>5, <1>t, <1>r DEF OnlyTheLiveAreServed, Resting
  <2>3. \A s \in Subs : InFlight(s)' <=> InFlight(s)
    BY <1>5, <1>t DEF InFlight, Resting, NoEvent, Exited
  <2> QED
    BY <1>5, <2>1, <2>2, <2>3, Undisturbed DEF StreamInv
<1>6. ASSUME NEW p \in Threads, NEW s \in Subs, PushTo(p, s) PROVE StreamInv'
  <2> DEFINE e == outbox[p].event
  <2>1. OnlyTheReaderSendsOutput'
    BY <1>6, <1>t, <1>r DEF PushTo, OnlyTheReaderSendsOutput, sessionVars
  <2>2. OnlyTheLiveAreServed'
    BY <1>6, <1>t, <1>r DEF PushTo, OnlyTheLiveAreServed, sessionVars, consumerVars
  <2>3. e \in Event /\ e.kind # "resync"
    BY <1>t, <1>r DEF OnlyTheReaderSendsOutput
  <2>4. IF e.kind = "output"
        THEN /\ p = Reader /\ InFlight(s) /\ ~InFlight(s)'
             /\ e = Output(sequence) /\ sequence > 0
        ELSE InFlight(s)' <=> InFlight(s)
    <3>1. e.kind = "output" => e = Output(e.seq)
      BY <2>3 DEF Event, Output
    <3> QED
      BY <1>6, <1>t, <1>r, <3>1 DEF PushTo, InFlight, OnlyTheReaderSendsOutput, sessionVars
  <2>5. \A u \in Subs : u # s => (InFlight(u)' <=> InFlight(u))
    BY <1>6, <1>t DEF PushTo, InFlight
  <2>6. /\ Covered(s) \in Nat /\ Covered(s)' \in Nat
        /\ IF e.kind = "output" THEN e = Output(Covered(s)') /\ Covered(s)' = Covered(s) + 1
                               ELSE Covered(s)' = Covered(s)
    <3>1. sequence' = sequence
      BY <1>6 DEF PushTo, sessionVars
    <3>2. CASE e.kind = "output"
      <4>1. Covered(s) = sequence - 1 /\ Covered(s)' = sequence /\ sequence > 0
        BY <2>4, <3>1, <3>2 DEF Covered
      <4> QED
        BY <4>1, <2>4, <3>2, <1>t
    <3>3. CASE e.kind # "output"
      <4>1. Covered(s) \in Nat
        BY CoveredType
      <4>2. Covered(s)' = Covered(s)
        BY <2>4, <3>1, <3>3 DEF Covered
      <4> QED
        BY <4>1, <4>2, <3>3
    <3> QED
      BY <3>2, <3>3
  <2>7. e.kind = "output" => e.seq = Covered(s)'
    BY <2>6 DEF Output
  <2>8. QueueInv(s)'
    <3> DEFINE q == queue[s]
    <3>1. q \in Queue /\ MarkerInFront(q) /\ InOrder(q, Covered(s))
      BY <1>t, <1>r DEF QueueInv
    <3>2. queue'[s] = Push(q, e) /\ UNCHANGED <<subscribers, told, applied>>
      BY <1>6 DEF PushTo, consumerVars, TypeOK
    <3> HIDE DEF e, q
    <3>3. MarkerInFront(Push(q, e))
      BY <3>1, <2>3, PushMarker
    <3>4. Covered(s) <= Covered(s)' /\ (e.kind = "output" => Covered(s) < e.seq /\ e.seq <= Covered(s)')
      BY <2>6, <2>7
    <3>5. InOrder(Push(q, e), Covered(s)')
      BY <3>1, <3>4, <2>3, <2>6, PushInOrder
    <3>6. (s \in subscribers /\ ~told[s] /\ ~Push(q, e).resyncPending)
          => Complete(Push(q, e), applied[s], Covered(s)')
      <4> SUFFICES ASSUME s \in subscribers, ~told[s], ~Push(q, e).resyncPending
                   PROVE  Complete(Push(q, e), applied[s], Covered(s)')
        OBVIOUS
      <4>1. ~q.resyncPending => Complete(q, applied[s], Covered(s))
        BY <1>r DEF QueueInv, q
      <4> QED
        BY <4>1, <3>1, <2>3, <2>6, <1>t, PushComplete
    <3> QED
      BY <3>2, <3>3, <3>5, <3>6 DEF QueueInv
  <2>9. ASSUME NEW u \in Subs, u # s PROVE QueueInv(u)'
    BY <1>6, <1>r, <2>5, <2>9 DEF PushTo, QueueInv, Covered, sessionVars, consumerVars, TypeOK
  <2> QED
    BY <2>1, <2>2, <2>8, <2>9 DEF StreamInv
<1>7. ASSUME NEW s \in Subs, Register(s) PROVE StreamInv'
  <2> USE DEF Register, sessionVars
  <2>1. OnlyTheReaderSendsOutput'
    BY <1>7, <1>t, <1>r DEF OnlyTheReaderSendsOutput
  <2>2. OnlyTheLiveAreServed'
    BY <1>7, <1>t, <1>r DEF OnlyTheLiveAreServed, TypeOK
  <2>3. QueueInv(s)'
    <3>1. /\ queue'[s].events = <<>> /\ queue'[s].resyncPending = FALSE
          /\ Len(queue'[s].events) = 0 /\ applied'[s] = sequence
      BY <1>7 DEF EmptyQueue, TypeOK
    <3>2. Covered(s)' = sequence \/ Covered(s)' = sequence - 1
      BY <1>7 DEF Covered
    <3>3. \A n \in (sequence + 1) .. Covered(s)' : FALSE
      BY <3>2, <1>t
    <3> QED
      BY <3>1, <3>3 DEF QueueInv, MarkerInFront, HoldsOutput, InOrder, Complete
  <2>4. ASSUME NEW u \in Subs, u # s PROVE QueueInv(u)'
    <3>1. Covered(u)' = Covered(u) /\ (u \in subscribers' <=> u \in subscribers)
      BY <1>7, <2>4 DEF Covered, InFlight
    <3> QED
      BY <1>7, <1>r, <2>4, <3>1 DEF QueueInv, TypeOK
  <2> QED
    BY <2>1, <2>2, <2>3, <2>4 DEF StreamInv
<1>8. ASSUME NEW s \in Subs, ReadStatus(s) PROVE StreamInv'
  <2> USE DEF ReadStatus, sessionVars, consumerVars
  <2>1. OnlyTheReaderSendsOutput'
    BY <1>8, <1>r DEF OnlyTheReaderSendsOutput
  <2>2. OnlyTheLiveAreServed'
    BY <1>8, <1>r DEF OnlyTheLiveAreServed, TypeOK
  <2>3. \A u \in Subs : InFlight(u)' <=> InFlight(u)
    BY <1>8 DEF InFlight
  <2> QED
    BY <1>8, <2>1, <2>2, <2>3, Undisturbed DEF StreamInv
<1>9. ASSUME NEW s \in Subs, PushStatus(s) PROVE StreamInv'
  <2> USE DEF PushStatus, sessionVars, consumerVars
  <2>1. OnlyTheReaderSendsOutput'
    BY <1>9, <1>r DEF OnlyTheReaderSendsOutput
  <2>2. OnlyTheLiveAreServed'
    BY <1>9, <1>r DEF OnlyTheLiveAreServed, TypeOK
  <2> DEFINE e == StatusEvent(handshake[s].seq, handshake[s].status)
  <2>3. e \in Event /\ e.kind \notin {"output", "resync"}
    BY <1>t, EventTypes DEF StatusEvent
  <2> HIDE DEF e
  <2>4. \A u \in Subs : QueueInv(u)'
    BY <1>9, <2>3, PushedNoOutput DEF e
  <2> QED
    BY <2>1, <2>2, <2>4 DEF StreamInv
<1>10. ASSUME NEW s \in Subs, ReplayExit(s) PROVE StreamInv'
  <2> USE DEF ReplayExit, sessionVars, consumerVars
  <2>1. OnlyTheReaderSendsOutput'
    BY <1>10, <1>r DEF OnlyTheReaderSendsOutput
  <2>2. OnlyTheLiveAreServed'
    BY <1>10, <1>r DEF OnlyTheLiveAreServed, TypeOK
  <2>3. Exited(handshake[s].seq) \in Event /\ Exited(handshake[s].seq).kind \notin {"output", "resync"}
    BY <1>t, EventTypes DEF Exited
  <2>4. \A u \in Subs : QueueInv(u)'
    <3>1. CASE ended
      BY <1>10, <2>3, <3>1, PushedNoOutput
    <3>2. CASE ~ended
      <4>1. \A u \in Subs : InFlight(u)' <=> InFlight(u)
        BY <1>10 DEF InFlight
      <4> QED
        BY <1>10, <3>2, <4>1, Undisturbed
    <3> QED
      BY <3>1, <3>2
  <2> QED
    BY <2>1, <2>2, <2>4 DEF StreamInv
<1>11. ASSUME NEW s \in Subs, Forward(s) PROVE StreamInv'
  <2> USE DEF Forward, sessionVars
  <2> DEFINE q == queue[s]
             e == Head(q.events)
  <2>0. /\ q \in Queue /\ q.events # <<>> /\ e \in Event /\ e.seq \in Nat
        /\ MarkerInFront(q) /\ InOrder(q, Covered(s)) /\ Covered(s) \in Nat
        /\ Covered(s) <= sequence
    BY <1>11, <1>t, <1>r, PopType, EventTypes, CoveredType DEF QueueInv
  <2>1. OnlyTheReaderSendsOutput'
    BY <1>11, <1>r DEF OnlyTheReaderSendsOutput
  <2>2. applied'[s] = (IF e.kind = "output" /\ e.seq > applied[s] THEN e.seq ELSE applied[s])
        /\ applied'[s] \in Nat /\ applied'[s] <= sequence
    <3>1. e = q.events[1] /\ 1 \in 1 .. Len(q.events)
      BY <2>0 DEF Queue
    <3>2. e.kind = "output" => e.seq <= sequence
      BY <2>0, <3>1, <1>t DEF InOrder
    <3> QED
      BY <1>11, <1>t, <1>r, <2>0, <3>2 DEF TypeOK, OnlyTheLiveAreServed
  <2>3. OnlyTheLiveAreServed'
    <3>1. \A u \in Subs : applied'[u] <= sequence
      BY <1>11, <1>r, <2>2 DEF OnlyTheLiveAreServed, TypeOK
    <3>2. \A u \in Subs : handshake'[u].phase = "free" <=> handshake[u].phase = "free"
      BY <1>11 DEF TypeOK
    <3> QED
      BY <1>11, <1>r, <3>1, <3>2 DEF OnlyTheLiveAreServed
  <2>4. \A u \in Subs : Covered(u)' = Covered(u)
    BY <1>11 DEF Covered, InFlight
  <2>5. QueueInv(s)'
    <3>1. queue'[s] = Pop(q) /\ subscribers' = subscribers
          /\ (told'[s] <=> told[s] \/ e.kind = "resync")
      BY <1>11 DEF TypeOK
    <3>2. MarkerInFront(Pop(q)) /\ ~Pop(q).resyncPending
      BY <2>0, PopMarker
    <3>3. InOrder(Pop(q), Covered(s))
      BY <2>0, PopInOrder
    <3>4. q.resyncPending => e.kind = "resync"
      BY <2>0 DEF MarkerInFront, Queue
    <3>5. (s \in subscribers /\ ~told'[s]) => Complete(q, applied[s], Covered(s))
      BY <1>r, <3>1, <3>4 DEF QueueInv
    <3>6. (s \in subscribers /\ ~told'[s]) => Complete(Pop(q), applied'[s], Covered(s))
      <4> HIDE DEF q
      <4> QED
        BY <3>5, <2>0, <2>2, <1>t, PopComplete
    <3> QED
      BY <2>4, <3>1, <3>2, <3>3, <3>6 DEF QueueInv
  <2>6. ASSUME NEW u \in Subs, u # s PROVE QueueInv(u)'
    BY <1>11, <1>r, <2>4, <2>6 DEF QueueInv, TypeOK
  <2> QED
    BY <2>1, <2>3, <2>5, <2>6 DEF StreamInv
<1>12. ASSUME NEW s \in Subs, Close(s) PROVE StreamInv'
  <2> USE DEF Close, sessionVars, consumerVars
  <2>0. \A p \in Threads : /\ outbox'[p].event = outbox[p].event
                           /\ outbox'[p].stage = outbox[p].stage
                           /\ outbox'[p].to = outbox[p].to \ {s}
    BY <1>12, <1>t
  <2>1. OnlyTheReaderSendsOutput'
    BY <1>12, <1>t, <1>r, <2>0 DEF OnlyTheReaderSendsOutput
  <2>2. OnlyTheLiveAreServed'
    <3>1. \A u \in Subs : u \in subscribers' <=> handshake'[u].phase # "free"
      BY <1>12, <1>r DEF OnlyTheLiveAreServed, NotAttached, TypeOK
    <3> QED
      BY <1>12, <1>r, <2>0, <3>1, ZenonT(40) DEF OnlyTheLiveAreServed
  <2>3. QueueInv(s)'
    <3>1. /\ queue'[s].events = <<>> /\ queue'[s].resyncPending = FALSE
          /\ Len(queue'[s].events) = 0 /\ s \notin subscribers'
      BY <1>12 DEF EmptyQueue, TypeOK
    <3> QED
      BY <3>1 DEF QueueInv, MarkerInFront, HoldsOutput, InOrder
  <2>4. ASSUME NEW u \in Subs, u # s PROVE QueueInv(u)'
    <3>1. Covered(u)' = Covered(u) /\ (u \in subscribers' <=> u \in subscribers)
      BY <1>12, <1>t, <2>0, <2>4 DEF Covered, InFlight
    <3> QED
      BY <1>12, <1>r, <2>4, <3>1 DEF QueueInv, TypeOK
  <2> QED
    BY <2>1, <2>2, <2>3, <2>4 DEF StreamInv
<1>13. ASSUME UNCHANGED vars PROVE StreamInv'
  BY <1>13, <1>r DEF vars, StreamInv, OnlyTheReaderSendsOutput, OnlyTheLiveAreServed,
                     QueueInv, Covered, InFlight
<1> QED
  BY <1>1, <1>2, <1>3, <1>4, <1>5, <1>6, <1>7, <1>8, <1>9, <1>10, <1>11, <1>12, <1>13
     DEF Next, ReaderSteps, StatusSteps, BroadcastSteps, AttachSteps

\* The invariant of the fan-out holds in every reachable state.
THEOREM StreamCorrect == Spec => []StreamInv
BY InitType, NextType, InitStream, NextStream, PTL DEF Spec

-----------------------------------------------------------------------------
(* What follows from it. *)

\* The chunk at the front of a queue whose consumer was not told is the one it lacks.
LEMMA GapFree == TypeOK /\ StreamInv => NoSilentGap
<1> SUFFICES ASSUME TypeOK, StreamInv, NEW s \in Subs,
                    handshake[s].phase = "attached", ~told[s],
                    queue[s].events # <<>>, Head(queue[s].events).kind = "output"
             PROVE  Head(queue[s].events).seq <= applied[s] + 1
  BY DEF NoSilentGap
<1>1. /\ queue[s] \in Queue /\ applied[s] \in Nat /\ Covered(s) \in Nat
      /\ QueueInv(s) /\ s \in subscribers
  BY CoveredType DEF TypeOK, StreamInv, OnlyTheLiveAreServed
<1>2. ~queue[s].resyncPending
  BY <1>1 DEF QueueInv, MarkerInFront, Queue
<1>3. InOrder(queue[s], Covered(s)) /\ Complete(queue[s], applied[s], Covered(s))
  BY <1>1, <1>2 DEF QueueInv
<1> QED
  BY <1>1, <1>3, FrontIsNext

\* A consumer that was never told to resync is handed the next chunk or one it
\* has, whatever overflowed or raced with its attach.
THEOREM NoGap == Spec => []NoSilentGap
BY TypeCorrect, StreamCorrect, GapFree, PTL

\* An empty queue whose consumer was not told leaves nothing the consumer lacks.
LEMMA DrainedIsCurrent == TypeOK /\ StreamInv => DrainedMeansCaughtUp
<1> SUFFICES ASSUME TypeOK, StreamInv, NEW s \in Subs,
                    handshake[s].phase = "attached", ~told[s],
                    queue[s].events = <<>>, ~InFlight(s)
             PROVE  applied[s] = sequence
  BY DEF DrainedMeansCaughtUp
<1>1. /\ applied[s] \in Nat /\ sequence \in Nat /\ applied[s] <= sequence
      /\ QueueInv(s) /\ s \in subscribers
  BY DEF TypeOK, StreamInv, OnlyTheLiveAreServed
<1>2. ~queue[s].resyncPending /\ Len(queue[s].events) = 0 /\ Covered(s) = sequence
  BY <1>1 DEF QueueInv, MarkerInFront, Covered
<1>3. Complete(queue[s], applied[s], sequence)
  BY <1>1, <1>2 DEF QueueInv
<1>4. \A n \in (applied[s] + 1) .. sequence : FALSE
  BY <1>2, <1>3 DEF Complete
<1>5. sequence \in (applied[s] + 1) .. sequence \/ sequence < applied[s] + 1
  BY <1>1
<1> QED
  BY <1>1, <1>4, <1>5

\* A consumer that drained its queue and was never told to resync has all of
\* the session's output: no chunk is lost off the end.
THEOREM NothingLostAtTheEnd == Spec => []DrainedMeansCaughtUp
BY TypeCorrect, StreamCorrect, DrainedIsCurrent, PTL

\* However slow a client is, its queue stays within the limit.
THEOREM Bounded == Spec => []QueueBounded
<1> DEFINE Inv == \A s \in Subs : Len(queue[s].events) <= Limit
<1>1. Init => Inv
  <2> SUFFICES ASSUME Init, NEW s \in Subs PROVE Len(queue[s].events) <= Limit
    OBVIOUS
  <2>1. queue[s].events = <<>> /\ Len(<<>>) = 0
    BY DEF Init, EmptyQueue
  <2> QED
    BY <2>1, CapacityAssumption DEF Limit
<1>2. TypeOK /\ Inv /\ [Next]_vars => Inv'
  <2> SUFFICES ASSUME TypeOK, Inv, [Next]_vars, NEW u \in Subs
               PROVE  Len(queue'[u].events) <= Limit
    OBVIOUS
  <2>1. queue[u] \in Queue /\ Len(queue[u].events) <= Limit
    BY DEF TypeOK
  <2>2. CASE queue'[u] = queue[u]
    BY <2>1, <2>2
  <2>3. CASE queue'[u] = EmptyQueue
    BY <2>3, CapacityAssumption DEF EmptyQueue, Limit
  <2>4. ASSUME NEW e \in Event, queue'[u] = Push(queue[u], e) PROVE Len(queue'[u].events) <= Limit
    BY <2>1, <2>4, PushBounded
  <2>5. ASSUME queue[u].events # <<>>, queue'[u] = Pop(queue[u]) PROVE Len(queue'[u].events) <= Limit
    <3>1. Len(Tail(queue[u].events)) = Len(queue[u].events) - 1 /\ Len(queue[u].events) \in Nat
      BY <2>1, <2>5 DEF Queue
    <3> QED
      BY <2>1, <2>5, <3>1, CapacityAssumption DEF Pop, Limit
  <2>6. ASSUME NEW p \in Threads, NEW s \in Subs, PushTo(p, s) PROVE Len(queue'[u].events) <= Limit
    BY <2>6, <2>2, <2>4 DEF PushTo, TypeOK
  <2>7. ASSUME NEW s \in Subs, AttachSteps(s) PROVE Len(queue'[u].events) <= Limit
    <3>1. handshake[s].seq \in Nat /\ handshake[s].status \in Statuses
      BY DEF TypeOK
    <3> QED
      BY <2>7, <2>2, <2>3, <2>4, <3>1, EventTypes
         DEF AttachSteps, Register, ReadStatus, PushStatus, ReplayExit, TypeOK
  <2>8. ASSUME NEW s \in Subs, Forward(s) PROVE Len(queue'[u].events) <= Limit
    BY <2>8, <2>2, <2>5 DEF Forward, TypeOK
  <2>9. ASSUME NEW s \in Subs, Close(s) PROVE Len(queue'[u].events) <= Limit
    BY <2>9, <2>2, <2>3 DEF Close, TypeOK
  <2>10. ASSUME ReaderSteps \/ StatusSteps PROVE Len(queue'[u].events) <= Limit
    BY <2>10, <2>2 DEF ReaderSteps, RecordOutput, Finish, StatusSteps, CheckAlive, KeepStatus,
                       StampStatus, StoreStatus
  <2>11. ASSUME NEW p \in Threads, SnapshotSubscribers(p) \/ BroadcastDone(p)
         PROVE  Len(queue'[u].events) <= Limit
    BY <2>11, <2>2 DEF SnapshotSubscribers, BroadcastDone
  <2> QED
    BY <2>2, <2>6, <2>7, <2>8, <2>9, <2>10, <2>11 DEF Next, BroadcastSteps, vars
<1>3. Inv => QueueBounded
  BY DEF QueueBounded, Limit
<1> HIDE DEF Inv
<1> QED
  BY <1>1, <1>2, <1>3, TypeCorrect, PTL DEF Spec

-----------------------------------------------------------------------------
(* SessionStream implements LossyStream. *)

\* A fresh session is a fresh lossy stream.
LEMMA InitImplements == Init => Promise!Init
BY DEF Init, Promise!Init

\* Every step of the threads is a step of the lossy stream or a stutter.
LEMMA StepImplements ==
    TypeOK /\ StreamInv /\ [Next]_vars => [Promise!Next]_(Promise!vars)
<1> SUFFICES ASSUME TypeOK, StreamInv, [Next]_vars PROVE [Promise!Next]_(Promise!vars)
  OBVIOUS
<1>1. CASE UNCHANGED <<sequence, subscribers, applied, told>>
  BY <1>1 DEF Promise!vars
<1>2. CASE RecordOutput
  BY <1>2 DEF RecordOutput, Promise!Next, Promise!Produce
<1>3. ASSUME NEW s \in Subs, Register(s) PROVE Promise!Join(s)
  <2>1. s \notin subscribers
    BY <1>3 DEF Register, StreamInv, OnlyTheLiveAreServed
  <2> QED
    BY <1>3, <2>1 DEF Register, Promise!Join, sessionVars
<1>4. ASSUME NEW s \in Subs, Close(s) PROVE Promise!Leave(s)
  <2>1. s \in subscribers
    BY <1>4 DEF Close, StreamInv, OnlyTheLiveAreServed
  <2> QED
    BY <1>4, <2>1 DEF Close, Promise!Leave, sessionVars, consumerVars
<1>5. ASSUME NEW s \in Subs, Forward(s) PROVE [Promise!Next]_(Promise!vars)
  <2> DEFINE e == Head(queue[s].events)
  <2>1. /\ queue[s] \in Queue /\ e \in Event /\ e.seq \in Nat
        /\ sequence \in Nat /\ applied[s] \in Nat /\ applied[s] <= sequence
        /\ s \in subscribers /\ handshake[s].phase = "attached"
        /\ applied \in [Subs -> Nat] /\ told \in [Subs -> BOOLEAN]
    BY <1>5, PopType, EventTypes DEF Forward, TypeOK, StreamInv, OnlyTheLiveAreServed
  <2>2. UNCHANGED <<sequence, subscribers>>
    BY <1>5 DEF Forward, sessionVars
  <2>3. CASE e.kind = "output" /\ e.seq > applied[s]
    <3>1. applied' = [applied EXCEPT ![s] = e.seq] /\ told' = told
      BY <1>5, <2>1, <2>3 DEF Forward
    <3>2. e.seq <= sequence
      <4>1. InOrder(queue[s], Covered(s)) /\ Covered(s) \in Nat /\ Covered(s) <= sequence
        BY CoveredType DEF StreamInv, QueueInv
      <4>2. e = queue[s].events[1] /\ 1 \in 1 .. Len(queue[s].events)
        BY <1>5, <2>1 DEF Forward, Queue
      <4> QED
        BY <4>1, <4>2, <2>1, <2>3 DEF InOrder
    <3>3. CASE told[s]
      <4>1. e.seq \in (applied[s] + 1) .. sequence
        BY <2>1, <2>3, <3>2
      <4>2. Promise!DeliverAny(s)
        BY <2>1, <2>2, <3>1, <3>3, <4>1 DEF Promise!DeliverAny
      <4> QED
        BY <4>2 DEF Promise!Next
    <3>4. CASE ~told[s]
      <4>1. e.seq <= applied[s] + 1
        BY <1>5, <2>1, <2>3, <3>4, GapFree DEF NoSilentGap, Forward
      <4>2. e.seq = applied[s] + 1 /\ applied[s] < sequence
        BY <4>1, <2>1, <2>3, <3>2
      <4>3. Promise!DeliverNext(s)
        BY <2>1, <2>2, <3>1, <4>2 DEF Promise!DeliverNext
      <4> QED
        BY <4>3 DEF Promise!Next
    <3> QED
      BY <3>3, <3>4
  <2>4. CASE e.kind = "resync"
    <3>1. told' = [told EXCEPT ![s] = TRUE] /\ applied' = applied
      BY <1>5, <2>1, <2>4 DEF Forward
    <3>2. Promise!Announce(s)
      BY <2>1, <2>2, <3>1 DEF Promise!Announce
    <3> QED
      BY <3>2 DEF Promise!Next
  <2>5. CASE ~(e.kind = "output" /\ e.seq > applied[s]) /\ e.kind # "resync"
    <3>1. told' = told /\ applied' = applied
      BY <1>5, <2>1, <2>5 DEF Forward
    <3> QED
      BY <2>2, <3>1, <1>1
  <2> QED
    BY <2>3, <2>4, <2>5
<1> QED
  BY <1>1, <1>2, <1>3, <1>4, <1>5
     DEF Next, ReaderSteps, StatusSteps, BroadcastSteps, AttachSteps, Finish, CheckAlive,
         KeepStatus, StoreStatus, StampStatus, SnapshotSubscribers, PushTo, BroadcastDone,
         ReadStatus, PushStatus, ReplayExit, vars, sessionVars, consumerVars, Promise!Next

\* Every client sees the session's output in order and without a gap it was
\* not told of, whatever the threads do: the fan-out implements LossyStream.
THEOREM Implements == Spec => ImplementsLossyStream
<1>1. Spec => Promise!Init /\ [][Promise!Next]_(Promise!vars)
  BY TypeCorrect, StreamCorrect, InitImplements, StepImplements, PTL DEF Spec
<1> QED
  BY <1>1 DEF ImplementsLossyStream, Promise!Spec

-----------------------------------------------------------------------------
(* The connection: the invariant. *)

\* Whatever can be on the connection: an event of the session or a snapshot.
Frame == Event \cup [kind : {"snapshot"}, seq : Nat]
Cursor == {Nil} \cup Nat

\* A frame that changes the screen.
Draws(f) == f.kind \in {"output", "snapshot"}

\* What the client will be handed, in this order.
Coming == wire \o reply.frames

SnapshotAsked == \E i \in 1 .. Len(requests) : requests[i] = Nil
Served == handshake[Mine].phase \in Attaching \cup {"attached"}

\* No frame of c draws a chunk newer than n.
NothingNewer(c, n) == \A i \in 1 .. Len(c) : Draws(c[i]) => c[i].seq <= n

\* A snapshot in c is as new as the screen and as everything drawn before it.
SnapshotsAreCurrent(c, u) ==
    \A i \in 1 .. Len(c) : c[i].kind = "snapshot" =>
        /\ u <= c[i].seq
        /\ \A j \in 1 .. (i - 1) : Draws(c[j]) => c[j].seq <= c[i].seq

\* A screen that is at u will be at n or beyond when c[i] is handled.
Reached(c, u, n, i) == n <= u \/ \E j \in 1 .. (i - 1) : Draws(c[j]) /\ n <= c[j].seq

\* By the time c[i] is handled a snapshot was asked for, or one follows it.
Replaced(c, i) ==
    \/ \E j \in 1 .. (i - 1) : c[j].kind = "resync"
    \/ \E k \in (i + 1) .. Len(c) : c[k].kind = "snapshot"

\* An output in c continues the screen, or a snapshot will replace what it leaves.
NoGapInside(c, u) ==
    \A i \in 1 .. Len(c) :
        c[i].kind = "output" => Replaced(c, i) \/ Reached(c, u, c[i].seq - 1, i)

\* The same for what is forwarded after c: chunk n + 1 and later.
NoGapAfter(c, u, n) == Replaced(c, Len(c) + 1) \/ Reached(c, u, n, Len(c) + 1)

HoldsSnapshot(c) == \E i \in 1 .. Len(c) : c[i].kind = "snapshot"

\* The history is never longer than its limit.
HistoryBounded == oldest \in 1 .. (sequence + 1) /\ sequence + 1 - oldest <= HistoryChunks

LinkTypes ==
    /\ up \in BOOLEAN /\ drops \in 0 .. MaxDrops /\ honest \in BOOLEAN
    /\ cursor \in Cursor
    /\ screen \in [upto : Nat, hole : BOOLEAN]
    /\ requests \in Seq(Cursor)
    /\ wire \in Seq(Frame)
    /\ Len(wire) <= WireCapacity - 1 + Larger(1, HistoryChunks)

ReplyTypes ==
    /\ reply.mode \in {"none", "resume", "snapshot"}
    /\ reply.frames \in Seq(Frame)
    /\ Len(reply.frames) <= Larger(1, HistoryChunks)
    /\ reply.mode = "snapshot" <=> HoldsSnapshot(reply.frames)
    /\ reply.mode = "none" => reply = NoReply

\* Without a connection nothing is under way.
DownIsIdle ==
    ~up => /\ requests = <<>> /\ Coming = <<>> /\ ~Served
           /\ honest => Backed

\* Only the first Attach of a connection names a chunk, the app's cursor, and it
\* is handled before anything else happens on the connection.
FirstAttachIsAlone ==
    \A i \in 1 .. Len(requests) : requests[i] # Nil =>
        /\ i = 1 /\ requests[i] = cursor
        /\ Coming = <<>> /\ ~Served
        /\ honest => Backed

NothingFromTheFuture ==
    /\ screen.upto <= sequence
    /\ NothingNewer(Coming, sequence)
    /\ SnapshotsAreCurrent(Coming, screen.upto)

\* A chunk the screen will miss has a snapshot coming after it.
NoLastingGap ==
    honest /\ ~SnapshotAsked =>
        /\ NoGapInside(Coming, screen.upto)
        /\ Served /\ told[Mine] => Replaced(Coming, Len(Coming) + 1)
        /\ Served /\ ~told[Mine] => NoGapAfter(Coming, screen.upto, applied[Mine])
        /\ up /\ screen.hole => HoldsSnapshot(Coming)

LinkInv ==
    /\ LinkTypes /\ ReplyTypes
    /\ DownIsIdle /\ FirstAttachIsAlone
    /\ NothingFromTheFuture /\ NoLastingGap

ReattachInv == HistoryBounded /\ LinkInv

-----------------------------------------------------------------------------
(* What a sequence of frames promises, and what appending to it and handling its
   first frame leave of that. *)

\* Every frame has a sequence and a kind; only output and snapshots draw.
LEMMA FrameTypes ==
    /\ \A f \in Frame : f.seq \in Nat
    /\ \A n \in Nat : SnapshotFrame(n) \in Frame
    /\ \A e \in Event : e \in Frame /\ e.kind # "snapshot"
BY EventTypes DEF Frame, SnapshotFrame, Event

\* The screen after the first frame.
DrawnOn(u, f) ==
    CASE f.kind = "snapshot" -> f.seq [] f.kind = "output" -> Larger(u, f.seq) [] OTHER -> u

\* A level the frames reach is reached by what is left after the first frame.
LEMMA HandleReached ==
    ASSUME NEW c \in Seq(Frame), c # <<>>, NEW u \in Nat, SnapshotsAreCurrent(c, u),
           NEW n \in Int, NEW i \in Nat, i >= 1, i <= Len(c), Reached(c, u, n, i + 1)
    PROVE  Reached(Tail(c), DrawnOn(u, Head(c)), n, i)
<1> DEFINE f == Head(c)
           b == Tail(c)
<1>1. /\ Len(b) = Len(c) - 1 /\ Len(c) \in Nat /\ Len(b) \in Nat
      /\ \A j \in 1 .. Len(b) : b[j] = c[j + 1]
      /\ f = c[1] /\ f \in Frame
  OBVIOUS
<1>2. f.seq \in Nat
  BY <1>1, FrameTypes
<1> HIDE DEF b, f
<1>3. u <= DrawnOn(u, f)
  BY <1>1, <1>2 DEF DrawnOn, Larger, SnapshotsAreCurrent
<1>4. Draws(f) => f.seq <= DrawnOn(u, f)
  BY <1>2 DEF Draws, DrawnOn, Larger
<1>5. DrawnOn(u, f) \in Nat
  BY <1>2 DEF DrawnOn, Larger
<1>6. CASE n <= u
  BY <1>3, <1>5, <1>6 DEF Reached, b, f
<1>7. ASSUME NEW j \in 1 .. i, Draws(c[j]), n <= c[j].seq
      PROVE  Reached(b, DrawnOn(u, f), n, i)
  <2>1. CASE j = 1
    BY <1>1, <1>2, <1>4, <1>5, <1>7, <2>1 DEF Reached
  <2>2. CASE j # 1
    <3>1. j - 1 \in 1 .. (i - 1) /\ j - 1 \in 1 .. Len(b)
      BY <1>1, <2>2
    <3>2. b[j - 1] = c[j]
      BY <1>1, <3>1
    <3> QED
      BY <1>7, <3>1, <3>2 DEF Reached
  <2> QED
    BY <2>1, <2>2
<1> QED
  BY <1>6, <1>7 DEF Reached, b, f

\* A frame that will be replaced still is after the first one, unless that one
\* is the marker.
LEMMA HandleReplaced ==
    ASSUME NEW c \in Seq(Frame), c # <<>>, Head(c).kind # "resync",
           NEW i \in Nat, i >= 1, Replaced(c, i + 1), i <= Len(c)
    PROVE  Replaced(Tail(c), i)
<1> DEFINE b == Tail(c)
<1>1. /\ Len(b) = Len(c) - 1 /\ Len(c) \in Nat /\ Len(b) \in Nat
      /\ \A j \in 1 .. Len(b) : b[j] = c[j + 1]
      /\ c[1].kind # "resync"
  OBVIOUS
<1> HIDE DEF b
<1>2. ASSUME NEW j \in 1 .. i, c[j].kind = "resync" PROVE Replaced(b, i)
  <2>1. j - 1 \in 1 .. (i - 1) /\ j - 1 \in 1 .. Len(b) /\ b[j - 1] = c[j]
    BY <1>1, <1>2
  <2> QED
    BY <1>2, <2>1 DEF Replaced
<1>3. ASSUME NEW k \in (i + 2) .. Len(c), c[k].kind = "snapshot" PROVE Replaced(b, i)
  <2>1. k - 1 \in (i + 1) .. Len(b) /\ k - 1 \in 1 .. Len(b) /\ b[k - 1] = c[k]
    BY <1>1
  <2> QED
    BY <1>3, <2>1 DEF Replaced
<1> QED
  BY <1>2, <1>3 DEF Replaced, b

\* Handling the first frame, unless it is the marker, keeps what the rest promises.
LEMMA HandleKeeps ==
    ASSUME NEW c \in Seq(Frame), c # <<>>, NEW u \in Nat, SnapshotsAreCurrent(c, u)
    PROVE  LET b == Tail(c)
               v == DrawnOn(u, Head(c))
           IN  /\ v \in Nat
               /\ SnapshotsAreCurrent(b, v)
               /\ \A n \in Nat : u <= n /\ NothingNewer(c, n) => v <= n /\ NothingNewer(b, n)
               /\ NoGapInside(c, u) /\ Head(c).kind # "resync" => NoGapInside(b, v)
               /\ \A n \in Nat : NoGapAfter(c, u, n) /\ Head(c).kind # "resync" => NoGapAfter(b, v, n)
               /\ Replaced(c, Len(c) + 1) /\ Head(c).kind # "resync" => Replaced(b, Len(b) + 1)
               /\ HoldsSnapshot(c) /\ Head(c).kind # "snapshot" => HoldsSnapshot(b)
<1> DEFINE f == Head(c)
           b == Tail(c)
           v == DrawnOn(u, f)
<1>1. /\ b \in Seq(Frame) /\ Len(b) = Len(c) - 1 /\ Len(c) \in Nat /\ Len(b) \in Nat
      /\ \A j \in 1 .. Len(b) : b[j] = c[j + 1] /\ b[j] \in Frame
      /\ f = c[1] /\ f \in Frame
      /\ Len(c) >= 1
  OBVIOUS
<1>2. f.seq \in Nat /\ v \in Nat /\ \A j \in 1 .. Len(b) : b[j].seq \in Nat
  BY <1>1, FrameTypes DEF DrawnOn, Larger
<1>3. SnapshotsAreCurrent(b, v)
  <2> HIDE DEF b, f
  <2> SUFFICES ASSUME NEW i \in 1 .. Len(b), b[i].kind = "snapshot"
               PROVE  /\ v <= b[i].seq
                      /\ \A j \in 1 .. (i - 1) : Draws(b[j]) => b[j].seq <= b[i].seq
    BY DEF SnapshotsAreCurrent
  <2>1. i + 1 \in 1 .. Len(c) /\ c[i + 1] = b[i]
    BY <1>1
  <2>2. u <= b[i].seq /\ \A j \in 1 .. i : Draws(c[j]) => c[j].seq <= b[i].seq
    BY <2>1 DEF SnapshotsAreCurrent
  <2>3. Draws(f) => f.seq <= b[i].seq
    BY <1>1, <2>2
  <2>4. v <= b[i].seq
    BY <2>2, <2>3, <1>2 DEF DrawnOn, Larger, Draws
  <2>5. ASSUME NEW j \in 1 .. (i - 1), Draws(b[j]) PROVE b[j].seq <= b[i].seq
    <3>1. j \in 1 .. Len(b) /\ j + 1 \in 1 .. i /\ b[j] = c[j + 1]
      BY <1>1
    <3> QED
      BY <2>2, <2>5, <3>1
  <2> QED
    BY <2>4, <2>5
<1>4. ASSUME NEW n \in Nat, u <= n, NothingNewer(c, n) PROVE v <= n /\ NothingNewer(b, n)
  <2> HIDE DEF b, f
  <2>1. Draws(f) => f.seq <= n
    BY <1>1, <1>4 DEF NothingNewer
  <2>2. v <= n
    BY <1>2, <1>4, <2>1 DEF DrawnOn, Larger, Draws
  <2>3. \A j \in 1 .. Len(b) : j + 1 \in 1 .. Len(c)
    BY <1>1
  <2> QED
    BY <1>1, <1>4, <2>2, <2>3 DEF NothingNewer
<1>5. ASSUME NoGapInside(c, u), f.kind # "resync" PROVE NoGapInside(b, v)
  <2> SUFFICES ASSUME NEW i \in 1 .. Len(b), b[i].kind = "output"
               PROVE  Replaced(b, i) \/ Reached(b, v, b[i].seq - 1, i)
    BY DEF NoGapInside
  <2>1. i + 1 \in 1 .. Len(c) /\ c[i + 1] = b[i] /\ i \in Nat /\ i >= 1 /\ i <= Len(c)
    BY <1>1
  <2>2. Replaced(c, i + 1) \/ Reached(c, u, b[i].seq - 1, i + 1)
    BY <1>5, <2>1 DEF NoGapInside
  <2>3. b[i].seq - 1 \in Int
    BY <1>2
  <2>4. Replaced(c, i + 1) => Replaced(b, i)
    BY <1>5, <2>1, HandleReplaced
  <2>5. Reached(c, u, b[i].seq - 1, i + 1) => Reached(b, v, b[i].seq - 1, i)
    BY <2>1, <2>3, HandleReached
  <2> QED
    BY <2>2, <2>4, <2>5
<1>6. Replaced(c, Len(c) + 1) /\ f.kind # "resync" => Replaced(b, Len(b) + 1)
  BY <1>1, HandleReplaced
<1>7. ASSUME NEW n \in Nat, NoGapAfter(c, u, n), f.kind # "resync" PROVE NoGapAfter(b, v, n)
  <2>1. Reached(c, u, n, Len(c) + 1) => Reached(b, v, n, Len(c))
    BY <1>1, HandleReached
  <2>2. Len(b) + 1 = Len(c)
    BY <1>1
  <2> QED
    BY <1>6, <1>7, <2>1, <2>2 DEF NoGapAfter
<1>8. ASSUME HoldsSnapshot(c), f.kind # "snapshot" PROVE HoldsSnapshot(b)
  <2> HIDE DEF b, f
  <2>1. PICK i \in 1 .. Len(c) : c[i].kind = "snapshot"
    BY <1>8 DEF HoldsSnapshot
  <2>2. i - 1 \in 1 .. Len(b) /\ b[i - 1] = c[i]
    BY <1>1, <1>8, <2>1
  <2> QED
    BY <2>1, <2>2 DEF HoldsSnapshot
<1> HIDE DEF b, v, f
<1> QED
  BY <1>2, <1>3, <1>4, <1>5, <1>6, <1>7, <1>8 DEF b, v, f

\* A frame put behind the others: an event that continues what they bring, or a snapshot.
LEMMA AppendKeeps ==
    ASSUME NEW c \in Seq(Frame), NEW u \in Nat, NEW f \in Frame
    PROVE  LET d == Append(c, f)
           IN  /\ SnapshotsAreCurrent(c, u) /\ f.kind # "snapshot" => SnapshotsAreCurrent(d, u)
               /\ SnapshotsAreCurrent(c, u) /\ u <= f.seq /\ NothingNewer(c, f.seq)
                     => SnapshotsAreCurrent(d, u)
               /\ \A n \in Nat : NothingNewer(c, n) /\ (Draws(f) => f.seq <= n) => NothingNewer(d, n)
               /\ NoGapInside(c, u) /\ (f.kind = "output" => NoGapAfter(c, u, f.seq - 1))
                     => NoGapInside(d, u)
               /\ f.kind = "snapshot" => NoGapInside(d, u) /\ HoldsSnapshot(d)
               /\ Replaced(c, Len(c) + 1) \/ f.kind = "resync" => Replaced(d, Len(d) + 1)
               /\ \A n \in Nat : Reached(c, u, n, Len(c) + 1) => Reached(d, u, n, Len(d) + 1)
               /\ \A n \in Nat : Draws(f) /\ n <= f.seq => Reached(d, u, n, Len(d) + 1)
               /\ HoldsSnapshot(c) => HoldsSnapshot(d)
<1> DEFINE d == Append(c, f)
<1>1. /\ d \in Seq(Frame) /\ Len(d) = Len(c) + 1 /\ Len(c) \in Nat /\ Len(d) \in Nat
      /\ \A j \in 1 .. Len(c) : d[j] = c[j]
      /\ d[Len(c) + 1] = f
  OBVIOUS
<1> HIDE DEF d
<1>2. ASSUME SnapshotsAreCurrent(c, u), f.kind # "snapshot" \/ (u <= f.seq /\ NothingNewer(c, f.seq))
      PROVE  SnapshotsAreCurrent(d, u)
  BY <1>1, <1>2 DEF SnapshotsAreCurrent, NothingNewer
<1>3. ASSUME NEW n \in Nat, NothingNewer(c, n), Draws(f) => f.seq <= n PROVE NothingNewer(d, n)
  BY <1>1, <1>3 DEF NothingNewer
<1>4. ASSUME NEW i \in 1 .. (Len(c) + 1), Replaced(c, i) PROVE Replaced(d, i)
  <2>1. ASSUME NEW j \in 1 .. (i - 1), c[j].kind = "resync" PROVE Replaced(d, i)
    <3>1. j \in 1 .. Len(c) /\ d[j] = c[j]
      BY <1>1
    <3> QED
      BY <2>1, <3>1 DEF Replaced
  <2>2. ASSUME NEW k \in (i + 1) .. Len(c), c[k].kind = "snapshot" PROVE Replaced(d, i)
    <3>1. k \in 1 .. Len(c) /\ d[k] = c[k] /\ k \in (i + 1) .. Len(d)
      BY <1>1
    <3> QED
      BY <2>2, <3>1 DEF Replaced
  <2> QED
    BY <1>4, <2>1, <2>2 DEF Replaced
<1>5. \A n \in Int : \A i \in 1 .. (Len(c) + 1) : Reached(c, u, n, i) => Reached(d, u, n, i)
  BY <1>1 DEF Reached
<1>6. \A i \in 1 .. Len(c) : c[i].seq - 1 \in Int
  BY <1>1, FrameTypes
<1>7. ASSUME NoGapInside(c, u), f.kind = "output" => NoGapAfter(c, u, f.seq - 1)
      PROVE  NoGapInside(d, u)
  <2>1. ASSUME NEW i \in 1 .. Len(c), d[i].kind = "output"
        PROVE  Replaced(d, i) \/ Reached(d, u, d[i].seq - 1, i)
    BY <1>1, <1>4, <1>5, <1>6, <1>7, <2>1 DEF NoGapInside
  <2>2. f.seq - 1 \in Int
    BY FrameTypes
  <2>3. ASSUME f.kind = "output"
        PROVE  Replaced(d, Len(c) + 1) \/ Reached(d, u, f.seq - 1, Len(c) + 1)
    BY <1>1, <1>4, <1>5, <1>7, <2>2, <2>3 DEF NoGapAfter
  <2>4. \A i \in 1 .. Len(d) : i \in 1 .. Len(c) \/ i = Len(c) + 1
    BY <1>1
  <2> QED
    BY <1>1, <2>1, <2>3, <2>4 DEF NoGapInside
<1>8. ASSUME f.kind = "snapshot" PROVE NoGapInside(d, u) /\ HoldsSnapshot(d)
  <2>1. \A i \in 1 .. Len(d) : i \in 1 .. Len(c) \/ d[i].kind # "output"
    BY <1>1, <1>8
  <2>2. \A i \in 1 .. Len(c) : Replaced(d, i)
    BY <1>1, <1>8 DEF Replaced
  <2> QED
    BY <1>1, <1>8, <2>1, <2>2 DEF NoGapInside, HoldsSnapshot
<1>9. Replaced(c, Len(c) + 1) \/ f.kind = "resync" => Replaced(d, Len(d) + 1)
  BY <1>1 DEF Replaced
<1>10. ASSUME NEW n \in Nat
       PROVE  /\ Reached(c, u, n, Len(c) + 1) => Reached(d, u, n, Len(d) + 1)
              /\ Draws(f) /\ n <= f.seq => Reached(d, u, n, Len(d) + 1)
  BY <1>1 DEF Reached
<1>11. HoldsSnapshot(c) => HoldsSnapshot(d)
  BY <1>1 DEF HoldsSnapshot
<1> QED
  BY <1>2, <1>3, <1>7, <1>8, <1>9, <1>10, <1>11 DEF d

\* The chunks a daemon resumes with, those after `a` up to `n`, leave no gap on a
\* screen that has everything up to `a`.
LEMMA ResumeKeeps ==
    ASSUME NEW a \in Nat, NEW n \in Nat, a <= n, NEW u \in Nat
    PROVE  LET c == [i \in 1 .. (n - a) |-> Output(a + i)]
           IN  /\ c \in Seq(Frame) /\ Len(c) = n - a /\ ~HoldsSnapshot(c)
               /\ NothingNewer(c, n) /\ SnapshotsAreCurrent(c, u)
               /\ a <= u => NoGapInside(c, u) /\ NoGapAfter(c, u, n)
<1> DEFINE c == [i \in 1 .. (n - a) |-> Output(a + i)]
<1>1. \A i \in 1 .. (n - a) : a + i \in Nat /\ Output(a + i) \in Frame
  BY FrameTypes, EventTypes
<1>2. c \in Seq(Frame) /\ Len(c) = n - a
  BY <1>1
<1>3. \A i \in 1 .. Len(c) : c[i].kind = "output" /\ c[i].seq = a + i
  BY <1>2 DEF Output
<1> HIDE DEF c
<1>4. ~HoldsSnapshot(c) /\ SnapshotsAreCurrent(c, u) /\ NothingNewer(c, n)
  BY <1>2, <1>3 DEF HoldsSnapshot, SnapshotsAreCurrent, NothingNewer
<1>5. ASSUME a <= u, NEW i \in 1 .. (Len(c) + 1) PROVE Reached(c, u, a + i - 1, i)
  <2>1. CASE i = 1
    BY <1>5, <2>1 DEF Reached
  <2>2. CASE i # 1
    <3>1. i - 1 \in 1 .. Len(c) /\ i - 1 \in 1 .. (i - 1)
      BY <1>2, <2>2
    <3>2. Draws(c[i - 1]) /\ c[i - 1].seq = a + i - 1
      BY <1>3, <3>1 DEF Draws
    <3> QED
      BY <3>1, <3>2 DEF Reached
  <2> QED
    BY <2>1, <2>2
<1>6. ASSUME a <= u PROVE NoGapInside(c, u)
  <2>1. \A i \in 1 .. Len(c) : i \in 1 .. (Len(c) + 1) /\ c[i].seq - 1 = a + i - 1
    BY <1>2, <1>3
  <2> QED
    BY <1>5, <1>6, <2>1 DEF NoGapInside
<1>7. ASSUME a <= u PROVE NoGapAfter(c, u, n)
  <2>1. Len(c) + 1 \in 1 .. (Len(c) + 1) /\ a + (Len(c) + 1) - 1 = n
    BY <1>2
  <2> QED
    BY <1>5, <1>7, <2>1 DEF NoGapAfter
<1> QED
  BY <1>2, <1>4, <1>6, <1>7 DEF c

\* Taking the first frame off the wire takes it off what is coming.
LEMMA TailOfConcat ==
    ASSUME NEW S, NEW s \in Seq(S), NEW t \in Seq(S), s # <<>>
    PROVE  /\ Tail(s) \o t = Tail(s \o t)
           /\ Head(s) = Head(s \o t) /\ s \o t # <<>>
<1> DEFINE c == s \o t
           b == Tail(s)
           d == b \o t
<1>1. /\ c \in Seq(S) /\ Len(c) = Len(s) + Len(t)
      /\ \A i \in 1 .. Len(c) : c[i] = IF i <= Len(s) THEN s[i] ELSE t[i - Len(s)]
  BY ConcatProperties
<1>2. /\ b \in Seq(S) /\ Len(b) = Len(s) - 1
      /\ \A i \in 1 .. Len(b) : b[i] = s[i + 1]
      /\ Len(s) \in Nat /\ Len(t) \in Nat /\ Len(s) >= 1
  OBVIOUS
<1> HIDE DEF b
<1>3. /\ d \in Seq(S) /\ Len(d) = Len(b) + Len(t)
      /\ \A i \in 1 .. Len(d) : d[i] = IF i <= Len(b) THEN b[i] ELSE t[i - Len(b)]
  BY <1>2, ConcatProperties
<1> HIDE DEF c, d
<1>4. c # <<>>
  BY <1>1, <1>2
<1>5. /\ Tail(c) \in Seq(S) /\ Len(Tail(c)) = Len(c) - 1
      /\ \A i \in 1 .. Len(Tail(c)) : Tail(c)[i] = c[i + 1]
      /\ Head(c) = c[1] /\ Head(s) = s[1]
  BY <1>1, <1>2, <1>4
<1>6. Len(d) = Len(Tail(c)) /\ \A i \in 1 .. Len(d) : d[i] = Tail(c)[i]
  BY <1>1, <1>2, <1>3, <1>5
<1>7. d = Tail(c)
  BY <1>3, <1>5, <1>6, SeqEqual
<1>8. Head(c) = Head(s)
  BY <1>1, <1>2, <1>5
<1> QED
  BY <1>4, <1>7, <1>8 DEF b, c, d

-----------------------------------------------------------------------------
(* The session inside the connection. *)

\* The connection's subscription is one of the session's.
LEMMA MineIsOne == Mine \in Subs
BY SubsAssumption DEF Mine

\* Whatever the connection does, the session takes one of its own steps or none.
LEMMA StepOfSession == [ReattachNext]_allVars => [Next]_vars
<1> SUFFICES ASSUME [ReattachNext]_allVars PROVE [Next]_vars
  OBVIOUS
<1> USE MineIsOne
<1>1. CASE DropOldAttachment
  BY <1>1 DEF DropOldAttachment, Next
<1>2. CASE TakeAttach
  BY <1>2 DEF TakeAttach, Next, AttachSteps
<1>3. CASE WriteAttachState
  BY <1>3 DEF WriteAttachState, vars
<1>4. CASE ForwardToWire
  BY <1>4 DEF ForwardToWire, Next
<1>5. CASE SessionRunsOn
  BY <1>5 DEF SessionRunsOn, Next, AttachSteps
<1>6. CASE Connect
  BY <1>6 DEF Connect, vars
<1>7. CASE Drop
  BY <1>7 DEF Drop, Next, vars
<1>8. CASE HandleFrame
  BY <1>8 DEF HandleFrame, vars
<1>9. CASE UNCHANGED allVars
  BY <1>9 DEF allVars
<1> QED
  BY <1>1, <1>2, <1>3, <1>4, <1>5, <1>6, <1>7, <1>8, <1>9
     DEF ReattachNext, DaemonSteps, ClientSteps

\* A session that is attached to over a link that drops is still a session:
\* all that is proved of SessionStream holds of it.
THEOREM SessionInside == ReattachSpec => Spec
<1>1. ReattachInit => Init
  BY DEF ReattachInit
<1> QED
  BY <1>1, StepOfSession, PTL DEF ReattachSpec, Spec

\* A session records one chunk at a time and forgets what is beyond its history.
LEMMA HistoryStep == TypeOK /\ HistoryBounded /\ [Next]_vars => HistoryBounded'
<1> SUFFICES ASSUME TypeOK, HistoryBounded, [Next]_vars PROVE HistoryBounded'
  OBVIOUS
<1>t. sequence \in Nat /\ oldest \in Nat
  BY DEF TypeOK
<1>1. CASE RecordOutput
  BY <1>t, <1>1, HistoryAssumption DEF RecordOutput, HistoryBounded
<1>2. CASE UNCHANGED <<sequence, oldest>>
  BY <1>2 DEF HistoryBounded
<1> QED
  BY <1>1, <1>2
     DEF Next, ReaderSteps, StatusSteps, BroadcastSteps, AttachSteps, Finish, CheckAlive,
         KeepStatus, StoreStatus, StampStatus, SnapshotSubscribers, PushTo, BroadcastDone,
         Register, ReadStatus, PushStatus, ReplayExit, Forward, Close, vars, sessionVars

\* What is coming is a sequence of frames, and empty only if nothing is on either part.
LEMMA ComingType ==
    ASSUME LinkTypes, ReplyTypes
    PROVE  /\ Coming \in Seq(Frame)
           /\ \A i \in 1 .. Len(Coming) : Coming[i] \in Frame /\ Coming[i].seq \in Nat
           /\ Coming = <<>> => wire = <<>> /\ reply.frames = <<>>
           /\ reply = NoReply => Coming = wire
<1>1. wire \in Seq(Frame) /\ reply.frames \in Seq(Frame)
  BY DEF LinkTypes, ReplyTypes
<1>2. Coming \in Seq(Frame)
  BY <1>1, ConcatProperties DEF Coming
<1>3. \A i \in 1 .. Len(Coming) : Coming[i] \in Frame /\ Coming[i].seq \in Nat
  BY <1>2, FrameTypes
<1>4. Len(Coming) = Len(wire) + Len(reply.frames)
  BY <1>1, ConcatProperties DEF Coming
<1>5. Coming = <<>> => wire = <<>> /\ reply.frames = <<>>
  BY <1>1, <1>2, <1>4
<1>6. reply = NoReply => Coming = wire
  BY <1>1, ConcatEmptySeq DEF Coming, NoReply
<1> QED
  BY <1>2, <1>3, <1>5, <1>6

\* A step of the session that moves nothing on the connection: the sequence only
\* grows, and the attachment, if it still is served, stands where it stood.
LEMMA ComingStays ==
    ASSUME TypeOK, TypeOK', LinkTypes, DownIsIdle, FirstAttachIsAlone, NothingFromTheFuture, NoLastingGap,
           Coming' = Coming, UNCHANGED <<up, requests, clientVars>>, sequence <= sequence',
           Served' => /\ Served /\ applied'[Mine] = applied[Mine] /\ told'[Mine] = told[Mine],
           ReplyTypes
    PROVE  DownIsIdle' /\ FirstAttachIsAlone' /\ NothingFromTheFuture' /\ NoLastingGap'
<1>1. DownIsIdle'
  BY DEF DownIsIdle, clientVars, Backed
<1>2. FirstAttachIsAlone'
  BY DEF FirstAttachIsAlone, clientVars, Backed
<1>t. /\ sequence \in Nat /\ sequence' \in Nat /\ screen.upto \in Nat
      /\ Coming \in Seq(Frame) /\ \A i \in 1 .. Len(Coming) : Coming[i].seq \in Nat
  BY ComingType DEF TypeOK, LinkTypes
<1>3. NothingFromTheFuture'
  <2>1. screen' = screen
    BY DEF clientVars
  <2>2. \A c : c = Coming => NothingNewer(c, sequence')
    BY <1>t DEF NothingFromTheFuture, NothingNewer
  <2> QED
    BY <1>t, <2>1, <2>2 DEF NothingFromTheFuture
<1>4. NoLastingGap'
  BY DEF NoLastingGap, clientVars, SnapshotAsked
<1> QED
  BY <1>1, <1>2, <1>3, <1>4

-----------------------------------------------------------------------------
(* The steps, one lemma each. *)

\* What the session does whether or not anybody watches leaves the connection alone.
LEMMA SessionRunsOnKeeps ==
    ASSUME TypeOK, TypeOK', LinkInv, SessionRunsOn PROVE LinkInv'
<1>m. Mine \in Subs
  BY MineIsOne
<1>1. /\ UNCHANGED <<up, drops, requests, wire, reply, clientVars>>
      /\ UNCHANGED <<applied, told>>
  BY DEF SessionRunsOn, linkVars, ReaderSteps, StatusSteps, BroadcastSteps, RecordOutput, Finish,
         CheckAlive, KeepStatus, StampStatus, StoreStatus, SnapshotSubscribers, PushTo, BroadcastDone,
         ReadStatus, PushStatus, ReplayExit, consumerVars
<1>2. sequence <= sequence'
  <2>1. sequence' = sequence \/ sequence' = sequence + 1
    BY DEF SessionRunsOn, ReaderSteps, StatusSteps, BroadcastSteps, RecordOutput, Finish,
           CheckAlive, KeepStatus, StampStatus, StoreStatus, SnapshotSubscribers, PushTo, BroadcastDone,
           ReadStatus, PushStatus, ReplayExit, sessionVars
  <2> QED
    BY <2>1 DEF TypeOK
<1>3. Served' => Served
  <2>1. CASE handshake' = handshake
    BY <2>1 DEF Served
  <2>2. CASE ReadStatus(Mine) \/ PushStatus(Mine) \/ ReplayExit(Mine)
    BY <2>2 DEF ReadStatus, PushStatus, ReplayExit, Served, Attaching
  <2> QED
    BY <2>1, <2>2
       DEF SessionRunsOn, ReaderSteps, StatusSteps, BroadcastSteps, RecordOutput, Finish, CheckAlive,
           KeepStatus, StampStatus, StoreStatus, SnapshotSubscribers, PushTo, BroadcastDone
<1>4. LinkTypes' /\ ReplyTypes' /\ Coming' = Coming
  BY <1>1 DEF LinkInv, LinkTypes, ReplyTypes, HoldsSnapshot, Coming, clientVars
<1>5. DownIsIdle' /\ FirstAttachIsAlone' /\ NothingFromTheFuture' /\ NoLastingGap'
  BY <1>1, <1>2, <1>3, <1>4, ComingStays DEF LinkInv
<1> QED
  BY <1>4, <1>5 DEF LinkInv

\* The attachment that is dropped takes chunks with it, with a snapshot asked for.
LEMMA DropOldAttachmentKeeps ==
    ASSUME TypeOK, TypeOK', LinkInv, DropOldAttachment PROVE LinkInv'
<1>m. Mine \in Subs
  BY MineIsOne
<1>1. UNCHANGED <<up, drops, requests, wire, reply, clientVars, sequence>>
  BY DEF DropOldAttachment, linkVars, Close, sessionVars
<1>2. ~Served'
  BY <1>m DEF DropOldAttachment, Close, NotAttached, Served, Attaching, TypeOK
<1>3. sequence <= sequence'
  BY <1>1 DEF TypeOK
<1>4. LinkTypes' /\ ReplyTypes' /\ Coming' = Coming
  BY <1>1 DEF LinkInv, LinkTypes, ReplyTypes, HoldsSnapshot, Coming, clientVars
<1>5. DownIsIdle' /\ FirstAttachIsAlone' /\ NothingFromTheFuture' /\ NoLastingGap'
  BY <1>1, <1>2, <1>3, <1>4, ComingStays DEF LinkInv
<1> QED
  BY <1>4, <1>5 DEF LinkInv

\* Writing the reply changes where it is, not what is coming.
LEMMA WriteAttachStateKeeps ==
    ASSUME TypeOK, TypeOK', LinkInv, WriteAttachState PROVE LinkInv'
<1>1. /\ UNCHANGED <<up, drops, requests, clientVars, sequence, handshake, applied, told>>
      /\ wire' = Coming /\ reply' = NoReply /\ Len(wire) < WireCapacity
  BY DEF WriteAttachState, vars, Coming
<1>2. /\ wire \in Seq(Frame) /\ reply.frames \in Seq(Frame)
      /\ Len(reply.frames) <= Larger(1, HistoryChunks)
  BY DEF LinkInv, LinkTypes, ReplyTypes
<1>3. Coming \in Seq(Frame) /\ Len(Coming) = Len(wire) + Len(reply.frames)
  BY <1>2, ConcatProperties DEF Coming
<1>4. Len(Coming) <= WireCapacity - 1 + Larger(1, HistoryChunks)
  BY <1>1, <1>2, <1>3, HistoryAssumption, WireAssumption DEF Larger
<1>5. LinkTypes'
  BY <1>1, <1>3, <1>4 DEF LinkInv, LinkTypes, clientVars
<1>6. ReplyTypes'
  <2>1. NoReply.mode = "none" /\ NoReply.frames = <<>> /\ Len(NoReply.frames) = 0
    BY DEF NoReply
  <2>2. ~HoldsSnapshot(NoReply.frames)
    BY <2>1 DEF HoldsSnapshot
  <2>3. 0 <= Larger(1, HistoryChunks)
    BY HistoryAssumption DEF Larger
  <2>4. reply' = NoReply /\ NoReply.frames \in Seq(Frame)
    BY <1>1, <2>1
  <2> QED
    BY <2>1, <2>2, <2>3, <2>4 DEF ReplyTypes
<1>7. Coming' = Coming
  <2>1. Coming' = Coming \o <<>>
    BY <1>1 DEF Coming, NoReply
  <2> QED
    BY <2>1, <1>3, ConcatEmptySeq
<1>8. Served' => Served
  BY <1>1 DEF Served
<1>9. sequence <= sequence'
  BY <1>1 DEF TypeOK
<1>10. DownIsIdle' /\ FirstAttachIsAlone' /\ NothingFromTheFuture' /\ NoLastingGap'
  BY <1>1, <1>7, <1>8, <1>9, ComingStays DEF LinkInv
<1> QED
  BY <1>5, <1>6, <1>10 DEF LinkInv

\* Taking the attach state: either the chunks after the app's cursor, on a screen
\* that has everything up to it, or a snapshot of the session as it is.
LEMMA TakeAttachKeeps ==
    ASSUME TypeOK, TypeOK', HistoryBounded, LinkInv, TakeAttach PROVE LinkInv'
<1> DEFINE after == Head(requests)
<1>m. Mine \in Subs
  BY MineIsOne
<1>1. /\ up /\ requests # <<>> /\ reply = NoReply
      /\ reply' = AttachReply(after) /\ requests' = Tail(requests)
      /\ UNCHANGED <<up, drops, wire, cursor, screen, honest, sequence, oldest>>
      /\ ~Served /\ applied'[Mine] = sequence /\ ~told'[Mine]
  BY <1>m DEF TakeAttach, Register, clientVars, sessionVars, TypeOK, Served, Attaching
<1>2. /\ requests \in Seq(Cursor) /\ wire \in Seq(Frame) /\ screen.upto \in Nat
      /\ sequence \in Nat /\ oldest \in Nat /\ Coming = wire
  BY <1>1, ComingType DEF LinkInv, LinkTypes, TypeOK
<1>3. /\ after \in Cursor /\ after = requests[1] /\ 1 \in 1 .. Len(requests)
      /\ Tail(requests) \in Seq(Cursor) /\ Len(Tail(requests)) = Len(requests) - 1
      /\ \A i \in 1 .. Len(Tail(requests)) : Tail(requests)[i] = requests[i + 1]
      /\ Len(requests) \in Nat
  BY <1>1, <1>2
<1>4. LinkTypes'
  BY <1>1, <1>3 DEF LinkInv, LinkTypes
<1>5. DownIsIdle'
  BY <1>1 DEF DownIsIdle
<1>6. FirstAttachIsAlone'
  <2>1. \A i \in 1 .. Len(Tail(requests)) : i + 1 \in 1 .. Len(requests) /\ i + 1 # 1
    BY <1>3
  <2>2. \A i \in 1 .. Len(Tail(requests)) : Tail(requests)[i] = Nil
    BY <1>3, <2>1 DEF LinkInv, FirstAttachIsAlone
  <2> QED
    BY <1>1, <2>2 DEF FirstAttachIsAlone
<1> HIDE DEF after
<1>7. CASE after # Nil /\ after <= sequence /\ after + 1 >= oldest
  <2> DEFINE c == [i \in 1 .. (sequence - after) |-> Output(after + i)]
  <2>1. after \in Nat
    BY <1>3, <1>7 DEF Cursor
  <2>2. reply' = [mode |-> "resume", frames |-> c]
    BY <1>1, <1>7 DEF AttachReply
  <2>3. /\ Coming = <<>>
        /\ honest => after <= screen.upto /\ ~screen.hole
    BY <1>3, <1>7 DEF LinkInv, FirstAttachIsAlone, Backed
  <2>4. /\ c \in Seq(Frame) /\ Len(c) = sequence - after /\ ~HoldsSnapshot(c)
        /\ NothingNewer(c, sequence) /\ SnapshotsAreCurrent(c, screen.upto)
        /\ after <= screen.upto => NoGapInside(c, screen.upto) /\ NoGapAfter(c, screen.upto, sequence)
    BY <1>2, <1>7, <2>1, ResumeKeeps
  <2> HIDE DEF c
  <2>5. Coming' = c
    <3>1. Coming' = <<>> \o c
      BY <1>1, <1>2, <2>2, <2>3 DEF Coming
    <3> QED
      BY <2>4, <3>1, ConcatEmptySeq
  <2>6. Len(c) <= Larger(1, HistoryChunks)
    BY <1>2, <1>7, <2>1, <2>4, HistoryAssumption DEF HistoryBounded, Larger
  <2>7. ReplyTypes'
    BY <2>2, <2>4, <2>6 DEF ReplyTypes, NoReply
  <2>8. NothingFromTheFuture'
    BY <1>1, <2>4, <2>5 DEF LinkInv, NothingFromTheFuture
  <2>9. NoLastingGap'
    BY <1>1, <2>3, <2>4, <2>5 DEF NoLastingGap
  <2> QED
    BY <1>4, <1>5, <1>6, <2>7, <2>8, <2>9 DEF LinkInv
<1>8. CASE ~(after # Nil /\ after <= sequence /\ after + 1 >= oldest)
  <2> DEFINE f == SnapshotFrame(sequence)
             d == Append(wire, f)
  <2>1. reply' = [mode |-> "snapshot", frames |-> <<f>>]
    BY <1>1, <1>8 DEF AttachReply
  <2>2. f \in Frame /\ f.kind = "snapshot" /\ f.seq = sequence /\ Draws(f)
    BY <1>2, FrameTypes DEF SnapshotFrame, Draws
  <2> HIDE DEF f
  <2>3. Coming' = d
    <3>1. Coming' = wire \o <<f>>
      BY <1>1, <2>1 DEF Coming
    <3> QED
      BY <1>2, <2>2, <3>1, AppendIsConcat
  <2>4. ReplyTypes'
    <3>1. <<f>> \in Seq(Frame) /\ Len(<<f>>) = 1 /\ <<f>>[1] = f
      BY <2>2
    <3>2. HoldsSnapshot(<<f>>) /\ 1 <= Larger(1, HistoryChunks)
      BY <2>2, <3>1, HistoryAssumption DEF HoldsSnapshot, Larger
    <3>3. reply'.mode = "snapshot" /\ reply'.frames = <<f>>
      BY <2>1
    <3> QED
      BY <3>1, <3>2, <3>3 DEF ReplyTypes
  <2>5. /\ screen.upto <= sequence /\ NothingNewer(wire, sequence)
        /\ SnapshotsAreCurrent(wire, screen.upto)
    BY <1>2 DEF LinkInv, NothingFromTheFuture
  <2>6. /\ SnapshotsAreCurrent(d, screen.upto) /\ NothingNewer(d, sequence)
        /\ NoGapInside(d, screen.upto) /\ HoldsSnapshot(d)
        /\ Reached(d, screen.upto, sequence, Len(d) + 1)
    BY <1>2, <2>2, <2>5, AppendKeeps
  <2> HIDE DEF d
  <2>7. NothingFromTheFuture'
    BY <1>1, <2>3, <2>5, <2>6 DEF NothingFromTheFuture
  <2>8. NoLastingGap'
    BY <1>1, <2>3, <2>6 DEF NoLastingGap, NoGapAfter
  <2> QED
    BY <1>4, <1>5, <1>6, <2>4, <2>7, <2>8 DEF LinkInv
<1> QED
  BY <1>7, <1>8

\* What a queue holds was printed.
LEMMA FrontIsPrinted ==
    ASSUME TypeOK, StreamInv, NEW s \in Subs, queue[s].events # <<>>,
           Head(queue[s].events).kind = "output"
    PROVE  Head(queue[s].events).seq <= sequence
<1>1. /\ queue[s] \in Queue /\ Covered(s) \in Nat /\ Covered(s) <= sequence
      /\ InOrder(queue[s], Covered(s)) /\ sequence \in Nat
  BY CoveredType DEF TypeOK, StreamInv, QueueInv
<1>2. Head(queue[s].events) = queue[s].events[1] /\ 1 \in 1 .. Len(queue[s].events)
      /\ Head(queue[s].events).seq \in Nat
  BY <1>1, PopType, EventTypes DEF Queue
<1> QED
  BY <1>1, <1>2 DEF InOrder

\* An event is forwarded behind everything that is coming: it continues it, or
\* the client was told, and then a snapshot is or will be asked for.
LEMMA ForwardToWireKeeps ==
    ASSUME TypeOK, TypeOK', StreamInv, LinkInv, ForwardToWire PROVE LinkInv'
<1> DEFINE e == Head(queue[Mine].events)
           d == Append(wire, e)
<1>m. Mine \in Subs
  BY MineIsOne
<1>1. /\ up /\ reply = NoReply /\ Len(wire) < WireCapacity /\ wire' = d
      /\ UNCHANGED <<up, drops, requests, reply, cursor, screen, honest, sequence>>
      /\ handshake[Mine].phase = "attached" /\ queue[Mine].events # <<>>
      /\ applied'[Mine] = (IF e.kind = "output" /\ e.seq > applied[Mine] THEN e.seq ELSE applied[Mine])
      /\ told'[Mine] <=> (told[Mine] \/ e.kind = "resync")
  BY <1>m DEF ForwardToWire, Forward, clientVars, sessionVars, TypeOK
<1>2. /\ e \in Event /\ e.seq \in Nat /\ e.kind # "snapshot" /\ e \in Frame
      /\ applied[Mine] \in Nat /\ sequence \in Nat /\ screen.upto \in Nat
      /\ wire \in Seq(Frame) /\ Coming = wire /\ Len(wire) \in Nat
  BY <1>m, <1>1, PopType, FrameTypes, ComingType DEF LinkInv, LinkTypes, TypeOK
<1>3. e.kind = "output" => e.seq <= sequence
  BY <1>m, <1>1, FrontIsPrinted
<1>4. e.kind = "output" /\ ~told[Mine] => e.seq <= applied[Mine] + 1
  BY <1>m, <1>1, GapFree DEF NoSilentGap
<1>s. Served
  BY <1>1 DEF Served
<1> HIDE DEF e
<1>5. d \in Seq(Frame) /\ Len(d) = Len(wire) + 1
  BY <1>2
<1> HIDE DEF d
<1>6. Coming' = d
  BY <1>1, <1>5, ConcatEmptySeq DEF Coming, NoReply
<1>7. LinkTypes' /\ ReplyTypes'
  <2>1. Len(d) <= WireCapacity - 1 + Larger(1, HistoryChunks)
    BY <1>1, <1>2, <1>5, WireAssumption, HistoryAssumption DEF Larger
  <2> QED
    BY <1>1, <1>5, <2>1 DEF LinkInv, LinkTypes, ReplyTypes, HoldsSnapshot
<1>8. DownIsIdle'
  BY <1>1 DEF DownIsIdle
<1>9. FirstAttachIsAlone'
  <2>1. \A i \in 1 .. Len(requests) : requests[i] = Nil
    BY <1>s DEF LinkInv, FirstAttachIsAlone
  <2> QED
    BY <1>1, <2>1 DEF FirstAttachIsAlone
<1>10. /\ screen.upto <= sequence /\ NothingNewer(wire, sequence)
       /\ SnapshotsAreCurrent(wire, screen.upto)
  BY <1>2 DEF LinkInv, NothingFromTheFuture
<1>11. Draws(e) => e.kind = "output" /\ e.seq <= sequence
  BY <1>2, <1>3 DEF Draws
<1>12. SnapshotsAreCurrent(d, screen.upto) /\ NothingNewer(d, sequence)
  BY <1>2, <1>10, <1>11, AppendKeeps DEF d
<1>13. NothingFromTheFuture'
  BY <1>1, <1>6, <1>10, <1>12 DEF NothingFromTheFuture
<1>14. NoLastingGap'
  <2> SUFFICES ASSUME honest, ~SnapshotAsked
               PROVE  /\ NoGapInside(d, screen.upto)
                      /\ told'[Mine] => Replaced(d, Len(d) + 1)
                      /\ ~told'[Mine] => NoGapAfter(d, screen.upto, applied'[Mine])
                      /\ screen.hole => HoldsSnapshot(d)
    BY <1>1, <1>6 DEF NoLastingGap, SnapshotAsked
  <2>1. /\ NoGapInside(wire, screen.upto)
        /\ told[Mine] => Replaced(wire, Len(wire) + 1)
        /\ ~told[Mine] => NoGapAfter(wire, screen.upto, applied[Mine])
        /\ screen.hole => HoldsSnapshot(wire)
    BY <1>1, <1>2, <1>s DEF LinkInv, NoLastingGap
  <2>2. e.kind = "output" => NoGapAfter(wire, screen.upto, e.seq - 1)
    <3>1. CASE told[Mine]
      BY <2>1, <3>1 DEF NoGapAfter
    <3>2. ASSUME ~told[Mine], e.kind = "output" PROVE NoGapAfter(wire, screen.upto, e.seq - 1)
      <4>1. e.seq - 1 <= applied[Mine] /\ e.seq - 1 \in Int
        BY <1>2, <1>4, <3>2
      <4>2. \A j \in 1 .. Len(wire) : wire[j].seq \in Nat
        BY <1>2, FrameTypes
      <4>3. Reached(wire, screen.upto, applied[Mine], Len(wire) + 1)
            => Reached(wire, screen.upto, e.seq - 1, Len(wire) + 1)
        BY <1>2, <4>1, <4>2 DEF Reached
      <4> QED
        BY <2>1, <3>2, <4>3 DEF NoGapAfter
    <3> QED
      BY <3>1, <3>2
  <2>3. NoGapInside(d, screen.upto) /\ (screen.hole => HoldsSnapshot(d))
    BY <1>2, <2>1, <2>2, AppendKeeps DEF d
  <2>4. told'[Mine] => Replaced(d, Len(d) + 1)
    BY <1>1, <1>2, <2>1, AppendKeeps DEF d
  <2>5. ASSUME ~told'[Mine] PROVE NoGapAfter(d, screen.upto, applied'[Mine])
    <3>1. NoGapAfter(wire, screen.upto, applied[Mine])
      BY <1>1, <2>1, <2>5
    <3>2. CASE applied'[Mine] = applied[Mine]
      BY <1>2, <3>1, <3>2, AppendKeeps DEF d, NoGapAfter
    <3>3. CASE applied'[Mine] = e.seq /\ Draws(e)
      <4>1. Reached(d, screen.upto, e.seq, Len(d) + 1)
        BY <1>2, <3>3, AppendKeeps DEF d
      <4> QED
        BY <3>3, <4>1 DEF NoGapAfter
    <3> QED
      BY <1>1, <3>2, <3>3 DEF Draws
  <2> QED
    BY <2>3, <2>4, <2>5
<1> QED
  BY <1>7, <1>8, <1>9, <1>13, <1>14 DEF LinkInv

\* A new connection asks to go on from the cursor, which the screen backs unless
\* a drop was not honest.
LEMMA ConnectKeeps ==
    ASSUME TypeOK, TypeOK', LinkInv, Connect PROVE LinkInv'
<1>1. /\ ~up /\ up' /\ requests' = <<cursor>>
      /\ UNCHANGED <<vars, drops, wire, reply, cursor, screen, honest>>
      /\ UNCHANGED <<sequence, handshake, applied, told>>
  BY DEF Connect, clientVars, vars
<1>2. /\ requests = <<>> /\ Coming = <<>> /\ ~Served /\ (honest => Backed)
  BY <1>1 DEF LinkInv, DownIsIdle
<1>3. cursor \in Cursor /\ screen \in [upto : Nat, hole : BOOLEAN]
  BY DEF LinkInv, LinkTypes
<1>4. <<cursor>> \in Seq(Cursor) /\ Len(<<cursor>>) = 1 /\ <<cursor>>[1] = cursor
  BY <1>3
<1>5. /\ Coming' = Coming /\ ~Served' /\ (honest => Backed') /\ (up' \in BOOLEAN)
  BY <1>1, <1>2 DEF Coming, Served, Backed, Connect
<1>6. LinkTypes' /\ ReplyTypes'
  BY <1>1, <1>4, <1>5 DEF LinkInv, LinkTypes, ReplyTypes, HoldsSnapshot
<1>7. DownIsIdle'
  BY <1>1 DEF DownIsIdle
<1>8. FirstAttachIsAlone'
  BY <1>1, <1>2, <1>4, <1>5 DEF FirstAttachIsAlone
<1>9. NothingFromTheFuture'
  BY <1>1, <1>5 DEF LinkInv, NothingFromTheFuture
<1>10. NoLastingGap'
  <2>1. honest /\ ~SnapshotAsked' => cursor # Nil
    BY <1>1, <1>4 DEF SnapshotAsked
  <2>2. honest /\ ~SnapshotAsked' => ~screen.hole
    BY <1>2, <2>1 DEF Backed
  <2>3. NoGapInside(Coming, screen.upto)
    BY <1>2 DEF NoGapInside
  <2> QED
    BY <1>1, <1>5, <2>2, <2>3 DEF NoLastingGap
<1> QED
  BY <1>6, <1>7, <1>8, <1>9, <1>10 DEF LinkInv

\* A drop leaves nothing under way; it is honest only if the screen backs the cursor.
LEMMA DropKeeps ==
    ASSUME TypeOK, TypeOK', LinkInv, Drop PROVE LinkInv'
<1>m. Mine \in Subs
  BY MineIsOne
<1>1. /\ ~up' /\ drops' = drops + 1 /\ drops < MaxDrops
      /\ requests' = <<>> /\ wire' = <<>> /\ reply' = NoReply
      /\ honest' = (honest /\ Backed) /\ UNCHANGED <<cursor, screen, sequence>>
  BY DEF Drop, Close, vars, sessionVars
<1>2. ~Served'
  <2>1. CASE handshake[Mine].phase = "free" /\ UNCHANGED vars
    BY <2>1 DEF Served, Attaching, vars
  <2>2. CASE Close(Mine)
    BY <1>m, <2>2 DEF Close, NotAttached, Served, Attaching, TypeOK
  <2> QED
    BY <2>1, <2>2 DEF Drop
<1>3. Coming' = <<>> /\ Len(<<>>) = 0 /\ (honest' => Backed')
  <2>1. Coming' = <<>> \o <<>>
    BY <1>1 DEF Coming, NoReply
  <2> QED
    BY <1>1, <2>1, ConcatEmptySeq, EmptySeq DEF Backed
<1>4. LinkTypes'
  <2>1. drops' \in 0 .. MaxDrops
    BY <1>1, DropsAssumption DEF LinkInv, LinkTypes
  <2>2. 0 <= WireCapacity - 1 + Larger(1, HistoryChunks)
    BY WireAssumption, HistoryAssumption DEF Larger
  <2>3. honest' \in BOOLEAN /\ up' \in BOOLEAN
    BY DEF Drop
  <2> QED
    BY <1>1, <1>3, <2>1, <2>2, <2>3 DEF LinkInv, LinkTypes
<1>5. ReplyTypes'
  <2>1. NoReply.mode = "none" /\ NoReply.frames = <<>> /\ Len(NoReply.frames) = 0
    BY DEF NoReply
  <2>2. ~HoldsSnapshot(NoReply.frames) /\ NoReply.frames \in Seq(Frame)
    BY <2>1 DEF HoldsSnapshot
  <2>3. 0 <= Larger(1, HistoryChunks)
    BY HistoryAssumption DEF Larger
  <2> QED
    BY <1>1, <2>1, <2>2, <2>3 DEF ReplyTypes
<1>6. DownIsIdle' /\ FirstAttachIsAlone'
  BY <1>1, <1>2, <1>3 DEF DownIsIdle, FirstAttachIsAlone
<1>7. NothingFromTheFuture'
  <2>1. NothingNewer(<<>>, sequence) /\ SnapshotsAreCurrent(<<>>, screen.upto)
    BY <1>3 DEF NothingNewer, SnapshotsAreCurrent
  <2> QED
    BY <1>1, <1>3, <2>1 DEF LinkInv, NothingFromTheFuture
<1>8. NoLastingGap'
  <2>1. NoGapInside(<<>>, screen.upto)
    BY <1>3 DEF NoGapInside
  <2> QED
    BY <1>1, <1>2, <1>3, <2>1 DEF NoLastingGap
<1> QED
  BY <1>4, <1>5, <1>6, <1>7, <1>8 DEF LinkInv

\* A handled frame: a marker asks for a snapshot, output continues the screen or
\* leaves a hole that a snapshot behind it repairs.
LEMMA HandleFrameKeeps ==
    ASSUME TypeOK, TypeOK', LinkInv, HandleFrame PROVE LinkInv'
<1> DEFINE f == Head(wire)
           b == Tail(Coming)
<1>1. /\ up /\ up' = up /\ wire # <<>> /\ wire' = Tail(wire)
      /\ UNCHANGED <<drops, reply, honest, sequence, handshake, applied, told>>
      /\ IF f.kind = "resync"
         THEN cursor' = Nil /\ requests' = Append(requests, Nil) /\ screen' = screen
         ELSE cursor' = Moved(f.seq) /\ screen' = Drawn(f) /\ requests' = requests
  BY DEF HandleFrame, vars
<1>2. /\ wire \in Seq(Frame) /\ reply.frames \in Seq(Frame) /\ requests \in Seq(Cursor)
      /\ cursor \in Cursor /\ screen \in [upto : Nat, hole : BOOLEAN]
      /\ screen.upto \in Nat /\ screen.hole \in BOOLEAN
      /\ sequence \in Nat /\ applied[Mine] \in Nat
  BY MineIsOne DEF LinkInv, LinkTypes, ReplyTypes, TypeOK
<1>3. /\ Tail(wire) \in Seq(Frame) /\ Len(Tail(wire)) = Len(wire) - 1 /\ Len(wire) \in Nat
      /\ f \in Frame /\ f.seq \in Nat
  BY <1>1, <1>2, FrameTypes
<1>4. /\ Coming \in Seq(Frame) /\ Coming # <<>> /\ f = Head(Coming)
      /\ Tail(wire) \o reply.frames = b
  BY <1>1, <1>2, ComingType, TailOfConcat DEF Coming, LinkInv
<1>5. Coming' = b
  BY <1>1, <1>4 DEF Coming
<1>6. /\ \A i \in 1 .. Len(requests) : requests[i] = Nil
      /\ Served' <=> Served
  BY <1>1, <1>4 DEF LinkInv, FirstAttachIsAlone, Served
<1> HIDE DEF f
<1>7. /\ screen' \in [upto : Nat, hole : BOOLEAN] /\ cursor' \in Cursor
      /\ screen'.upto = DrawnOn(screen.upto, f)
  <2>1. /\ \A n \in Nat : Larger(screen.upto, n) \in Nat
        /\ Moved(f.seq) \in Nat
    BY <1>2, <1>3 DEF Moved, Larger, Cursor, Nil
  <2>2. Larger(screen.upto, f.seq) \in Nat
    BY <1>3, <2>1
  <2>3. CASE f.kind = "resync"
    BY <1>1, <1>2, <2>3 DEF DrawnOn, Cursor
  <2>4. CASE f.kind = "snapshot"
    <3>1. /\ screen' = [upto |-> f.seq, hole |-> FALSE]
          /\ DrawnOn(screen.upto, f) = f.seq
      BY <1>1, <2>4 DEF Drawn, DrawnOn
    <3>2. cursor' \in Cursor
      BY <1>1, <2>1, <2>4 DEF Cursor
    <3> QED
      BY <1>3, <3>1, <3>2
  <2>5. CASE f.kind = "output"
    <3>1. /\ screen' = [upto |-> Larger(screen.upto, f.seq),
                        hole |-> screen.hole \/ f.seq > screen.upto + 1]
          /\ DrawnOn(screen.upto, f) = Larger(screen.upto, f.seq)
          /\ cursor' \in Cursor
      BY <1>1, <2>1, <2>5 DEF Drawn, DrawnOn, Cursor
    <3>2. (screen.hole \/ f.seq > screen.upto + 1) \in BOOLEAN
      OBVIOUS
    <3> QED
      BY <2>2, <3>1, <3>2
  <2>6. CASE f.kind \notin {"resync", "snapshot", "output"}
    BY <1>1, <1>2, <2>1, <2>6 DEF Drawn, DrawnOn, Cursor
  <2> QED
    BY <2>3, <2>4, <2>5, <2>6
<1>8. /\ requests' \in Seq(Cursor)
      /\ \A i \in 1 .. Len(requests') : requests'[i] = Nil
      /\ SnapshotAsked' <=> (SnapshotAsked \/ f.kind = "resync")
  <2>1. Nil \in Cursor
    BY DEF Cursor
  <2>2. CASE f.kind = "resync"
    <3>1. /\ requests' \in Seq(Cursor) /\ Len(requests') = Len(requests) + 1 /\ Len(requests) \in Nat
          /\ \A i \in 1 .. Len(requests) : requests'[i] = requests[i]
          /\ requests'[Len(requests) + 1] = Nil
      <4>1. requests' = Append(requests, Nil)
        BY <1>1, <2>2
      <4> QED
        BY <1>2, <2>1, <4>1, AppendProperties
    <3>2. \A i \in 1 .. Len(requests') : requests'[i] = Nil
      BY <1>6, <3>1
    <3>3. SnapshotAsked'
      BY <3>1 DEF SnapshotAsked
    <3> QED
      BY <2>2, <3>1, <3>2, <3>3
  <2>3. CASE f.kind # "resync"
    <3>1. requests' = requests
      BY <1>1, <2>3
    <3> QED
      BY <1>2, <1>6, <2>3, <3>1 DEF SnapshotAsked
  <2> QED
    BY <2>2, <2>3
<1>9. LinkTypes' /\ ReplyTypes'
  <2>1. Len(Tail(wire)) <= WireCapacity - 1 + Larger(1, HistoryChunks)
    BY <1>3, WireAssumption, HistoryAssumption DEF LinkInv, LinkTypes, Larger
  <2> QED
    BY <1>1, <1>3, <1>7, <1>8, <2>1 DEF LinkInv, LinkTypes, ReplyTypes, HoldsSnapshot
<1>10. DownIsIdle' /\ FirstAttachIsAlone'
  BY <1>1, <1>8 DEF DownIsIdle, FirstAttachIsAlone
<1> DEFINE v == DrawnOn(screen.upto, f)
<1>11. /\ screen.upto <= sequence /\ NothingNewer(Coming, sequence)
       /\ SnapshotsAreCurrent(Coming, screen.upto)
  BY DEF LinkInv, NothingFromTheFuture
<1>12. /\ v <= sequence /\ NothingNewer(b, sequence) /\ SnapshotsAreCurrent(b, v)
       /\ NoGapInside(Coming, screen.upto) /\ f.kind # "resync" => NoGapInside(b, v)
       /\ NoGapAfter(Coming, screen.upto, applied[Mine]) /\ f.kind # "resync"
             => NoGapAfter(b, v, applied[Mine])
       /\ Replaced(Coming, Len(Coming) + 1) /\ f.kind # "resync" => Replaced(b, Len(b) + 1)
       /\ HoldsSnapshot(Coming) /\ f.kind # "snapshot" => HoldsSnapshot(b)
  BY <1>2, <1>4, <1>11, HandleKeeps
<1> HIDE DEF b, v
<1>13. NothingFromTheFuture'
  BY <1>1, <1>5, <1>7, <1>12 DEF NothingFromTheFuture, v
<1>14. NoLastingGap'
  <2> SUFFICES ASSUME honest, ~SnapshotAsked, f.kind # "resync"
               PROVE  /\ NoGapInside(b, v)
                      /\ Served /\ told[Mine] => Replaced(b, Len(b) + 1)
                      /\ Served /\ ~told[Mine] => NoGapAfter(b, v, applied[Mine])
                      /\ screen'.hole => HoldsSnapshot(b)
    BY <1>1, <1>5, <1>6, <1>7, <1>8 DEF NoLastingGap, v
  <2>1. /\ NoGapInside(Coming, screen.upto)
        /\ Served /\ told[Mine] => Replaced(Coming, Len(Coming) + 1)
        /\ Served /\ ~told[Mine] => NoGapAfter(Coming, screen.upto, applied[Mine])
        /\ screen.hole => HoldsSnapshot(Coming)
    BY <1>1 DEF LinkInv, NoLastingGap
  <2>2. screen'.hole => HoldsSnapshot(b)
    <3>1. CASE f.kind = "snapshot"
      BY <1>1, <3>1 DEF Drawn
    <3>2. CASE f.kind = "output"
      <4>1. screen'.hole = (screen.hole \/ f.seq > screen.upto + 1)
        BY <1>1, <3>2 DEF Drawn
      <4>2. ASSUME f.seq > screen.upto + 1 PROVE HoldsSnapshot(Coming)
        <5>1. Coming[1] = f /\ 1 \in 1 .. Len(Coming) /\ Len(Coming) \in Nat
          BY <1>4
        <5>2. Replaced(Coming, 1) \/ Reached(Coming, screen.upto, f.seq - 1, 1)
          BY <2>1, <3>2, <5>1 DEF NoGapInside
        <5>3. ~Reached(Coming, screen.upto, f.seq - 1, 1)
          BY <1>2, <1>3, <4>2 DEF Reached
        <5>4. PICK k \in 2 .. Len(Coming) : Coming[k].kind = "snapshot"
          BY <5>2, <5>3 DEF Replaced
        <5> QED
          BY <5>1, <5>4 DEF HoldsSnapshot
      <4> QED
        BY <1>12, <2>1, <3>2, <4>1, <4>2
    <3>3. CASE f.kind \notin {"output", "snapshot"}
      <4>1. screen' = screen
        BY <1>1, <3>3 DEF Drawn
      <4> QED
        BY <1>12, <2>1, <3>3, <4>1
    <3> QED
      BY <3>1, <3>2, <3>3
  <2> QED
    BY <1>12, <2>1, <2>2
<1> QED
  BY <1>9, <1>10, <1>13, <1>14 DEF LinkInv

-----------------------------------------------------------------------------
(* The theorems. *)

\* Nothing is under way before the first connection.
LEMMA InitReattach == ReattachInit => ReattachInv
<1> SUFFICES ASSUME ReattachInit PROVE ReattachInv
  OBVIOUS
<1>1. /\ sequence = 0 /\ oldest = 1 /\ ~up /\ up \in BOOLEAN /\ drops = 0 /\ honest = TRUE
      /\ requests = <<>> /\ wire = <<>> /\ reply = NoReply /\ cursor = Nil
      /\ screen = [upto |-> 0, hole |-> FALSE]
  BY DEF ReattachInit, Init
<1>2. ~Served
  BY MineIsOne DEF ReattachInit, Init, NotAttached, Served, Attaching
<1>3. Coming = <<>> /\ Len(<<>>) = 0
  <2>1. Coming = <<>> \o <<>>
    BY <1>1 DEF Coming, NoReply
  <2> QED
    BY <2>1, ConcatEmptySeq, EmptySeq
<1>4. HistoryBounded
  BY <1>1, HistoryAssumption DEF HistoryBounded
<1>5. LinkTypes /\ ReplyTypes
  BY <1>1, <1>3, HistoryAssumption, WireAssumption, DropsAssumption
     DEF LinkTypes, ReplyTypes, Larger, Cursor, NoReply, HoldsSnapshot
<1>6. DownIsIdle /\ FirstAttachIsAlone
  BY <1>1, <1>2, <1>3 DEF DownIsIdle, FirstAttachIsAlone, Backed
<1>7. NothingFromTheFuture
  BY <1>1, <1>3 DEF NothingFromTheFuture, NothingNewer, SnapshotsAreCurrent
<1>8. NoLastingGap
  BY <1>1, <1>2, <1>3 DEF NoLastingGap, NoGapInside
<1> QED
  BY <1>4, <1>5, <1>6, <1>7, <1>8 DEF ReattachInv, LinkInv

\* Every step of the daemon and of the app keeps the invariant.
LEMMA NextReattach ==
    TypeOK /\ TypeOK' /\ StreamInv /\ ReattachInv /\ [ReattachNext]_allVars => ReattachInv'
<1> SUFFICES ASSUME TypeOK, TypeOK', StreamInv, ReattachInv, [ReattachNext]_allVars
             PROVE  ReattachInv'
  OBVIOUS
<1>1. HistoryBounded /\ LinkInv
  BY DEF ReattachInv
<1>2. HistoryBounded'
  BY <1>1, HistoryStep, StepOfSession
<1>3. LinkInv'
  <2>1. CASE UNCHANGED allVars
    BY <1>1, <2>1
       DEF allVars, vars, LinkInv, LinkTypes, ReplyTypes, DownIsIdle, FirstAttachIsAlone, Coming, Served,
           Backed, NothingFromTheFuture, NoLastingGap, SnapshotAsked
  <2> QED
    BY <1>1, <2>1, SessionRunsOnKeeps, DropOldAttachmentKeeps, TakeAttachKeeps, WriteAttachStateKeeps,
       ForwardToWireKeeps, ConnectKeeps, DropKeeps, HandleFrameKeeps
       DEF ReattachNext, DaemonSteps, ClientSteps
<1> QED
  BY <1>2, <1>3 DEF ReattachInv

\* Whatever is coming to the client carries the chunks it lacks in order, or is
\* followed by a snapshot, in every reachable state whose drops were honest.
THEOREM ReattachCorrect == ReattachSpec => [](TypeOK /\ StreamInv /\ ReattachInv)
<1>1. ReattachInit => TypeOK /\ StreamInv /\ ReattachInv
  BY InitType, InitStream, InitReattach DEF ReattachInit
<1>2. (TypeOK /\ StreamInv /\ ReattachInv) /\ [ReattachNext]_allVars
      => (TypeOK /\ StreamInv /\ ReattachInv)'
  BY StepOfSession, NextType, NextStream, NextReattach
<1> QED
  BY <1>1, <1>2, PTL DEF ReattachSpec

\* The link and the app are always well formed, and a client that does not read
\* costs the daemon no more than the socket's buffer and one reply.
THEOREM ReattachTypeCorrect == ReattachSpec => []ReattachTypeOK
<1>1. ReattachInv => ReattachTypeOK
  <2> SUFFICES ASSUME ReattachInv PROVE ReattachTypeOK
    OBVIOUS
  <2>1. LinkTypes /\ ReplyTypes
    BY DEF ReattachInv, LinkInv
  <2>2. \A i \in 1 .. Len(requests) : requests[i] \in {Nil} \cup Nat
    BY <2>1 DEF LinkTypes, Cursor
  <2> QED
    BY <2>1, <2>2 DEF LinkTypes, ReplyTypes, Cursor, ReattachTypeOK
<1> QED
  BY <1>1, ReattachCorrect, PTL

\* As long as every drop found a cursor the screen backs, a screen with a missing
\* chunk is always about to be replaced: overflow, resync, live output, a resume
\* and drops in any order leave no lasting hole.
THEOREM HolesRepaired == ReattachSpec => []HolesAreRepairedAfterHonestDrops
<1>1. ReattachInv => HolesAreRepairedAfterHonestDrops
  <2> SUFFICES ASSUME ReattachInv, honest, screen.hole
               PROVE  IF up THEN SnapshotComing ELSE cursor = Nil
    BY DEF HolesAreRepairedAfterHonestDrops, HolesAreRepaired
  <2>1. CASE ~up
    BY <2>1 DEF ReattachInv, LinkInv, DownIsIdle, Backed
  <2>2. CASE up /\ SnapshotAsked
    BY <2>2 DEF SnapshotAsked, SnapshotComing
  <2>3. CASE up /\ ~SnapshotAsked
    <3>1. PICK i \in 1 .. Len(Coming) : Coming[i].kind = "snapshot"
      BY <2>3 DEF ReattachInv, LinkInv, NoLastingGap, HoldsSnapshot
    <3>2. wire \in Seq(Frame) /\ reply.frames \in Seq(Frame)
      BY DEF ReattachInv, LinkInv, LinkTypes, ReplyTypes
    <3>3. /\ Len(Coming) = Len(wire) + Len(reply.frames)
          /\ Coming[i] = IF i <= Len(wire) THEN wire[i] ELSE reply.frames[i - Len(wire)]
          /\ Len(wire) \in Nat /\ Len(reply.frames) \in Nat
      BY <3>2, ConcatProperties DEF Coming
    <3>4. CASE i <= Len(wire)
      BY <2>3, <3>1, <3>3, <3>4 DEF SnapshotComing
    <3>5. CASE i > Len(wire)
      <4>1. i - Len(wire) \in 1 .. Len(reply.frames) /\ reply.frames[i - Len(wire)].kind = "snapshot"
        BY <3>1, <3>3, <3>5
      <4>2. reply.mode = "snapshot"
        BY <4>1 DEF ReattachInv, LinkInv, ReplyTypes, HoldsSnapshot
      <4> QED
        BY <2>3, <4>2 DEF SnapshotComing
    <3> QED
      BY <3>3, <3>4, <3>5
  <2> QED
    BY <2>1, <2>2, <2>3
<1> QED
  BY <1>1, ReattachCorrect, PTL

\* The screen never goes back: a snapshot that arrives, however late, is at least
\* as new as everything that was drawn before it.
THEOREM ScreenNeverGoesBack == ReattachSpec => [][screen.upto <= screen'.upto]_allVars
<1>1. ReattachInv /\ [ReattachNext]_allVars => [screen.upto <= screen'.upto]_allVars
  <2> SUFFICES ASSUME ReattachInv, [ReattachNext]_allVars PROVE screen.upto <= screen'.upto
    OBVIOUS
  <2>1. /\ screen.upto \in Nat /\ wire \in Seq(Frame) /\ reply.frames \in Seq(Frame)
        /\ Coming \in Seq(Frame) /\ SnapshotsAreCurrent(Coming, screen.upto)
    BY ComingType DEF ReattachInv, LinkInv, LinkTypes, ReplyTypes, NothingFromTheFuture
  <2>2. CASE screen' = screen
    BY <2>1, <2>2
  <2>3. CASE HandleFrame /\ screen' = Drawn(Head(wire))
    <3>1. wire # <<>> /\ Head(wire) \in Frame /\ Head(wire).seq \in Nat
      BY <2>1, <2>3, FrameTypes DEF HandleFrame
    <3>2. Coming # <<>> /\ Head(wire) = Head(Coming)
      BY <2>1, <3>1, TailOfConcat DEF Coming
    <3>3. Head(wire) = Coming[1] /\ 1 \in 1 .. Len(Coming)
      BY <2>1, <3>2
    <3>4. CASE Head(wire).kind = "snapshot"
      BY <2>1, <2>3, <3>3, <3>4 DEF SnapshotsAreCurrent, Drawn
    <3>5. CASE Head(wire).kind = "output"
      BY <2>1, <2>3, <3>1, <3>5 DEF Drawn, Larger
    <3>6. CASE Head(wire).kind \notin {"snapshot", "output"}
      <4>1. screen' = screen
        BY <2>3, <3>6 DEF Drawn
      <4> QED
        BY <2>1, <4>1
    <3> QED
      BY <3>4, <3>5, <3>6
  <2> QED
    BY <2>2, <2>3
       DEF ReattachNext, DaemonSteps, ClientSteps, DropOldAttachment, TakeAttach, WriteAttachState,
           ForwardToWire, SessionRunsOn, Connect, Drop, HandleFrame, clientVars, allVars
<1> QED
  BY <1>1, ReattachCorrect, PTL DEF ReattachSpec
=============================================================================
