--------------------------- MODULE SessionStream ---------------------------
(***************************************************************************)
(* One PTY session of the daemon and the fan-out of its events             *)
(* (crates/omniagent-pty-daemon/src/session.rs).                           *)
(*                                                                         *)
(* Two threads produce events.  The reader thread records every chunk it   *)
(* reads under the terminal lock and broadcasts it after the lock is gone; *)
(* at end of file it records the exit and broadcasts that.  The status     *)
(* thread polls, stores a changed status and broadcasts it.  A broadcast   *)
(* copies the list of live subscribers under a lock and then pushes to     *)
(* each of them outside it, so the two threads, the attaching handlers and *)
(* the forwarding tasks interleave between any two pushes.                 *)
(*                                                                         *)
(* Each subscription is a bounded queue.  When it overflows the queue is   *)
(* emptied and, if output was lost, a ResyncRequired marker is left.       *)
(***************************************************************************)
EXTENDS Integers, Sequences

CONSTANTS
    Subs,             \* subscriptions (one per Attach, alive until its drop)
    Capacity,         \* CLIENT_QUEUE_CAPACITY: events one queue holds
    HistoryChunks,    \* OUTPUT_HISTORY_CHUNKS: chunks kept for a resume
    Statuses,         \* the values of SessionStatus that are told apart
    StartStatus,      \* the status a new session has
    MaxSequence       \* bound of the model: chunks the program prints

ASSUME CapacityAssumption == Capacity \in Nat \ {0}
ASSUME HistoryAssumption == HistoryChunks \in Nat \ {0}
ASSUME StatusAssumption == StartStatus \in Statuses
ASSUME BoundAssumption == MaxSequence \in Nat

VARIABLES
    sequence,         \* TerminalState.sequence
    oldest,           \* sequence of the front of TerminalState.history
    status,           \* ManagedSession.status
    ended,            \* ManagedSession.exit_code is recorded
    subscribers,      \* ManagedSession.subscribers, those still alive
    queue,            \* queue[s]: the events and resync_pending of s
    handshake,        \* handshake[s]: how far attach_and_subscribe is for s
    outbox,           \* outbox[p]: the broadcast thread p is carrying out
    applied,          \* applied[s]: newest output s's consumer has
    told              \* told[s]: s's consumer was handed a ResyncRequired

sessionVars == <<sequence, oldest, status, ended>>
consumerVars == <<applied, told>>
vars == <<sequence, oldest, status, ended, subscribers, queue, handshake,
          outbox, applied, told>>

-----------------------------------------------------------------------------
(* Events and the subscription queue. *)

Output(n) == [kind |-> "output", seq |-> n]
ResyncRequired(n) == [kind |-> "resync", seq |-> n]
StatusEvent(n, st) == [kind |-> "status", seq |-> n, status |-> st]
Exited(n) == [kind |-> "exited", seq |-> n]

Event ==
    [kind : {"output", "resync", "exited"}, seq : Nat]
      \cup [kind : {"status"}, seq : Nat, status : Statuses]

Queue == [events : Seq(Event), resyncPending : BOOLEAN]
EmptyQueue == [events |-> <<>>, resyncPending |-> FALSE]

IsFull(q) == Len(q.events) >= Capacity
HoldsOutput(q) == \E i \in 1 .. Len(q.events) : q.events[i].kind = "output"

\* Mutants of Push: an overflow that keeps the newest events without a marker;
\* a chunk that finds the queue full is lost; a status that finds it full does
\* not ask what it throws away; only output is subject to the limit.
PushKeepsNewest(q, e) ==
    IF IsFull(q) THEN [q EXCEPT !.events = Append(Tail(@), e)]
                 ELSE [q EXCEPT !.events = Append(@, e)]
PushLosesNewest(q, e) ==
    IF IsFull(q) THEN q ELSE [q EXCEPT !.events = Append(@, e)]
PushForgetsLostOutput(q, e) ==
    IF e.kind = "output"
    THEN IF q.resyncPending
         THEN q
         ELSE IF IsFull(q)
              THEN [events |-> <<ResyncRequired(e.seq)>>, resyncPending |-> TRUE]
              ELSE [q EXCEPT !.events = Append(@, e)]
    ELSE IF ~IsFull(q)
         THEN [q EXCEPT !.events = Append(@, e)]
         ELSE [q EXCEPT !.events = <<e>>]
\* SubscriptionInner::push and push_arc (the same code twice).
Push(q, e) ==
    IF e.kind = "output"
    THEN IF q.resyncPending
         THEN q
         ELSE IF IsFull(q)
              THEN [events |-> <<ResyncRequired(e.seq)>>, resyncPending |-> TRUE]
              ELSE [q EXCEPT !.events = Append(@, e)]
    ELSE IF ~IsFull(q)
         THEN [q EXCEPT !.events = Append(@, e)]
         ELSE IF q.resyncPending \/ HoldsOutput(q)
              THEN [events |-> <<ResyncRequired(e.seq), e>>, resyncPending |-> TRUE]
              ELSE [q EXCEPT !.events = <<e>>]

\* SessionSubscription::recv_timeout, when an event is there.
Pop(q) ==
    [events |-> Tail(q.events),
     resyncPending |-> q.resyncPending /\ Head(q.events).kind # "resync"]

-----------------------------------------------------------------------------
(* Threads. *)

Reader == "reader"
StatusThread == "status"
Threads == {Reader, StatusThread}

\* A thread has nothing to send, is about to stamp a status with the current
\* sequence, holds an event nobody was sent, or is pushing it to `to`.
Stages == {"idle", "checked", "stamping", "holding", "sending"}
NoEvent == Exited(0)
Resting == [stage |-> "idle", event |-> NoEvent, to |-> {}]
Holding(e) == [stage |-> "holding", event |-> e, to |-> {}]

\* Where a subscription is in attach_and_subscribe, and after it.
Phases == {"free", "registered", "statusRead", "statusPushed", "attached", "exited"}
NotAttached == [phase |-> "free", seq |-> 0, status |-> StartStatus]
Attaching == {"registered", "statusRead", "statusPushed"}

\* attach_and_subscribe holds the exit_code lock until it returns.
ExitLocked == \E s \in Subs : handshake[s].phase \in Attaching

Init ==
    /\ sequence = 0
    /\ oldest = 1
    /\ status = StartStatus
    /\ ended = FALSE
    /\ subscribers = {}
    /\ queue = [s \in Subs |-> EmptyQueue]
    /\ handshake = [s \in Subs |-> NotAttached]
    /\ outbox = [p \in Threads |-> Resting]
    /\ applied = [s \in Subs |-> 0]
    /\ told = [s \in Subs |-> FALSE]

-----------------------------------------------------------------------------
(* The reader thread. *)

\* record_output up to the end of its terminal-lock section: a new chunk gets
\* the next sequence, and the history forgets its front beyond HistoryChunks.
RecordOutput ==
    /\ outbox[Reader].stage = "idle"
    /\ ~ended
    /\ sequence < MaxSequence
    /\ sequence' = sequence + 1
    /\ oldest' = IF sequence + 1 - oldest + 1 > HistoryChunks THEN oldest + 1 ELSE oldest
    /\ outbox' = [outbox EXCEPT ![Reader] = Holding(Output(sequence + 1))]
    /\ UNCHANGED <<status, ended, subscribers, queue, handshake, applied, told>>

\* End of file (the program exited or was killed): finish records the exit
\* code under its lock, which an attach in progress holds, and then broadcasts.
Finish ==
    /\ outbox[Reader].stage = "idle"
    /\ ~ended
    /\ ~ExitLocked
    /\ ended' = TRUE
    /\ outbox' = [outbox EXCEPT ![Reader] = Holding(Exited(sequence))]
    /\ UNCHANGED <<sequence, oldest, status, subscribers, queue, handshake, applied, told>>

-----------------------------------------------------------------------------
(* The status thread: every 75 ms, unless the session has ended. *)

CheckAlive ==
    /\ outbox[StatusThread].stage = "idle"
    /\ ~ended
    /\ ~ExitLocked
    /\ outbox' = [outbox EXCEPT ![StatusThread].stage = "checked"]
    /\ UNCHANGED <<sessionVars, subscribers, queue, handshake, consumerVars>>

\* refresh_status found the status unchanged.
KeepStatus ==
    /\ outbox[StatusThread].stage = "checked"
    /\ outbox' = [outbox EXCEPT ![StatusThread] = Resting]
    /\ UNCHANGED <<sessionVars, subscribers, queue, handshake, consumerVars>>

\* publish_status stores a changed status under the status lock ...
StoreStatus(next) ==
    /\ outbox[StatusThread].stage = "checked"
    /\ next # status
    /\ status' = next
    /\ outbox' = [outbox EXCEPT ![StatusThread].stage = "stamping"]
    /\ UNCHANGED <<sequence, oldest, ended, subscribers, queue, handshake, consumerVars>>

\* ... and, the lock released, stamps the event with the sequence of now.
StampStatus ==
    /\ outbox[StatusThread].stage = "stamping"
    /\ outbox' = [outbox EXCEPT ![StatusThread] = Holding(StatusEvent(sequence, status))]
    /\ UNCHANGED <<sessionVars, subscribers, queue, handshake, consumerVars>>

-----------------------------------------------------------------------------
(* broadcast, for either thread. *)

\* Mutant: a subscription counts only once its attach has returned.
SnapshotAttachedOnly(p) ==
    /\ outbox[p].stage = "holding"
    /\ outbox' = [outbox EXCEPT ![p].stage = "sending",
                               ![p].to = {s \in subscribers : handshake[s].phase = "attached"}]
    /\ UNCHANGED <<sessionVars, subscribers, queue, handshake, consumerVars>>

\* The live subscribers are copied under the subscribers lock.
SnapshotSubscribers(p) ==
    /\ outbox[p].stage = "holding"
    /\ outbox' = [outbox EXCEPT ![p].stage = "sending", ![p].to = subscribers]
    /\ UNCHANGED <<sessionVars, subscribers, queue, handshake, consumerVars>>

PushTo(p, s) ==
    /\ outbox[p].stage = "sending"
    /\ s \in outbox[p].to
    /\ queue' = [queue EXCEPT ![s] = Push(@, outbox[p].event)]
    /\ outbox' = [outbox EXCEPT ![p].to = @ \ {s}]
    /\ UNCHANGED <<sessionVars, subscribers, handshake, consumerVars>>

BroadcastDone(p) ==
    /\ outbox[p].stage = "sending"
    /\ outbox[p].to = {}
    /\ outbox' = [outbox EXCEPT ![p] = Resting]
    /\ UNCHANGED <<sessionVars, subscribers, queue, handshake, consumerVars>>

-----------------------------------------------------------------------------
(* attach_and_subscribe, and the subscription's life after it. *)

\* With the terminal lock and the exit lock held: the queue is registered and
\* the reply taken, which brings the consumer up to `sequence`.
Register(s) ==
    /\ handshake[s].phase = "free"
    /\ ~ExitLocked
    /\ subscribers' = subscribers \cup {s}
    /\ queue' = [queue EXCEPT ![s] = EmptyQueue]
    /\ handshake' = [handshake EXCEPT ![s].phase = "registered", ![s].seq = sequence]
    /\ applied' = [applied EXCEPT ![s] = sequence]
    /\ told' = [told EXCEPT ![s] = FALSE]
    /\ UNCHANGED <<sessionVars, outbox>>

\* The status is copied under its lock; only the exit lock is still held.
ReadStatus(s) ==
    /\ handshake[s].phase = "registered"
    /\ handshake' = [handshake EXCEPT ![s].phase = "statusRead", ![s].status = status]
    /\ UNCHANGED <<sessionVars, subscribers, queue, outbox, consumerVars>>

PushStatus(s) ==
    /\ handshake[s].phase = "statusRead"
    /\ queue' = [queue EXCEPT ![s] = Push(@, StatusEvent(handshake[s].seq, handshake[s].status))]
    /\ handshake' = [handshake EXCEPT ![s].phase = "statusPushed"]
    /\ UNCHANGED <<sessionVars, subscribers, outbox, consumerVars>>

\* Mutant: an attach relies on the broadcast alone to learn of an exit.
ReplayNoExit(s) ==
    /\ handshake[s].phase = "statusPushed"
    /\ handshake' = [handshake EXCEPT ![s].phase = "attached"]
    /\ UNCHANGED <<sessionVars, subscribers, queue, outbox, consumerVars>>

\* An exit that was recorded before the lock was taken is replayed.
ReplayExit(s) ==
    /\ handshake[s].phase = "statusPushed"
    /\ queue' = IF ended THEN [queue EXCEPT ![s] = Push(@, Exited(handshake[s].seq))]
                         ELSE queue
    /\ handshake' = [handshake EXCEPT ![s].phase = "attached"]
    /\ UNCHANGED <<sessionVars, subscribers, outbox, consumerVars>>

\* forward_events takes the front of the queue to the client and stops after
\* an exit.  An output moves the consumer's newest chunk forward, never back.
Forward(s) ==
    /\ handshake[s].phase = "attached"
    /\ queue[s].events # <<>>
    /\ LET e == Head(queue[s].events)
       IN  /\ applied' = [applied EXCEPT ![s] =
                            IF e.kind = "output" /\ e.seq > @ THEN e.seq ELSE @]
           /\ told' = [told EXCEPT ![s] = @ \/ e.kind = "resync"]
           /\ handshake' = [handshake EXCEPT ![s].phase =
                              IF e.kind = "exited" THEN "exited" ELSE @]
    /\ queue' = [queue EXCEPT ![s] = Pop(@)]
    /\ UNCHANGED <<sessionVars, subscribers, outbox>>

\* Detach, a new Attach of the same session or the end of the connection
\* drops the Attachment.  The queue is closed: a push still under way to it
\* has no effect, so it is taken off the broadcasts.
Close(s) ==
    /\ handshake[s].phase \in {"attached", "exited"}
    /\ handshake' = [handshake EXCEPT ![s] = NotAttached]
    /\ subscribers' = subscribers \ {s}
    /\ queue' = [queue EXCEPT ![s] = EmptyQueue]
    /\ outbox' = [p \in Threads |-> [outbox[p] EXCEPT !.to = @ \ {s}]]
    /\ UNCHANGED <<sessionVars, consumerVars>>

-----------------------------------------------------------------------------

ReaderSteps == RecordOutput \/ Finish
StatusSteps == CheckAlive \/ KeepStatus \/ StampStatus \/ \E st \in Statuses : StoreStatus(st)
BroadcastSteps(p) ==
    SnapshotSubscribers(p) \/ BroadcastDone(p) \/ \E s \in Subs : PushTo(p, s)
AttachSteps(s) == Register(s) \/ ReadStatus(s) \/ PushStatus(s) \/ ReplayExit(s)

Next ==
    \/ ReaderSteps
    \/ StatusSteps
    \/ \E p \in Threads : BroadcastSteps(p)
    \/ \E s \in Subs : AttachSteps(s) \/ Forward(s) \/ Close(s)

Spec == Init /\ [][Next]_vars

\* A broadcast runs to its end without waiting for anybody, and a forwarding
\* task polls its queue.  Nothing obliges the program to print, the status to
\* change or a client to attach or to leave.
Fairness ==
    /\ \A p \in Threads : WF_vars(BroadcastSteps(p))
    /\ \A s \in Subs : WF_vars(ReadStatus(s) \/ PushStatus(s) \/ ReplayExit(s))
    /\ \A s \in Subs : WF_vars(Forward(s))

FairSpec == Spec /\ Fairness

-----------------------------------------------------------------------------
(* Type invariant. *)

TypeOK ==
    /\ sequence \in Nat /\ oldest \in Nat
    /\ status \in Statuses
    /\ ended \in BOOLEAN
    /\ subscribers \subseteq Subs
    /\ queue \in [Subs -> Queue]
    /\ handshake \in [Subs -> [phase : Phases, seq : Nat, status : Statuses]]
    /\ outbox \in [Threads -> [stage : Stages, event : Event, to : SUBSET Subs]]
    /\ applied \in [Subs -> Nat]
    /\ told \in [Subs -> BOOLEAN]

-----------------------------------------------------------------------------
(* Safety.  The first two are about one consumer, forward_events and the    *)
(* client behind it, and everything that races to fill its queue.           *)

\* The output the reader recorded last has still to be pushed to s.
InFlight(s) ==
    /\ outbox[Reader].event.kind = "output"
    /\ \/ outbox[Reader].stage = "holding" /\ s \in subscribers
       \/ outbox[Reader].stage = "sending" /\ s \in outbox[Reader].to

\* A consumer that was never told to resync is not handed a chunk beyond the
\* one it expects: whatever overflowed, was cleared or raced with its attach,
\* an output is either the next one or one its snapshot already contained.
NoSilentGap ==
    \A s \in Subs :
        (/\ handshake[s].phase = "attached" /\ ~told[s]
         /\ queue[s].events # <<>> /\ Head(queue[s].events).kind = "output")
        => Head(queue[s].events).seq <= applied[s] + 1

\* A consumer that has drained its queue and was never told to resync has
\* everything the session printed: no chunk is lost off the end either, where
\* no later chunk would reveal it.
DrainedMeansCaughtUp ==
    \A s \in Subs :
        (/\ handshake[s].phase = "attached" /\ ~told[s]
         /\ queue[s].events = <<>> /\ ~InFlight(s))
        => applied[s] = sequence

\* A slow client costs a bounded queue.  The bound is Capacity, except that a
\* queue of capacity one may hold a ResyncRequired and the event that found
\* the queue full.
QueueBounded ==
    \A s \in Subs :
        Len(queue[s].events) <= (IF Capacity = 1 THEN 2 ELSE Capacity)

-----------------------------------------------------------------------------
(* The invariant behind them, inductive together with TypeOK. *)

\* The newest output that was already offered to s.
Covered(s) == IF InFlight(s) THEN sequence - 1 ELSE sequence

\* Only the reader's thread broadcasts output, and always the newest chunk.
\* A marker is made by a queue, never broadcast.
OnlyTheReaderSendsOutput ==
    /\ \A p \in Threads : outbox[p].event.kind # "resync"
    /\ outbox[StatusThread].event.kind # "output"
    /\ (outbox[Reader].event.kind = "output" => outbox[Reader].event.seq = sequence)
    /\ (outbox[Reader].event.kind = "output" => sequence > 0)

\* A subscription is registered exactly while it is in use; a broadcast
\* reaches nobody else, and nobody is ahead of the session.
OnlyTheLiveAreServed ==
    /\ \A s \in Subs : s \in subscribers <=> handshake[s].phase # "free"
    /\ \A p \in Threads : outbox[p].to \subseteq subscribers
    /\ \A p \in Threads : outbox[p].stage # "sending" => outbox[p].to = {}
    /\ \A s \in Subs : applied[s] <= sequence

\* A resync marker can only be at the front of a queue, and while it is there
\* the queue takes no output.
MarkerInFront(q) ==
    /\ q.resyncPending <=> (q.events # <<>> /\ q.events[1].kind = "resync")
    /\ \A i \in 2 .. Len(q.events) : q.events[i].kind # "resync"
    /\ q.resyncPending => ~HoldsOutput(q)

\* Queued output is in order and none of it is newer than `offered`.
InOrder(q, offered) ==
    /\ \A i \in 1 .. Len(q.events) : q.events[i].kind = "output" => q.events[i].seq <= offered
    /\ \A i, j \in 1 .. Len(q.events) :
          (i < j /\ q.events[i].kind = "output" /\ q.events[j].kind = "output")
          => q.events[i].seq < q.events[j].seq

\* Every chunk after `from` that was offered is queued.
Complete(q, from, offered) ==
    \A n \in (from + 1) .. offered : \E i \in 1 .. Len(q.events) : q.events[i] = Output(n)

QueueInv(s) ==
    /\ MarkerInFront(queue[s])
    /\ InOrder(queue[s], Covered(s))
    /\ (s \in subscribers /\ ~told[s] /\ ~queue[s].resyncPending)
         => Complete(queue[s], applied[s], Covered(s))

StreamInv ==
    /\ OnlyTheReaderSendsOutput
    /\ OnlyTheLiveAreServed
    /\ \A s \in Subs : QueueInv(s)

-----------------------------------------------------------------------------
(* The abstract specification it implements. *)

Promise == INSTANCE LossyStream WITH live <- subscribers

\* Whatever the threads do, each client sees the session's output in order and
\* without a gap it was not told of (LossyStream).
ImplementsLossyStream == Promise!Spec

-----------------------------------------------------------------------------
(* Liveness, under FairSpec. *)

\* A chunk that is printed while a client is attached reaches it, or the
\* client is told that it has to attach again, or it leaves.
OutputReachesEverySubscriber ==
    \A s \in Subs : \A n \in 1 .. MaxSequence :
        (handshake[s].phase = "attached" /\ sequence >= n)
        ~> (applied[s] >= n \/ told[s] \/ handshake[s].phase # "attached")

\* The end of the session has still to be told to s, by the broadcast or by the replay.
ExitToCome(s) ==
    /\ ended
    /\ \/ handshake[s].phase = "attached" /\ outbox[Reader].stage = "holding"
       \/ handshake[s].phase = "statusPushed"

\* A client that is attached when the session ends, or attaches after it, learns of it,
\* unless its queue fills up first: a status that is published after the exit pushes it out
\* of a full queue (finish, broadcast, attach_and_subscribe, Push).
ExitReachesEverySubscriber ==
    \A s \in Subs :
        ExitToCome(s) ~> (told[s] \/ handshake[s].phase \in {"exited", "free"} \/ IsFull(queue[s]))
=============================================================================
