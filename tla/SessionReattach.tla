-------------------------- MODULE SessionReattach --------------------------
(***************************************************************************)
(* One client of one session, over a link that drops: the daemon's         *)
(* SessionStream composed with the app's SessionConnection                 *)
(* (macos/OmniAgent/SessionConnection.swift) and the Attach handler that   *)
(* joins them (crates/omniagent-pty-daemon/src/server.rs).                 *)
(*                                                                         *)
(* The client keeps one cursor per session, the newest sequence it has     *)
(* seen, and sends it with every Attach after a reconnect; the daemon      *)
(* answers with what its history has after that cursor, or with a snapshot *)
(* of the whole screen.  The terminal draws whatever bytes it is given, so *)
(* a chunk that is skipped stays missing until the next snapshot.          *)
(***************************************************************************)
EXTENDS SessionStream

CONSTANTS
    WireCapacity,      \* frames the socket buffers before the writer waits
    MaxDrops           \* bound of the model: how often the link drops

ASSUME SubsAssumption == Subs # {}
ASSUME WireAssumption == WireCapacity \in Nat \ {0}
ASSUME DropsAssumption == MaxDrops \in Nat

VARIABLES
    up,                \* the connection is past its HelloAck
    drops,             \* how often it has dropped
    requests,          \* Attach frames on their way to the daemon
    wire,              \* frames on their way to the client
    reply,             \* the attach state the handler has still to write
    cursor,            \* Attachment.sequence in the app; Nil is Swift's nil
    screen,            \* newest chunk drawn, and whether an earlier one is missing
    honest             \* every drop so far found a cursor the screen backs

linkVars == <<up, drops, requests, wire, reply>>
clientVars == <<cursor, screen, honest>>
allVars == <<vars, up, drops, requests, wire, reply, cursor, screen, honest>>

Nil == -1
Larger(m, n) == IF m < n THEN n ELSE m

\* The one subscription this connection holds for the session at a time.
Mine == CHOOSE s \in Subs : TRUE

SnapshotFrame(n) == [kind |-> "snapshot", seq |-> n]
NoReply == [mode |-> "none", frames |-> <<>>]

ReattachInit ==
    /\ Init
    /\ up = FALSE /\ drops = 0
    /\ requests = <<>> /\ wire = <<>> /\ reply = NoReply
    /\ cursor = Nil
    /\ screen = [upto |-> 0, hole |-> FALSE]
    /\ honest = TRUE

-----------------------------------------------------------------------------
(* The daemon's side of the connection. *)

\* Mutant: any cursor the session has passed is resumed from, however old.
AttachReplyIgnoresHistory(after) ==
    IF after # Nil /\ after <= sequence
    THEN LET first == Larger(after + 1, oldest)
         IN  [mode |-> "resume",
              frames |-> [i \in 1 .. (sequence + 1 - first) |-> Output(first + i - 1)]]
    ELSE [mode |-> "snapshot", frames |-> <<SnapshotFrame(sequence)>>]

\* attach_from_terminal: the chunks after the cursor if the history still
\* reaches back to it, otherwise the screen as it is.
AttachReply(after) ==
    IF after # Nil /\ after <= sequence /\ after + 1 >= oldest
    THEN [mode |-> "resume",
          frames |-> [i \in 1 .. (sequence - after) |-> Output(after + i)]]
    ELSE [mode |-> "snapshot", frames |-> <<SnapshotFrame(sequence)>>]

\* The Attach arm: a previous attachment to the session is dropped first ...
DropOldAttachment ==
    /\ up /\ requests # <<>> /\ reply = NoReply
    /\ Close(Mine)
    /\ UNCHANGED <<linkVars, clientVars>>

\* ... then attach_and_subscribe registers the new one and takes the reply ...
TakeAttach ==
    /\ up /\ requests # <<>> /\ reply = NoReply
    /\ Register(Mine)
    /\ reply' = AttachReply(Head(requests))
    /\ requests' = Tail(requests)
    /\ UNCHANGED <<up, drops, wire, clientVars>>

\* ... and, when it has returned, the reply is written ahead of any event,
\* as soon as the socket takes it.
WriteAttachState ==
    /\ up /\ reply # NoReply
    /\ Len(wire) < WireCapacity
    /\ handshake[Mine].phase = "attached"
    /\ wire' = wire \o reply.frames
    /\ reply' = NoReply
    /\ UNCHANGED <<vars, up, drops, requests, clientVars>>

\* Mutant: a writer that never waits for the socket.
ForwardUnthrottled ==
    /\ up /\ reply = NoReply
    /\ Forward(Mine)
    /\ wire' = Append(wire, Head(queue[Mine].events))
    /\ UNCHANGED <<up, drops, requests, reply, clientVars>>

\* forward_events, spawned after the reply, waits while the socket is full.
ForwardToWire ==
    /\ up /\ reply = NoReply
    /\ Len(wire) < WireCapacity
    /\ Forward(Mine)
    /\ wire' = Append(wire, Head(queue[Mine].events))
    /\ UNCHANGED <<up, drops, requests, reply, clientVars>>

\* Everything the session does whether or not anybody watches.
SessionRunsOn ==
    /\ \/ ReaderSteps
       \/ StatusSteps
       \/ \E p \in Threads : BroadcastSteps(p)
       \/ ReadStatus(Mine) \/ PushStatus(Mine) \/ ReplayExit(Mine)
    /\ UNCHANGED <<linkVars, clientVars>>

-----------------------------------------------------------------------------
(* The app's side. *)

\* openConnection up to the HelloAck, whose handler attaches with the cursor.
Connect ==
    /\ ~up
    /\ up' = TRUE
    /\ requests' = <<cursor>>
    /\ UNCHANGED <<vars, drops, wire, reply, clientVars>>

\* The link is lost, with whatever was on it, and the daemon drops the
\* attachment of the connection.  The app keeps its cursor.
Backed == cursor = Nil \/ (cursor <= screen.upto /\ ~screen.hole)

Drop ==
    /\ up /\ drops < MaxDrops
    /\ handshake[Mine].phase \notin Attaching
    /\ up' = FALSE
    /\ drops' = drops + 1
    /\ requests' = <<>> /\ wire' = <<>> /\ reply' = NoReply
    /\ honest' = (honest /\ Backed)
    /\ IF handshake[Mine].phase = "free" THEN UNCHANGED vars ELSE Close(Mine)
    /\ UNCHANGED <<cursor, screen>>

\* updateSequence: every frame that carries a sequence moves the cursor.
Moved(n) == Larger(IF cursor = Nil THEN 0 ELSE cursor, n)

\* handle(_:) for the frames of a session.
Drawn(f) ==
    CASE f.kind = "snapshot" -> [upto |-> f.seq, hole |-> FALSE]
      [] f.kind = "output" ->
            [upto |-> Larger(screen.upto, f.seq),
             hole |-> screen.hole \/ f.seq > screen.upto + 1]
      [] OTHER -> screen

\* Mutant: a ResyncRequired only forgets the cursor.
HandleFrameNoReattach ==
    /\ up /\ wire # <<>>
    /\ LET f == Head(wire)
       IN  /\ cursor' = IF f.kind = "resync" THEN Nil ELSE Moved(f.seq)
           /\ screen' = Drawn(f)
    /\ wire' = Tail(wire)
    /\ UNCHANGED <<vars, up, drops, requests, reply, honest>>

HandleFrame ==
    /\ up /\ wire # <<>>
    /\ LET f == Head(wire)
       IN  IF f.kind = "resync"
           THEN /\ cursor' = Nil
                /\ requests' = Append(requests, Nil)
                /\ UNCHANGED screen
           ELSE /\ cursor' = Moved(f.seq)
                /\ screen' = Drawn(f)
                /\ UNCHANGED requests
    /\ wire' = Tail(wire)
    /\ UNCHANGED <<vars, up, drops, reply, honest>>

-----------------------------------------------------------------------------

DaemonSteps ==
    DropOldAttachment \/ TakeAttach \/ WriteAttachState \/ ForwardToWire \/ SessionRunsOn
ClientSteps == Connect \/ Drop \/ HandleFrame

ReattachNext == DaemonSteps \/ ClientSteps

ReattachSpec == ReattachInit /\ [][ReattachNext]_allVars

\* The app keeps trying to connect and reads what arrives; the daemon serves
\* its connection and runs its threads.  Printing, exiting, a changing status
\* and a drop are nobody's obligation.
ReattachFairness ==
    /\ WF_allVars(Connect)
    /\ WF_allVars(HandleFrame)
    /\ WF_allVars(DropOldAttachment \/ TakeAttach \/ WriteAttachState)
    /\ WF_allVars(ForwardToWire)
    /\ WF_allVars((ReadStatus(Mine) \/ PushStatus(Mine) \/ ReplayExit(Mine))
                    /\ UNCHANGED <<linkVars, clientVars>>)
    /\ \A p \in Threads :
          WF_allVars(BroadcastSteps(p) /\ UNCHANGED <<linkVars, clientVars>>)

FairReattachSpec == ReattachSpec /\ ReattachFairness

-----------------------------------------------------------------------------
(* Properties. *)

\* The type invariant, and that a client that does not read costs the daemon no
\* more than the socket's buffer and one reply.
ReattachTypeOK ==
    /\ up \in BOOLEAN /\ drops \in 0 .. MaxDrops
    /\ cursor \in {Nil} \cup Nat
    /\ screen \in [upto : Nat, hole : BOOLEAN]
    /\ reply.mode \in {"none", "resume", "snapshot"}
    /\ \A i \in 1 .. Len(requests) : requests[i] \in {Nil} \cup Nat
    /\ Len(wire) <= WireCapacity - 1 + Larger(1, HistoryChunks)

\* A fresh snapshot is on its way to the client.
SnapshotComing ==
    \/ \E i \in 1 .. Len(requests) : requests[i] = Nil
    \/ reply.mode = "snapshot"
    \/ \E i \in 1 .. Len(wire) : wire[i].kind = "snapshot"

\* The design's promise for slow links and reconnects: viewers "resume via
\* after_sequence, or ResyncRequired, fresh snapshot".  A screen with a missing
\* chunk is always about to be replaced.
HolesAreRepaired ==
    screen.hole => IF up THEN SnapshotComing ELSE cursor = Nil

\* The promise holds as long as every drop found a cursor the screen backs:
\* overflow, resync, live output and drops in any order leave no lasting hole.
\* What breaks it is a cursor moved by a frame that draws nothing, or by output
\* drawn between a ResyncRequired and its snapshot.
HolesAreRepairedAfterHonestDrops == honest => HolesAreRepaired

\* Once the link stays up, and if every drop was honest, the screen catches up
\* with everything the session has printed and keeps no hole in it.
ScreenCatchesUp ==
    \A n \in 1 .. MaxSequence :
        (sequence >= n) ~> (~honest \/ ~up \/ (screen.upto >= n /\ ~screen.hole))
=============================================================================
