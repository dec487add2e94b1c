-------------------------- MODULE ConnectionLease --------------------------
(***************************************************************************)
(* Remote connections of the PTY daemon: admission, the lease, the roster  *)
(* and the kick (crates/omniagent-pty-daemon/src/connections.rs and        *)
(* serve_client, ConnectionGuard and DisconnectViewer of server.rs), with  *)
(* the app's Unblock (macos/OmniAgent/RemoteSharingModel.swift).           *)
(*                                                                         *)
(* Every connection is served by a task of its own on a multi-threaded     *)
(* runtime.  The entries map and the lease are two locks that are never    *)
(* held together, so one step here is one lock section or one await.       *)
(* Every connection is remote and of the account this daemon serves;       *)
(* viewer identities are what the clients call themselves.                 *)
(***************************************************************************)
EXTENDS Naturals

CONSTANTS
    Conns,            \* remote connections, each used once
    Viewers,          \* the viewer ids that occur
    Nobody,           \* a client too old to name itself, and no holder
    ViewerOf,         \* ViewerOf[c]: the viewer id in c's Hello, or Nobody
    Kickable          \* bound: the viewers the host acts on

ASSUME NobodyAssumption == Nobody \notin Conns /\ Nobody \notin Viewers
ASSUME ViewerAssumption == ViewerOf \in [Conns -> Viewers \cup {Nobody}]
ASSUME KickableAssumption == Kickable \subseteq Viewers

VARIABLES
    pc,               \* pc[c]: where serve_client is for c
    entries,          \* ConnectionRegistry.entries
    lease,            \* ConnectionRegistry.lease, the holder's id
    cancelled,        \* connections whose token is cancelled
    stale,            \* stale[c]: what take_lease told c to cancel
    introduced,       \* connections whose set_viewer reported a change
    roster,           \* the value in the roster channel
    blocked,          \* the blocklist row, remote_control_blocked
    kick,             \* the DisconnectViewer being dispatched
    unblocking,       \* unblocking[v]: the row an Unblock of v is about to write
    firm              \* history: viewers on the row ever since they were last blocked

leaseVars == <<pc, entries, lease, cancelled, stale, introduced, roster>>
hostVars == <<blocked, kick, unblocking, firm>>
vars == <<pc, entries, lease, cancelled, stale, introduced, roster,
          blocked, kick, unblocking, firm>>

-----------------------------------------------------------------------------

Labels == {"hello", "cleared", "registered", "refused", "reclaiming", "announcing",
           "leased", "named", "admitted", "serving", "dispatching", "syncing",
           "leaving", "removing", "departing", "done"}

Absent == [state |-> "absent", watching |-> FALSE]
Entry == [state : {"absent", "unnamed", "named"}, watching : BOOLEAN]

Quiet == [stage |-> "idle", viewer |-> Nobody, victims |-> {}]
NoUnblock == [busy |-> FALSE, row |-> {}]

\* LeaseHolder::is_the_same_viewer_as, for two connections of one account.
SameViewer(c, d) == ViewerOf[c] # Nobody /\ ViewerOf[c] = ViewerOf[d]

Listed(c) == entries[c].state = "named"

\* roster_of: one row per machine, with the panes its connections watch.
RosterOf(es) ==
    {[viewer |-> v,
      watching |-> \E c \in Conns : es[c].state = "named" /\ ViewerOf[c] = v /\ es[c].watching] :
        v \in {ViewerOf[c] : c \in {d \in Conns : es[d].state = "named"}}}

Init ==
    /\ pc = [c \in Conns |-> "hello"]
    /\ entries = [c \in Conns |-> Absent]
    /\ lease = Nobody
    /\ cancelled = {}
    /\ stale = [c \in Conns |-> Nobody]
    /\ introduced = {}
    /\ roster = {}
    /\ blocked = {}
    /\ kick = Quiet
    /\ unblocking = [v \in Viewers |-> NoUnblock]
    /\ firm = {}

Goto(c, label) == pc' = [pc EXCEPT ![c] = label]

-----------------------------------------------------------------------------
(* Admission: serve_client up to its dispatch loop. *)

\* The version, account and sharing checks, and the first look at the
\* blocklist.  A refusal here leaves no trace.
ReadHello(c) ==
    /\ pc[c] = "hello"
    /\ \/ ViewerOf[c] \notin blocked /\ Goto(c, "cleared")
       \/ Goto(c, "done")
    /\ UNCHANGED <<entries, lease, cancelled, stale, introduced, roster, hostVars>>

\* ConnectionGuard::register: from here on the guard's drop runs.
Register(c) ==
    /\ pc[c] = "cleared"
    /\ entries' = [entries EXCEPT ![c] = [state |-> "unnamed", watching |-> FALSE]]
    /\ Goto(c, "registered")
    /\ UNCHANGED <<lease, cancelled, stale, introduced, roster, hostVars>>

\* take_lease: free, reclaimed from the same viewer, or refused.
TakeLease(c) ==
    /\ pc[c] = "registered"
    /\ \/ /\ lease = Nobody
          /\ lease' = c
          /\ Goto(c, "leased")
          /\ UNCHANGED stale
       \/ /\ lease # Nobody /\ SameViewer(lease, c)
          /\ lease' = c
          /\ stale' = [stale EXCEPT ![c] = lease]
          /\ Goto(c, "reclaiming")
       \/ /\ lease # Nobody /\ ~SameViewer(lease, c)
          /\ Goto(c, "refused")
          /\ UNCHANGED <<lease, stale>>
    /\ UNCHANGED <<entries, cancelled, introduced, roster, hostVars>>

\* cancel_connection on the connection the same viewer left behind.
CancelStale(c) ==
    /\ pc[c] = "reclaiming"
    /\ IF entries[stale[c]].state = "absent"
       THEN UNCHANGED <<entries, cancelled>>
       ELSE /\ entries' = [entries EXCEPT ![stale[c]] = Absent]
            /\ cancelled' = cancelled \cup {stale[c]}
    /\ Goto(c, IF Listed(stale[c]) THEN "announcing" ELSE "leased")
    /\ UNCHANGED <<lease, stale, introduced, roster, hostVars>>

\* notify_presence: snapshot and publish are one section.
AnnounceReclaim(c) ==
    /\ pc[c] = "announcing"
    /\ roster' = RosterOf(entries)
    /\ Goto(c, "leased")
    /\ UNCHANGED <<entries, lease, cancelled, stale, introduced, hostVars>>

\* set_viewer, which finds no entry when the connection was already replaced.
SetViewer(c) ==
    /\ pc[c] = "leased"
    /\ IF ViewerOf[c] # Nobody /\ entries[c].state # "absent"
       THEN /\ entries' = [entries EXCEPT ![c].state = "named"]
            /\ introduced' = introduced \cup {c}
       ELSE UNCHANGED <<entries, introduced>>
    /\ Goto(c, "named")
    /\ UNCHANGED <<lease, cancelled, stale, roster, hostVars>>

\* Mutant of Recheck: the blocklist is only read before registering.
RecheckSkipped(c) ==
    /\ pc[c] = "named"
    /\ Goto(c, "admitted")
    /\ UNCHANGED <<entries, lease, cancelled, stale, introduced, roster, hostVars>>

\* The second look at the blocklist, now that a kick can see this connection.
Recheck(c) ==
    /\ pc[c] = "named"
    /\ Goto(c, IF ViewerOf[c] \in blocked THEN "refused" ELSE "admitted")
    /\ UNCHANGED <<entries, lease, cancelled, stale, introduced, roster, hostVars>>

\* HelloAck has been written; the roster is announced if it changed.
Welcome(c) ==
    /\ pc[c] = "admitted"
    /\ roster' = IF c \in introduced THEN RosterOf(entries) ELSE roster
    /\ Goto(c, "serving")
    /\ UNCHANGED <<entries, lease, cancelled, stale, introduced, hostVars>>

-----------------------------------------------------------------------------
(* The dispatch loop. *)

\* select! picks the frame, which it may do although the token is cancelled.
ReadFrame(c) ==
    /\ pc[c] = "serving"
    /\ Goto(c, "dispatching")
    /\ UNCHANGED <<entries, lease, cancelled, stale, introduced, roster, hostVars>>

\* The frame has been dispatched and answered; set_attached records whether
\* the connection watches a pane now, if the connection still has an entry.
FinishFrame(c, watching) ==
    /\ pc[c] = "dispatching"
    /\ IF entries[c].state # "absent" /\ entries[c].watching # watching
       THEN /\ entries' = [entries EXCEPT ![c].watching = watching]
            /\ Goto(c, IF Listed(c) THEN "syncing" ELSE "serving")
       ELSE /\ UNCHANGED entries
            /\ Goto(c, "serving")
    /\ UNCHANGED <<lease, cancelled, stale, introduced, roster, hostVars>>

AnnounceAttached(c) ==
    /\ pc[c] = "syncing"
    /\ roster' = RosterOf(entries)
    /\ Goto(c, "serving")
    /\ UNCHANGED <<entries, lease, cancelled, stale, introduced, hostVars>>

\* Mutant of StopOnCancel: a kick is noticed at the viewer's next frame.
StopAtNextFrame(c) ==
    /\ pc[c] = "dispatching"
    /\ c \in cancelled
    /\ Goto(c, "leaving")
    /\ UNCHANGED <<entries, lease, cancelled, stale, introduced, roster, hostVars>>

\* The token wins select!: the connection leaves the loop.
StopOnCancel(c) ==
    /\ pc[c] = "serving"
    /\ c \in cancelled
    /\ Goto(c, "leaving")
    /\ UNCHANGED <<entries, lease, cancelled, stale, introduced, roster, hostVars>>

\* The link drops, a write fails or the task is aborted, at any await.
LinkLost(c) ==
    /\ pc[c] \in {"hello", "refused", "admitted", "serving", "dispatching"}
    /\ Goto(c, IF pc[c] = "hello" THEN "done" ELSE "leaving")
    /\ UNCHANGED <<entries, lease, cancelled, stale, introduced, roster, hostVars>>

-----------------------------------------------------------------------------
(* ConnectionGuard's drop, on every way out. *)

\* The refusal has been written.
Refuse(c) ==
    /\ pc[c] = "refused"
    /\ Goto(c, "leaving")
    /\ UNCHANGED <<entries, lease, cancelled, stale, introduced, roster, hostVars>>

\* Mutant of ReleaseLease: released whoever holds it.
ReleaseLeaseUnchecked(c) ==
    /\ pc[c] = "leaving"
    /\ lease' = Nobody
    /\ Goto(c, "removing")
    /\ UNCHANGED <<entries, cancelled, stale, introduced, roster, hostVars>>

\* Mutant of ReleaseLease: the drop only takes the entry out.
ReleaseLeaseForgotten(c) ==
    /\ pc[c] = "leaving"
    /\ Goto(c, "removing")
    /\ UNCHANGED <<entries, lease, cancelled, stale, introduced, roster, hostVars>>

\* remove: first release_lease, which only the holder's id can do ...
ReleaseLease(c) ==
    /\ pc[c] = "leaving"
    /\ lease' = IF lease = c THEN Nobody ELSE lease
    /\ Goto(c, "removing")
    /\ UNCHANGED <<entries, cancelled, stale, introduced, roster, hostVars>>

\* Mutant of RemoveEntry: the roster that changed is not announced.
RemoveEntrySilently(c) ==
    /\ pc[c] = "removing"
    /\ entries' = [entries EXCEPT ![c] = Absent]
    /\ Goto(c, "done")
    /\ UNCHANGED <<lease, cancelled, stale, introduced, roster, hostVars>>

\* ... then the entry goes ...
RemoveEntry(c) ==
    /\ pc[c] = "removing"
    /\ entries' = [entries EXCEPT ![c] = Absent]
    /\ Goto(c, IF Listed(c) THEN "departing" ELSE "done")
    /\ UNCHANGED <<lease, cancelled, stale, introduced, roster, hostVars>>

\* ... and a roster that changed is announced.
AnnounceDeparture(c) ==
    /\ pc[c] = "departing"
    /\ roster' = RosterOf(entries)
    /\ Goto(c, "done")
    /\ UNCHANGED <<entries, lease, cancelled, stale, introduced, hostVars>>

-----------------------------------------------------------------------------
(* The host: DisconnectViewer, dispatched one at a time, and Unblock. *)

\* Block writes the row before anything is kicked; Terminate writes none.
StartKick(v, block) ==
    /\ kick.stage = "idle"
    /\ blocked' = IF block THEN blocked \cup {v} ELSE blocked
    /\ firm' = IF block THEN firm \cup {v} ELSE firm
    /\ kick' = [stage |-> "cancel", viewer |-> v, victims |-> {}]
    /\ UNCHANGED <<leaseVars, unblocking>>

\* cancel_viewer, under the entries lock ...
CancelViewer ==
    /\ kick.stage = "cancel"
    /\ LET victims == {c \in Conns : Listed(c) /\ ViewerOf[c] = kick.viewer}
       IN  /\ entries' = [c \in Conns |-> IF c \in victims THEN Absent ELSE entries[c]]
           /\ cancelled' = cancelled \cup victims
           /\ kick' = [kick EXCEPT !.stage = "release", !.victims = victims]
    /\ UNCHANGED <<pc, lease, stale, introduced, roster, blocked, unblocking, firm>>

\* ... then, that lock dropped, release_lease for each of them ...
KickRelease(c) ==
    /\ kick.stage = "release" /\ c \in kick.victims
    /\ lease' = IF lease = c THEN Nobody ELSE lease
    /\ kick' = [kick EXCEPT !.victims = @ \ {c}]
    /\ UNCHANGED <<pc, entries, cancelled, stale, introduced, roster, blocked, unblocking, firm>>

\* ... and notify_presence, whether or not there was one.
KickNotify ==
    /\ kick.stage = "release" /\ kick.victims = {}
    /\ roster' = RosterOf(entries)
    /\ kick' = Quiet
    /\ UNCHANGED <<pc, entries, lease, cancelled, stale, introduced, blocked, unblocking, firm>>

\* The app's unblock reads the row with one request ...
UnblockRead(v) ==
    /\ ~unblocking[v].busy /\ v \in blocked
    /\ unblocking' = [unblocking EXCEPT ![v] = [busy |-> TRUE, row |-> blocked \ {v}]]
    /\ UNCHANGED <<leaseVars, blocked, kick, firm>>

\* ... and writes it back with another.
UnblockWrite(v) ==
    /\ unblocking[v].busy
    /\ blocked' = unblocking[v].row
    /\ firm' = firm \cap unblocking[v].row
    /\ unblocking' = [unblocking EXCEPT ![v] = NoUnblock]
    /\ UNCHANGED <<leaseVars, kick>>

-----------------------------------------------------------------------------

\* What a connection's task does without waiting for anybody.
Synchronous(c) ==
    \/ Register(c) \/ TakeLease(c) \/ CancelStale(c) \/ AnnounceReclaim(c)
    \/ SetViewer(c) \/ Recheck(c) \/ AnnounceAttached(c)
    \/ ReleaseLease(c) \/ RemoveEntry(c) \/ AnnounceDeparture(c)

\* What it does when a write to its peer has ended.
Answered(c) == Welcome(c) \/ Refuse(c) \/ \E watching \in BOOLEAN : FinishFrame(c, watching)

Kicking == CancelViewer \/ KickNotify \/ \E c \in Conns : KickRelease(c)

Next ==
    \/ \E c \in Conns :
          \/ ReadHello(c) \/ Synchronous(c) \/ Answered(c)
          \/ ReadFrame(c) \/ StopOnCancel(c) \/ LinkLost(c)
    \/ \E v \in Kickable :
          \/ \E block \in BOOLEAN : StartKick(v, block)
          \/ UnblockRead(v) \/ UnblockWrite(v)
    \/ Kicking

Spec == Init /\ [][Next]_vars

\* Tasks run, a write to a peer ends (it drains, or the write fails), and
\* select! does not prefer the frame forever.  No client has to speak and no
\* host has to kick.
Scheduled(c) == WF_vars(Synchronous(c)) /\ WF_vars(Answered(c)) /\ SF_vars(StopOnCancel(c))

Fairness == (\A c \in Conns : Scheduled(c)) /\ WF_vars(Kicking)

FairSpec == Spec /\ Fairness

-----------------------------------------------------------------------------
(* Properties. *)

TypeOK ==
    /\ pc \in [Conns -> Labels]
    /\ entries \in [Conns -> Entry]
    /\ lease \in Conns \cup {Nobody}
    /\ cancelled \subseteq Conns
    /\ stale \in [Conns -> Conns \cup {Nobody}]
    /\ introduced \subseteq Conns
    /\ roster \subseteq [viewer : Viewers, watching : BOOLEAN]
    /\ blocked \subseteq Viewers
    /\ firm \subseteq blocked
    /\ kick \in [stage : {"idle", "cancel", "release"}, viewer : Viewers \cup {Nobody},
                 victims : SUBSET Conns]
    /\ unblocking \in [Viewers -> [busy : BOOLEAN, row : SUBSET Viewers]]

\* c's task is past take_lease and was not refused by it.
Driving == {"reclaiming", "announcing", "leased", "named", "admitted",
            "serving", "dispatching", "syncing"}

\* d has taken the lease from c and is about to cancel it.
Superseded(c) == \E d \in Conns : pc[d] = "reclaiming" /\ stale[d] = c

\* A connection that is served holds the machine, or has been cancelled, or is
\* about to be by the connection that replaced it: kicks, reclaims and late
\* releases never leave a second machine connected for good.
DrivesOrIsCancelled ==
    \A c \in Conns : pc[c] \in Driving => lease = c \/ c \in cancelled \/ Superseded(c)

\* The lease never outlives its connection: the holder is in the registry, or a
\* kick in progress is about to release it.  A leaked lease would refuse every
\* viewer until the daemon restarts.
LeaseIsNotLeaked ==
    lease # Nobody => entries[lease].state # "absent" \/ lease \in kick.victims

\* Only a machine that was admitted to the lease is listed to the host; one that
\* is refused never flickers through its roster.
OnlyHoldersAreListed ==
    \A c \in Conns : Listed(c) => lease = c \/ pc[c] = "removing" \/ Superseded(c)

\* Either the kick sees the connection, or the connection sees the kick: from a
\* viewer's block until an Unblock takes it off the row again, no connection of
\* it is welcomed or served, but for one the kick has cancelled or is about to.
BlockedNotAdmitted ==
    \A c \in Conns :
        (pc[c] \in {"admitted", "serving", "dispatching", "syncing"} /\ ViewerOf[c] \in firm)
        => c \in cancelled \/ (kick.stage = "cancel" /\ kick.viewer = ViewerOf[c])

\* Once nobody is between a change of the entries and its announcement, the
\* host's roster is the truth.
Owes(c) ==
    \/ pc[c] \in {"announcing", "syncing", "departing"}
    \/ pc[c] \in {"named", "admitted", "leaving", "removing", "refused"} /\ Listed(c)
RosterSettles ==
    ((\A c \in Conns : ~Owes(c)) /\ kick.stage # "release") => roster = RosterOf(entries)

\* Why those hold: where a connection is decides what the registry says of it.
Before == {"hello", "cleared", "registered"}
After == {"departing", "done"}

\* Until it asks for the lease nobody knows of a connection.
Fresh(c) ==
    pc[c] \in Before =>
        /\ c \notin cancelled /\ c \notin kick.victims /\ c # lease
        /\ entries[c].state = (IF pc[c] = "registered" THEN "unnamed" ELSE "absent")
        /\ ~Superseded(c)

\* A cancelled connection has no entry, only a cancelled one loses it before its
\* guard drops it, and the drop has freed the lease by then.
Present(c) ==
    /\ c \in cancelled => entries[c].state = "absent"
    /\ pc[c] \notin Before \cup After /\ entries[c].state = "absent" => c \in cancelled
    /\ pc[c] \in After => entries[c].state = "absent"
    /\ pc[c] \in After \cup {"removing"} => lease # c

\* Past set_viewer a connection that gave its id is listed, or cancelled.
Introduced(c) ==
    /\ Listed(c) => c \in introduced /\ ViewerOf[c] # Nobody
    /\ (pc[c] \in {"named", "admitted", "serving", "dispatching", "syncing"}
         /\ ViewerOf[c] # Nobody) => Listed(c) \/ c \in cancelled

Reclaims(c) == pc[c] = "reclaiming" => stale[c] \in Conns /\ stale[c] # c /\ stale[c] # lease

KickInv ==
    /\ kick.stage # "release" => kick.victims = {}
    /\ \A c \in kick.victims : c \in cancelled /\ entries[c].state = "absent"

Bookkeeping ==
    KickInv /\ \A c \in Conns : Fresh(c) /\ Present(c) /\ Introduced(c) /\ Reclaims(c)

Promises == DrivesOrIsCancelled /\ LeaseIsNotLeaked /\ OnlyHoldersAreListed

LeaseInv ==
    /\ Bookkeeping
    /\ Promises
    /\ BlockedNotAdmitted
    /\ RosterSettles

\* A cancelled connection ends, although its client never sends another frame (the select
\* of serve_client on the cancellation token).
CancelledEnds(c) == (c \in cancelled) ~> (pc[c] = "done")

\* The app's promise for its two-writer row: unblocking one machine never
\* forgives another.
OnlyUnblockForgives ==
    [][\A v \in Viewers : (v \in blocked /\ v \notin blocked')
                          => unblocking[v].busy /\ ~unblocking'[v].busy]_vars
=============================================================================
