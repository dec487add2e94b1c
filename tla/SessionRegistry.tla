-------------------------- MODULE SessionRegistry --------------------------
(***************************************************************************)
(* The registry of the PTY daemon's sessions: how a session comes to be,   *)
(* ends, is killed and is shut down (SessionRegistry, RegistryState and    *)
(* ManagedSession::finish and kill in                                      *)
(* crates/omniagent-pty-daemon/src/session.rs, DaemonServer::serve in      *)
(* server.rs).                                                             *)
(*                                                                         *)
(* The registry's map is one lock; a session's child is another, which its *)
(* reader thread keeps while it waits for the program to exit.  One step   *)
(* here is one section of one of those locks.  Create and kill run inside  *)
(* the task of the connection that asked, and block it.                    *)
(*                                                                         *)
(* External: a PTY reports its end when the program is dead or has closed  *)
(* its terminal, and portable-pty's kill, SIGHUP and then SIGKILL, ends a  *)
(* program that has not exited.                                            *)
(***************************************************************************)
EXTENDS Naturals, Sequences, FiniteSets

CONSTANTS
    Local,            \* connections over the Unix socket
    Remote,           \* connections through the relay
    Daemon,           \* serve, which shuts down by killing every session
    Ids,              \* session ids
    NoSession,        \* an id without a session
    MaxSessions,      \* MAX_SESSIONS
    MaxExited,        \* MAX_EXITED_SESSIONS
    MaxSpawns         \* bound: the programs that are ever spawned

ASSUME LimitsAssumption ==
    MaxSessions \in Nat \ {0} /\ MaxExited \in Nat \ {0} /\ MaxSpawns \in Nat
ASSUME NamesAssumption ==
    /\ Daemon \notin Local \cup Remote /\ Local \cap Remote = {}
    /\ NoSession \notin Ids \cup 1..MaxSpawns

Clients == Local \cup Remote
Actors == Clients \cup {Daemon}
Spawns == 1..MaxSpawns        \* a ManagedSession is named by its spawn

VARIABLES
    sessions,         \* RegistryState.sessions
    creating,         \* RegistryState.creating
    exited,           \* RegistryState.exited, oldest first
    born,             \* born[s]: the id of s and the connection that created it
    child,            \* child[s]: the program of s
    reader,           \* reader[s]: where the reader thread of s is
    handle,           \* sessions whose reader_thread is set
    pc, job,          \* pc[a], job[a]: where create or kill is, and for what
    daemon,           \* where serve is
    doomed,           \* the sessions shutdown has drained and not yet killed
    taken             \* history: the sessions kill or shutdown took out

stateVars == <<sessions, creating, exited>>
threadVars == <<born, child, reader, handle>>
serveVars == <<daemon, doomed>>
vars == <<sessions, creating, exited, born, child, reader, handle, pc, job,
          daemon, doomed, taken>>

-----------------------------------------------------------------------------

NoJob == [id |-> NoSession, session |-> NoSession]
Unborn == [id |-> NoSession, by |-> NoSession]

Init ==
    /\ sessions = [id \in Ids |-> NoSession]
    /\ creating = {}
    /\ exited = <<>>
    /\ born = [s \in Spawns |-> Unborn]
    /\ child = [s \in Spawns |-> "none"]
    /\ reader = [s \in Spawns |-> "none"]
    /\ handle = {}
    /\ pc = [a \in Actors |-> "idle"]
    /\ job = [a \in Actors |-> NoJob]
    /\ daemon = "serving"
    /\ doomed = {}
    /\ taken = {}

Registered == {sessions[id] : id \in Ids} \ {NoSession}
Remembered == {exited[i] : i \in DOMAIN exited}
IdOf(s) == born[s].id
Live(s) == child[s] \in {"running", "detached"}

\* Somebody has an Arc of s, so that a Weak of it can be upgraded.
Referenced(s) ==
    \/ s \in Registered \cup Remembered \cup doomed
    \/ \E a \in Actors : job[a].session = s
    \/ reader[s] \in {"waiting", "removing"}

\* prune_exited: by age, so the oldest go first, and then by number.
Pruned(list) ==
    {SubSeq(list, n, Len(list)) :
        n \in {m \in 1..(Len(list) + 1) : Len(list) + 1 - m <= MaxExited}}

\* The list is keyed by id: there is at most one to forget.
Without(list, id) ==
    IF \A i \in DOMAIN list : IdOf(list[i]) # id THEN list
    ELSE LET n == CHOOSE i \in DOMAIN list : IdOf(list[i]) = id
         IN  SubSeq(list, 1, n - 1) \o SubSeq(list, n + 1, Len(list))

Step(a, label, j) == pc' = [pc EXCEPT ![a] = label] /\ job' = [job EXCEPT ![a] = j]

\* A connection's task takes up a request: one over the Unix socket until
\* abort_all, one through the relay for as long as the process lives, because
\* nobody waits for the relay's tasks to be gone.
Serves(c) ==
    /\ pc[c] = "idle"
    /\ daemon \in IF c \in Local THEN {"serving", "killing"}
                                 ELSE {"serving", "killing", "joining", "rekilling"}

-----------------------------------------------------------------------------
(* create_session *)

\* Mutant of HasRoom: a session that is being created does not count.
HasRoomForOne == Cardinality(Registered) + 1 <= MaxSessions

HasRoom == Cardinality(Registered) + Cardinality(creating) + 1 <= MaxSessions

Exists(id) == sessions[id] # NoSession \/ id \in creating

\* The id is reserved under the lock; the program is spawned outside it.
Reserve(c, id) ==
    /\ Serves(c) /\ ~Exists(id) /\ HasRoom
    /\ exited' \in Pruned(Without(exited, id))
    /\ creating' = creating \cup {id}
    /\ Step(c, "spawning", [id |-> id, session |-> NoSession])
    /\ UNCHANGED <<sessions, threadVars, serveVars, taken>>

\* A create that is refused has forgotten the exited session of its id.
Refuse(c, id) ==
    /\ Serves(c) /\ (Exists(id) \/ ~HasRoom)
    /\ exited' \in Pruned(Without(exited, id))
    /\ UNCHANGED <<sessions, creating, threadVars, pc, job, serveVars, taken>>

SpawnFails(c) ==
    /\ pc[c] = "spawning"
    /\ creating' = creating \ {job[c].id}
    /\ Step(c, "idle", NoJob)
    /\ UNCHANGED <<sessions, exited, threadVars, serveVars, taken>>

Spawn(c, s) ==
    /\ pc[c] = "spawning"
    /\ child[s] = "none" /\ \A t \in Spawns : t < s => child[t] # "none"
    /\ born' = [born EXCEPT ![s] = [id |-> job[c].id, by |-> c]]
    /\ child' = [child EXCEPT ![s] = "running"]
    /\ Step(c, "inserting", [job[c] EXCEPT !.session = s])
    /\ UNCHANGED <<stateVars, reader, handle, serveVars, taken>>

Insert(c) ==
    /\ pc[c] = "inserting"
    /\ creating' = creating \ {job[c].id}
    /\ sessions' = [sessions EXCEPT ![job[c].id] = job[c].session]
    /\ Step(c, "starting", job[c])
    /\ UNCHANGED <<exited, threadVars, serveVars, taken>>

StartReader(c) ==
    /\ pc[c] = "starting"
    /\ reader' = [reader EXCEPT ![job[c].session] = "reading"]
    /\ Step(c, "handing", job[c])
    /\ UNCHANGED <<stateVars, born, child, handle, serveVars, taken>>

\* The session can be found, and killed, before kill knows whom to join.
SetHandle(c) ==
    /\ pc[c] = "handing"
    /\ handle' = handle \cup {job[c].session}
    /\ Step(c, "idle", NoJob)
    /\ UNCHANGED <<stateVars, born, child, reader, serveVars, taken>>

-----------------------------------------------------------------------------
(* The program and the reader thread of a session. *)

\* The program exits, or closes its terminal and goes on.
ProgramEnds(s, end) ==
    /\ child[s] = "running" \/ (child[s] = "detached" /\ end = "dead")
    /\ child' = [child EXCEPT ![s] = end]
    /\ UNCHANGED <<stateVars, born, reader, handle, pc, job, serveVars, taken>>

\* End of file: the reader takes the child's lock and waits.
ReadEnd(s) ==
    /\ reader[s] = "reading" /\ child[s] # "running" /\ Referenced(s)
    /\ reader' = [reader EXCEPT ![s] = "waiting"]
    /\ UNCHANGED <<stateVars, born, child, handle, pc, job, serveVars, taken>>

\* The session has been dropped: at its next output or at end of file the
\* reader leaves without waiting.  With its copy of the PTY the program's
\* terminal closes, which the program may or may not survive.
ReadDropped(s, end) ==
    /\ reader[s] = "reading" /\ ~Referenced(s)
    /\ child' = [child EXCEPT ![s] = IF Live(s) THEN end ELSE @]
    /\ reader' = [reader EXCEPT ![s] = "blind"]
    /\ UNCHANGED <<stateVars, born, handle, pc, job, serveVars, taken>>

\* Mutant of Reap: the end of file is taken for the program's exit.
ReapUnwaited(s) ==
    /\ reader[s] = "waiting" /\ child[s] \in {"dead", "detached"}
    /\ child' = [child EXCEPT ![s] = IF @ = "dead" THEN "reaped" ELSE @]
    /\ reader' = [reader EXCEPT ![s] = "reaped"]
    /\ UNCHANGED <<stateVars, born, handle, pc, job, serveVars, taken>>

Reap(s) ==
    /\ reader[s] = "waiting" /\ child[s] = "dead"
    /\ child' = [child EXCEPT ![s] = "reaped"]
    /\ reader' = [reader EXCEPT ![s] = "reaped"]
    /\ UNCHANGED <<stateVars, born, handle, pc, job, serveVars, taken>>

\* finish, if the session can still be upgraded.
Finish(s) ==
    /\ reader[s] = "reaped"
    /\ reader' = [reader EXCEPT ![s] = IF Referenced(s) THEN "removing" ELSE "blind"]
    /\ UNCHANGED <<stateVars, born, child, handle, pc, job, serveVars, taken>>

\* Mutant of Remove: the session that ended is not remembered.
RemoveForgotten(s) ==
    /\ reader[s] \in {"removing", "blind"}
    /\ sessions' = [sessions EXCEPT ![IdOf(s)] = NoSession]
    /\ reader' = [reader EXCEPT ![s] = "done"]
    /\ UNCHANGED <<creating, exited, born, child, handle, pc, job, serveVars, taken>>

\* The reader removes the session that has its id, which need not be its own.
Remove(s) ==
    /\ reader[s] \in {"removing", "blind"}
    /\ sessions' = [sessions EXCEPT ![IdOf(s)] = NoSession]
    /\ IF reader[s] = "removing"
       THEN exited' \in Pruned(Append(Without(exited, IdOf(s)), s)) \ {<<>>}
       ELSE UNCHANGED exited
    /\ reader' = [reader EXCEPT ![s] = "done"]
    /\ UNCHANGED <<creating, born, child, handle, pc, job, serveVars, taken>>

\* get_attachable and list forget what is old.
Prune ==
    /\ exited' \in Pruned(exited)
    /\ UNCHANGED <<sessions, creating, threadVars, pc, job, serveVars, taken>>

-----------------------------------------------------------------------------
(* kill, for a connection or for shutdown. *)

TakeOut(c, id) ==
    /\ Serves(c) /\ sessions[id] # NoSession
    /\ sessions' = [sessions EXCEPT ![id] = NoSession]
    /\ taken' = taken \cup {sessions[id]}
    /\ Step(c, "signalling", [id |-> id, session |-> sessions[id]])
    /\ UNCHANGED <<creating, exited, threadVars, serveVars>>

ChildIsFree(s) == reader[s] # "waiting"

\* The child's lock is taken and the program ended ...
Signal(a) ==
    LET s == job[a].session
    IN  /\ pc[a] = "signalling" /\ ChildIsFree(s)
        /\ child' = [child EXCEPT ![s] = IF Live(s) THEN "dead" ELSE @]
        /\ IF s \in handle THEN Step(a, "joining", job[a]) ELSE Step(a, "idle", NoJob)
        /\ UNCHANGED <<stateVars, born, reader, handle, serveVars, taken>>

\* ... or there is no process of that number any more, and kill gives up.
SignalFails(a) ==
    /\ pc[a] = "signalling" /\ child[job[a].session] = "reaped"
    /\ Step(a, "idle", NoJob)
    /\ UNCHANGED <<stateVars, threadVars, serveVars, taken>>

\* The reader thread is joined.
Join(a) ==
    /\ pc[a] = "joining" /\ reader[job[a].session] = "done"
    /\ Step(a, "idle", NoJob)
    /\ UNCHANGED <<stateVars, threadVars, serveVars, taken>>

-----------------------------------------------------------------------------
(* serve, once it is told to stop. *)

\* shutdown empties the registry ...
Drain(from, to) ==
    /\ daemon = from
    /\ daemon' = to
    /\ doomed' = Registered
    /\ taken' = taken \cup Registered
    /\ sessions' = [id \in Ids |-> NoSession]
    /\ creating' = {}
    /\ exited' = <<>>
    /\ UNCHANGED <<threadVars, pc, job>>

\* Mutant of KillNext: the session stays on the list.
KillNextAgain(s) ==
    /\ pc[Daemon] = "idle" /\ s \in doomed
    /\ Step(Daemon, "signalling", [id |-> IdOf(s), session |-> s])
    /\ UNCHANGED <<stateVars, threadVars, daemon, doomed, taken>>

\* ... and kills what was in it, one session after the other.
KillNext(s) ==
    /\ pc[Daemon] = "idle" /\ s \in doomed
    /\ doomed' = doomed \ {s}
    /\ Step(Daemon, "signalling", [id |-> IdOf(s), session |-> s])
    /\ UNCHANGED <<stateVars, threadVars, daemon, taken>>

Killed == pc[Daemon] = "idle" /\ doomed = {}

Advance(from, to) ==
    /\ daemon = from /\ Killed
    /\ daemon' = to
    /\ UNCHANGED <<stateVars, threadVars, pc, job, doomed, taken>>

\* A signal stops the accept loop.
Stop == Drain("serving", "killing")

\* relay.abort and clients.abort_all.
AbortClients == Advance("killing", "joining")

\* Mutant of ShutDownAgain: the server's drop only removes the socket.
ShutDownOnce ==
    /\ \A c \in Local : pc[c] = "idle"
    /\ Advance("joining", "stopped")

\* Every task of the Unix socket has been joined, and the server is dropped,
\* which calls shutdown once more.
ShutDownAgain ==
    /\ \A c \in Local : pc[c] = "idle"
    /\ Drain("joining", "rekilling")

Stopped == Advance("rekilling", "stopped")

-----------------------------------------------------------------------------

Creating(c) ==
    SpawnFails(c) \/ (\E s \in Spawns : Spawn(c, s)) \/ Insert(c) \/ StartReader(c) \/ SetHandle(c)

Killing(a) == Signal(a) \/ SignalFails(a) \/ Join(a)

Reading(s) == ReadEnd(s) \/ Reap(s) \/ Finish(s) \/ Remove(s)

ShuttingDown ==
    AbortClients \/ ShutDownAgain \/ Stopped \/ \E s \in Spawns : KillNext(s)

Next ==
    \/ \E c \in Clients, id \in Ids : Reserve(c, id) \/ Refuse(c, id) \/ TakeOut(c, id)
    \/ \E c \in Clients : Creating(c)
    \/ \E a \in Actors : Killing(a)
    \/ \E s \in Spawns : Reading(s)
    \/ \E s \in Spawns, end \in {"dead", "detached"} : ProgramEnds(s, end) \/ ReadDropped(s, end)
    \/ Prune \/ Stop \/ ShuttingDown

Spec == Init /\ [][Next]_vars

\* Threads and tasks run.  No program has to exit, and a dropped session's
\* reader may block for as long as the program prints nothing.
Serving(c) == WF_vars(Creating(c) \/ Killing(c))
Serve == WF_vars(ShuttingDown \/ Killing(Daemon))

Fairness == (\A c \in Clients : Serving(c)) /\ Serve /\ \A s \in Spawns : WF_vars(Reading(s))

FairSpec == Spec /\ Fairness

-----------------------------------------------------------------------------
(* Properties. *)

TypeOK ==
    /\ sessions \in [Ids -> Spawns \cup {NoSession}]
    /\ creating \subseteq Ids
    /\ exited \in Seq(Spawns) /\ Len(exited) <= MaxExited
    /\ born \in [Spawns -> [id : Ids, by : Clients] \cup {Unborn}]
    /\ child \in [Spawns -> {"none", "running", "detached", "dead", "reaped"}]
    /\ reader \in [Spawns -> {"none", "reading", "waiting", "reaped", "removing",
                              "blind", "done"}]
    /\ handle \subseteq Spawns
    /\ pc \in [Actors -> {"idle", "spawning", "inserting", "starting", "handing",
                          "signalling", "joining"}]
    /\ job \in [Actors -> [id : Ids \cup {NoSession}, session : Spawns \cup {NoSession}]]
    /\ daemon \in {"serving", "killing", "joining", "rekilling", "stopped"}
    /\ doomed \subseteq Spawns /\ taken \subseteq Spawns

InFlight(s) == \E c \in Clients : pc[c] = "inserting" /\ job[c].session = s

\* s runs, and neither the registry nor a create, kill or shutdown knows of it.
Lost(s) == Live(s) /\ ~InFlight(s) /\ s \notin taken /\ sessions[IdOf(s)] # s

\* The cap counts the programs, not only the map: while the daemon serves, the
\* ones that run and were not given up, with the ones being spawned, are at most
\* MAX_SESSIONS, however many creates are between their check and their insert.
WithinCap ==
    daemon = "serving" =>
        Cardinality({s \in Spawns : Live(s) /\ s \notin taken /\ ~Lost(s)})
        + Cardinality({c \in Clients : pc[c] = "spawning"}) <= MaxSessions

\* An earlier session of the id of s was killed.
Succeeds(s) == \E t \in taken \ {s} : IdOf(t) = IdOf(s)

\* While the daemon serves, a session stays reachable for as long as its program
\* runs, unless its id belonged to a session that was killed before.
LostOnlyAfterAKill == daemon = "serving" => \A s \in Spawns : Lost(s) => Succeeds(s)

\* A session that leaves the registry on its own can be attached to afterwards,
\* so that whoever asks late still learns how it ended.
EndedStaysAttachable ==
    [][\A id \in Ids :
          LET s == sessions[id]
          IN  (daemon' = "serving" /\ s # NoSession /\ sessions'[id] # s)
              => s \in taken' \/ s \in Remembered' \/ Succeeds(s)]_vars

\* When the daemon has stopped, the program of every session of a local client
\* has been ended, those included that were being created when shutdown began.
ShutdownLeavesNothing ==
    daemon = "stopped" =>
        \A s \in Spawns : Live(s) => \/ Lost(s) \/ born[s].by \in Remote
                                     \/ \E r \in Remote : job[r].session = s

\* The program that a kill or shutdown is after has closed its terminal.
Blocked(a) == \E s \in Spawns : job[a].session = s /\ child[s] = "detached"

\* Shutdown ends, whatever the tasks of the relay do or leave undone, unless a program
\* closed its terminal itself: then its reader waits for it with the lock a kill needs.
ShutdownEnds ==
    (daemon = "killing") ~> (daemon = "stopped" \/ \E a \in Actors : Blocked(a))

\* The daemon "owns the real PTYs/shells so a terminal session survives an app
\* relaunch": while it serves, a running session can be found.
NoLostSession == daemon = "serving" => \A s \in Spawns : ~Lost(s)
=============================================================================
