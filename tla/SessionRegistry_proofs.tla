----------------------- MODULE SessionRegistry_proofs -----------------------
(***************************************************************************)
(* Proofs about SessionRegistry, for every number of connections, ids and  *)
(* programs and every cap and retention.                                   *)
(*                                                                         *)
(* What a promise says of the map rests on what each task holds in its     *)
(* hands: the session a create has spawned and not yet inserted, the id it *)
(* has reserved, the session a kill has taken out and not yet ended, and   *)
(* the reader that has yet to come by and remove whatever has its id.      *)
(* RegistryInv says that of every task, session and reader.  Each lemma    *)
(* takes one part of it through every action.                              *)
(***************************************************************************)
EXTENDS SessionRegistry, FiniteSetTheorems, TLAPS

-----------------------------------------------------------------------------
(* The inductive invariant. *)

Creates(c) == pc[c] \in {"spawning", "inserting"}

\* What a task works on: a create owns the session it spawned until the reader
\* runs, and what a kill has signalled does not run any more.
JobOf(a) ==
    LET s == job[a].session
    IN  /\ pc[a] = "idle" => job[a] = NoJob
        /\ pc[a] \in {"spawning", "inserting", "starting", "handing"} =>
              a \in Clients /\ job[a].id \in Ids
        /\ pc[a] = "spawning" => s = NoSession
        /\ pc[a] \in {"inserting", "starting", "handing"} =>
              s \in Spawns /\ born[s] = [id |-> job[a].id, by |-> a]
        /\ pc[a] \in {"inserting", "starting"} => reader[s] = "none"
        /\ pc[a] \in {"signalling", "joining"} => s \in Spawns /\ child[s] # "none"
        /\ pc[a] = "joining" => ~Live(s)
Jobs == \A a \in Actors : JobOf(a)

\* A session that can be found was spawned, and under the id it is found by.
Births ==
    /\ \A s \in Spawns : child[s] = "none" <=> born[s] = Unborn
    /\ \A s \in Spawns : child[s] = "none" => reader[s] = "none"
    /\ \A id \in Ids, s \in Spawns : sessions[id] = s => IdOf(s) = id /\ child[s] # "none"
    /\ \A s \in taken \cup doomed : child[s] # "none"

\* A reader that remembers its session has waited for the program; one that
\* could not upgrade its session never removes that session.
Readers ==
    /\ \A s \in Spawns : reader[s] \in {"reaped", "removing"} => child[s] = "reaped"
    /\ \A s \in Spawns : reader[s] = "blind" => \A id \in Ids : sessions[id] # s

\* What is in the map, or is about to be, has never been taken out of it.
Apart ==
    /\ \A id \in Ids, s \in Spawns : sessions[id] = s => s \notin taken /\ ~InFlight(s)
    /\ \A s \in taken : ~InFlight(s)

\* While the daemon serves, the reserved ids are those of the creates under way,
\* one create to an id, and nothing is registered under them.
Reservations ==
    /\ IsFiniteSet(creating)
    /\ daemon = "serving" =>
          /\ \A c \in Clients : Creates(c) => job[c].id \in creating
          /\ \A c, d \in Clients : Creates(c) /\ Creates(d) /\ job[c].id = job[d].id => c = d
          /\ \A id \in creating : sessions[id] = NoSession

\* The cap, of the map and of the reservations.
Room == daemon = "serving" => Cardinality(Registered) + Cardinality(creating) <= MaxSessions

\* A session that is not in the map although its program runs, or its reader has
\* yet to come by: its id has been killed.
Astray(s) ==
    child[s] # "none" /\ sessions[IdOf(s)] # s /\ ~InFlight(s) /\ (Live(s) \/ reader[s] # "done")
Chain ==
    daemon = "serving" => \A s \in Spawns : Astray(s) => \E t \in taken : IdOf(t) = IdOf(s)

\* Whoever takes a session out of the map goes on to end its program.
Ending(s) == \E a \in Actors : pc[a] = "signalling" /\ job[a].session = s
Kills ==
    /\ \A s \in taken : Live(s) => s \in doomed \/ Ending(s)
    /\ daemon \in {"serving", "joining", "stopped"} => doomed = {} /\ pc[Daemon] = "idle"

\* Once the tasks of the Unix socket are gone, what shutdown does not end, or is
\* not about to end, belongs to a task of the relay or had been lost before.
Abandoned(s) == born[s].by \in Remote \/ \E r \in Remote : job[r].session = s
Left(s) ==
    \/ Lost(s) \/ Abandoned(s) \/ s \in doomed
    \/ pc[Daemon] = "signalling" /\ job[Daemon].session = s
Leftovers ==
    /\ \A c \in Local : pc[c] = "idle"
    /\ \A id \in Ids, s \in Spawns : sessions[id] = s => born[s].by \in Remote
    /\ \A s \in Spawns : Live(s) => Left(s)
Last == daemon \in {"rekilling", "stopped"} => Leftovers

RegistryInv == Jobs /\ Births /\ Readers /\ Apart /\ Reservations /\ Room /\ Chain /\ Kills /\ Last
Inv == TypeOK /\ RegistryInv

USE DEF Step, stateVars, threadVars, serveVars

-----------------------------------------------------------------------------
(* The map and the sessions that are remembered. *)

\* What is in the map was spawned.
LEMMA Known ==
    ASSUME TypeOK
    PROVE  /\ Registered \subseteq Spawns /\ IsFiniteSet(Registered)
           /\ \A s : s \in Registered <=> s # NoSession /\ \E id \in Ids : sessions[id] = s
<1>1. \A s : s \in Registered <=> s # NoSession /\ \E id \in Ids : sessions[id] = s
  BY Zenon DEF Registered
<1>2. Registered \subseteq Spawns
  <2>1. ASSUME NEW s \in Registered PROVE s \in Spawns
    <3>1. PICK id \in Ids : s # NoSession /\ sessions[id] = s
      BY <1>1
    <3>2. sessions[id] \in Spawns \cup {NoSession}
      BY DEF TypeOK
    <3> QED
      BY <3>1, <3>2
  <2> QED
    BY <2>1
<1>3. IsFiniteSet(Spawns)
  BY LimitsAssumption, FS_Interval DEF Spawns
<1> QED
  BY <1>1, <1>2, <1>3, FS_Subset

\* Forgetting an id leaves a list of sessions.
LEMMA Forgets ==
    ASSUME NEW list \in Seq(Spawns), NEW id PROVE Without(list, id) \in Seq(Spawns)
<1>1. CASE \A i \in DOMAIN list : IdOf(list[i]) # id
  BY <1>1 DEF Without
<1>2. ASSUME NEW n \in DOMAIN list
      PROVE  SubSeq(list, 1, n - 1) \o SubSeq(list, n + 1, Len(list)) \in Seq(Spawns)
  <2>1. n \in 1..Len(list)
    OBVIOUS
  <2>2. SubSeq(list, 1, n - 1) \in Seq(Spawns) /\ SubSeq(list, n + 1, Len(list)) \in Seq(Spawns)
    BY <2>1
  <2> QED
    BY <2>2
<1>3. CASE \E i \in DOMAIN list : IdOf(list[i]) = id
  BY <1>2, <1>3 DEF Without
<1> QED
  BY <1>1, <1>3

\* Whatever was spawned has an id.
LEMMA Spawned ==
    ASSUME TypeOK, Births PROVE \A s \in Spawns : child[s] # "none" => IdOf(s) \in Ids
<1> SUFFICES ASSUME NEW s \in Spawns, child[s] # "none" PROVE IdOf(s) \in Ids
  OBVIOUS
<1>1. born[s] # Unborn
  BY DEF Births
<1>2. born[s] \in [id : Ids, by : Clients]
  BY <1>1 DEF TypeOK
<1> QED
  BY <1>2 DEF IdOf

\* Of a program that runs as much can be said.
LEMMA Alive ==
    ASSUME TypeOK, Births PROVE \A s \in Spawns : Live(s) => IdOf(s) \in Ids
BY Spawned DEF Live

\* A task that is idle holds nothing, and what a kill waits for does not run.
LEMMA Idle ==
    ASSUME Jobs, NEW a \in Actors
    PROVE  /\ pc[a] = "idle" => job[a].session = NoSession
           /\ pc[a] = "joining" => ~Live(job[a].session)
<1>1. JobOf(a)
  BY DEF Jobs
<1>2. ASSUME pc[a] = "idle" PROVE job[a].session = NoSession
  <2>1. job[a] = NoJob
    BY <1>1, <1>2 DEF JobOf
  <2> QED
    BY <2>1 DEF NoJob
<1>3. ASSUME pc[a] = "joining" PROVE ~Live(job[a].session)
  BY <1>1, <1>3 DEF JobOf
<1> QED
  BY <1>2, <1>3

\* A create that has spawned its session holds a session of the id it asked for.
LEMMA Held ==
    ASSUME TypeOK, Jobs, Births, NEW c \in Clients, pc[c] \in {"inserting", "starting", "handing"}
    PROVE  /\ job[c].id \in Ids /\ job[c].session \in Spawns
           /\ born[job[c].session] = [id |-> job[c].id, by |-> c]
           /\ IdOf(job[c].session) = job[c].id /\ child[job[c].session] # "none"
<1>1. /\ job[c].id \in Ids /\ job[c].session \in Spawns
      /\ born[job[c].session] = [id |-> job[c].id, by |-> c]
  BY DEF Jobs, JobOf, Actors
<1>2. born[job[c].session] # Unborn
  BY <1>1, NamesAssumption DEF Unborn
<1> QED
  BY <1>1, <1>2 DEF IdOf, Births

\* What signalling does to the tasks and the programs.
LEMMA Signalled ==
    ASSUME TypeOK, NEW e \in Actors, Signal(e)
    PROVE  /\ pc[e] = "signalling" /\ pc'[e] \in {"idle", "joining"}
           /\ pc'[e] = "idle" => job'[e] = NoJob
           /\ pc'[e] = "joining" => job'[e] = job[e]
           /\ \A b \in Actors \ {e} : pc'[b] = pc[b] /\ job'[b] = job[b]
           /\ \A t \in Spawns : Live(t)' => Live(t) /\ t # job[e].session
           /\ \A t \in Spawns : child'[t] = "none" <=> child[t] = "none"
           /\ \A t \in Spawns : child[t] = "reaped" => child'[t] = "reaped"
           /\ UNCHANGED <<sessions, creating, exited, born, reader, handle, daemon, doomed, taken>>
<1> USE DEF Signal, TypeOK
<1>1. /\ pc[e] = "signalling" /\ pc'[e] \in {"idle", "joining"}
      /\ pc'[e] = "idle" => job'[e] = NoJob
      /\ pc'[e] = "joining" => job'[e] = job[e]
  OBVIOUS
<1>2. \A b \in Actors \ {e} : pc'[b] = pc[b] /\ job'[b] = job[b]
  OBVIOUS
<1>3. \A t \in Spawns : Live(t)' => Live(t) /\ t # job[e].session
  BY DEF Live
<1>4. /\ \A t \in Spawns : child'[t] = "none" <=> child[t] = "none"
      /\ \A t \in Spawns : child[t] = "reaped" => child'[t] = "reaped"
  BY DEF Live
<1> QED
  BY <1>1, <1>2, <1>3, <1>4

\* Pruning leaves a list within the retention, and the newest session if any.
LEMMA Prunes ==
    ASSUME NEW list \in Seq(Spawns), NEW rest \in Pruned(list)
    PROVE  /\ rest \in Seq(Spawns) /\ Len(rest) <= MaxExited
           /\ rest # <<>> => \E i \in DOMAIN rest : rest[i] = list[Len(list)]
<1>1. PICK n \in 1..(Len(list) + 1) : Len(list) + 1 - n <= MaxExited /\ rest = SubSeq(list, n, Len(list))
  BY DEF Pruned
<1>2. rest \in Seq(Spawns) /\ Len(rest) = Len(list) + 1 - n
  BY <1>1
<1>3. ASSUME rest # <<>> PROVE Len(rest) \in DOMAIN rest /\ rest[Len(rest)] = list[Len(list)]
  BY <1>1, <1>2, <1>3
<1> QED
  BY <1>1, <1>2, <1>3

-----------------------------------------------------------------------------
(* One lemma for each part of the invariant. *)

\* Every step keeps the types.
LEMMA TypesKept ==
    ASSUME Inv, [Next]_vars PROVE TypeOK'
<1> TypeOK /\ Jobs /\ Births /\ Readers /\ Apart /\ Reservations /\ Room /\ Chain /\ Kills /\ Last
  BY DEF Inv, RegistryInv
<1> Daemon \in Actors /\ \A c \in Clients : c \in Actors /\ c # Daemon
  BY NamesAssumption DEF Actors, Clients
<1> USE NamesAssumption, LimitsAssumption DEF TypeOK, NoJob
<1>1. ASSUME NEW c \in Clients, NEW id \in Ids, Reserve(c, id) PROVE TypeOK'
  BY <1>1, Forgets, Prunes DEF Reserve
<1>2. ASSUME NEW c \in Clients, NEW id \in Ids, Refuse(c, id) PROVE TypeOK'
  BY <1>2, Forgets, Prunes DEF Refuse
<1>3. ASSUME NEW c \in Clients, NEW id \in Ids, TakeOut(c, id) PROVE TypeOK'
  BY <1>3 DEF TakeOut
<1>4. ASSUME NEW c \in Clients, SpawnFails(c) PROVE TypeOK'
  BY <1>4 DEF SpawnFails
<1>5. ASSUME NEW c \in Clients, NEW s \in Spawns, Spawn(c, s) PROVE TypeOK'
  <2>1. job[c].id \in Ids
    BY <1>5 DEF Spawn, Jobs, JobOf
  <2>2. born' \in [Spawns -> [id : Ids, by : Clients] \cup {Unborn}]
    BY <1>5, <2>1 DEF Spawn
  <2>3. pc' \in [Actors -> {"idle", "spawning", "inserting", "starting", "handing",
                           "signalling", "joining"}]
    BY <1>5 DEF Spawn
  <2>4. job' \in [Actors -> [id : Ids \cup {NoSession}, session : Spawns \cup {NoSession}]]
    BY <1>5 DEF Spawn
  <2> QED
    BY <1>5, <2>2, <2>3, <2>4 DEF Spawn
<1>6. ASSUME NEW c \in Clients, Insert(c) PROVE TypeOK'
  BY <1>6 DEF Insert
<1>7. ASSUME NEW c \in Clients, StartReader(c) PROVE TypeOK'
  BY <1>7 DEF StartReader
<1>8. ASSUME NEW c \in Clients, SetHandle(c) PROVE TypeOK'
  <2>1. job[c].session \in Spawns
    BY <1>8 DEF SetHandle, Jobs, JobOf
  <2> QED
    BY <1>8, <2>1 DEF SetHandle
<1>9. ASSUME NEW e \in Actors, Signal(e) PROVE TypeOK'
  <2>1. child' \in [Spawns -> {"none", "running", "detached", "dead", "reaped"}]
    BY <1>9 DEF Signal
  <2>2. pc' \in [Actors -> {"idle", "spawning", "inserting", "starting", "handing",
                           "signalling", "joining"}]
    BY <1>9 DEF Signal
  <2>3. job' \in [Actors -> [id : Ids \cup {NoSession}, session : Spawns \cup {NoSession}]]
    BY <1>9 DEF Signal
  <2> QED
    BY <1>9, <2>1, <2>2, <2>3, Signalled
<1>10. ASSUME NEW e \in Actors, SignalFails(e) PROVE TypeOK'
  BY <1>10 DEF SignalFails
<1>11. ASSUME NEW e \in Actors, Join(e) PROVE TypeOK'
  BY <1>11 DEF Join
<1>12. ASSUME NEW s \in Spawns, ReadEnd(s) PROVE TypeOK'
  BY <1>12 DEF ReadEnd
<1>13. ASSUME NEW s \in Spawns, Reap(s) PROVE TypeOK'
  BY <1>13 DEF Reap
<1>14. ASSUME NEW s \in Spawns, Finish(s) PROVE TypeOK'
  BY <1>14 DEF Finish
<1>15. ASSUME NEW s \in Spawns, Remove(s) PROVE TypeOK'
  <2>1. exited' \in Seq(Spawns) /\ Len(exited') <= MaxExited
    <3>1. Without(exited, IdOf(s)) \in Seq(Spawns)
      BY Forgets
    <3>2. Append(Without(exited, IdOf(s)), s) \in Seq(Spawns)
      BY <3>1
    <3> QED
      BY <1>15, <3>2, Prunes DEF Remove
  <2> QED
    BY <1>15, <2>1 DEF Remove
<1>16. ASSUME NEW s \in Spawns, NEW end \in {"dead", "detached"}, ProgramEnds(s, end) PROVE TypeOK'
  BY <1>16 DEF ProgramEnds
<1>17. ASSUME NEW s \in Spawns, NEW end \in {"dead", "detached"}, ReadDropped(s, end) PROVE TypeOK'
  BY <1>17 DEF ReadDropped
<1>18. ASSUME Prune PROVE TypeOK'
  BY <1>18, Prunes DEF Prune
<1>19. ASSUME Stop PROVE TypeOK'
  BY <1>19, Known DEF Stop, Drain
<1>20. ASSUME AbortClients PROVE TypeOK'
  BY <1>20 DEF AbortClients, Advance, Killed
<1>21. ASSUME ShutDownAgain PROVE TypeOK'
  BY <1>21, Known DEF ShutDownAgain, Drain
<1>22. ASSUME Stopped PROVE TypeOK'
  BY <1>22 DEF Stopped, Advance, Killed
<1>23. ASSUME NEW s \in Spawns, KillNext(s) PROVE TypeOK'
  <2>1. born[s] # Unborn
    BY <1>23 DEF KillNext, Births
  <2>2. IdOf(s) \in Ids
    BY <2>1 DEF IdOf
  <2>3. job' \in [Actors -> [id : Ids \cup {NoSession}, session : Spawns \cup {NoSession}]]
    BY <1>23, <2>2 DEF KillNext
  <2> QED
    BY <1>23, <2>3 DEF KillNext
<1> QED
  BY <1>1, <1>2, <1>3, <1>4, <1>5, <1>6, <1>7, <1>8, <1>9, <1>10, <1>11, <1>12, <1>13, <1>14, <1>15,
     <1>16, <1>17, <1>18, <1>19, <1>20, <1>21, <1>22, <1>23 DEF Next, Creating, Killing, Reading,
     ShuttingDown, vars

\* Every step keeps what the tasks hold.
LEMMA JobsKept ==
    ASSUME Inv, [Next]_vars PROVE Jobs'
<1> TypeOK /\ Jobs /\ Births /\ Readers /\ Apart /\ Reservations /\ Room /\ Chain /\ Kills /\ Last
  BY DEF Inv, RegistryInv
<1> Daemon \in Actors /\ \A c \in Clients : c \in Actors /\ c # Daemon
  BY NamesAssumption DEF Actors, Clients
<1> SUFFICES ASSUME NEW a \in Actors PROVE JobOf(a)'
  BY DEF Jobs
<1> JobOf(a)
  BY DEF Jobs
<1> USE NamesAssumption DEF TypeOK, JobOf, Live, NoJob
<1>1. ASSUME UNCHANGED <<pc, job, born, child, reader>> PROVE JobOf(a)'
  BY <1>1
<1>2. ASSUME NEW c \in Clients, NEW id \in Ids, Reserve(c, id) PROVE JobOf(a)'
  BY <1>2 DEF Reserve
<1>3. ASSUME NEW c \in Clients, NEW id \in Ids, Refuse(c, id) PROVE JobOf(a)'
  BY <1>3, <1>1 DEF Refuse
<1>4. ASSUME NEW c \in Clients, NEW id \in Ids, TakeOut(c, id) PROVE JobOf(a)'
  BY <1>4 DEF TakeOut, Births
<1>5. ASSUME NEW c \in Clients, SpawnFails(c) PROVE JobOf(a)'
  BY <1>5 DEF SpawnFails
<1>6. ASSUME NEW c \in Clients, NEW s \in Spawns, Spawn(c, s) PROVE JobOf(a)'
  <2>1. CASE a = c
    BY <1>6, <2>1 DEF Spawn, Births
  <2>2. CASE a # c
    <3>1. pc'[a] = pc[a] /\ job'[a] = job[a]
      BY <1>6, <2>2 DEF Spawn
    <3>2. \A t \in Spawns : child[t] # "none" => child'[t] = child[t] /\ born'[t] = born[t]
      BY <1>6 DEF Spawn
    <3>3. reader' = reader
      BY <1>6 DEF Spawn
    <3> QED
      BY <3>1, <3>2, <3>3, Held
  <2> QED
    BY <2>1, <2>2
<1>7. ASSUME NEW c \in Clients, Insert(c) PROVE JobOf(a)'
  BY <1>7 DEF Insert
<1>8. ASSUME NEW c \in Clients, StartReader(c) PROVE JobOf(a)'
  <2>1. CASE a = c
    BY <1>8, <2>1 DEF StartReader
  <2>2. CASE a # c
    <3>1. pc'[a] = pc[a] /\ job'[a] = job[a]
      BY <1>8, <2>2 DEF StartReader
    <3>2. born[job[c].session].by = c
      <4>1. born[job[c].session] = [id |-> job[c].id, by |-> c]
        BY <1>8 DEF StartReader, Jobs
      <4> QED
        BY <4>1
    <3>3. pc[a] \in {"inserting", "starting"} => job[a].session # job[c].session
      BY <3>2, <2>2
    <3>4. \A t \in Spawns : t # job[c].session => reader'[t] = reader[t]
      BY <1>8 DEF StartReader
    <3>5. UNCHANGED <<born, child>>
      BY <1>8 DEF StartReader
    <3> QED
      BY <3>1, <3>3, <3>4, <3>5
  <2> QED
    BY <2>1, <2>2
<1>9. ASSUME NEW c \in Clients, SetHandle(c) PROVE JobOf(a)'
  BY <1>9 DEF SetHandle
<1>10. ASSUME NEW e \in Actors, Signal(e) PROVE JobOf(a)'
  BY <1>10, Signalled
<1>11. ASSUME NEW e \in Actors, SignalFails(e) PROVE JobOf(a)'
  BY <1>11 DEF SignalFails
<1>12. ASSUME NEW e \in Actors, Join(e) PROVE JobOf(a)'
  BY <1>12 DEF Join
<1>13. ASSUME NEW s \in Spawns, ReadEnd(s) PROVE JobOf(a)'
  BY <1>13 DEF ReadEnd
<1>14. ASSUME NEW s \in Spawns, Reap(s) PROVE JobOf(a)'
  BY <1>14 DEF Reap
<1>15. ASSUME NEW s \in Spawns, Finish(s) PROVE JobOf(a)'
  BY <1>15 DEF Finish
<1>16. ASSUME NEW s \in Spawns, Remove(s) PROVE JobOf(a)'
  BY <1>16 DEF Remove
<1>17. ASSUME NEW s \in Spawns, NEW end \in {"dead", "detached"}, ProgramEnds(s, end) PROVE JobOf(a)'
  BY <1>17 DEF ProgramEnds
<1>18. ASSUME NEW s \in Spawns, NEW end \in {"dead", "detached"}, ReadDropped(s, end) PROVE JobOf(a)'
  BY <1>18 DEF ReadDropped
<1>19. ASSUME Prune PROVE JobOf(a)'
  BY <1>19, <1>1 DEF Prune
<1>20. ASSUME Stop PROVE JobOf(a)'
  BY <1>20, <1>1 DEF Stop, Drain
<1>21. ASSUME AbortClients PROVE JobOf(a)'
  BY <1>21, <1>1 DEF AbortClients, Advance, Killed
<1>22. ASSUME ShutDownAgain PROVE JobOf(a)'
  BY <1>22, <1>1 DEF ShutDownAgain, Drain
<1>23. ASSUME Stopped PROVE JobOf(a)'
  BY <1>23, <1>1 DEF Stopped, Advance, Killed
<1>24. ASSUME NEW s \in Spawns, KillNext(s) PROVE JobOf(a)'
  BY <1>24 DEF KillNext, Births
<1> HIDE DEF TypeOK, JobOf, Live, NoJob
<1> QED
  BY <1>1, <1>2, <1>3, <1>4, <1>5, <1>6, <1>7, <1>8, <1>9, <1>10, <1>11, <1>12, <1>13, <1>14, <1>15,
     <1>16, <1>17, <1>18, <1>19, <1>20, <1>21, <1>22, <1>23, <1>24 DEF Next, Creating, Killing,
     Reading, ShuttingDown, vars

\* Every step keeps what is known of the sessions that were spawned.
LEMMA BirthsKept ==
    ASSUME Inv, [Next]_vars PROVE Births'
<1> TypeOK /\ Jobs /\ Births /\ Readers /\ Apart /\ Reservations /\ Room /\ Chain /\ Kills /\ Last
  BY DEF Inv, RegistryInv
<1> /\ sessions \in [Ids -> Spawns \cup {NoSession}]
    /\ born = [s \in Spawns |-> born[s]]
    /\ child \in [Spawns -> {"none", "running", "detached", "dead", "reaped"}]
    /\ reader \in [Spawns -> {"none", "reading", "waiting", "reaped", "removing",
                                 "blind", "done"}]
    /\ pc \in [Actors -> {"idle", "spawning", "inserting", "starting", "handing",
                             "signalling", "joining"}]
    /\ job \in [Actors -> [id : Ids \cup {NoSession}, session : Spawns \cup {NoSession}]]
    /\ taken \subseteq Spawns
    /\ doomed \subseteq Spawns
  BY DEF TypeOK
<1> Daemon \in Actors /\ \A c \in Clients : c \in Actors /\ c # Daemon
  BY NamesAssumption DEF Actors, Clients
<1>1. ASSUME UNCHANGED <<sessions, born, child, reader, taken, doomed>> PROVE Births'
  BY <1>1 DEF Births, IdOf
<1>2. ASSUME NEW c \in Clients, NEW id \in Ids, Reserve(c, id) PROVE Births'
  BY <1>2, <1>1 DEF Reserve
<1>3. ASSUME NEW c \in Clients, NEW id \in Ids, Refuse(c, id) PROVE Births'
  BY <1>3, <1>1 DEF Refuse
<1>4. ASSUME NEW c \in Clients, NEW id \in Ids, TakeOut(c, id) PROVE Births'
  BY <1>4, NamesAssumption DEF TakeOut, Births, IdOf, Spawns
<1>5. ASSUME NEW c \in Clients, SpawnFails(c) PROVE Births'
  BY <1>5, <1>1 DEF SpawnFails
<1>6. ASSUME NEW c \in Clients, NEW s \in Spawns, Spawn(c, s) PROVE Births'
  <2>1. job[c].id \in Ids
    BY <1>6 DEF Spawn, Jobs, JobOf
  <2>2. born'[s] = [id |-> job[c].id, by |-> c] /\ child'[s] = "running" /\ child[s] = "none"
    BY <1>6 DEF Spawn
  <2>3. born'[s] # Unborn
    <3>1. born'[s].id # Unborn.id
      BY <2>1, <2>2, NamesAssumption DEF Unborn
    <3> QED
      BY <3>1
  <2>4. \A t \in Spawns \ {s} : born'[t] = born[t] /\ child'[t] = child[t]
    BY <1>6 DEF Spawn
  <2>5. UNCHANGED <<sessions, reader, taken, doomed>>
    BY <1>6 DEF Spawn
  <2> QED
    BY <2>2, <2>3, <2>4, <2>5 DEF Births, IdOf
<1>7. ASSUME NEW c \in Clients, Insert(c) PROVE Births'
  <2> DEFINE s == job[c].session
             i == job[c].id
  <2>1. sessions' = [sessions EXCEPT ![i] = s] /\ UNCHANGED <<born, child, reader, taken, doomed>>
    BY <1>7 DEF Insert
  <2>2. s \in Spawns /\ IdOf(s) = i /\ child[s] # "none"
    BY <1>7, Held DEF Insert
  <2> HIDE DEF s, i
  <2>3. \A id \in Ids : sessions'[id] = IF id = i THEN s ELSE sessions[id]
    BY <2>1
  <2> QED
    BY <2>1, <2>2, <2>3 DEF Births, IdOf
<1>8. ASSUME NEW c \in Clients, StartReader(c) PROVE Births'
  <2> DEFINE s == job[c].session
  <2>1. reader' = [reader EXCEPT ![s] = "reading"] /\ UNCHANGED <<sessions, born, child, taken, doomed>>
    BY <1>8 DEF StartReader
  <2>2. s \in Spawns /\ child[s] # "none"
    BY <1>8, Held DEF StartReader
  <2> HIDE DEF s
  <2> QED
    BY <2>1, <2>2 DEF Births, IdOf
<1>9. ASSUME NEW c \in Clients, SetHandle(c) PROVE Births'
  BY <1>9, <1>1 DEF SetHandle
<1>10. ASSUME NEW e \in Actors, Signal(e) PROVE Births'
  BY <1>10, Signalled DEF Births, IdOf
<1>11. ASSUME NEW e \in Actors, SignalFails(e) PROVE Births'
  BY <1>11, <1>1 DEF SignalFails
<1>12. ASSUME NEW e \in Actors, Join(e) PROVE Births'
  BY <1>12, <1>1 DEF Join
<1>13. ASSUME NEW s \in Spawns, ReadEnd(s) PROVE Births'
  <2>1. \A t \in Spawns : child'[t] = "none" <=> child[t] = "none"
    BY <1>13 DEF ReadEnd
  <2>2. \A t \in Spawns : reader'[t] = "none" <=> reader[t] = "none"
    BY <1>13 DEF ReadEnd
  <2>3. UNCHANGED <<sessions, born, taken, doomed>>
    BY <1>13 DEF ReadEnd
  <2> QED
    BY <2>1, <2>2, <2>3 DEF Births, IdOf
<1>14. ASSUME NEW s \in Spawns, Reap(s) PROVE Births'
  <2>1. \A t \in Spawns : child'[t] = "none" <=> child[t] = "none"
    BY <1>14 DEF Reap
  <2>2. \A t \in Spawns : reader'[t] = "none" <=> reader[t] = "none"
    BY <1>14 DEF Reap
  <2>3. UNCHANGED <<sessions, born, taken, doomed>>
    BY <1>14 DEF Reap
  <2> QED
    BY <2>1, <2>2, <2>3 DEF Births, IdOf
<1>15. ASSUME NEW s \in Spawns, Finish(s) PROVE Births'
  <2>1. \A t \in Spawns : child'[t] = "none" <=> child[t] = "none"
    BY <1>15 DEF Finish
  <2>2. \A t \in Spawns : reader'[t] = "none" <=> reader[t] = "none"
    BY <1>15 DEF Finish
  <2>3. UNCHANGED <<sessions, born, taken, doomed>>
    BY <1>15 DEF Finish
  <2> QED
    BY <2>1, <2>2, <2>3 DEF Births, IdOf
<1>16. ASSUME NEW s \in Spawns, Remove(s) PROVE Births'
  BY <1>16, NamesAssumption DEF Remove, Births, IdOf, Spawns
<1>17. ASSUME NEW s \in Spawns, NEW end \in {"dead", "detached"}, ProgramEnds(s, end) PROVE Births'
  <2>1. \A t \in Spawns : child'[t] = "none" <=> child[t] = "none"
    BY <1>17 DEF ProgramEnds
  <2>2. \A t \in Spawns : reader'[t] = "none" <=> reader[t] = "none"
    BY <1>17 DEF ProgramEnds
  <2>3. UNCHANGED <<sessions, born, taken, doomed>>
    BY <1>17 DEF ProgramEnds
  <2> QED
    BY <2>1, <2>2, <2>3 DEF Births, IdOf
<1>18. ASSUME NEW s \in Spawns, NEW end \in {"dead", "detached"}, ReadDropped(s, end) PROVE Births'
  <2>1. \A t \in Spawns : child'[t] = "none" <=> child[t] = "none"
    BY <1>18 DEF ReadDropped, Live
  <2>2. \A t \in Spawns : reader'[t] = "none" <=> reader[t] = "none"
    BY <1>18 DEF ReadDropped, Live
  <2>3. UNCHANGED <<sessions, born, taken, doomed>>
    BY <1>18 DEF ReadDropped, Live
  <2> QED
    BY <2>1, <2>2, <2>3 DEF Births, IdOf
<1>19. ASSUME Prune PROVE Births'
  BY <1>19, <1>1 DEF Prune
<1>20. ASSUME Stop PROVE Births'
  <2>1. \A t \in Registered : child[t] # "none"
    BY Known DEF Births
  <2>2. \A id \in Ids : sessions'[id] = NoSession
    BY <1>20 DEF Stop, Drain
  <2>3. taken' = taken \cup Registered /\ doomed' = Registered /\ UNCHANGED <<born, child, reader>>
    BY <1>20 DEF Stop, Drain
  <2> QED
    BY <2>1, <2>2, <2>3, Known, NamesAssumption DEF Births, IdOf, Spawns
<1>21. ASSUME AbortClients PROVE Births'
  BY <1>21, <1>1 DEF AbortClients, Advance, Killed
<1>22. ASSUME ShutDownAgain PROVE Births'
  <2>1. \A t \in Registered : child[t] # "none"
    BY Known DEF Births
  <2>2. \A id \in Ids : sessions'[id] = NoSession
    BY <1>22 DEF ShutDownAgain, Drain
  <2>3. taken' = taken \cup Registered /\ doomed' = Registered /\ UNCHANGED <<born, child, reader>>
    BY <1>22 DEF ShutDownAgain, Drain
  <2> QED
    BY <2>1, <2>2, <2>3, Known, NamesAssumption DEF Births, IdOf, Spawns
<1>23. ASSUME Stopped PROVE Births'
  BY <1>23, <1>1 DEF Stopped, Advance, Killed
<1>24. ASSUME NEW s \in Spawns, KillNext(s) PROVE Births'
  BY <1>24 DEF KillNext, Births, IdOf
<1> QED
  BY <1>1, <1>2, <1>3, <1>4, <1>5, <1>6, <1>7, <1>8, <1>9, <1>10, <1>11, <1>12, <1>13, <1>14, <1>15,
     <1>16, <1>17, <1>18, <1>19, <1>20, <1>21, <1>22, <1>23, <1>24 DEF Next, Creating, Killing,
     Reading, ShuttingDown, vars

\* Every step keeps what is known of the readers.
LEMMA ReadersKept ==
    ASSUME Inv, [Next]_vars PROVE Readers'
<1> TypeOK /\ Jobs /\ Births /\ Readers /\ Apart /\ Reservations /\ Room /\ Chain /\ Kills /\ Last
  BY DEF Inv, RegistryInv
<1> /\ sessions \in [Ids -> Spawns \cup {NoSession}]
    /\ child \in [Spawns -> {"none", "running", "detached", "dead", "reaped"}]
    /\ reader \in [Spawns -> {"none", "reading", "waiting", "reaped", "removing",
                                 "blind", "done"}]
    /\ pc \in [Actors -> {"idle", "spawning", "inserting", "starting", "handing",
                             "signalling", "joining"}]
    /\ job \in [Actors -> [id : Ids \cup {NoSession}, session : Spawns \cup {NoSession}]]
  BY DEF TypeOK
<1> Daemon \in Actors /\ \A c \in Clients : c \in Actors /\ c # Daemon
  BY NamesAssumption DEF Actors, Clients
<1>1. ASSUME UNCHANGED <<sessions, child, reader>> PROVE Readers'
  BY <1>1 DEF Readers
<1>2. ASSUME NEW c \in Clients, NEW id \in Ids, Reserve(c, id) PROVE Readers'
  BY <1>2, <1>1 DEF Reserve
<1>3. ASSUME NEW c \in Clients, NEW id \in Ids, Refuse(c, id) PROVE Readers'
  BY <1>3, <1>1 DEF Refuse
<1>4. ASSUME NEW c \in Clients, NEW id \in Ids, TakeOut(c, id) PROVE Readers'
  BY <1>4, NamesAssumption DEF TakeOut, Readers, Spawns
<1>5. ASSUME NEW c \in Clients, SpawnFails(c) PROVE Readers'
  BY <1>5, <1>1 DEF SpawnFails
<1>6. ASSUME NEW c \in Clients, NEW s \in Spawns, Spawn(c, s) PROVE Readers'
  BY <1>6 DEF Spawn, Births, Readers
<1>7. ASSUME NEW c \in Clients, Insert(c) PROVE Readers'
  BY <1>7, Held DEF Insert, Jobs, JobOf, Readers
<1>8. ASSUME NEW c \in Clients, StartReader(c) PROVE Readers'
  BY <1>8, Held DEF StartReader, Readers
<1>9. ASSUME NEW c \in Clients, SetHandle(c) PROVE Readers'
  BY <1>9, <1>1 DEF SetHandle
<1>10. ASSUME NEW e \in Actors, Signal(e) PROVE Readers'
  BY <1>10, Signalled DEF Readers
<1>11. ASSUME NEW e \in Actors, SignalFails(e) PROVE Readers'
  BY <1>11, <1>1 DEF SignalFails
<1>12. ASSUME NEW e \in Actors, Join(e) PROVE Readers'
  BY <1>12, <1>1 DEF Join
<1>13. ASSUME NEW s \in Spawns, ReadEnd(s) PROVE Readers'
  BY <1>13 DEF ReadEnd, Readers
<1>14. ASSUME NEW s \in Spawns, Reap(s) PROVE Readers'
  BY <1>14 DEF Reap, Readers
<1>15. ASSUME NEW s \in Spawns, Finish(s) PROVE Readers'
  <2>1. CASE Referenced(s)
    BY <1>15, <2>1 DEF Finish, Readers
  <2>2. CASE ~Referenced(s)
    <3>1. \A id \in Ids : sessions[id] # s
      BY <2>2, Known, NamesAssumption DEF Referenced, Spawns
    <3>2. reader[s] = "reaped" /\ reader' = [reader EXCEPT ![s] = "blind"] /\ UNCHANGED <<child, sessions>>
      BY <1>15, <2>2 DEF Finish
    <3> QED
      BY <3>1, <3>2 DEF Readers
  <2> QED
    BY <2>1, <2>2
<1>16. ASSUME NEW s \in Spawns, Remove(s) PROVE Readers'
  BY <1>16, NamesAssumption DEF Remove, Readers, Spawns
<1>17. ASSUME NEW s \in Spawns, NEW end \in {"dead", "detached"}, ProgramEnds(s, end) PROVE Readers'
  BY <1>17 DEF ProgramEnds, Readers
<1>18. ASSUME NEW s \in Spawns, NEW end \in {"dead", "detached"}, ReadDropped(s, end) PROVE Readers'
  <2>1. \A id \in Ids : sessions[id] # s
    BY <1>18, Known, NamesAssumption DEF ReadDropped, Referenced, Spawns
  <2>2. reader' = [reader EXCEPT ![s] = "blind"] /\ UNCHANGED sessions
    BY <1>18 DEF ReadDropped
  <2>3. \A t \in Spawns : child[t] = "reaped" => child'[t] = "reaped"
    BY <1>18 DEF ReadDropped, Live
  <2> QED
    BY <2>1, <2>2, <2>3 DEF Readers
<1>19. ASSUME Prune PROVE Readers'
  BY <1>19, <1>1 DEF Prune
<1>20. ASSUME Stop PROVE Readers'
  <2>1. \A id \in Ids : sessions'[id] = NoSession
    BY <1>20 DEF Stop, Drain
  <2>2. UNCHANGED <<child, reader>>
    BY <1>20 DEF Stop, Drain
  <2> QED
    BY <2>1, <2>2, NamesAssumption DEF Spawns, Readers
<1>21. ASSUME AbortClients PROVE Readers'
  BY <1>21, <1>1 DEF AbortClients, Advance, Killed
<1>22. ASSUME ShutDownAgain PROVE Readers'
  <2>1. \A id \in Ids : sessions'[id] = NoSession
    BY <1>22 DEF ShutDownAgain, Drain
  <2>2. UNCHANGED <<child, reader>>
    BY <1>22 DEF ShutDownAgain, Drain
  <2> QED
    BY <2>1, <2>2, NamesAssumption DEF Spawns, Readers
<1>23. ASSUME Stopped PROVE Readers'
  BY <1>23, <1>1 DEF Stopped, Advance, Killed
<1>24. ASSUME NEW s \in Spawns, KillNext(s) PROVE Readers'
  BY <1>24, <1>1 DEF KillNext
<1> QED
  BY <1>1, <1>2, <1>3, <1>4, <1>5, <1>6, <1>7, <1>8, <1>9, <1>10, <1>11, <1>12, <1>13, <1>14, <1>15,
     <1>16, <1>17, <1>18, <1>19, <1>20, <1>21, <1>22, <1>23, <1>24 DEF Next, Creating, Killing,
     Reading, ShuttingDown, vars

\* Every step keeps what is in the map apart from what was taken out.
LEMMA ApartKept ==
    ASSUME Inv, [Next]_vars PROVE Apart'
<1> TypeOK /\ Jobs /\ Births /\ Readers /\ Apart /\ Reservations /\ Room /\ Chain /\ Kills /\ Last
  BY DEF Inv, RegistryInv
<1> /\ sessions \in [Ids -> Spawns \cup {NoSession}]
    /\ pc \in [Actors -> {"idle", "spawning", "inserting", "starting", "handing",
                             "signalling", "joining"}]
    /\ job \in [Actors -> [id : Ids \cup {NoSession}, session : Spawns \cup {NoSession}]]
    /\ taken \subseteq Spawns
  BY DEF TypeOK
<1> Daemon \in Actors /\ \A c \in Clients : c \in Actors /\ c # Daemon
  BY NamesAssumption DEF Actors, Clients
<1>1. ASSUME UNCHANGED <<sessions, pc, job, taken>> PROVE Apart'
  BY <1>1 DEF Apart, InFlight
<1>2. ASSUME NEW c \in Clients, NEW id \in Ids, Reserve(c, id) PROVE Apart'
  <2>1. \A t \in Spawns : InFlight(t)' => InFlight(t)
    BY <1>2 DEF Reserve, InFlight
  <2>2. UNCHANGED <<sessions, taken>>
    BY <1>2 DEF Reserve
  <2> QED
    BY <2>1, <2>2 DEF Apart
<1>3. ASSUME NEW c \in Clients, NEW id \in Ids, Refuse(c, id) PROVE Apart'
  BY <1>3, <1>1 DEF Refuse
<1>4. ASSUME NEW c \in Clients, NEW id \in Ids, TakeOut(c, id) PROVE Apart'
  <2>1. \A t \in Spawns : InFlight(t)' => InFlight(t)
    BY <1>4 DEF TakeOut, InFlight
  <2>2. sessions' = [sessions EXCEPT ![id] = NoSession] /\ taken' = taken \cup {sessions[id]} /\ sessions[id] \in Spawns
    BY <1>4 DEF TakeOut
  <2>3. \A i \in Ids, t \in Spawns : sessions'[i] = t => sessions[i] = t /\ t # sessions[id]
    BY <2>2, NamesAssumption DEF Births, Spawns
  <2> QED
    BY <2>1, <2>2, <2>3 DEF Apart
<1>5. ASSUME NEW c \in Clients, SpawnFails(c) PROVE Apart'
  <2>1. \A t \in Spawns : InFlight(t)' => InFlight(t)
    BY <1>5 DEF SpawnFails, InFlight
  <2>2. UNCHANGED <<sessions, taken>>
    BY <1>5 DEF SpawnFails
  <2> QED
    BY <2>1, <2>2 DEF Apart
<1>6. ASSUME NEW c \in Clients, NEW s \in Spawns, Spawn(c, s) PROVE Apart'
  <2>1. \A t \in Spawns \ {s} : InFlight(t)' => InFlight(t)
    BY <1>6 DEF Spawn, InFlight
  <2>2. child[s] = "none" /\ UNCHANGED <<sessions, taken>>
    BY <1>6 DEF Spawn
  <2> QED
    BY <2>1, <2>2 DEF Apart, Births
<1>7. ASSUME NEW c \in Clients, Insert(c) PROVE Apart'
  <2> DEFINE s == job[c].session
             i == job[c].id
  <2>1. pc[c] = "inserting" /\ pc'[c] = "starting" /\ \A b \in Actors \ {c} : pc'[b] = pc[b] /\ job'[b] = job[b]
    BY <1>7 DEF Insert
  <2>2. s \in Spawns /\ i \in Ids /\ InFlight(s) /\ born[s] = [id |-> i, by |-> c]
    BY <2>1, Held DEF InFlight
  <2>3. \A b \in Clients : pc[b] = "inserting" /\ b # c => job[b].session # s
    <3>1. ASSUME NEW b \in Clients, pc[b] = "inserting", job[b].session = s PROVE b = c
      <4>1. born[s] = [id |-> job[b].id, by |-> b]
        BY <3>1, Held
      <4>2. born[s].by = b
        BY <4>1
      <4>3. born[s].by = c
        BY <2>2
      <4> QED
        BY <4>2, <4>3
    <3> QED
      BY <3>1
  <2>4. \A t \in Spawns : InFlight(t)' => InFlight(t) /\ t # s
    BY <2>1, <2>3 DEF InFlight
  <2>5. sessions' = [sessions EXCEPT ![i] = s] /\ UNCHANGED taken
    BY <1>7 DEF Insert
  <2> HIDE DEF s, i
  <2>6. \A id \in Ids, t \in Spawns : sessions'[id] = t => sessions[id] = t \/ t = s
    BY <2>2, <2>5
  <2> QED
    BY <2>2, <2>4, <2>5, <2>6 DEF Apart
<1>8. ASSUME NEW c \in Clients, StartReader(c) PROVE Apart'
  <2>1. \A t \in Spawns : InFlight(t)' => InFlight(t)
    BY <1>8 DEF StartReader, InFlight
  <2>2. UNCHANGED <<sessions, taken>>
    BY <1>8 DEF StartReader
  <2> QED
    BY <2>1, <2>2 DEF Apart
<1>9. ASSUME NEW c \in Clients, SetHandle(c) PROVE Apart'
  <2>1. \A t \in Spawns : InFlight(t)' => InFlight(t)
    BY <1>9 DEF SetHandle, InFlight
  <2>2. UNCHANGED <<sessions, taken>>
    BY <1>9 DEF SetHandle
  <2> QED
    BY <2>1, <2>2 DEF Apart
<1>10. ASSUME NEW e \in Actors, Signal(e) PROVE Apart'
  <2>1. \A t \in Spawns : InFlight(t)' => InFlight(t)
    BY <1>10, Signalled DEF InFlight
  <2> QED
    BY <1>10, <2>1, Signalled DEF Apart
<1>11. ASSUME NEW e \in Actors, SignalFails(e) PROVE Apart'
  <2>1. \A t \in Spawns : InFlight(t)' => InFlight(t)
    BY <1>11 DEF SignalFails, InFlight
  <2>2. UNCHANGED <<sessions, taken>>
    BY <1>11 DEF SignalFails
  <2> QED
    BY <2>1, <2>2 DEF Apart
<1>12. ASSUME NEW e \in Actors, Join(e) PROVE Apart'
  <2>1. \A t \in Spawns : InFlight(t)' => InFlight(t)
    BY <1>12 DEF Join, InFlight
  <2>2. UNCHANGED <<sessions, taken>>
    BY <1>12 DEF Join
  <2> QED
    BY <2>1, <2>2 DEF Apart
<1>13. ASSUME NEW s \in Spawns, ReadEnd(s) PROVE Apart'
  BY <1>13, <1>1 DEF ReadEnd
<1>14. ASSUME NEW s \in Spawns, Reap(s) PROVE Apart'
  BY <1>14, <1>1 DEF Reap
<1>15. ASSUME NEW s \in Spawns, Finish(s) PROVE Apart'
  BY <1>15, <1>1 DEF Finish
<1>16. ASSUME NEW s \in Spawns, Remove(s) PROVE Apart'
  <2>1. \A t \in Spawns : InFlight(t)' => InFlight(t)
    BY <1>16 DEF Remove, InFlight
  <2>2. sessions' = [sessions EXCEPT ![IdOf(s)] = NoSession] /\ UNCHANGED taken
    BY <1>16 DEF Remove
  <2> QED
    BY <2>1, <2>2, NamesAssumption DEF Apart, Spawns
<1>17. ASSUME NEW s \in Spawns, NEW end \in {"dead", "detached"}, ProgramEnds(s, end) PROVE Apart'
  BY <1>17, <1>1 DEF ProgramEnds
<1>18. ASSUME NEW s \in Spawns, NEW end \in {"dead", "detached"}, ReadDropped(s, end) PROVE Apart'
  BY <1>18, <1>1 DEF ReadDropped
<1>19. ASSUME Prune PROVE Apart'
  BY <1>19, <1>1 DEF Prune
<1>20. ASSUME Stop PROVE Apart'
  <2>1. \A t \in Spawns : InFlight(t)' => InFlight(t)
    BY <1>20 DEF Stop, Drain, InFlight
  <2>2. (\A id \in Ids : sessions'[id] = NoSession) /\ taken' = taken \cup Registered
    BY <1>20 DEF Stop, Drain
  <2> QED
    BY <2>1, <2>2, Known, NamesAssumption DEF Apart, Spawns
<1>21. ASSUME AbortClients PROVE Apart'
  BY <1>21, <1>1 DEF AbortClients, Advance, Killed
<1>22. ASSUME ShutDownAgain PROVE Apart'
  <2>1. \A t \in Spawns : InFlight(t)' => InFlight(t)
    BY <1>22 DEF ShutDownAgain, Drain, InFlight
  <2>2. (\A id \in Ids : sessions'[id] = NoSession) /\ taken' = taken \cup Registered
    BY <1>22 DEF ShutDownAgain, Drain
  <2> QED
    BY <2>1, <2>2, Known, NamesAssumption DEF Apart, Spawns
<1>23. ASSUME Stopped PROVE Apart'
  BY <1>23, <1>1 DEF Stopped, Advance, Killed
<1>24. ASSUME NEW s \in Spawns, KillNext(s) PROVE Apart'
  <2>1. \A t \in Spawns : InFlight(t)' => InFlight(t)
    BY <1>24 DEF KillNext, InFlight
  <2>2. UNCHANGED <<sessions, taken>>
    BY <1>24 DEF KillNext
  <2> QED
    BY <2>1, <2>2 DEF Apart
<1> QED
  BY <1>1, <1>2, <1>3, <1>4, <1>5, <1>6, <1>7, <1>8, <1>9, <1>10, <1>11, <1>12, <1>13, <1>14, <1>15,
     <1>16, <1>17, <1>18, <1>19, <1>20, <1>21, <1>22, <1>23, <1>24 DEF Next, Creating, Killing,
     Reading, ShuttingDown, vars

\* Every step keeps the reservations.
LEMMA ReservationsKept ==
    ASSUME Inv, [Next]_vars PROVE Reservations'
<1> TypeOK /\ Jobs /\ Births /\ Readers /\ Apart /\ Reservations /\ Room /\ Chain /\ Kills /\ Last
  BY DEF Inv, RegistryInv
<1> Daemon \in Actors /\ \A c \in Clients : c \in Actors /\ c # Daemon
  BY NamesAssumption DEF Actors, Clients
<1> USE NamesAssumption DEF TypeOK, Reservations, Creates, NoJob
<1>1. ASSUME UNCHANGED <<sessions, creating, pc, job, daemon>> PROVE Reservations'
  BY <1>1
<1>2. ASSUME NEW c \in Clients, NEW id \in Ids, Reserve(c, id) PROVE Reservations'
  BY <1>2, FS_AddElement DEF Reserve, Exists, Serves
<1>3. ASSUME NEW c \in Clients, NEW id \in Ids, Refuse(c, id) PROVE Reservations'
  BY <1>3, <1>1 DEF Refuse
<1>4. ASSUME NEW c \in Clients, NEW id \in Ids, TakeOut(c, id) PROVE Reservations'
  BY <1>4 DEF TakeOut, Serves
<1>5. ASSUME NEW c \in Clients, SpawnFails(c) PROVE Reservations'
  BY <1>5, FS_RemoveElement DEF SpawnFails
<1>6. ASSUME NEW c \in Clients, NEW s \in Spawns, Spawn(c, s) PROVE Reservations'
  BY <1>6 DEF Spawn
<1>7. ASSUME NEW c \in Clients, Insert(c) PROVE Reservations'
  BY <1>7, FS_RemoveElement DEF Insert
<1>8. ASSUME NEW c \in Clients, StartReader(c) PROVE Reservations'
  BY <1>8 DEF StartReader
<1>9. ASSUME NEW c \in Clients, SetHandle(c) PROVE Reservations'
  BY <1>9 DEF SetHandle
<1>10. ASSUME NEW e \in Actors, Signal(e) PROVE Reservations'
  <2>1. \A c \in Clients : Creates(c)' => Creates(c) /\ job'[c] = job[c]
    BY <1>10, Signalled
  <2> QED
    BY <1>10, <2>1, Signalled
<1>11. ASSUME NEW e \in Actors, SignalFails(e) PROVE Reservations'
  BY <1>11 DEF SignalFails
<1>12. ASSUME NEW e \in Actors, Join(e) PROVE Reservations'
  BY <1>12 DEF Join
<1>13. ASSUME NEW s \in Spawns, ReadEnd(s) PROVE Reservations'
  BY <1>13, <1>1 DEF ReadEnd
<1>14. ASSUME NEW s \in Spawns, Reap(s) PROVE Reservations'
  BY <1>14, <1>1 DEF Reap
<1>15. ASSUME NEW s \in Spawns, Finish(s) PROVE Reservations'
  BY <1>15, <1>1 DEF Finish
<1>16. ASSUME NEW s \in Spawns, Remove(s) PROVE Reservations'
  BY <1>16 DEF Remove
<1>17. ASSUME NEW s \in Spawns, NEW end \in {"dead", "detached"}, ProgramEnds(s, end) PROVE Reservations'
  BY <1>17, <1>1 DEF ProgramEnds
<1>18. ASSUME NEW s \in Spawns, NEW end \in {"dead", "detached"}, ReadDropped(s, end) PROVE Reservations'
  BY <1>18, <1>1 DEF ReadDropped
<1>19. ASSUME Prune PROVE Reservations'
  BY <1>19, <1>1 DEF Prune
<1>20. ASSUME Stop PROVE Reservations'
  BY <1>20, FS_EmptySet DEF Stop, Drain
<1>21. ASSUME AbortClients PROVE Reservations'
  BY <1>21 DEF AbortClients, Advance, Killed
<1>22. ASSUME ShutDownAgain PROVE Reservations'
  BY <1>22, FS_EmptySet DEF ShutDownAgain, Drain
<1>23. ASSUME Stopped PROVE Reservations'
  BY <1>23 DEF Stopped, Advance, Killed
<1>24. ASSUME NEW s \in Spawns, KillNext(s) PROVE Reservations'
  BY <1>24 DEF KillNext
<1> QED
  BY <1>1, <1>2, <1>3, <1>4, <1>5, <1>6, <1>7, <1>8, <1>9, <1>10, <1>11, <1>12, <1>13, <1>14, <1>15,
     <1>16, <1>17, <1>18, <1>19, <1>20, <1>21, <1>22, <1>23, <1>24 DEF Next, Creating, Killing,
     Reading, ShuttingDown, vars

\* The size of a set and of one with one element more or less.
LEMMA Sizes ==
    ASSUME NEW S, IsFiniteSet(S)
    PROVE  /\ Cardinality(S) \in Nat
           /\ \A T \in SUBSET S : IsFiniteSet(T) /\ Cardinality(T) \in Nat /\ Cardinality(T) <= Cardinality(S)
           /\ \A x : /\ IsFiniteSet(S \cup {x}) /\ Cardinality(S \cup {x}) <= Cardinality(S) + 1
                     /\ IsFiniteSet(S \ {x})
                     /\ x \in S => Cardinality(S \ {x}) = Cardinality(S) - 1
<1>1. Cardinality(S) \in Nat
  BY FS_CardinalityType
<1>2. \A T \in SUBSET S : IsFiniteSet(T) /\ Cardinality(T) \in Nat /\ Cardinality(T) <= Cardinality(S)
  BY FS_Subset, FS_CardinalityType
<1>3. ASSUME NEW x PROVE IsFiniteSet(S \cup {x}) /\ Cardinality(S \cup {x}) <= Cardinality(S) + 1
  BY <1>1, FS_AddElement
<1>4. ASSUME NEW x PROVE IsFiniteSet(S \ {x}) /\ (x \in S => Cardinality(S \ {x}) = Cardinality(S) - 1)
  BY FS_RemoveElement
<1> QED
  BY <1>1, <1>2, <1>3, <1>4

\* Every step keeps the cap.
LEMMA RoomKept ==
    ASSUME Inv, [Next]_vars PROVE Room'
<1> TypeOK /\ Jobs /\ Births /\ Readers /\ Apart /\ Reservations /\ Room /\ Chain /\ Kills /\ Last
  BY DEF Inv, RegistryInv
<1> Daemon \in Actors /\ \A c \in Clients : c \in Actors /\ c # Daemon
  BY NamesAssumption DEF Actors, Clients
<1> USE DEF Room
<1>1. ASSUME UNCHANGED <<sessions, creating, daemon>> PROVE Room'
  BY <1>1 DEF Registered
<1>2. ASSUME NEW c \in Clients, NEW id \in Ids, Reserve(c, id) PROVE Room'
  <2>1. Registered' = Registered
    BY <1>2 DEF Reserve, Registered
  <2> QED
    BY <1>2, <2>1, Known, Sizes DEF Reserve, HasRoom, Reservations
<1>3. ASSUME NEW c \in Clients, NEW id \in Ids, Refuse(c, id) PROVE Room'
  BY <1>3, <1>1 DEF Refuse
<1>4. ASSUME NEW c \in Clients, NEW id \in Ids, TakeOut(c, id) PROVE Room'
  <2>1. Registered' \subseteq Registered
    BY <1>4 DEF TakeOut, Registered, TypeOK
  <2>2. Cardinality(Registered') <= Cardinality(Registered) /\ Cardinality(Registered') \in Nat
        /\ Cardinality(creating) \in Nat /\ Cardinality(Registered) \in Nat
    BY <2>1, Known, Sizes DEF Reservations
  <2> QED
    BY <1>4, <2>2, LimitsAssumption DEF TakeOut
<1>5. ASSUME NEW c \in Clients, SpawnFails(c) PROVE Room'
  <2>1. Registered' = Registered /\ creating' \subseteq creating
    BY <1>5 DEF SpawnFails, Registered
  <2>2. Cardinality(creating') <= Cardinality(creating) /\ Cardinality(creating') \in Nat
        /\ Cardinality(creating) \in Nat /\ Cardinality(Registered) \in Nat
    BY <2>1, Known, Sizes DEF Reservations
  <2> QED
    BY <1>5, <2>1, <2>2, LimitsAssumption DEF SpawnFails
<1>6. ASSUME NEW c \in Clients, NEW s \in Spawns, Spawn(c, s) PROVE Room'
  BY <1>6, <1>1 DEF Spawn
<1>7. ASSUME NEW c \in Clients, Insert(c) PROVE Room'
  <2> DEFINE new == job[c].session
  <2>1. Registered' \subseteq Registered \cup {new}
    BY <1>7, Zenon DEF Insert, Registered, TypeOK
  <2>2. Cardinality(Registered') <= Cardinality(Registered) + 1 /\ Cardinality(Registered') \in Nat
    <3>1. /\ IsFiniteSet(Registered \cup {new})
          /\ Cardinality(Registered \cup {new}) <= Cardinality(Registered) + 1
      BY Known, Sizes
    <3>2. Cardinality(Registered') <= Cardinality(Registered \cup {new}) /\ Cardinality(Registered') \in Nat
          /\ Cardinality(Registered \cup {new}) \in Nat /\ Cardinality(Registered) \in Nat
      BY <2>1, <3>1, Known, Sizes
    <3> QED
      BY <3>1, <3>2
  <2>3. daemon = "serving" =>
            Cardinality(creating') = Cardinality(creating) - 1 /\ Cardinality(creating) \in Nat
    BY <1>7, Sizes DEF Insert, Reservations, Creates
  <2> QED
    BY <1>7, <2>2, <2>3, Known, Sizes, LimitsAssumption DEF Insert
<1>8. ASSUME NEW c \in Clients, StartReader(c) PROVE Room'
  BY <1>8, <1>1 DEF StartReader
<1>9. ASSUME NEW c \in Clients, SetHandle(c) PROVE Room'
  BY <1>9, <1>1 DEF SetHandle
<1>10. ASSUME NEW e \in Actors, Signal(e) PROVE Room'
  BY <1>10, <1>1 DEF Signal
<1>11. ASSUME NEW e \in Actors, SignalFails(e) PROVE Room'
  BY <1>11, <1>1 DEF SignalFails
<1>12. ASSUME NEW e \in Actors, Join(e) PROVE Room'
  BY <1>12, <1>1 DEF Join
<1>13. ASSUME NEW s \in Spawns, ReadEnd(s) PROVE Room'
  BY <1>13, <1>1 DEF ReadEnd
<1>14. ASSUME NEW s \in Spawns, Reap(s) PROVE Room'
  BY <1>14, <1>1 DEF Reap
<1>15. ASSUME NEW s \in Spawns, Finish(s) PROVE Room'
  BY <1>15, <1>1 DEF Finish
<1>16. ASSUME NEW s \in Spawns, Remove(s) PROVE Room'
  <2>1. Registered' \subseteq Registered
    BY <1>16 DEF Remove, Registered, TypeOK
  <2>2. Cardinality(Registered') <= Cardinality(Registered) /\ Cardinality(Registered') \in Nat
        /\ Cardinality(creating) \in Nat /\ Cardinality(Registered) \in Nat
    BY <2>1, Known, Sizes DEF Reservations
  <2> QED
    BY <1>16, <2>2, LimitsAssumption DEF Remove
<1>17. ASSUME NEW s \in Spawns, NEW end \in {"dead", "detached"}, ProgramEnds(s, end) PROVE Room'
  BY <1>17, <1>1 DEF ProgramEnds
<1>18. ASSUME NEW s \in Spawns, NEW end \in {"dead", "detached"}, ReadDropped(s, end) PROVE Room'
  BY <1>18, <1>1 DEF ReadDropped
<1>19. ASSUME Prune PROVE Room'
  BY <1>19, <1>1 DEF Prune
<1>20. ASSUME Stop PROVE Room'
  BY <1>20 DEF Stop, Drain
<1>21. ASSUME AbortClients PROVE Room'
  BY <1>21 DEF AbortClients, Advance, Killed
<1>22. ASSUME ShutDownAgain PROVE Room'
  BY <1>22 DEF ShutDownAgain, Drain
<1>23. ASSUME Stopped PROVE Room'
  BY <1>23 DEF Stopped, Advance, Killed
<1>24. ASSUME NEW s \in Spawns, KillNext(s) PROVE Room'
  BY <1>24, <1>1 DEF KillNext
<1> QED
  BY <1>1, <1>2, <1>3, <1>4, <1>5, <1>6, <1>7, <1>8, <1>9, <1>10, <1>11, <1>12, <1>13, <1>14, <1>15,
     <1>16, <1>17, <1>18, <1>19, <1>20, <1>21, <1>22, <1>23, <1>24 DEF Next, Creating, Killing,
     Reading, ShuttingDown, vars

\* Every step keeps that a session goes astray only after a kill.
LEMMA ChainKept ==
    ASSUME Inv, [Next]_vars PROVE Chain'
<1> TypeOK /\ Jobs /\ Births /\ Readers /\ Apart /\ Reservations /\ Room /\ Chain /\ Kills /\ Last
  BY DEF Inv, RegistryInv
<1> /\ sessions \in [Ids -> Spawns \cup {NoSession}]
    /\ child \in [Spawns -> {"none", "running", "detached", "dead", "reaped"}]
    /\ reader \in [Spawns -> {"none", "reading", "waiting", "reaped", "removing",
                                 "blind", "done"}]
    /\ pc \in [Actors -> {"idle", "spawning", "inserting", "starting", "handing",
                             "signalling", "joining"}]
    /\ job \in [Actors -> [id : Ids \cup {NoSession}, session : Spawns \cup {NoSession}]]
    /\ taken \subseteq Spawns
  BY DEF TypeOK
<1> Daemon \in Actors /\ \A c \in Clients : c \in Actors /\ c # Daemon
  BY NamesAssumption DEF Actors, Clients
<1> SUFFICES ASSUME daemon' = "serving", NEW x \in Spawns, Astray(x)'
             PROVE  \E t \in taken' : IdOf(t)' = IdOf(x)'
  BY DEF Chain
<1> born = [s \in Spawns |-> born[s]] /\ \A t \in Spawns : child[t] # "none" => IdOf(t) \in Ids
  BY Spawned DEF TypeOK
<1>1. ASSUME UNCHANGED <<sessions, born, child, reader, pc, job, taken, daemon>> PROVE \E t \in taken' : IdOf(t)' = IdOf(x)'
  BY <1>1 DEF Chain, Astray, InFlight, Live, IdOf
<1>2. ASSUME NEW c \in Clients, NEW id \in Ids, Reserve(c, id) PROVE \E t \in taken' : IdOf(t)' = IdOf(x)'
  <2>1. pc'[c] # "inserting" /\ pc[c] # "inserting" /\ \A d \in Clients \ {c} : pc'[d] = pc[d] /\ job'[d] = job[d]
    BY <1>2 DEF Reserve, Serves
  <2>2. ~InFlight(x)
    BY <2>1 DEF InFlight, Astray
  <2>3. UNCHANGED <<sessions, born, child, reader, taken, daemon>>
    BY <1>2 DEF Reserve
  <2> QED
    BY <2>2, <2>3 DEF Chain, Astray, Live, IdOf
<1>3. ASSUME NEW c \in Clients, NEW id \in Ids, Refuse(c, id) PROVE \E t \in taken' : IdOf(t)' = IdOf(x)'
  BY <1>3, <1>1 DEF Refuse
<1>4. ASSUME NEW c \in Clients, NEW id \in Ids, TakeOut(c, id) PROVE \E t \in taken' : IdOf(t)' = IdOf(x)'
  <2>1. pc'[c] # "inserting" /\ pc[c] # "inserting" /\ \A d \in Clients \ {c} : pc'[d] = pc[d] /\ job'[d] = job[d]
    BY <1>4 DEF TakeOut, Serves
  <2>2. ~InFlight(x)
    BY <2>1 DEF InFlight, Astray
  <2>3. taken' = taken \cup {sessions[id]} /\ UNCHANGED <<born, child, reader, daemon>>
    BY <1>4 DEF TakeOut
  <2>4. \A i \in Ids : i # id => sessions'[i] = sessions[i]
    BY <1>4 DEF TakeOut
  <2>5. CASE sessions[IdOf(x)] = x /\ IdOf(x) = id
    BY <2>3, <2>5 DEF IdOf
  <2>6. CASE ~(sessions[IdOf(x)] = x /\ IdOf(x) = id)
    <3>1. sessions[IdOf(x)] # x
      BY <2>3, <2>4, <2>6, Spawned DEF Astray, IdOf
    <3> QED
      BY <2>2, <2>3, <3>1 DEF Chain, Astray, Live, IdOf
  <2> QED
    BY <2>5, <2>6
<1>5. ASSUME NEW c \in Clients, SpawnFails(c) PROVE \E t \in taken' : IdOf(t)' = IdOf(x)'
  BY <1>5 DEF SpawnFails, Chain, Astray, InFlight, Live, IdOf
<1>6. ASSUME NEW c \in Clients, NEW s \in Spawns, Spawn(c, s) PROVE \E t \in taken' : IdOf(t)' = IdOf(x)'
  <2>1. x # s
    BY <1>6 DEF Spawn, Astray, InFlight
  <2>2. \A t \in Spawns \ {s} : born'[t] = born[t] /\ child'[t] = child[t]
    BY <1>6 DEF Spawn
  <2>3. ~InFlight(x)
    BY <1>6 DEF Spawn, InFlight, Astray
  <2>4. UNCHANGED <<sessions, reader, taken, daemon>>
    BY <1>6 DEF Spawn
  <2>5. s \notin taken
    BY <1>6 DEF Spawn, Births
  <2> QED
    BY <2>1, <2>2, <2>3, <2>4, <2>5 DEF Chain, Astray, Live, IdOf
<1>7. ASSUME NEW c \in Clients, Insert(c) PROVE \E t \in taken' : IdOf(t)' = IdOf(x)'
  <2> DEFINE s == job[c].session
             i == job[c].id
  <2>1. s \in Spawns /\ i \in Ids /\ IdOf(s) = i
    BY <1>7, Held DEF Insert
  <2>2. i \in creating
    BY <1>7 DEF Insert, Reservations, Creates
  <2>3. sessions' = [sessions EXCEPT ![i] = s] /\ UNCHANGED <<born, child, reader, taken, daemon>>
    BY <1>7 DEF Insert
  <2>4. x # s => ~InFlight(x)
    BY <1>7 DEF Insert, InFlight, Astray
  <2> HIDE DEF s, i
  <2>5. x # s
    BY <2>1, <2>3 DEF Astray, IdOf
  <2>6. sessions[i] = NoSession
    BY <2>2, <2>3 DEF Reservations
  <2>7. sessions[IdOf(x)] # x
    BY <2>1, <2>3, <2>6, NamesAssumption DEF Astray, IdOf, Spawns
  <2> QED
    BY <2>3, <2>4, <2>5, <2>7 DEF Chain, Astray, Live, IdOf
<1>8. ASSUME NEW c \in Clients, StartReader(c) PROVE \E t \in taken' : IdOf(t)' = IdOf(x)'
  <2>1. pc'[c] # "inserting" /\ pc[c] # "inserting" /\ \A d \in Clients \ {c} : pc'[d] = pc[d] /\ job'[d] = job[d]
    BY <1>8 DEF StartReader
  <2>2. ~InFlight(x)
    BY <2>1 DEF InFlight, Astray
  <2>3. UNCHANGED <<sessions, born, child, taken, daemon>>
    BY <1>8 DEF StartReader
  <2>4. \A t \in Spawns : reader'[t] # "done" => reader[t] # "done"
    BY <1>8 DEF StartReader, Jobs, JobOf
  <2> QED
    BY <2>2, <2>3, <2>4 DEF Chain, Astray, Live, IdOf
<1>9. ASSUME NEW c \in Clients, SetHandle(c) PROVE \E t \in taken' : IdOf(t)' = IdOf(x)'
  BY <1>9 DEF SetHandle, Chain, Astray, InFlight, Live, IdOf
<1>10. ASSUME NEW e \in Actors, Signal(e) PROVE \E t \in taken' : IdOf(t)' = IdOf(x)'
  <2>1. ~InFlight(x)
    BY <1>10, Signalled DEF InFlight, Astray
  <2> QED
    BY <1>10, <2>1, Signalled DEF Chain, Astray, IdOf
<1>11. ASSUME NEW e \in Actors, SignalFails(e) PROVE \E t \in taken' : IdOf(t)' = IdOf(x)'
  BY <1>11 DEF SignalFails, Chain, Astray, InFlight, Live, IdOf
<1>12. ASSUME NEW e \in Actors, Join(e) PROVE \E t \in taken' : IdOf(t)' = IdOf(x)'
  BY <1>12 DEF Join, Chain, Astray, InFlight, Live, IdOf
<1>13. ASSUME NEW s \in Spawns, ReadEnd(s) PROVE \E t \in taken' : IdOf(t)' = IdOf(x)'
  BY <1>13 DEF ReadEnd, Chain, Astray, InFlight, Live, IdOf
<1>14. ASSUME NEW s \in Spawns, Reap(s) PROVE \E t \in taken' : IdOf(t)' = IdOf(x)'
  BY <1>14 DEF Reap, Chain, Astray, InFlight, Live, IdOf
<1>15. ASSUME NEW s \in Spawns, Finish(s) PROVE \E t \in taken' : IdOf(t)' = IdOf(x)'
  BY <1>15 DEF Finish, Chain, Astray, InFlight, Live, IdOf
<1>16. ASSUME NEW s \in Spawns, Remove(s) PROVE \E t \in taken' : IdOf(t)' = IdOf(x)'
  <2>1. sessions' = [sessions EXCEPT ![IdOf(s)] = NoSession] /\ reader[s] \in {"removing", "blind"}
    BY <1>16 DEF Remove
  <2>2. reader' = [reader EXCEPT ![s] = "done"]
    BY <1>16 DEF Remove
  <2>3. UNCHANGED <<born, child, pc, job, taken, daemon>>
    BY <1>16 DEF Remove
  <2>4. CASE sessions[IdOf(x)] # x
    BY <2>2, <2>3, <2>4 DEF Chain, Astray, InFlight, Live, IdOf
  <2>5. CASE sessions[IdOf(x)] = x
    <3>1. IdOf(x) = IdOf(s)
      BY <2>1, <2>3, <2>5, Spawned DEF Astray, IdOf
    <3>2. x # s
      <4>1. ASSUME x = s PROVE FALSE
        <5>1. Live(s) /\ IdOf(s) \in Ids
          BY <2>2, <2>3, <4>1, Spawned DEF Astray, Live
        <5>2. reader[s] = "blind"
          BY <2>1, <5>1 DEF Readers, Live
        <5> QED
          BY <5>1, <5>2, <4>1, <2>5 DEF Readers
      <4> QED
        BY <4>1
    <3>3. ~InFlight(s) /\ child[s] # "none"
      BY <2>1 DEF InFlight, Jobs, JobOf, Births
    <3>4. Astray(s)
      BY <2>1, <2>5, <3>1, <3>2, <3>3 DEF Astray
    <3> QED
      BY <2>3, <3>1, <3>4 DEF Chain, IdOf
  <2> QED
    BY <2>4, <2>5
<1>17. ASSUME NEW s \in Spawns, NEW end \in {"dead", "detached"}, ProgramEnds(s, end) PROVE \E t \in taken' : IdOf(t)' = IdOf(x)'
  BY <1>17 DEF ProgramEnds, Chain, Astray, InFlight, Live, IdOf
<1>18. ASSUME NEW s \in Spawns, NEW end \in {"dead", "detached"}, ReadDropped(s, end) PROVE \E t \in taken' : IdOf(t)' = IdOf(x)'
  BY <1>18 DEF ReadDropped, Chain, Astray, InFlight, Live, IdOf
<1>19. ASSUME Prune PROVE \E t \in taken' : IdOf(t)' = IdOf(x)'
  BY <1>19, <1>1 DEF Prune
<1>20. ASSUME Stop PROVE \E t \in taken' : IdOf(t)' = IdOf(x)'
  BY <1>20 DEF Stop, Drain, Chain, Astray, InFlight, Live, IdOf
<1>21. ASSUME AbortClients PROVE \E t \in taken' : IdOf(t)' = IdOf(x)'
  BY <1>21 DEF AbortClients, Advance, Killed, Chain, Astray, InFlight, Live, IdOf
<1>22. ASSUME ShutDownAgain PROVE \E t \in taken' : IdOf(t)' = IdOf(x)'
  BY <1>22 DEF ShutDownAgain, Drain, Chain, Astray, InFlight, Live, IdOf
<1>23. ASSUME Stopped PROVE \E t \in taken' : IdOf(t)' = IdOf(x)'
  BY <1>23 DEF Stopped, Advance, Killed, Chain, Astray, InFlight, Live, IdOf
<1>24. ASSUME NEW s \in Spawns, KillNext(s) PROVE \E t \in taken' : IdOf(t)' = IdOf(x)'
  BY <1>24 DEF KillNext, Chain, Astray, InFlight, Live, IdOf
<1> QED
  BY <1>1, <1>2, <1>3, <1>4, <1>5, <1>6, <1>7, <1>8, <1>9, <1>10, <1>11, <1>12, <1>13, <1>14, <1>15,
     <1>16, <1>17, <1>18, <1>19, <1>20, <1>21, <1>22, <1>23, <1>24 DEF Next, Creating, Killing,
     Reading, ShuttingDown, vars

\* Every step keeps that what was taken out is ended.
LEMMA KillsKept ==
    ASSUME Inv, [Next]_vars PROVE Kills'
<1> TypeOK /\ Jobs /\ Births /\ Readers /\ Apart /\ Reservations /\ Room /\ Chain /\ Kills /\ Last
  BY DEF Inv, RegistryInv
<1> /\ sessions \in [Ids -> Spawns \cup {NoSession}]
    /\ child \in [Spawns -> {"none", "running", "detached", "dead", "reaped"}]
    /\ pc \in [Actors -> {"idle", "spawning", "inserting", "starting", "handing",
                             "signalling", "joining"}]
    /\ job \in [Actors -> [id : Ids \cup {NoSession}, session : Spawns \cup {NoSession}]]
    /\ taken \subseteq Spawns
    /\ doomed \subseteq Spawns
  BY DEF TypeOK
<1> Daemon \in Actors /\ \A c \in Clients : c \in Actors /\ c # Daemon
  BY NamesAssumption DEF Actors, Clients
<1> USE DEF Kills, Ending, Live
<1>1. ASSUME UNCHANGED <<child, pc, job, taken, doomed, daemon>> PROVE Kills'
  BY <1>1
<1>2. ASSUME NEW c \in Clients, NEW id \in Ids, Reserve(c, id) PROVE Kills'
  BY <1>2 DEF Reserve, Serves
<1>3. ASSUME NEW c \in Clients, NEW id \in Ids, Refuse(c, id) PROVE Kills'
  BY <1>3, <1>1 DEF Refuse
<1>4. ASSUME NEW c \in Clients, NEW id \in Ids, TakeOut(c, id) PROVE Kills'
  BY <1>4 DEF TakeOut, Serves
<1>5. ASSUME NEW c \in Clients, SpawnFails(c) PROVE Kills'
  BY <1>5 DEF SpawnFails
<1>6. ASSUME NEW c \in Clients, NEW s \in Spawns, Spawn(c, s) PROVE Kills'
  BY <1>6 DEF Spawn, Births
<1>7. ASSUME NEW c \in Clients, Insert(c) PROVE Kills'
  BY <1>7 DEF Insert
<1>8. ASSUME NEW c \in Clients, StartReader(c) PROVE Kills'
  BY <1>8 DEF StartReader
<1>9. ASSUME NEW c \in Clients, SetHandle(c) PROVE Kills'
  BY <1>9 DEF SetHandle, Jobs, JobOf
<1>10. ASSUME NEW e \in Actors, Signal(e) PROVE Kills'
  BY <1>10, Signalled DEF Actors
<1>11. ASSUME NEW e \in Actors, SignalFails(e) PROVE Kills'
  <2>1. \A b \in Actors \ {e} : pc'[b] = pc[b] /\ job'[b] = job[b]
    BY <1>11 DEF SignalFails
  <2>2. pc[e] = "signalling" /\ pc'[e] # "signalling" /\ ~Live(job[e].session)
    BY <1>11 DEF SignalFails
  <2>4. UNCHANGED <<taken, doomed, daemon, child>>
    BY <1>11 DEF SignalFails
  <2> QED
    BY <2>1, <2>2, <2>4
<1>12. ASSUME NEW e \in Actors, Join(e) PROVE Kills'
  BY <1>12 DEF Join
<1>13. ASSUME NEW s \in Spawns, ReadEnd(s) PROVE Kills'
  BY <1>13, <1>1 DEF ReadEnd
<1>14. ASSUME NEW s \in Spawns, Reap(s) PROVE Kills'
  BY <1>14 DEF Reap
<1>15. ASSUME NEW s \in Spawns, Finish(s) PROVE Kills'
  BY <1>15, <1>1 DEF Finish
<1>16. ASSUME NEW s \in Spawns, Remove(s) PROVE Kills'
  BY <1>16, <1>1 DEF Remove
<1>17. ASSUME NEW s \in Spawns, NEW end \in {"dead", "detached"}, ProgramEnds(s, end) PROVE Kills'
  BY <1>17 DEF ProgramEnds
<1>18. ASSUME NEW s \in Spawns, NEW end \in {"dead", "detached"}, ReadDropped(s, end) PROVE Kills'
  <2>1. \A t \in Spawns : Live(t)' => Live(t)
    BY <1>18 DEF ReadDropped
  <2> QED
    BY <1>18, <2>1 DEF ReadDropped
<1>19. ASSUME Prune PROVE Kills'
  BY <1>19, <1>1 DEF Prune
<1>20. ASSUME Stop PROVE Kills'
  BY <1>20, Known DEF Stop, Drain
<1>21. ASSUME AbortClients PROVE Kills'
  BY <1>21 DEF AbortClients, Advance, Killed
<1>22. ASSUME ShutDownAgain PROVE Kills'
  <2>1. doomed = {} /\ taken' = taken \cup Registered /\ doomed' = Registered /\ UNCHANGED <<child, pc, job>>
    BY <1>22 DEF ShutDownAgain, Drain
  <2>2. daemon' = "rekilling"
    BY <1>22 DEF ShutDownAgain, Drain
  <2> QED
    BY <2>1, <2>2, Known
<1>23. ASSUME Stopped PROVE Kills'
  BY <1>23 DEF Stopped, Advance, Killed
<1>24. ASSUME NEW s \in Spawns, KillNext(s) PROVE Kills'
  BY <1>24 DEF KillNext
<1> QED
  BY <1>1, <1>2, <1>3, <1>4, <1>5, <1>6, <1>7, <1>8, <1>9, <1>10, <1>11, <1>12, <1>13, <1>14, <1>15,
     <1>16, <1>17, <1>18, <1>19, <1>20, <1>21, <1>22, <1>23, <1>24 DEF Next, Creating, Killing,
     Reading, ShuttingDown, vars

\* Every step keeps what the end of serve has left.
LEMMA LastKept ==
    ASSUME Inv, [Next]_vars PROVE Last'
<1> TypeOK /\ Jobs /\ Births /\ Readers /\ Apart /\ Reservations /\ Room /\ Chain /\ Kills /\ Last
  BY DEF Inv, RegistryInv
<1> /\ sessions \in [Ids -> Spawns \cup {NoSession}]
    /\ child \in [Spawns -> {"none", "running", "detached", "dead", "reaped"}]
    /\ pc \in [Actors -> {"idle", "spawning", "inserting", "starting", "handing",
                             "signalling", "joining"}]
    /\ job \in [Actors -> [id : Ids \cup {NoSession}, session : Spawns \cup {NoSession}]]
    /\ taken \subseteq Spawns
    /\ doomed \subseteq Spawns
  BY DEF TypeOK
<1> Daemon \in Actors /\ \A c \in Clients : c \in Actors /\ c # Daemon
  BY NamesAssumption DEF Actors, Clients
<1> SUFFICES ASSUME daemon' \in {"rekilling", "stopped"} PROVE Leftovers'
  BY DEF Last
<1> born = [s \in Spawns |-> born[s]]
  BY DEF TypeOK
<1> \A r \in Remote : r \in Clients /\ r \notin Local /\ r \in Actors /\ r # Daemon
  BY NamesAssumption DEF Clients, Actors
<1> \A c \in Local : c \in Clients /\ c # Daemon
  BY NamesAssumption DEF Clients
<1>1. ASSUME UNCHANGED <<sessions, born, child, pc, job, taken, doomed, daemon>> PROVE Leftovers'
  BY <1>1 DEF Last, Leftovers, Left, Abandoned, Lost, InFlight, IdOf, Live
<1>2. ASSUME NEW c \in Clients, NEW id \in Ids, Reserve(c, id) PROVE Leftovers'
  <2>1. daemon' = daemon /\ Leftovers
    BY <1>2 DEF Reserve, Last
  <2>2. c \in Remote /\ \A b \in Actors \ {c} : pc'[b] = pc[b] /\ job'[b] = job[b]
    BY <1>2, <2>1 DEF Reserve, Serves, Leftovers, Clients
  <2>3. pc[c] = "idle" /\ job[c].session = NoSession /\ pc'[c] = "spawning"
    BY <1>2, Idle DEF Reserve, Serves
  <2>4. UNCHANGED <<sessions, born, child, taken, doomed>>
    BY <1>2 DEF Reserve
  <2>5. \A t \in Spawns : InFlight(t)' => InFlight(t)
    BY <2>2, <2>3 DEF InFlight
  <2>6. \A t \in Spawns : Left(t) => Left(t)'
    BY <2>2, <2>3, <2>4, <2>5, NamesAssumption DEF Left, Lost, Abandoned, IdOf, Live, Spawns
  <2>7. \A t \in Spawns : Live(t)' => Live(t)
    BY <2>4 DEF Live
  <2> QED
    BY <2>1, <2>2, <2>3, <2>4, <2>5, <2>6, <2>7 DEF Leftovers, Left
<1>3. ASSUME NEW c \in Clients, NEW id \in Ids, Refuse(c, id) PROVE Leftovers'
  BY <1>3, <1>1 DEF Refuse
<1>4. ASSUME NEW c \in Clients, NEW id \in Ids, TakeOut(c, id) PROVE Leftovers'
  <2>1. daemon' = daemon /\ Leftovers
    BY <1>4 DEF TakeOut, Last
  <2>2. c \in Remote /\ \A b \in Actors \ {c} : pc'[b] = pc[b] /\ job'[b] = job[b]
    BY <1>4, <2>1 DEF TakeOut, Serves, Leftovers, Clients
  <2>3. pc[c] = "idle" /\ job[c].session = NoSession /\ pc'[c] = "signalling" /\ job'[c].session = sessions[id]
    BY <1>4, Idle DEF TakeOut, Serves
  <2>4. UNCHANGED <<born, child, doomed>>
    BY <1>4 DEF TakeOut
  <2>5. taken' = taken \cup {sessions[id]} /\ sessions' = [sessions EXCEPT ![id] = NoSession]
    BY <1>4 DEF TakeOut
  <2>6. \A t \in Spawns : InFlight(t)' => InFlight(t)
    BY <2>2, <2>3 DEF InFlight
  <2>7. \A t \in Spawns : Lost(t) => Lost(t)' \/ t = sessions[id]
    BY <2>4, <2>5, <2>6, Alive, NamesAssumption DEF Lost, IdOf, Live, Spawns
  <2>8. \A t \in Spawns : Abandoned(t) \/ t = sessions[id] => Abandoned(t)'
    BY <2>2, <2>3, <2>4, NamesAssumption DEF Abandoned, Spawns
  <2>9. \A t \in Spawns : Live(t)' => Live(t)
    BY <2>4 DEF Live
  <2>10. \A i \in Ids, t \in Spawns : sessions'[i] = t => sessions[i] = t
    BY <2>5, NamesAssumption DEF Spawns
  <2> QED
    BY <2>1, <2>2, <2>3, <2>4, <2>5, <2>6, <2>7, <2>8, <2>9, <2>10 DEF Leftovers, Left
<1>5. ASSUME NEW c \in Clients, SpawnFails(c) PROVE Leftovers'
  <2>1. daemon' = daemon /\ Leftovers
    BY <1>5 DEF SpawnFails, Last
  <2>2. c \in Remote /\ \A b \in Actors \ {c} : pc'[b] = pc[b] /\ job'[b] = job[b]
    BY <1>5, <2>1 DEF SpawnFails, Leftovers, Clients
  <2>3. pc[c] = "spawning" /\ job[c].session = NoSession /\ pc'[c] = "idle"
    BY <1>5 DEF SpawnFails, Jobs, JobOf
  <2>4. UNCHANGED <<sessions, born, child, taken, doomed>>
    BY <1>5 DEF SpawnFails
  <2>5. \A t \in Spawns : InFlight(t)' => InFlight(t)
    BY <2>2, <2>3 DEF InFlight
  <2>6. \A t \in Spawns : Left(t) => Left(t)'
    BY <2>2, <2>3, <2>4, <2>5, NamesAssumption DEF Left, Lost, Abandoned, IdOf, Live, Spawns
  <2>7. \A t \in Spawns : Live(t)' => Live(t)
    BY <2>4 DEF Live
  <2> QED
    BY <2>1, <2>2, <2>3, <2>4, <2>5, <2>6, <2>7 DEF Leftovers, Left
<1>6. ASSUME NEW c \in Clients, NEW s \in Spawns, Spawn(c, s) PROVE Leftovers'
  <2>1. daemon' = daemon /\ Leftovers
    BY <1>6 DEF Spawn, Last
  <2>2. c \in Remote /\ \A b \in Actors \ {c} : pc'[b] = pc[b] /\ job'[b] = job[b]
    BY <1>6, <2>1 DEF Spawn, Leftovers, Clients
  <2>3. pc[c] = "spawning" /\ job[c].session = NoSession /\ pc'[c] = "inserting" /\ job'[c].session = s
    BY <1>6 DEF Spawn, Jobs, JobOf
  <2>4. UNCHANGED <<sessions, taken, doomed>>
    BY <1>6 DEF Spawn
  <2>5. \A t \in Spawns \ {s} : born'[t] = born[t] /\ child'[t] = child[t]
    BY <1>6 DEF Spawn
  <2>6. born'[s].by = c /\ child[s] = "none"
    BY <1>6 DEF Spawn
  <2>7. \A id \in Ids : sessions[id] # s
    BY <2>6 DEF Births
  <2>8. \A t \in Spawns \ {s} : InFlight(t)' => InFlight(t)
    BY <2>2, <2>3 DEF InFlight
  <2>9. \A t \in Spawns \ {s} : Lost(t) => Lost(t)'
    BY <2>4, <2>5, <2>8 DEF Lost, IdOf, Live
  <2>10. \A t \in Spawns \ {s} : Abandoned(t) => Abandoned(t)'
    BY <2>2, <2>3, <2>5, NamesAssumption DEF Abandoned, Spawns
  <2>11. Abandoned(s)'
    BY <2>2, <2>6 DEF Abandoned
  <2>12. \A t \in Spawns \ {s} : Live(t)' => Live(t)
    BY <2>5 DEF Live
  <2> QED
    BY <2>1, <2>2, <2>3, <2>4, <2>5, <2>6, <2>7, <2>8, <2>9, <2>10, <2>11, <2>12 DEF Leftovers, Left
<1>7. ASSUME NEW c \in Clients, Insert(c) PROVE Leftovers'
  <2> DEFINE s == job[c].session
             i == job[c].id
  <2>1. daemon' = daemon /\ Leftovers
    BY <1>7 DEF Insert, Last
  <2>2. c \in Remote /\ \A b \in Actors \ {c} : pc'[b] = pc[b] /\ job'[b] = job[b]
    BY <1>7, <2>1 DEF Insert, Leftovers, Clients
  <2>3. pc[c] = "inserting" /\ s \in Spawns /\ i \in Ids /\ pc'[c] = "starting" /\ job'[c] = job[c]
    BY <1>7, Held DEF Insert
  <2>4. born[s] = [id |-> i, by |-> c]
    BY <1>7, Held DEF Insert
  <2>5. sessions' = [sessions EXCEPT ![i] = s] /\ UNCHANGED <<born, child, taken, doomed>>
    BY <1>7 DEF Insert
  <2>6. born[s].by \in Remote
    BY <2>2, <2>4
  <2>7. \A t \in Spawns : t # s => (InFlight(t)' => InFlight(t))
    BY <2>2, <2>3 DEF InFlight
  <2>8. \A t \in Spawns : Abandoned(t) => Abandoned(t)'
    BY <2>2, <2>3, <2>5 DEF Abandoned
  <2>9. \A t \in Spawns : Lost(t) => Lost(t)' \/ t = s
    BY <2>5, <2>7, Alive DEF Lost, IdOf, Live
  <2>10. \A t \in Spawns : t = s => Abandoned(t)'
    BY <2>5, <2>6 DEF Abandoned
  <2>11. \A t \in Spawns : Live(t)' => Live(t)
    BY <2>5 DEF Live
  <2>12. \A id \in Ids, t \in Spawns : sessions'[id] = t => sessions[id] = t \/ t = s
    BY <2>3, <2>5
  <2> QED
    BY <2>1, <2>2, <2>3, <2>4, <2>5, <2>6, <2>7, <2>8, <2>9, <2>10, <2>11, <2>12 DEF Leftovers, Left
<1>8. ASSUME NEW c \in Clients, StartReader(c) PROVE Leftovers'
  <2>1. daemon' = daemon /\ Leftovers
    BY <1>8 DEF StartReader, Last
  <2>2. c \in Remote /\ \A b \in Actors \ {c} : pc'[b] = pc[b] /\ job'[b] = job[b]
    BY <1>8, <2>1 DEF StartReader, Leftovers, Clients
  <2>3. pc[c] = "starting" /\ pc'[c] = "handing" /\ job'[c] = job[c]
    BY <1>8 DEF StartReader
  <2>4. UNCHANGED <<sessions, born, child, taken, doomed>>
    BY <1>8 DEF StartReader
  <2>5. \A t \in Spawns : InFlight(t)' => InFlight(t)
    BY <2>2, <2>3 DEF InFlight
  <2>6. \A t \in Spawns : Left(t) => Left(t)'
    BY <2>2, <2>3, <2>4, <2>5 DEF Left, Lost, Abandoned, IdOf, Live
  <2>7. \A t \in Spawns : Live(t)' => Live(t)
    BY <2>4 DEF Live
  <2> QED
    BY <2>1, <2>2, <2>3, <2>4, <2>5, <2>6, <2>7 DEF Leftovers, Left
<1>9. ASSUME NEW c \in Clients, SetHandle(c) PROVE Leftovers'
  <2> DEFINE s == job[c].session
  <2>1. daemon' = daemon /\ Leftovers
    BY <1>9 DEF SetHandle, Last
  <2>2. c \in Remote /\ \A b \in Actors \ {c} : pc'[b] = pc[b] /\ job'[b] = job[b]
    BY <1>9, <2>1 DEF SetHandle, Leftovers, Clients
  <2>3. pc[c] = "handing" /\ s \in Spawns /\ pc'[c] = "idle"
    BY <1>9, Held DEF SetHandle
  <2>4. born[s] = [id |-> job[c].id, by |-> c]
    BY <1>9, Held DEF SetHandle
  <2>5. UNCHANGED <<sessions, born, child, taken, doomed>>
    BY <1>9 DEF SetHandle
  <2>6. \A t \in Spawns : InFlight(t)' => InFlight(t)
    BY <2>2, <2>3 DEF InFlight
  <2>7. born[s].by \in Remote
    BY <2>2, <2>4
  <2>8. \A t \in Spawns : Abandoned(t) => Abandoned(t)'
    BY <2>2, <2>5, <2>7 DEF Abandoned
  <2>9. \A t \in Spawns : Lost(t) => Lost(t)'
    BY <2>5, <2>6 DEF Lost, IdOf, Live
  <2>10. \A t \in Spawns : Live(t)' => Live(t)
    BY <2>5 DEF Live
  <2> QED
    BY <2>1, <2>2, <2>3, <2>4, <2>5, <2>6, <2>7, <2>8, <2>9, <2>10 DEF Leftovers, Left
<1>10. ASSUME NEW e \in Actors, Signal(e) PROVE Leftovers'
  <2>1. daemon' = daemon /\ Leftovers
    BY <1>10, Signalled DEF Last
  <2>2. \A b \in Actors \ {e} : pc'[b] = pc[b] /\ job'[b] = job[b]
    BY <1>10, Signalled
  <2>3. pc[e] = "signalling" /\ pc'[e] \in {"idle", "joining"}
    BY <1>10, Signalled
  <2>4. UNCHANGED <<sessions, born, taken, doomed>>
    BY <1>10, Signalled
  <2>5. \A t \in Spawns : Live(t)' => Live(t) /\ t # job[e].session
    BY <1>10, Signalled
  <2>6. \A t \in Spawns : InFlight(t)' => InFlight(t)
    BY <2>2, <2>3 DEF InFlight
  <2>7. \A t \in Spawns : Live(t)' /\ Left(t) => Left(t)'
    BY <2>2, <2>3, <2>4, <2>5, <2>6 DEF Left, Lost, Abandoned, IdOf
  <2>8. \A c \in Local : pc'[c] = "idle"
    BY <2>1, <2>2, <2>3 DEF Leftovers
  <2> QED
    BY <2>1, <2>2, <2>3, <2>4, <2>5, <2>6, <2>7, <2>8 DEF Leftovers, Left
<1>11. ASSUME NEW e \in Actors, SignalFails(e) PROVE Leftovers'
  <2>1. daemon' = daemon /\ Leftovers
    BY <1>11 DEF SignalFails, Last
  <2>2. \A b \in Actors \ {e} : pc'[b] = pc[b] /\ job'[b] = job[b]
    BY <1>11 DEF SignalFails
  <2>3. pc[e] = "signalling" /\ pc'[e] = "idle" /\ ~Live(job[e].session)
    BY <1>11, Idle DEF SignalFails, Live
  <2>4. UNCHANGED <<sessions, born, child, taken, doomed>>
    BY <1>11 DEF SignalFails
  <2>5. \A t \in Spawns : InFlight(t)' => InFlight(t)
    BY <2>2, <2>3 DEF InFlight
  <2>6. \A t \in Spawns : Live(t) /\ Left(t) => Left(t)'
    BY <2>2, <2>3, <2>4, <2>5 DEF Left, Lost, Abandoned, IdOf, Live
  <2>7. \A c \in Local : pc'[c] = "idle"
    BY <2>1, <2>2, <2>3 DEF Leftovers
  <2>8. \A t \in Spawns : Live(t)' => Live(t)
    BY <2>4 DEF Live
  <2> QED
    BY <2>1, <2>2, <2>3, <2>4, <2>5, <2>6, <2>7, <2>8 DEF Leftovers, Left
<1>12. ASSUME NEW e \in Actors, Join(e) PROVE Leftovers'
  <2>1. daemon' = daemon /\ Leftovers
    BY <1>12 DEF Join, Last
  <2>2. \A b \in Actors \ {e} : pc'[b] = pc[b] /\ job'[b] = job[b]
    BY <1>12 DEF Join
  <2>3. pc[e] = "joining" /\ pc'[e] = "idle" /\ ~Live(job[e].session)
    BY <1>12, Idle DEF Join, Live
  <2>4. UNCHANGED <<sessions, born, child, taken, doomed>>
    BY <1>12 DEF Join
  <2>5. \A t \in Spawns : InFlight(t)' => InFlight(t)
    BY <2>2, <2>3 DEF InFlight
  <2>6. \A t \in Spawns : Live(t) /\ Left(t) => Left(t)'
    BY <2>2, <2>3, <2>4, <2>5 DEF Left, Lost, Abandoned, IdOf, Live
  <2>7. \A c \in Local : pc'[c] = "idle"
    BY <2>1, <2>2, <2>3 DEF Leftovers
  <2>8. \A t \in Spawns : Live(t)' => Live(t)
    BY <2>4 DEF Live
  <2> QED
    BY <2>1, <2>2, <2>3, <2>4, <2>5, <2>6, <2>7, <2>8 DEF Leftovers, Left
<1>13. ASSUME NEW s \in Spawns, ReadEnd(s) PROVE Leftovers'
  BY <1>13, <1>1 DEF ReadEnd
<1>14. ASSUME NEW s \in Spawns, Reap(s) PROVE Leftovers'
  <2>1. daemon' = daemon /\ Leftovers
    BY <1>14 DEF Reap, Last
  <2>2. UNCHANGED <<sessions, born, pc, job, taken, doomed>>
    BY <1>14 DEF Reap
  <2>3. \A t \in Spawns : Live(t)' => Live(t)
    BY <1>14 DEF Reap, Live
  <2>4. \A t \in Spawns : Live(t)' /\ Left(t) => Left(t)'
    BY <2>2, <2>3 DEF Left, Lost, InFlight, Abandoned, IdOf
  <2> QED
    BY <2>1, <2>2, <2>3, <2>4 DEF Leftovers, Left
<1>15. ASSUME NEW s \in Spawns, Finish(s) PROVE Leftovers'
  BY <1>15, <1>1 DEF Finish
<1>16. ASSUME NEW s \in Spawns, Remove(s) PROVE Leftovers'
  <2>1. daemon' = daemon /\ Leftovers
    BY <1>16 DEF Remove, Last
  <2>2. UNCHANGED <<born, child, pc, job, taken, doomed>>
    BY <1>16 DEF Remove
  <2>3. sessions' = [sessions EXCEPT ![IdOf(s)] = NoSession]
    BY <1>16 DEF Remove
  <2>4. \A id \in Ids, t \in Spawns : sessions'[id] = t => sessions[id] = t
    BY <2>3, NamesAssumption DEF Spawns
  <2>5. \A t \in Spawns : Left(t) => Left(t)'
    BY <2>2, <2>4, Alive DEF Left, Lost, InFlight, Abandoned, IdOf, Live
  <2>6. \A t \in Spawns : Live(t)' => Live(t)
    BY <2>2 DEF Live
  <2> QED
    BY <2>1, <2>2, <2>3, <2>4, <2>5, <2>6 DEF Leftovers, Left
<1>17. ASSUME NEW s \in Spawns, NEW end \in {"dead", "detached"}, ProgramEnds(s, end) PROVE Leftovers'
  <2>1. daemon' = daemon /\ Leftovers
    BY <1>17 DEF ProgramEnds, Last
  <2>2. UNCHANGED <<sessions, born, pc, job, taken, doomed>>
    BY <1>17 DEF ProgramEnds
  <2>3. \A t \in Spawns : Live(t)' => Live(t)
    BY <1>17 DEF ProgramEnds, Live
  <2>4. \A t \in Spawns : Live(t)' /\ Left(t) => Left(t)'
    BY <2>2, <2>3 DEF Left, Lost, InFlight, Abandoned, IdOf
  <2> QED
    BY <2>1, <2>2, <2>3, <2>4 DEF Leftovers, Left
<1>18. ASSUME NEW s \in Spawns, NEW end \in {"dead", "detached"}, ReadDropped(s, end) PROVE Leftovers'
  <2>1. daemon' = daemon /\ Leftovers
    BY <1>18 DEF ReadDropped, Last
  <2>2. UNCHANGED <<sessions, born, pc, job, taken, doomed>>
    BY <1>18 DEF ReadDropped
  <2>3. \A t \in Spawns : Live(t)' => Live(t)
    BY <1>18 DEF ReadDropped, Live
  <2>4. \A t \in Spawns : Live(t)' /\ Left(t) => Left(t)'
    BY <2>2, <2>3 DEF Left, Lost, InFlight, Abandoned, IdOf
  <2> QED
    BY <2>1, <2>2, <2>3, <2>4 DEF Leftovers, Left
<1>19. ASSUME Prune PROVE Leftovers'
  BY <1>19, <1>1 DEF Prune
<1>20. ASSUME Stop PROVE Leftovers'
  BY <1>20 DEF Stop, Drain
<1>21. ASSUME AbortClients PROVE Leftovers'
  BY <1>21 DEF AbortClients, Advance
<1>22. ASSUME ShutDownAgain PROVE Leftovers'
  <2>1. /\ \A c \in Local : pc[c] = "idle"
        /\ doomed = {} /\ pc[Daemon] = "idle"
        /\ taken' = taken \cup Registered /\ doomed' = Registered
        /\ UNCHANGED <<born, child, pc, job>>
    BY <1>22 DEF ShutDownAgain, Drain, Kills
  <2>2. \A id \in Ids : sessions'[id] = NoSession
    BY <1>22 DEF ShutDownAgain, Drain
  <2>3. ASSUME NEW s \in Spawns, Live(s), ~Abandoned(s), s \notin Registered PROVE Lost(s)'
    <3>1. s \notin taken
      BY <2>1, <2>3 DEF Kills, Ending, Abandoned, Actors, Clients
    <3>2. ~InFlight(s)
      BY <2>1, <2>3 DEF InFlight, Abandoned, Clients
    <3> QED
      BY <2>1, <2>2, <2>3, <3>1, <3>2, Alive, NamesAssumption DEF Lost, InFlight, IdOf, Live, Spawns
  <2>4. \A s \in Spawns : Live(s)' => Live(s) /\ (Abandoned(s) => Abandoned(s)')
    BY <2>1 DEF Live, Abandoned
  <2> QED
    BY <2>1, <2>2, <2>3, <2>4, NamesAssumption DEF Leftovers, Left, Spawns
<1>23. ASSUME Stopped PROVE Leftovers'
  <2>1. Leftovers /\ UNCHANGED <<sessions, born, child, pc, job, taken, doomed>>
    BY <1>23 DEF Stopped, Advance, Last
  <2> QED
    BY <2>1 DEF Leftovers, Left, Lost, Abandoned, InFlight, IdOf, Live
<1>24. ASSUME NEW s \in Spawns, KillNext(s) PROVE Leftovers'
  <2>1. daemon' = daemon /\ Leftovers
    BY <1>24 DEF KillNext, Last
  <2>2. \A b \in Actors \ {Daemon} : pc'[b] = pc[b] /\ job'[b] = job[b]
    BY <1>24 DEF KillNext
  <2>3. pc[Daemon] = "idle" /\ pc'[Daemon] = "signalling" /\ job'[Daemon].session = s
    BY <1>24 DEF KillNext
  <2>4. doomed' = doomed \ {s} /\ UNCHANGED <<sessions, born, child, taken>>
    BY <1>24 DEF KillNext
  <2>5. \A t \in Spawns : InFlight(t)' => InFlight(t)
    BY <2>2 DEF InFlight
  <2>6. \A t \in Spawns : Left(t) => Left(t)'
    BY <2>2, <2>3, <2>4, <2>5 DEF Left, Lost, Abandoned, IdOf, Live
  <2>7. \A t \in Spawns : Live(t)' => Live(t)
    BY <2>4 DEF Live
  <2> QED
    BY <2>1, <2>2, <2>3, <2>4, <2>5, <2>6, <2>7 DEF Leftovers, Left
<1> QED
  BY <1>1, <1>2, <1>3, <1>4, <1>5, <1>6, <1>7, <1>8, <1>9, <1>10, <1>11, <1>12, <1>13, <1>14, <1>15,
     <1>16, <1>17, <1>18, <1>19, <1>20, <1>21, <1>22, <1>23, <1>24 DEF Next, Creating, Killing,
     Reading, ShuttingDown, vars

\* Every part of the invariant holds of a registry that has just been made.
LEMMA InitInv == Init => Inv
<1> SUFFICES ASSUME Init PROVE Inv
  OBVIOUS
<1> USE NamesAssumption, LimitsAssumption DEF Init
<1>1. TypeOK
  BY DEF TypeOK, NoJob, Unborn
<1>7. Daemon \in Actors /\ \A c \in Clients : c \in Actors
  BY DEF Actors
<1>2. Jobs
  BY DEF Jobs, JobOf
<1>3. Births /\ Readers
  BY DEF Births, Readers, Spawns
<1>9. Apart
  BY <1>7 DEF Apart, InFlight, Spawns
<1>8. Reservations
  BY <1>7, FS_EmptySet DEF Reservations, Creates
<1>4. Registered = {}
  BY DEF Registered
<1>5. Room
  BY <1>4, FS_EmptySet DEF Room
<1>6. Chain /\ Kills /\ Last
  BY <1>7 DEF Chain, Astray, Kills, Last
<1> QED
  BY <1>1, <1>2, <1>3, <1>9, <1>8, <1>5, <1>6 DEF Inv, RegistryInv

\* The parts together: the invariant is inductive.
LEMMA NextInv == Inv /\ [Next]_vars => Inv'
BY TypesKept, JobsKept, BirthsKept, ReadersKept, ApartKept, ReservationsKept, RoomKept, ChainKept,
   KillsKept, LastKept
   DEF Inv, RegistryInv

-----------------------------------------------------------------------------
(* The promises. *)

\* The inductive invariant holds of every run of the daemon.
THEOREM RegistryCorrect == Spec => []RegistryInv
<1>1. Inv => RegistryInv
  BY DEF Inv
<1> QED
  BY InitInv, NextInv, <1>1, PTL DEF Spec

\* Every variable keeps its type.
THEOREM RegistryTypes == Spec => []TypeOK
<1>1. Inv => TypeOK
  BY DEF Inv
<1> QED
  BY InitInv, NextInv, <1>1, PTL DEF Spec

\* A running program is in the map or in the hands of a create, and a create that
\* has not inserted its session still has its reservation.
LEMMA CapOfInv == Inv => WithinCap
<1> SUFFICES ASSUME Inv, daemon = "serving"
             PROVE  Cardinality({s \in Spawns : Live(s) /\ s \notin taken /\ ~Lost(s)})
                    + Cardinality({c \in Clients : pc[c] = "spawning"}) <= MaxSessions
  BY DEF WithinCap
<1> DEFINE Running == {s \in Spawns : Live(s) /\ s \notin taken /\ ~Lost(s)}
           Inserting == {c \in Clients : pc[c] = "inserting"}
           Spawning == {c \in Clients : pc[c] = "spawning"}
           Owned == {job[c].session : c \in Inserting}
<1> TypeOK /\ Jobs /\ Births /\ Reservations /\ Room
  BY DEF Inv, RegistryInv
<1>1. /\ Cardinality(Registered) + Cardinality(creating) <= MaxSessions
      /\ IsFiniteSet(Registered) /\ IsFiniteSet(creating)
      /\ Cardinality(Registered) \in Nat /\ Cardinality(creating) \in Nat
  BY Known, Sizes DEF Room, Reservations
<1>2. IsFiniteSet(Inserting \cup Spawning) /\ Cardinality(Inserting \cup Spawning) <= Cardinality(creating)
  <2> DEFINE f == [c \in Inserting \cup Spawning |-> job[c].id]
  <2>1. f \in Injection(Inserting \cup Spawning, creating)
    BY <1>1 DEF Reservations, Creates, Injection, IsInjective
  <2> QED
    BY <1>1, <2>1, FS_Injection
<1>3. /\ IsFiniteSet(Inserting) /\ IsFiniteSet(Spawning)
      /\ Cardinality(Inserting) \in Nat /\ Cardinality(Spawning) \in Nat
      /\ Cardinality(Inserting \cup Spawning) = Cardinality(Inserting) + Cardinality(Spawning)
  <2>1. IsFiniteSet(Inserting) /\ IsFiniteSet(Spawning)
    BY <1>2, Sizes
  <2>2. Inserting \cap Spawning = {}
    OBVIOUS
  <2> HIDE DEF Inserting, Spawning
  <2>3. Cardinality(Inserting \cup Spawning)
            = Cardinality(Inserting) + Cardinality(Spawning) - Cardinality(Inserting \cap Spawning)
    BY <2>1, FS_Union
  <2>4. Cardinality(Inserting) \in Nat /\ Cardinality(Spawning) \in Nat
    BY <2>1, FS_CardinalityType
  <2> QED
    BY <2>1, <2>2, <2>3, <2>4, FS_EmptySet
<1>4. IsFiniteSet(Owned) /\ Cardinality(Owned) <= Cardinality(Inserting)
  <2> DEFINE g == [s \in Owned |-> born[s].by]
  <2>1. \A s \in Owned : \E c \in Inserting : s = job[c].session /\ born[s].by = c
    <3>1. ASSUME NEW c \in Inserting PROVE born[job[c].session].by = c
      <4>1. born[job[c].session] = [id |-> job[c].id, by |-> c]
        BY Held
      <4> QED
        BY <4>1
    <3> QED
      BY <3>1
  <2>2. \A s \in Owned : g[s] \in Inserting /\ job[g[s]].session = s
    BY <2>1
  <2>3. g \in [Owned -> Inserting]
    BY <2>2
  <2> HIDE DEF g, Inserting
  <2>4. g \in Injection(Owned, Inserting)
    BY <2>2, <2>3 DEF Injection, IsInjective
  <2> QED
    BY <1>3, <2>4, FS_Injection
<1>5. Running \subseteq Registered \cup Owned
  <2>1. ASSUME NEW s \in Running, s \notin Owned PROVE s \in Registered
    <3>1. ~InFlight(s)
      BY <2>1 DEF InFlight
    <3>2. sessions[IdOf(s)] = s /\ IdOf(s) \in Ids
      BY <2>1, <3>1, Alive DEF Lost
    <3> QED
      BY <3>2, Known, NamesAssumption DEF Spawns
  <2> QED
    BY <2>1
<1>6. /\ IsFiniteSet(Registered \cup Owned)
      /\ Cardinality(Registered \cup Owned) <= Cardinality(Registered) + Cardinality(Owned)
  <2> HIDE DEF Owned
  <2>1. IsFiniteSet(Registered \cup Owned) /\ IsFiniteSet(Registered \cap Owned)
    BY <1>1, <1>4, FS_Union, FS_Intersection
  <2>2. Cardinality(Registered \cup Owned)
            = Cardinality(Registered) + Cardinality(Owned) - Cardinality(Registered \cap Owned)
    BY <1>1, <1>4, FS_Union
  <2>3. Cardinality(Owned) \in Nat /\ Cardinality(Registered \cap Owned) \in Nat
    BY <1>4, <2>1, FS_CardinalityType
  <2> QED
    BY <1>1, <2>1, <2>2, <2>3
<1>7. /\ Cardinality(Running) <= Cardinality(Registered \cup Owned) /\ Cardinality(Running) \in Nat
      /\ Cardinality(Registered \cup Owned) \in Nat /\ Cardinality(Owned) \in Nat
  BY <1>4, <1>5, <1>6, Sizes
<1> HIDE DEF Running, Inserting, Spawning, Owned
<1>8. Cardinality(Running) + Cardinality(Spawning) <= MaxSessions
  BY <1>1, <1>2, <1>3, <1>4, <1>6, <1>7, LimitsAssumption
<1> QED
  BY <1>8 DEF Running, Spawning

\* create_session never lets more than MAX_SESSIONS programs run, for every number
\* of connections that create at once.
THEOREM CapHolds == Spec => []WithinCap
BY InitInv, NextInv, CapOfInv, PTL DEF Spec

\* The reader's removal by id is the only way to lose a session, and takes a kill.
THEOREM OnlyKillsLose == Spec => []LostOnlyAfterAKill
<1>1. Inv => LostOnlyAfterAKill
  BY DEF Inv, RegistryInv, LostOnlyAfterAKill, Lost, Succeeds, Chain, Astray, Live
<1> QED
  BY InitInv, NextInv, <1>1, PTL DEF Spec

\* Both shutdowns of serve together leave no program of a local client running.
THEOREM NothingIsLeft == Spec => []ShutdownLeavesNothing
<1>1. Inv => ShutdownLeavesNothing
  BY DEF Inv, RegistryInv, ShutdownLeavesNothing, Last, Leftovers, Left, Kills, Abandoned
<1> QED
  BY InitInv, NextInv, <1>1, PTL DEF Spec

\* What EndedStaysAttachable says of a step.
EndedStep ==
    \A id \in Ids :
        LET s == sessions[id]
        IN  (daemon' = "serving" /\ s # NoSession /\ sessions'[id] # s)
            => s \in taken' \/ s \in Remembered' \/ Succeeds(s)

\* A step that takes a session out of the map takes it, or remembers it.
LEMMA EndedLeaves ==
    ASSUME Inv, [Next]_vars PROVE EndedStep
<1> TypeOK /\ Jobs /\ Births /\ Readers /\ Apart /\ Reservations /\ Room /\ Chain /\ Kills /\ Last
  BY DEF Inv, RegistryInv
<1> /\ sessions \in [Ids -> Spawns \cup {NoSession}]
    /\ child \in [Spawns -> {"none", "running", "detached", "dead", "reaped"}]
    /\ reader \in [Spawns -> {"none", "reading", "waiting", "reaped", "removing",
                                 "blind", "done"}]
    /\ pc \in [Actors -> {"idle", "spawning", "inserting", "starting", "handing",
                             "signalling", "joining"}]
    /\ job \in [Actors -> [id : Ids \cup {NoSession}, session : Spawns \cup {NoSession}]]
    /\ taken \subseteq Spawns
  BY DEF TypeOK
<1> Daemon \in Actors /\ \A c \in Clients : c \in Actors /\ c # Daemon
  BY NamesAssumption DEF Actors, Clients
<1> SUFFICES ASSUME NEW id \in Ids, NEW s \in Spawns, sessions[id] = s,
                    daemon' = "serving", sessions'[id] # s
             PROVE  s \in taken' \/ s \in Remembered' \/ Succeeds(s)
  BY DEF EndedStep, TypeOK
<1>1. ASSUME UNCHANGED <<sessions>> PROVE s \in taken' \/ s \in Remembered' \/ Succeeds(s)
  BY <1>1
<1>2. ASSUME NEW c \in Clients, NEW i \in Ids, Reserve(c, i) PROVE s \in taken' \/ s \in Remembered' \/ Succeeds(s)
  BY <1>2, <1>1 DEF Reserve
<1>3. ASSUME NEW c \in Clients, NEW i \in Ids, Refuse(c, i) PROVE s \in taken' \/ s \in Remembered' \/ Succeeds(s)
  BY <1>3, <1>1 DEF Refuse
<1>4. ASSUME NEW c \in Clients, NEW i \in Ids, TakeOut(c, i) PROVE s \in taken' \/ s \in Remembered' \/ Succeeds(s)
  BY <1>4 DEF TakeOut
<1>5. ASSUME NEW c \in Clients, SpawnFails(c) PROVE s \in taken' \/ s \in Remembered' \/ Succeeds(s)
  BY <1>5, <1>1 DEF SpawnFails
<1>6. ASSUME NEW c \in Clients, NEW r \in Spawns, Spawn(c, r) PROVE s \in taken' \/ s \in Remembered' \/ Succeeds(s)
  BY <1>6, <1>1 DEF Spawn
<1>7. ASSUME NEW c \in Clients, Insert(c) PROVE s \in taken' \/ s \in Remembered' \/ Succeeds(s)
  <2> DEFINE i == job[c].id
  <2>1. i \in creating
    BY <1>7 DEF Insert, Reservations, Creates
  <2>2. sessions' = [sessions EXCEPT ![i] = job[c].session] /\ daemon' = daemon
    BY <1>7 DEF Insert
  <2> HIDE DEF i
  <2> QED
    BY <2>1, <2>2, NamesAssumption DEF Reservations, Spawns
<1>8. ASSUME NEW c \in Clients, StartReader(c) PROVE s \in taken' \/ s \in Remembered' \/ Succeeds(s)
  BY <1>8, <1>1 DEF StartReader
<1>9. ASSUME NEW c \in Clients, SetHandle(c) PROVE s \in taken' \/ s \in Remembered' \/ Succeeds(s)
  BY <1>9, <1>1 DEF SetHandle
<1>10. ASSUME NEW e \in Actors, Signal(e) PROVE s \in taken' \/ s \in Remembered' \/ Succeeds(s)
  BY <1>10, <1>1 DEF Signal
<1>11. ASSUME NEW e \in Actors, SignalFails(e) PROVE s \in taken' \/ s \in Remembered' \/ Succeeds(s)
  BY <1>11, <1>1 DEF SignalFails
<1>12. ASSUME NEW e \in Actors, Join(e) PROVE s \in taken' \/ s \in Remembered' \/ Succeeds(s)
  BY <1>12, <1>1 DEF Join
<1>13. ASSUME NEW r \in Spawns, ReadEnd(r) PROVE s \in taken' \/ s \in Remembered' \/ Succeeds(s)
  BY <1>13, <1>1 DEF ReadEnd
<1>14. ASSUME NEW r \in Spawns, Reap(r) PROVE s \in taken' \/ s \in Remembered' \/ Succeeds(s)
  BY <1>14, <1>1 DEF Reap
<1>15. ASSUME NEW r \in Spawns, Finish(r) PROVE s \in taken' \/ s \in Remembered' \/ Succeeds(s)
  BY <1>15, <1>1 DEF Finish
<1>16. ASSUME NEW r \in Spawns, Remove(r) PROVE s \in taken' \/ s \in Remembered' \/ Succeeds(s)
  <2>1. sessions' = [sessions EXCEPT ![IdOf(r)] = NoSession] /\ reader[r] \in {"removing", "blind"}
    BY <1>16 DEF Remove
  <2>2. daemon = "serving" /\ IdOf(r) = id /\ IdOf(s) = id
    BY <1>16, <2>1 DEF Remove, Births
  <2>3. CASE r = s
    <3>1. reader[r] = "removing"
      BY <2>1, <2>3 DEF Readers
    <3>2. exited' \in Pruned(Append(Without(exited, IdOf(r)), r)) /\ exited' # <<>>
      BY <1>16, <3>1 DEF Remove
    <3>3. Without(exited, IdOf(r)) \in Seq(Spawns)
      BY Forgets DEF TypeOK
    <3> DEFINE list == Append(Without(exited, IdOf(r)), r)
    <3>4. list \in Seq(Spawns) /\ list[Len(list)] = r
      BY <3>3
    <3> HIDE DEF list
    <3>5. \E i \in DOMAIN exited' : exited'[i] = list[Len(list)]
      BY <3>2, <3>4, Prunes DEF list
    <3> QED
      BY <2>3, <3>4, <3>5 DEF Remembered
  <2>4. CASE r # s
    <3>1. ~InFlight(r) /\ child[r] # "none"
      BY <2>1 DEF InFlight, Jobs, JobOf, Births
    <3>2. Astray(r)
      BY <2>1, <2>2, <2>4, <3>1 DEF Astray
    <3>3. PICK t \in taken : IdOf(t) = IdOf(r)
      BY <2>2, <3>2 DEF Chain
    <3>4. t # s
      BY DEF Apart
    <3> QED
      BY <2>2, <3>3, <3>4 DEF Succeeds
  <2> QED
    BY <2>3, <2>4
<1>17. ASSUME NEW r \in Spawns, NEW end \in {"dead", "detached"}, ProgramEnds(r, end) PROVE s \in taken' \/ s \in Remembered' \/ Succeeds(s)
  BY <1>17, <1>1 DEF ProgramEnds
<1>18. ASSUME NEW r \in Spawns, NEW end \in {"dead", "detached"}, ReadDropped(r, end) PROVE s \in taken' \/ s \in Remembered' \/ Succeeds(s)
  BY <1>18, <1>1 DEF ReadDropped
<1>19. ASSUME Prune PROVE s \in taken' \/ s \in Remembered' \/ Succeeds(s)
  BY <1>19, <1>1 DEF Prune
<1>20. ASSUME Stop PROVE s \in taken' \/ s \in Remembered' \/ Succeeds(s)
  BY <1>20 DEF Stop, Drain
<1>21. ASSUME AbortClients PROVE s \in taken' \/ s \in Remembered' \/ Succeeds(s)
  BY <1>21, <1>1 DEF AbortClients, Advance, Killed
<1>22. ASSUME ShutDownAgain PROVE s \in taken' \/ s \in Remembered' \/ Succeeds(s)
  BY <1>22 DEF ShutDownAgain, Drain
<1>23. ASSUME Stopped PROVE s \in taken' \/ s \in Remembered' \/ Succeeds(s)
  BY <1>23, <1>1 DEF Stopped, Advance, Killed
<1>24. ASSUME NEW r \in Spawns, KillNext(r) PROVE s \in taken' \/ s \in Remembered' \/ Succeeds(s)
  BY <1>24, <1>1 DEF KillNext
<1> QED
  BY <1>1, <1>2, <1>3, <1>4, <1>5, <1>6, <1>7, <1>8, <1>9, <1>10, <1>11, <1>12, <1>13, <1>14, <1>15,
     <1>16, <1>17, <1>18, <1>19, <1>20, <1>21, <1>22, <1>23, <1>24 DEF Next, Creating, Killing,
     Reading, ShuttingDown, vars

\* A session that ended is listed until it is forgotten by age or number: the step
\* that takes it out of the map puts it on the list, unless it was killed or its
\* place was taken after a kill.
THEOREM EndedAttachable == Spec => EndedStaysAttachable
<1>1. Inv /\ [Next]_vars => [EndedStep]_vars
  BY EndedLeaves
<1>2. [][EndedStep]_vars => EndedStaysAttachable
  BY DEF EndedStaysAttachable, EndedStep
<1> QED
  BY InitInv, NextInv, <1>1, <1>2, PTL DEF Spec

=============================================================================
