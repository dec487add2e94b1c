----------------------- MODULE ConnectionLease_proofs -----------------------
(***************************************************************************)
(* Proofs about ConnectionLease, for every number of connections and       *)
(* viewers and every assignment of viewer ids to connections.              *)
(*                                                                         *)
(* None of the promises is inductive alone: that a released lease was the  *)
(* releaser's, that a cancelled connection never gets its entry back, that *)
(* nobody cancels a connection before it asked for the lease, depend on    *)
(* where each task is.  Bookkeeping says that of one connection; with it   *)
(* LeaseInv is inductive.  Each lemma takes one part of it through every   *)
(* action.                                                                 *)
(***************************************************************************)
EXTENDS ConnectionLease, TLAPS

Inv == TypeOK /\ LeaseInv

\* The vocabulary of labels and entries is expanded throughout.
USE DEF Goto, hostVars, leaseVars, Listed, Absent, Entry, Labels, Before, After, Driving,
        Superseded

-----------------------------------------------------------------------------
(* The roster. *)

\* The roster only tells apart who is listed and who of them watches a pane.
LEMMA SameRoster ==
    ASSUME NEW es, NEW fs,
           \A c \in Conns : /\ es[c].state = "named" <=> fs[c].state = "named"
                            /\ es[c].state = "named" => es[c].watching = fs[c].watching
    PROVE  RosterOf(es) = RosterOf(fs)
<1>1. {d \in Conns : es[d].state = "named"} = {d \in Conns : fs[d].state = "named"}
  OBVIOUS
<1>2. ASSUME NEW v
      PROVE  (\E c \in Conns : es[c].state = "named" /\ ViewerOf[c] = v /\ es[c].watching)
             <=> (\E c \in Conns : fs[c].state = "named" /\ ViewerOf[c] = v /\ fs[c].watching)
  OBVIOUS
<1> QED
  BY <1>1, <1>2 DEF RosterOf

\* Every row of a roster names a machine, since only those that gave an id are listed.
LEMMA RosterType ==
    ASSUME Inv
    PROVE  RosterOf(entries) \subseteq [viewer : Viewers, watching : BOOLEAN]
<1>1. \A c \in Conns : entries[c].state = "named" => ViewerOf[c] \in Viewers
  BY ViewerAssumption DEF Inv, LeaseInv, Bookkeeping, Introduced
<1>2. SUFFICES ASSUME NEW c \in Conns, entries[c].state = "named", NEW w \in BOOLEAN
               PROVE  [viewer |-> ViewerOf[c], watching |-> w]
                        \in [viewer : Viewers, watching : BOOLEAN]
  BY Zenon DEF RosterOf
<1> QED
  BY <1>1, <1>2

\* cancel_viewer, said of one connection.
LEMMA KickEffect ==
    ASSUME Inv, CancelViewer
    PROVE  /\ \A d \in Conns :
                LET hit == entries[d].state = "named" /\ ViewerOf[d] = kick.viewer
                IN  /\ entries'[d] = IF hit THEN Absent ELSE entries[d]
                    /\ d \in cancelled' <=> d \in cancelled \/ hit
                    /\ d \in kick'.victims <=> hit
           /\ kick.stage = "cancel" /\ kick'.stage = "release" /\ kick'.viewer = kick.viewer
           /\ UNCHANGED <<pc, lease, stale, introduced, roster, blocked, unblocking, firm>>
<1> USE DEF Inv, TypeOK, CancelViewer
<1>1. ASSUME NEW d \in Conns
      PROVE  entries'[d] = IF entries[d].state = "named" /\ ViewerOf[d] = kick.viewer
                           THEN Absent ELSE entries[d]
  OBVIOUS
<1>2. ASSUME NEW d \in Conns
      PROVE  d \in cancelled' <=> d \in cancelled
                                  \/ (entries[d].state = "named" /\ ViewerOf[d] = kick.viewer)
  OBVIOUS
<1>3. ASSUME NEW d \in Conns
      PROVE  d \in kick'.victims <=> entries[d].state = "named" /\ ViewerOf[d] = kick.viewer
  OBVIOUS
<1>4. kick.stage = "cancel" /\ kick'.stage = "release" /\ kick'.viewer = kick.viewer
  OBVIOUS
<1>5. UNCHANGED <<pc, lease, stale, introduced, roster, blocked, unblocking, firm>>
  OBVIOUS
<1> QED
  BY <1>1, <1>2, <1>3, <1>4, <1>5

\* set_viewer, said of one connection.
LEMMA NamingEffect ==
    ASSUME Inv, NEW c \in Conns, SetViewer(c)
    PROVE  LET named == ViewerOf[c] # Nobody /\ entries[c].state # "absent"
           IN  /\ \A d \in Conns : entries'[d].state = IF d = c /\ named THEN "named"
                                                       ELSE entries[d].state
               /\ introduced' = IF named THEN introduced \cup {c} ELSE introduced
               /\ pc[c] = "leased" /\ pc' = [pc EXCEPT ![c] = "named"]
               /\ UNCHANGED <<lease, cancelled, stale, roster, blocked, kick, unblocking, firm>>
<1>1. CASE ViewerOf[c] # Nobody /\ entries[c].state # "absent"
  BY <1>1 DEF Inv, TypeOK, SetViewer
<1>2. CASE ~(ViewerOf[c] # Nobody /\ entries[c].state # "absent")
  BY <1>2 DEF Inv, TypeOK, SetViewer
<1> QED
  BY <1>1, <1>2

-----------------------------------------------------------------------------
(* One lemma for each part of the invariant. *)

\* Every step keeps the types.
LEMMA TypesKept ==
    ASSUME Inv, [Next]_vars PROVE TypeOK'
<1> USE ViewerAssumption, NobodyAssumption, KickableAssumption, RosterType
    DEF Inv, TypeOK, Quiet, NoUnblock
<1>1. ASSUME NEW c \in Conns, ReadHello(c) PROVE TypeOK'
  BY <1>1 DEF ReadHello
<1>2. ASSUME NEW c \in Conns, Register(c) PROVE TypeOK'
  BY <1>2 DEF Register
<1>3. ASSUME NEW c \in Conns, TakeLease(c) PROVE TypeOK'
  <2>1. lease \in Conns \cup {Nobody} /\ lease' \in Conns \cup {Nobody}
    BY <1>3 DEF TakeLease
  <2>2. stale' \in [Conns -> Conns \cup {Nobody}]
    BY <1>3, <2>1 DEF TakeLease
  <2>3. pc' \in [Conns -> Labels]
    BY <1>3 DEF TakeLease
  <2> QED
    BY <1>3, <2>1, <2>2, <2>3 DEF TakeLease
<1>4. ASSUME NEW c \in Conns, CancelStale(c) PROVE TypeOK'
  <2>1. stale[c] \in Conns
    BY <1>4 DEF CancelStale, LeaseInv, Bookkeeping, Reclaims
  <2>2. cancelled' \subseteq Conns
    BY <1>4, <2>1 DEF CancelStale
  <2>3. entries' = entries \/ entries' = [entries EXCEPT ![stale[c]] = Absent]
    BY <1>4 DEF CancelStale
  <2>4. entries' \in [Conns -> Entry]
    <3>1. [entries EXCEPT ![stale[c]] = Absent] \in [Conns -> Entry]
      BY <2>1
    <3> QED
      BY <2>3, <3>1
  <2>5. pc' \in [Conns -> Labels]
    BY <1>4 DEF CancelStale
  <2> QED
    BY <1>4, <2>2, <2>4, <2>5 DEF CancelStale
<1>5. ASSUME NEW c \in Conns, AnnounceReclaim(c) PROVE TypeOK'
  BY <1>5 DEF AnnounceReclaim
<1>6. ASSUME NEW c \in Conns, SetViewer(c) PROVE TypeOK'
  <2>1. entries' \in [Conns -> Entry]
    BY <1>6 DEF SetViewer
  <2>2. introduced' \subseteq Conns
    BY <1>6 DEF SetViewer
  <2> QED
    BY <1>6, <2>1, <2>2 DEF SetViewer
<1>7. ASSUME NEW c \in Conns, Recheck(c) PROVE TypeOK'
  BY <1>7 DEF Recheck
<1>8. ASSUME NEW c \in Conns, Welcome(c) PROVE TypeOK'
  BY <1>8 DEF Welcome
<1>9. ASSUME NEW c \in Conns, ReadFrame(c) PROVE TypeOK'
  BY <1>9 DEF ReadFrame
<1>10. ASSUME NEW c \in Conns, NEW watching \in BOOLEAN, FinishFrame(c, watching)
       PROVE  TypeOK'
  <2>1. entries' \in [Conns -> Entry]
    BY <1>10 DEF FinishFrame
  <2>2. pc' \in [Conns -> Labels]
    BY <1>10 DEF FinishFrame
  <2> QED
    BY <1>10, <2>1, <2>2 DEF FinishFrame
<1>11. ASSUME NEW c \in Conns, AnnounceAttached(c) PROVE TypeOK'
  BY <1>11 DEF AnnounceAttached
<1>12. ASSUME NEW c \in Conns, StopOnCancel(c) PROVE TypeOK'
  BY <1>12 DEF StopOnCancel
<1>13. ASSUME NEW c \in Conns, LinkLost(c) PROVE TypeOK'
  BY <1>13 DEF LinkLost
<1>14. ASSUME NEW c \in Conns, Refuse(c) PROVE TypeOK'
  BY <1>14 DEF Refuse
<1>15. ASSUME NEW c \in Conns, ReleaseLease(c) PROVE TypeOK'
  BY <1>15 DEF ReleaseLease
<1>16. ASSUME NEW c \in Conns, RemoveEntry(c) PROVE TypeOK'
  BY <1>16 DEF RemoveEntry
<1>17. ASSUME NEW c \in Conns, AnnounceDeparture(c) PROVE TypeOK'
  BY <1>17 DEF AnnounceDeparture
<1>18. ASSUME NEW v \in Kickable, NEW block \in BOOLEAN, StartKick(v, block) PROVE TypeOK'
  BY <1>18 DEF StartKick
<1>19. ASSUME CancelViewer PROVE TypeOK'
  BY <1>19 DEF CancelViewer
<1>20. ASSUME NEW c \in Conns, KickRelease(c) PROVE TypeOK'
  BY <1>20 DEF KickRelease
<1>21. ASSUME KickNotify PROVE TypeOK'
  BY <1>21 DEF KickNotify
<1>22. ASSUME NEW v \in Kickable, UnblockRead(v) PROVE TypeOK'
  BY <1>22 DEF UnblockRead
<1>23. ASSUME NEW v \in Kickable, UnblockWrite(v) PROVE TypeOK'
  BY <1>23 DEF UnblockWrite
<1>24. CASE UNCHANGED vars
  BY <1>24 DEF vars
<1> HIDE DEF Inv, TypeOK, Quiet, NoUnblock
<1> QED
  BY <1>1, <1>2, <1>3, <1>4, <1>5, <1>6, <1>7, <1>8, <1>9, <1>10, <1>11, <1>12,
     <1>13, <1>14, <1>15, <1>16, <1>17, <1>18, <1>19, <1>20, <1>21, <1>22, <1>23, <1>24,
     SMTT(20)
  DEF Next, Synchronous, Answered, Kicking

\* Every step keeps what the position of a task says of its entry.
LEMMA BookkeepingKept ==
    ASSUME Inv, [Next]_vars PROVE Bookkeeping'
<1> USE TypesKept, NobodyAssumption
    DEF Inv, TypeOK, LeaseInv, Bookkeeping, KickInv, Fresh, Present, Introduced, Reclaims
<1>1. ASSUME NEW c \in Conns, ReadHello(c) PROVE Bookkeeping'
  BY <1>1 DEF ReadHello
<1>2. ASSUME NEW c \in Conns, Register(c) PROVE Bookkeeping'
  BY <1>2 DEF Register
<1>3. ASSUME NEW c \in Conns, TakeLease(c) PROVE Bookkeeping'
  BY <1>3, SMTT(20) DEF TakeLease, SameViewer
<1>4. ASSUME NEW c \in Conns, CancelStale(c) PROVE Bookkeeping'
  <2>1. CASE entries[stale[c]].state = "absent"
    BY <1>4, <2>1 DEF CancelStale
  <2>2. CASE entries[stale[c]].state # "absent"
    BY <1>4, <2>2 DEF CancelStale
  <2> QED
    BY <2>1, <2>2
<1>5. ASSUME NEW c \in Conns, AnnounceReclaim(c) PROVE Bookkeeping'
  BY <1>5 DEF AnnounceReclaim
<1>6. ASSUME NEW c \in Conns, SetViewer(c) PROVE Bookkeeping'
  BY <1>6, NamingEffect
<1>7. ASSUME NEW c \in Conns, Recheck(c) PROVE Bookkeeping'
  BY <1>7 DEF Recheck
<1>8. ASSUME NEW c \in Conns, Welcome(c) PROVE Bookkeeping'
  BY <1>8 DEF Welcome
<1>9. ASSUME NEW c \in Conns, ReadFrame(c) PROVE Bookkeeping'
  BY <1>9 DEF ReadFrame
<1>10. ASSUME NEW c \in Conns, NEW watching \in BOOLEAN, FinishFrame(c, watching)
       PROVE  Bookkeeping'
  <2>1. \A d \in Conns : entries'[d].state = entries[d].state
    BY <1>10 DEF FinishFrame
  <2>2. /\ pc[c] = "dispatching"
        /\ pc' = [pc EXCEPT ![c] = "syncing"] \/ pc' = [pc EXCEPT ![c] = "serving"]
    BY <1>10 DEF FinishFrame
  <2>3. UNCHANGED <<lease, cancelled, stale, introduced, kick>>
    BY <1>10 DEF FinishFrame
  <2> QED
    BY <1>10, <2>1, <2>2, <2>3
<1>11. ASSUME NEW c \in Conns, AnnounceAttached(c) PROVE Bookkeeping'
  BY <1>11 DEF AnnounceAttached
<1>12. ASSUME NEW c \in Conns, StopOnCancel(c) PROVE Bookkeeping'
  BY <1>12 DEF StopOnCancel
<1>13. ASSUME NEW c \in Conns, LinkLost(c) PROVE Bookkeeping'
  BY <1>13 DEF LinkLost
<1>14. ASSUME NEW c \in Conns, Refuse(c) PROVE Bookkeeping'
  BY <1>14 DEF Refuse
<1>15. ASSUME NEW c \in Conns, ReleaseLease(c) PROVE Bookkeeping'
  BY <1>15 DEF ReleaseLease
<1>16. ASSUME NEW c \in Conns, RemoveEntry(c) PROVE Bookkeeping'
  BY <1>16 DEF RemoveEntry
<1>17. ASSUME NEW c \in Conns, AnnounceDeparture(c) PROVE Bookkeeping'
  BY <1>17 DEF AnnounceDeparture
<1>18. ASSUME NEW v \in Kickable, NEW block \in BOOLEAN, StartKick(v, block)
       PROVE  Bookkeeping'
  BY <1>18 DEF StartKick, Quiet
<1>19. ASSUME CancelViewer PROVE Bookkeeping'
  BY <1>19, KickEffect
<1>20. ASSUME NEW c \in Conns, KickRelease(c) PROVE Bookkeeping'
  BY <1>20 DEF KickRelease
<1>21. ASSUME KickNotify PROVE Bookkeeping'
  BY <1>21 DEF KickNotify, Quiet
<1>22. ASSUME NEW v \in Kickable, UnblockRead(v) PROVE Bookkeeping'
  BY <1>22 DEF UnblockRead
<1>23. ASSUME NEW v \in Kickable, UnblockWrite(v) PROVE Bookkeeping'
  BY <1>23 DEF UnblockWrite
<1>24. CASE UNCHANGED vars
  BY <1>24 DEF vars
<1> HIDE DEF Inv, TypeOK, LeaseInv, Bookkeeping, KickInv, Fresh, Present, Introduced, Reclaims
<1> QED
  BY <1>1, <1>2, <1>3, <1>4, <1>5, <1>6, <1>7, <1>8, <1>9, <1>10, <1>11, <1>12,
     <1>13, <1>14, <1>15, <1>16, <1>17, <1>18, <1>19, <1>20, <1>21, <1>22, <1>23, <1>24,
     SMTT(20)
  DEF Next, Synchronous, Answered, Kicking

\* Every step keeps the lease with the connection that drives.
LEMMA PromisesKept ==
    ASSUME Inv, [Next]_vars PROVE Promises'
<1> USE TypesKept, BookkeepingKept, NobodyAssumption
    DEF Inv, TypeOK, LeaseInv, Bookkeeping, KickInv, Fresh, Present, Introduced, Reclaims
<1>1. ASSUME NEW c \in Conns, ReadHello(c) PROVE Promises'
  BY <1>1 DEF ReadHello, Promises, DrivesOrIsCancelled, LeaseIsNotLeaked,
     OnlyHoldersAreListed
<1>2. ASSUME NEW c \in Conns, Register(c) PROVE Promises'
  BY <1>2 DEF Register, Promises, DrivesOrIsCancelled, LeaseIsNotLeaked,
     OnlyHoldersAreListed
<1>3. ASSUME NEW c \in Conns, TakeLease(c) PROVE Promises'
  <2>1. DrivesOrIsCancelled'
    BY <1>3 DEF TakeLease, Promises, DrivesOrIsCancelled
  <2>2. LeaseIsNotLeaked'
    BY <1>3 DEF TakeLease, Promises, LeaseIsNotLeaked
  <2>3. OnlyHoldersAreListed'
    BY <1>3, SMTT(20) DEF TakeLease, Promises, OnlyHoldersAreListed
  <2> QED
    BY <2>1, <2>2, <2>3 DEF Promises
<1>4. ASSUME NEW c \in Conns, CancelStale(c) PROVE Promises'
  <2>1. DrivesOrIsCancelled'
    BY <1>4 DEF CancelStale, Promises, DrivesOrIsCancelled
  <2>2. LeaseIsNotLeaked'
    BY <1>4 DEF CancelStale, Promises, LeaseIsNotLeaked
  <2>3. OnlyHoldersAreListed'
    BY <1>4 DEF CancelStale, Promises, OnlyHoldersAreListed
  <2> QED
    BY <2>1, <2>2, <2>3 DEF Promises
<1>5. ASSUME NEW c \in Conns, AnnounceReclaim(c) PROVE Promises'
  BY <1>5 DEF AnnounceReclaim, Promises, DrivesOrIsCancelled, LeaseIsNotLeaked,
     OnlyHoldersAreListed
<1>6. ASSUME NEW c \in Conns, SetViewer(c) PROVE Promises'
  <2>1. DrivesOrIsCancelled'
    BY <1>6, NamingEffect DEF Promises, DrivesOrIsCancelled
  <2>2. LeaseIsNotLeaked'
    BY <1>6, NamingEffect DEF Promises, LeaseIsNotLeaked
  <2>3. OnlyHoldersAreListed'
    BY <1>6, NamingEffect DEF Promises, OnlyHoldersAreListed, DrivesOrIsCancelled
  <2> QED
    BY <2>1, <2>2, <2>3 DEF Promises
<1>7. ASSUME NEW c \in Conns, Recheck(c) PROVE Promises'
  BY <1>7 DEF Recheck, Promises, DrivesOrIsCancelled, LeaseIsNotLeaked,
     OnlyHoldersAreListed
<1>8. ASSUME NEW c \in Conns, Welcome(c) PROVE Promises'
  BY <1>8 DEF Welcome, Promises, DrivesOrIsCancelled, LeaseIsNotLeaked,
     OnlyHoldersAreListed
<1>9. ASSUME NEW c \in Conns, ReadFrame(c) PROVE Promises'
  BY <1>9 DEF ReadFrame, Promises, DrivesOrIsCancelled, LeaseIsNotLeaked,
     OnlyHoldersAreListed
<1>10. ASSUME NEW c \in Conns, NEW watching \in BOOLEAN, FinishFrame(c, watching)
       PROVE  Promises'
  <2>1. DrivesOrIsCancelled'
    BY <1>10 DEF FinishFrame, Promises, DrivesOrIsCancelled
  <2>2. LeaseIsNotLeaked'
    BY <1>10 DEF FinishFrame, Promises, LeaseIsNotLeaked
  <2>3. OnlyHoldersAreListed'
    BY <1>10 DEF FinishFrame, Promises, OnlyHoldersAreListed
  <2> QED
    BY <2>1, <2>2, <2>3 DEF Promises
<1>11. ASSUME NEW c \in Conns, AnnounceAttached(c) PROVE Promises'
  BY <1>11 DEF AnnounceAttached, Promises, DrivesOrIsCancelled, LeaseIsNotLeaked,
     OnlyHoldersAreListed
<1>12. ASSUME NEW c \in Conns, StopOnCancel(c) PROVE Promises'
  BY <1>12 DEF StopOnCancel, Promises, DrivesOrIsCancelled, LeaseIsNotLeaked,
     OnlyHoldersAreListed
<1>13. ASSUME NEW c \in Conns, LinkLost(c) PROVE Promises'
  BY <1>13 DEF LinkLost, Promises, DrivesOrIsCancelled, LeaseIsNotLeaked,
     OnlyHoldersAreListed
<1>14. ASSUME NEW c \in Conns, Refuse(c) PROVE Promises'
  BY <1>14 DEF Refuse, Promises, DrivesOrIsCancelled, LeaseIsNotLeaked,
     OnlyHoldersAreListed
<1>15. ASSUME NEW c \in Conns, ReleaseLease(c) PROVE Promises'
  <2>1. DrivesOrIsCancelled'
    BY <1>15 DEF ReleaseLease, Promises, DrivesOrIsCancelled
  <2>2. LeaseIsNotLeaked'
    BY <1>15 DEF ReleaseLease, Promises, LeaseIsNotLeaked
  <2>3. OnlyHoldersAreListed'
    BY <1>15 DEF ReleaseLease, Promises, OnlyHoldersAreListed
  <2> QED
    BY <2>1, <2>2, <2>3 DEF Promises
<1>16. ASSUME NEW c \in Conns, RemoveEntry(c) PROVE Promises'
  BY <1>16 DEF RemoveEntry, Promises, DrivesOrIsCancelled, LeaseIsNotLeaked,
     OnlyHoldersAreListed
<1>17. ASSUME NEW c \in Conns, AnnounceDeparture(c) PROVE Promises'
  BY <1>17 DEF AnnounceDeparture, Promises, DrivesOrIsCancelled, LeaseIsNotLeaked,
     OnlyHoldersAreListed
<1>18. ASSUME NEW v \in Kickable, NEW block \in BOOLEAN, StartKick(v, block)
       PROVE  Promises'
  BY <1>18 DEF StartKick, Promises, DrivesOrIsCancelled, LeaseIsNotLeaked,
     OnlyHoldersAreListed
<1>19. ASSUME CancelViewer PROVE Promises'
  <2>1. DrivesOrIsCancelled'
    BY <1>19, KickEffect DEF Promises, DrivesOrIsCancelled
  <2>2. LeaseIsNotLeaked'
    BY <1>19, KickEffect DEF Promises, LeaseIsNotLeaked
  <2>3. OnlyHoldersAreListed'
    BY <1>19, KickEffect DEF Promises, OnlyHoldersAreListed
  <2> QED
    BY <2>1, <2>2, <2>3 DEF Promises
<1>20. ASSUME NEW c \in Conns, KickRelease(c) PROVE Promises'
  BY <1>20 DEF KickRelease, Promises, DrivesOrIsCancelled, LeaseIsNotLeaked,
     OnlyHoldersAreListed
<1>21. ASSUME KickNotify PROVE Promises'
  BY <1>21 DEF KickNotify, Promises, DrivesOrIsCancelled, LeaseIsNotLeaked,
     OnlyHoldersAreListed
<1>22. ASSUME NEW v \in Kickable, UnblockRead(v) PROVE Promises'
  BY <1>22 DEF UnblockRead, Promises, DrivesOrIsCancelled, LeaseIsNotLeaked,
     OnlyHoldersAreListed
<1>23. ASSUME NEW v \in Kickable, UnblockWrite(v) PROVE Promises'
  BY <1>23 DEF UnblockWrite, Promises, DrivesOrIsCancelled, LeaseIsNotLeaked,
     OnlyHoldersAreListed
<1>24. CASE UNCHANGED vars
  BY <1>24 DEF vars, Promises, DrivesOrIsCancelled, LeaseIsNotLeaked, OnlyHoldersAreListed
<1> HIDE DEF Inv, TypeOK, LeaseInv, Bookkeeping, KickInv, Fresh, Present, Introduced, Reclaims
<1> QED
  BY <1>1, <1>2, <1>3, <1>4, <1>5, <1>6, <1>7, <1>8, <1>9, <1>10, <1>11, <1>12,
     <1>13, <1>14, <1>15, <1>16, <1>17, <1>18, <1>19, <1>20, <1>21, <1>22, <1>23, <1>24,
     SMTT(20)
  DEF Next, Synchronous, Answered, Kicking

\* Every step keeps a blocked viewer out.
LEMMA BlockKept ==
    ASSUME Inv, [Next]_vars PROVE BlockedNotAdmitted'
<1> USE TypesKept, ViewerAssumption, NobodyAssumption
    DEF Inv, TypeOK, LeaseInv, Bookkeeping, Introduced, BlockedNotAdmitted
<1>1. ASSUME NEW c \in Conns, ReadHello(c) PROVE BlockedNotAdmitted'
  BY <1>1 DEF ReadHello
<1>2. ASSUME NEW c \in Conns, Register(c) PROVE BlockedNotAdmitted'
  BY <1>2 DEF Register
<1>3. ASSUME NEW c \in Conns, TakeLease(c) PROVE BlockedNotAdmitted'
  BY <1>3 DEF TakeLease
<1>4. ASSUME NEW c \in Conns, CancelStale(c) PROVE BlockedNotAdmitted'
  BY <1>4 DEF CancelStale
<1>5. ASSUME NEW c \in Conns, AnnounceReclaim(c) PROVE BlockedNotAdmitted'
  BY <1>5 DEF AnnounceReclaim
<1>6. ASSUME NEW c \in Conns, SetViewer(c) PROVE BlockedNotAdmitted'
  BY <1>6 DEF SetViewer
<1>7. ASSUME NEW c \in Conns, Recheck(c) PROVE BlockedNotAdmitted'
  BY <1>7 DEF Recheck
<1>8. ASSUME NEW c \in Conns, Welcome(c) PROVE BlockedNotAdmitted'
  BY <1>8 DEF Welcome
<1>9. ASSUME NEW c \in Conns, ReadFrame(c) PROVE BlockedNotAdmitted'
  BY <1>9 DEF ReadFrame
<1>10. ASSUME NEW c \in Conns, NEW watching \in BOOLEAN, FinishFrame(c, watching)
       PROVE  BlockedNotAdmitted'
  BY <1>10 DEF FinishFrame
<1>11. ASSUME NEW c \in Conns, AnnounceAttached(c) PROVE BlockedNotAdmitted'
  BY <1>11 DEF AnnounceAttached
<1>12. ASSUME NEW c \in Conns, StopOnCancel(c) PROVE BlockedNotAdmitted'
  BY <1>12 DEF StopOnCancel
<1>13. ASSUME NEW c \in Conns, LinkLost(c) PROVE BlockedNotAdmitted'
  BY <1>13 DEF LinkLost
<1>14. ASSUME NEW c \in Conns, Refuse(c) PROVE BlockedNotAdmitted'
  BY <1>14 DEF Refuse
<1>15. ASSUME NEW c \in Conns, ReleaseLease(c) PROVE BlockedNotAdmitted'
  BY <1>15 DEF ReleaseLease
<1>16. ASSUME NEW c \in Conns, RemoveEntry(c) PROVE BlockedNotAdmitted'
  BY <1>16 DEF RemoveEntry
<1>17. ASSUME NEW c \in Conns, AnnounceDeparture(c) PROVE BlockedNotAdmitted'
  BY <1>17 DEF AnnounceDeparture
<1>18. ASSUME NEW v \in Kickable, NEW block \in BOOLEAN, StartKick(v, block)
       PROVE  BlockedNotAdmitted'
  BY <1>18 DEF StartKick, Quiet
<1>19. ASSUME CancelViewer PROVE BlockedNotAdmitted'
  BY <1>19, KickEffect
<1>20. ASSUME NEW c \in Conns, KickRelease(c) PROVE BlockedNotAdmitted'
  BY <1>20 DEF KickRelease
<1>21. ASSUME KickNotify PROVE BlockedNotAdmitted'
  BY <1>21 DEF KickNotify, Quiet
<1>22. ASSUME NEW v \in Kickable, UnblockRead(v) PROVE BlockedNotAdmitted'
  BY <1>22 DEF UnblockRead
<1>23. ASSUME NEW v \in Kickable, UnblockWrite(v) PROVE BlockedNotAdmitted'
  BY <1>23 DEF UnblockWrite
<1>24. CASE UNCHANGED vars
  BY <1>24 DEF vars
<1> HIDE DEF Inv, TypeOK, LeaseInv, Bookkeeping, Introduced, BlockedNotAdmitted
<1> QED
  BY <1>1, <1>2, <1>3, <1>4, <1>5, <1>6, <1>7, <1>8, <1>9, <1>10, <1>11, <1>12,
     <1>13, <1>14, <1>15, <1>16, <1>17, <1>18, <1>19, <1>20, <1>21, <1>22, <1>23, <1>24,
     SMTT(20)
  DEF Next, Synchronous, Answered, Kicking

\* Every step that changes what the roster shows is followed by an announcement.
LEMMA RosterKept ==
    ASSUME Inv, [Next]_vars PROVE RosterSettles'
<1> USE TypesKept, SameRoster
    DEF Inv, TypeOK, LeaseInv, Bookkeeping, Introduced, RosterSettles, Owes
<1>1. ASSUME NEW c \in Conns, ReadHello(c) PROVE RosterSettles'
  BY <1>1 DEF ReadHello
<1>2. ASSUME NEW c \in Conns, Register(c) PROVE RosterSettles'
  <2>1. \A d \in Conns : /\ entries'[d].state = "named" <=> entries[d].state = "named"
                         /\ entries[d].state = "named" => entries'[d] = entries[d]
    BY <1>2 DEF Register, Fresh
  <2>2. RosterOf(entries') = RosterOf(entries)
    BY <2>1
  <2> QED
    BY <1>2, <2>2 DEF Register
<1>3. ASSUME NEW c \in Conns, TakeLease(c) PROVE RosterSettles'
  BY <1>3 DEF TakeLease
<1>4. ASSUME NEW c \in Conns, CancelStale(c) PROVE RosterSettles'
  BY <1>4 DEF CancelStale
<1>5. ASSUME NEW c \in Conns, AnnounceReclaim(c) PROVE RosterSettles'
  BY <1>5 DEF AnnounceReclaim
<1>6. ASSUME NEW c \in Conns, SetViewer(c) PROVE RosterSettles'
  BY <1>6 DEF SetViewer
<1>7. ASSUME NEW c \in Conns, Recheck(c) PROVE RosterSettles'
  BY <1>7 DEF Recheck
<1>8. ASSUME NEW c \in Conns, Welcome(c) PROVE RosterSettles'
  BY <1>8 DEF Welcome
<1>9. ASSUME NEW c \in Conns, ReadFrame(c) PROVE RosterSettles'
  BY <1>9 DEF ReadFrame
<1>10. ASSUME NEW c \in Conns, NEW watching \in BOOLEAN, FinishFrame(c, watching)
       PROVE  RosterSettles'
  <2>1. CASE Listed(c) /\ entries[c].watching # watching
    BY <1>10, <2>1 DEF FinishFrame
  <2>2. CASE ~(Listed(c) /\ entries[c].watching # watching)
    <3>1. \A d \in Conns : /\ entries'[d].state = "named" <=> entries[d].state = "named"
                           /\ entries[d].state = "named" => entries'[d] = entries[d]
      BY <1>10, <2>2 DEF FinishFrame
    <3>2. RosterOf(entries') = RosterOf(entries)
      BY <3>1
    <3> QED
      BY <1>10, <2>2, <3>2 DEF FinishFrame
  <2> QED
    BY <2>1, <2>2
<1>11. ASSUME NEW c \in Conns, AnnounceAttached(c) PROVE RosterSettles'
  BY <1>11 DEF AnnounceAttached
<1>12. ASSUME NEW c \in Conns, StopOnCancel(c) PROVE RosterSettles'
  BY <1>12 DEF StopOnCancel
<1>13. ASSUME NEW c \in Conns, LinkLost(c) PROVE RosterSettles'
  BY <1>13 DEF LinkLost
<1>14. ASSUME NEW c \in Conns, Refuse(c) PROVE RosterSettles'
  BY <1>14 DEF Refuse
<1>15. ASSUME NEW c \in Conns, ReleaseLease(c) PROVE RosterSettles'
  BY <1>15 DEF ReleaseLease
<1>16. ASSUME NEW c \in Conns, RemoveEntry(c) PROVE RosterSettles'
  <2>1. CASE Listed(c)
    BY <1>16, <2>1 DEF RemoveEntry
  <2>2. CASE ~Listed(c)
    <3>1. \A d \in Conns : /\ entries'[d].state = "named" <=> entries[d].state = "named"
                           /\ entries[d].state = "named" => entries'[d] = entries[d]
      BY <1>16, <2>2 DEF RemoveEntry
    <3>2. RosterOf(entries') = RosterOf(entries)
      BY <3>1
    <3> QED
      BY <1>16, <2>2, <3>2 DEF RemoveEntry
  <2> QED
    BY <2>1, <2>2
<1>17. ASSUME NEW c \in Conns, AnnounceDeparture(c) PROVE RosterSettles'
  BY <1>17 DEF AnnounceDeparture
<1>18. ASSUME NEW v \in Kickable, NEW block \in BOOLEAN, StartKick(v, block)
       PROVE  RosterSettles'
  BY <1>18 DEF StartKick, Quiet
<1>19. ASSUME CancelViewer PROVE RosterSettles'
  BY <1>19 DEF CancelViewer
<1>20. ASSUME NEW c \in Conns, KickRelease(c) PROVE RosterSettles'
  BY <1>20 DEF KickRelease
<1>21. ASSUME KickNotify PROVE RosterSettles'
  BY <1>21 DEF KickNotify, Quiet
<1>22. ASSUME NEW v \in Kickable, UnblockRead(v) PROVE RosterSettles'
  BY <1>22 DEF UnblockRead
<1>23. ASSUME NEW v \in Kickable, UnblockWrite(v) PROVE RosterSettles'
  BY <1>23 DEF UnblockWrite
<1>24. CASE UNCHANGED vars
  BY <1>24 DEF vars
<1> HIDE DEF Inv, TypeOK, LeaseInv, Bookkeeping, Introduced, RosterSettles, Owes
<1> QED
  BY <1>1, <1>2, <1>3, <1>4, <1>5, <1>6, <1>7, <1>8, <1>9, <1>10, <1>11, <1>12,
     <1>13, <1>14, <1>15, <1>16, <1>17, <1>18, <1>19, <1>20, <1>21, <1>22, <1>23, <1>24,
     SMTT(20)
  DEF Next, Synchronous, Answered, Kicking

-----------------------------------------------------------------------------
(* The theorems. *)

\* Nobody is connected, listed or blocked to begin with.
LEMMA InitInv == Init => Inv
<1> SUFFICES ASSUME Init PROVE Inv
  OBVIOUS
<1>1. TypeOK
  BY DEF Init, TypeOK, Quiet, NoUnblock
<1>2. Bookkeeping /\ Promises /\ BlockedNotAdmitted
  BY NobodyAssumption DEF Init, Bookkeeping, KickInv, Fresh, Present, Introduced, Reclaims,
     Promises, DrivesOrIsCancelled, LeaseIsNotLeaked, OnlyHoldersAreListed,
     BlockedNotAdmitted, Quiet
<1>3. RosterOf(entries) = {}
  BY DEF Init, RosterOf
<1> QED
  BY <1>1, <1>2, <1>3 DEF Init, Inv, LeaseInv, RosterSettles

\* The parts together: the invariant is inductive.
LEMMA NextInv == Inv /\ [Next]_vars => Inv'
BY TypesKept, BookkeepingKept, PromisesKept, BlockKept, RosterKept DEF Inv, LeaseInv

\* The inductive invariant holds of every run of the daemon, crowded or not.
THEOREM LeaseCorrect == Spec => []LeaseInv
<1>1. Inv => LeaseInv
  BY DEF Inv
<1> QED
  BY InitInv, NextInv, <1>1, PTL DEF Spec

\* Every variable keeps its type.
THEOREM LeaseTypes == Spec => []TypeOK
<1>1. Inv => TypeOK
  BY DEF Inv
<1> QED
  BY InitInv, NextInv, <1>1, PTL DEF Spec

\* take_lease, cancel_connection, cancel_viewer and the guard's drop, in any
\* order: who is served holds the machine, or has been told to go, or is about to be.
THEOREM OneHolderInTheEnd == Spec => []DrivesOrIsCancelled
<1>1. LeaseInv => DrivesOrIsCancelled
  BY DEF LeaseInv, Promises
<1> QED
  BY LeaseCorrect, <1>1, PTL

\* No way out of serve_client leaves a dead connection holding the machine.
THEOREM NeverLeaked == Spec => []LeaseIsNotLeaked
<1>1. LeaseInv => LeaseIsNotLeaked
  BY DEF LeaseInv, Promises
<1> QED
  BY LeaseCorrect, <1>1, PTL

\* A connection that take_lease refuses is never on the host's roster.
THEOREM RefusedStayUnseen == Spec => []OnlyHoldersAreListed
<1>1. LeaseInv => OnlyHoldersAreListed
  BY DEF LeaseInv, Promises
<1> QED
  BY LeaseCorrect, <1>1, PTL

\* "Either the kick sees us, or we see the kick", for any number of both.
THEOREM KickHolds == Spec => []BlockedNotAdmitted
<1>1. LeaseInv => BlockedNotAdmitted
  BY DEF LeaseInv
<1> QED
  BY LeaseCorrect, <1>1, PTL

\* The last roster published is the newest one.
THEOREM RosterIsTrue == Spec => []RosterSettles
<1>1. LeaseInv => RosterSettles
  BY DEF LeaseInv
<1> QED
  BY LeaseCorrect, <1>1, PTL
=============================================================================
