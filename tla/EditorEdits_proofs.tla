-------------------------- MODULE EditorEdits_proofs --------------------------
(***************************************************************************)
(* The proof that the unsaved edits which a snapshot holds when the        *)
(* renderer dies come back (InsuredEditsSurvive of EditorPane), on top of  *)
(* the invariant of EditorPane_proofs, for all files, tabs and bounds.     *)
(*                                                                         *)
(* EditsInsured is inductive.  It follows an edit from the buffer to its   *)
(* snapshot, to the restore on its way and back to the buffer (Kept), and  *)
(* it says why the edit is among what is restored: whatever posts are on   *)
(* their way, by the time the snapshot is in the pane the flag of its tab  *)
(* is up (Flagged), and a restore follows the open that makes its model    *)
(* and precedes every question (RestoresCome).                             *)
(***************************************************************************)
EXTENDS EditorPane_proofs

-----------------------------------------------------------------------------
(* Unsaved edits and the snapshots that hold them.  An edit is at stake when   *)
(* the renderer died with it; whether it comes back depends on the flag of its *)
(* tab, because only the tabs that are flagged are restored.  So the invariant *)
(* is about what the posts on their way make of the flag and of the snapshot.  *)

\* A restore on its way puts one of the texts back into the buffer of p.
Restoration(s, p, i) == i \in DOMAIN s.toPage /\ Is(s.toPage[i], "restore", p)
Refills(s, p, texts) ==
    \E i \in DOMAIN s.toPage : /\ Restoration(s, p, i) /\ s.toPage[i].text \in texts
                               /\ NoClose(s.toPage, p, i + 1, Len(s.toPage))
Closes(s, p) == ~NoClose(s.toPage, p, 1, Len(s.toPage))

\* The least text with which a snapshot holds the unsaved edit of p; 0 if there is no edit.
Least(s, v, p) ==
    IF Down(s) THEN v.stake[p]
    ELSE IF Refills(s, p, Nat \ {0}) THEN 1
    ELSE IF Closes(s, p) THEN 0 ELSE v.page[p].first

\* The flag of p is up, or was misread, once the first n posts are delivered.
Tells(m, p, dirty) == m.type = "dirty" /\ m.path = p /\ m.dirty = dirty
FlagUp(s, v, p, n) ==
    \/ \E i \in 1..n : /\ Tells(s.posts[i], p, TRUE)
                       /\ \A j \in (i + 1)..n : ~Tells(s.posts[j], p, FALSE)
    \/ /\ IsDirty(s, p) \/ p \in v.gone
       /\ \A j \in 1..n : ~Tells(s.posts[j], p, FALSE)

\* A snapshot that holds the edit is never there without the flag.
IsSnapshot(m, p) == m.type = "snapshot" /\ m.path = p
Flagged(s, v, p) ==
    /\ s.snapshots[p] >= Least(s, v, p) => IsDirty(s, p) \/ p \in v.gone
    /\ \A i \in DOMAIN s.posts :
           IsSnapshot(s.posts[i], p) /\ s.posts[i].text >= Least(s, v, p) => FlagUp(s, v, p, i)
    /\ v.page[p].timer => FlagUp(s, v, p, Len(s.posts))

\* An edit at stake is in its snapshot, then in a restore on its way, then in the buffer.
ToRefill(s, p) == \E i \in DOMAIN s.toPage : Restoration(s, p, i)
Returns(s, v, p) ==
    \/ Refills(s, p, {v.stake[p]})
    \/ /\ ~ToRefill(s, p) /\ ~Closes(s, p)
       /\ Dirty(v.page[p]) /\ v.page[p].text >= v.stake[p]
Kept(s, v, p) ==
    v.stake[p] # 0 =>
        /\ IsOpen(s, p)
        /\ s.life = "loading" => IsDirty(s, p) /\ s.snapshots[p] = v.stake[p] /\ s.needsModelRestore
        /\ ~Down(s) => Returns(s, v, p)

Guarded(s, v, p) ==
    /\ IsOpen(s, p) /\ Least(s, v, p) # 0 => Flagged(s, v, p)
    /\ v.page[p].first # 0 => Dirty(v.page[p])
    /\ v.stake[p] \in Nat
    /\ Kept(s, v, p)

\* Before the restores a page only opens, closes and replaces, and each has its model by then.
RestoresCome(s, v) ==
    \A i \in DOMAIN s.toPage : s.toPage[i].op = "restore" =>
        /\ s.toPage[i].text # 0 /\ s.replies = <<>>
        /\ \A j \in 1..(i - 1) : /\ s.toPage[j].op \in {"open", "set", "close", "restore"}
                                 /\ ~Is(s.toPage[j], "restore", s.toPage[i].path)
        /\ IF i = 1 THEN v.page[s.toPage[i].path] # NoModel ELSE Is(s.toPage[i - 1], "open", s.toPage[i].path)

Insuring(s, v) == RestoresCome(s, v) /\ \A p \in Paths : Guarded(s, v, p)
Stakes == [page |-> page, gone |-> ghost.misread, stake |-> ghost.atStake]
EditsInsured == Insuring(pane, Stakes)

-----------------------------------------------------------------------------
(* A handler of the pane goes by.                                              *)

\* From s to t nothing is restored, only tabs that are gone are closed at the page, and of the
\* tabs that are open the flags stay up, except some.
Carries(s, t, down) ==
    /\ t.posts = s.posts /\ t.needsModelRestore = s.needsModelRestore
    /\ t.life = "loading" <=> s.life = "loading"
    /\ t.life = "crashed" <=> s.life = "crashed"
    /\ s.replies = <<>> => t.replies = <<>>
    /\ Len(s.toPage) <= Len(t.toPage)
    /\ \A i \in 1..Len(s.toPage) : t.toPage[i] = s.toPage[i]
    /\ \A i \in (Len(s.toPage) + 1)..Len(t.toPage) :
           /\ t.toPage[i].op # "restore"
           /\ t.toPage[i].op = "close" => ~IsOpen(t, t.toPage[i].path)
    /\ \A p : IsOpen(t, p) => /\ t.snapshots[p] = s.snapshots[p]
                              /\ IsDirty(s, p) => IsDirty(t, p) \/ p \in down

\* And no tab is opened.
Handles(s, t, down) == Carries(s, t, down) /\ \A p : IsOpen(t, p) => IsOpen(s, p)

\* A function of the pane after another.
LEMMA HandlesInTurn ==
    ASSUME NEW s, NEW t, NEW u, NEW d, NEW e, Handles(s, t, d), Handles(t, u, e),
           Len(s.toPage) \in Nat, Len(t.toPage) \in Nat, Len(u.toPage) \in Nat
    PROVE  Handles(s, u, d \cup e)
<1>1. \A p : IsOpen(u, p) => IsOpen(s, p)
  BY DEF Handles
<1>2. ASSUME NEW i \in (Len(s.toPage) + 1)..Len(u.toPage)
      PROVE  /\ u.toPage[i].op # "restore"
             /\ u.toPage[i].op = "close" => ~IsOpen(u, u.toPage[i].path)
  <2>1. CASE i \in (Len(t.toPage) + 1)..Len(u.toPage)
    BY <2>1 DEF Handles, Carries
  <2>2. CASE i \in 1..Len(t.toPage)
    <3>1. u.toPage[i] = t.toPage[i] /\ i \in (Len(s.toPage) + 1)..Len(t.toPage)
      BY <2>2 DEF Handles, Carries
    <3> QED
      BY <3>1 DEF Handles, Carries
  <2> QED
    BY <2>1, <2>2
<1>3. ASSUME NEW i \in 1..Len(s.toPage)
      PROVE  u.toPage[i] = s.toPage[i]
  <2>1. i \in 1..Len(t.toPage)
    BY DEF Handles, Carries
  <2> QED
    BY <2>1 DEF Handles, Carries
<1>4. ASSUME NEW p, IsOpen(u, p)
      PROVE  u.snapshots[p] = s.snapshots[p] /\ (IsDirty(s, p) => IsDirty(u, p) \/ p \in d \cup e)
  BY <1>4 DEF Handles, Carries
<1> QED
  BY <1>1, <1>2, <1>3, <1>4 DEF Handles, Carries

\* What is on its way about an open tab is the same.
LEMMA QueueCarried ==
    ASSUME NEW s, NEW t, NEW down, NEW C, s.toPage \in Seq(C), t.toPage \in Seq(C),
           Carries(s, t, down), NEW p, IsOpen(t, p)
    PROVE  /\ \A texts : Refills(t, p, texts) <=> Refills(s, p, texts)
           /\ ToRefill(t, p) <=> ToRefill(s, p)
           /\ Closes(t, p) <=> Closes(s, p)
<1> DEFINE a == Len(s.toPage)
           b == Len(t.toPage)
<1>1. a \in Nat /\ b \in Nat /\ a <= b /\ DOMAIN s.toPage = 1..a /\ DOMAIN t.toPage = 1..b
  BY DEF Carries
<1>2. \A i \in 1..a : t.toPage[i] = s.toPage[i]
  BY DEF Carries
<1>3. \A i \in (a + 1)..b : ~Is(t.toPage[i], "restore", p) /\ ~Is(t.toPage[i], "close", p)
  BY DEF Carries, Is
<1> HIDE DEF a, b
<1>4. \A i : Restoration(t, p, i) <=> Restoration(s, p, i)
  <2> SUFFICES ASSUME NEW i \in 1..b
               PROVE  Is(t.toPage[i], "restore", p) <=> i \in 1..a /\ Is(s.toPage[i], "restore", p)
    BY <1>1 DEF Restoration
  <2>1. CASE i \in 1..a
    BY <1>2, <2>1
  <2>2. CASE i \in (a + 1)..b
    BY <1>1, <1>3, <2>2
  <2> QED
    BY <1>1, <2>1, <2>2
<1>5. ASSUME NEW n \in Nat, n <= a
      PROVE  NoClose(t.toPage, p, n + 1, b) <=> NoClose(s.toPage, p, n + 1, a)
  <2>1. \A j \in (n + 1)..a : j \in 1..a /\ j \in (n + 1)..b
    BY <1>1, <1>5
  <2>2. \A j \in (n + 1)..b : j \in (n + 1)..a \/ j \in (a + 1)..b
    BY <1>1, <1>5
  <2> QED
    BY <1>2, <1>3, <2>1, <2>2 DEF NoClose
<1>6. \A texts : Refills(t, p, texts) <=> Refills(s, p, texts)
  <2> SUFFICES ASSUME NEW texts, NEW i, Restoration(s, p, i)
               PROVE  /\ t.toPage[i].text = s.toPage[i].text
                      /\ NoClose(t.toPage, p, i + 1, b) <=> NoClose(s.toPage, p, i + 1, a)
    BY <1>4 DEF Refills, Restoration, a, b
  <2>1. i \in 1..a
    BY <1>1 DEF Restoration
  <2> QED
    BY <1>1, <1>2, <1>5, <2>1
<1>7. Closes(t, p) <=> Closes(s, p)
  BY <1>1, <1>5, 0 + 1 = 1 DEF Closes, a, b
<1> QED
  BY <1>4, <1>6, <1>7 DEF ToRefill, Restoration

\* The invariant goes by such a handler, if a flag goes down only where that is seen.
LEMMA CarriedIsInsured ==
    ASSUME NEW s, NEW t, NEW v, NEW down, NEW C, s.toPage \in Seq(C), t.toPage \in Seq(C),
           Insuring(s, v), Carries(s, t, down),
           \A p \in Paths : v.stake[p] # 0 => IsOpen(t, p),
           \A p \in Paths : IsOpen(t, p) /\ ~IsOpen(s, p) => Least(s, v, p) = 0,
           \A p \in Paths \cap down : IsOpen(t, p) =>
               s.life # "loading" /\ (IsDirty(s, p) /\ Least(s, v, p) # 0 => IsDirty(t, p) \/ p \in v.gone)
    PROVE  Insuring(t, v)
<1>1. RestoresCome(t, v)
  <2> SUFFICES ASSUME NEW i \in DOMAIN t.toPage, t.toPage[i].op = "restore"
               PROVE  /\ t.toPage[i].text # 0 /\ t.replies = <<>>
                      /\ \A j \in 1..(i - 1) : /\ t.toPage[j].op \in {"open", "set", "close", "restore"}
                                               /\ ~Is(t.toPage[j], "restore", t.toPage[i].path)
                      /\ IF i = 1 THEN v.page[t.toPage[i].path] # NoModel
                         ELSE Is(t.toPage[i - 1], "open", t.toPage[i].path)
    BY DEF RestoresCome
  <2>1. i \in 1..Len(t.toPage) /\ Len(s.toPage) \in Nat
    OBVIOUS
  <2>2. i \in 1..Len(s.toPage)
    BY <2>1 DEF Carries
  <2>3. \A j \in 1..i : j \in 1..Len(s.toPage) /\ t.toPage[j] = s.toPage[j]
    BY <2>1, <2>2 DEF Carries
  <2>4. t.toPage[i] = s.toPage[i] /\ i \in DOMAIN s.toPage
    BY <2>2, <2>3
  <2>5. \A j \in 1..(i - 1) : t.toPage[j] = s.toPage[j]
    BY <2>2, <2>3
  <2>6. i # 1 => t.toPage[i - 1] = s.toPage[i - 1]
    BY <2>2, <2>5
  <2>7. s.replies = <<>> => t.replies = <<>>
    BY DEF Carries
  <2> QED
    BY <2>4, <2>5, <2>6, <2>7 DEF Insuring, RestoresCome
<1>2. ASSUME NEW p \in Paths
      PROVE  Guarded(t, v, p)
  <2>0. Guarded(s, v, p)
    BY DEF Insuring
  <2>1. CASE ~IsOpen(t, p)
    BY <2>0, <2>1 DEF Guarded, Kept
  <2>2. CASE IsOpen(t, p)
    <3>1. /\ \A texts : Refills(t, p, texts) <=> Refills(s, p, texts)
          /\ ToRefill(t, p) <=> ToRefill(s, p)
          /\ Closes(t, p) <=> Closes(s, p)
      BY <2>2, QueueCarried
    <3>2. Down(t) <=> Down(s)
      BY DEF Carries, Down
    <3>3. Least(t, v, p) = Least(s, v, p)
      BY <3>1, <3>2 DEF Least
    <3>4. /\ t.snapshots[p] = s.snapshots[p] /\ t.posts = s.posts
          /\ t.needsModelRestore = s.needsModelRestore /\ (t.life = "loading" <=> s.life = "loading")
          /\ IsDirty(s, p) => IsDirty(t, p) \/ p \in down
      BY <2>2 DEF Carries
    <3>5. ASSUME Least(t, v, p) # 0
          PROVE  Flagged(t, v, p)
      <4>1. IsOpen(s, p) /\ Flagged(s, v, p)
        BY <2>0, <2>2, <3>3, <3>5 DEF Guarded
      <4>2. IsDirty(s, p) \/ p \in v.gone => IsDirty(t, p) \/ p \in v.gone
        BY <2>2, <3>3, <3>4, <3>5
      <4>3. \A n : FlagUp(s, v, p, n) => FlagUp(t, v, p, n)
        BY <3>4, <4>2 DEF FlagUp
      <4> QED
        BY <3>3, <3>4, <4>1, <4>2, <4>3 DEF Flagged
    <3>6. Kept(t, v, p)
      <4> SUFFICES ASSUME v.stake[p] # 0
                   PROVE  /\ t.life = "loading" =>
                                IsDirty(t, p) /\ t.snapshots[p] = v.stake[p] /\ t.needsModelRestore
                          /\ ~Down(t) => Returns(t, v, p)
        BY <2>2 DEF Kept
      <4>1. /\ s.life = "loading" => IsDirty(s, p) /\ s.snapshots[p] = v.stake[p] /\ s.needsModelRestore
            /\ ~Down(s) => Returns(s, v, p)
        BY <2>0 DEF Guarded, Kept
      <4>2. Returns(s, v, p) => Returns(t, v, p)
        BY <3>1 DEF Returns
      <4> QED
        BY <3>2, <3>4, <4>1, <4>2
    <3> QED
      BY <2>0, <3>5, <3>6 DEF Guarded
  <2> QED
    BY <2>1, <2>2
<1> QED
  BY <1>1, <1>2 DEF Insuring

-----------------------------------------------------------------------------
(* What the properties read of a step.                                         *)

AfterStep == [page |-> page', gone |-> ghost.misread \cup {p \in Paths : Misread(p)}, stake |-> ghost'.atStake]

\* What is at stake after a step of a renderer that neither dies nor is reported dead.
LEMMA StakeOf ==
    ASSUME Watch, NEW p \in Paths, pane'.life = "crashed" => pane.life = "crashed",
           pane'.life = "loading" => pane.life = "loading"
    PROVE  ghost'.atStake[p] = IF ~IsOpen(pane', p) \/ (Dirty(page[p]) /\ ~Dirty(page'[p])) THEN 0
                               ELSE ghost.atStake[p]
<1>1. ghost'.atStake[p] = AtStake(p)
  BY DEF Watch
<1>2. ~Dies /\ ~Reloads
  BY DEF Dies, Reloads
<1>3. CASE ~IsOpen(pane', p)
  BY <1>1, <1>3 DEF AtStake
<1>4. CASE IsOpen(pane', p)
  BY <1>1, <1>2, <1>4 DEF AtStake
<1> QED
  BY <1>1, <1>3, <1>4

\* A flag that is up again is not misread any more.
LEMMA EndsInsured ==
    ASSUME Watch, Insuring(pane', AfterStep)
    PROVE  EditsInsured'
<1> DEFINE s == pane'
           v == AfterStep
           u == Stakes'
<1>1. v.page = page' /\ v.stake = ghost'.atStake /\ v.gone = ghost.misread \cup {p \in Paths : Misread(p)}
  BY DEF AfterStep
<1>2. u.page = page' /\ u.stake = ghost'.atStake /\ u.gone = ghost'.misread
  BY DEF Stakes
<1>3. ghost'.misread = {p \in Paths : /\ p \in ghost.misread \/ Misread(p)
                                      /\ IsOpen(pane', p) /\ ~IsDirty(pane', p)}
  BY DEF Watch
<1>4. Insuring(s, v)
  OBVIOUS
<1> HIDE DEF s, v, u
<1>5. RestoresCome(s, u)
  BY <1>1, <1>2, <1>4 DEF Insuring, RestoresCome
<1>6. ASSUME NEW p \in Paths
      PROVE  Guarded(s, u, p)
  <2>1. Guarded(s, v, p)
    BY <1>4 DEF Insuring
  <2>2. Least(s, u, p) = Least(s, v, p) /\ Kept(s, u, p)
    BY <1>1, <1>2, <2>1 DEF Least, Kept, Returns, Guarded
  <2>3. ASSUME IsOpen(s, p), Least(s, u, p) # 0
        PROVE  Flagged(s, u, p)
    <3>1. Flagged(s, v, p)
      BY <2>1, <2>2, <2>3 DEF Guarded
    <3>2. IsDirty(s, p) \/ p \in v.gone => IsDirty(s, p) \/ p \in u.gone
      BY <1>1, <1>2, <1>3, <2>3 DEF s
    <3>3. \A n : FlagUp(s, v, p, n) => FlagUp(s, u, p, n)
      BY <3>2 DEF FlagUp
    <3> QED
      BY <1>1, <1>2, <2>2, <3>1, <3>2, <3>3 DEF Flagged
  <2> QED
    BY <1>1, <1>2, <2>1, <2>2, <2>3 DEF Guarded
<1> QED
  BY <1>5, <1>6 DEF EditsInsured, Insuring, s, u

\* What is not at stake any more asks for less.
LEMMA LessAtStake ==
    ASSUME NEW s, NEW v, NEW w, Insuring(s, v), w.page = v.page, v.gone \subseteq w.gone,
           \A p \in Paths : w.stake[p] \in {0, v.stake[p]}
    PROVE  Insuring(s, w)
<1>1. RestoresCome(s, w)
  BY DEF Insuring, RestoresCome
<1>2. ASSUME NEW p \in Paths
      PROVE  Guarded(s, w, p)
  <2>1. Guarded(s, v, p)
    BY DEF Insuring
  <2>2. Least(s, w, p) # 0 => Least(s, w, p) = Least(s, v, p)
    BY DEF Least
  <2>3. Kept(s, w, p)
    BY <2>1 DEF Guarded, Kept, Returns
  <2>4. ASSUME IsOpen(s, p), Least(s, w, p) # 0
        PROVE  Flagged(s, w, p)
    <3>1. Flagged(s, v, p) /\ Least(s, w, p) = Least(s, v, p)
      BY <2>1, <2>2, <2>4 DEF Guarded
    <3>2. \A n : FlagUp(s, v, p, n) => FlagUp(s, w, p, n)
      BY DEF FlagUp
    <3> QED
      BY <3>1, <3>2 DEF Flagged
  <2> QED
    BY <2>1, <2>3, <2>4 DEF Guarded
<1> QED
  BY <1>1, <1>2 DEF Insuring

\* Only what the pane has open has an unsaved edit.
LEMMA OnlyOpenFiles ==
    ASSUME IInv, EditsInsured, NEW p \in Paths, ~IsOpen(pane, p)
    PROVE  Least(pane, Stakes, p) = 0
<1> DEFINE q == pane.toPage
           m == page[p]
<1>1. Guarded(pane, Stakes, p) /\ RestoresCome(pane, Stakes) /\ Stakes.page = page
  BY DEF EditsInsured, Insuring, Stakes
<1>2. q \in Seq(Command) /\ Len(q) \in Nat /\ DOMAIN q = 1..Len(q)
         /\ (Down(pane) \/ ~Exists(q, p, m, Len(q)))
  BY DEF IInv, Linked, Typed, PaneType, Follows, HasModel, Now
<1>3. CASE Down(pane)
  BY <1>1, <1>3 DEF Least, Guarded, Kept
<1>4. CASE ~Down(pane)
  <2>0. q \in Seq(Command) /\ Len(q) \in Nat /\ DOMAIN q = 1..Len(q) /\ ~Exists(q, p, m, Len(q))
    BY DEF IInv, Linked, Typed, PaneType, Follows, HasModel, Now
  <2>1. ASSUME Refills(pane, p, Nat \ {0})
        PROVE  FALSE
    <3>1. PICK i \in DOMAIN q : Is(q[i], "restore", p) /\ NoClose(q, p, i + 1, Len(q))
      BY <2>1 DEF Refills, Restoration
    <3>2. i \in 1..Len(q) /\ q[i].path = p /\ q[i].op = "restore"
      BY <2>0, <3>1 DEF Is
    <3>3. ~Is(q[i], "close", p)
      BY <3>2 DEF Is
    <3>4. NoClose(q, p, i, Len(q))
      <4>1. \A j \in i..Len(q) : j = i \/ j \in (i + 1)..Len(q)
        BY <2>0, <3>2
      <4> QED
        BY <3>1, <3>3, <4>1 DEF NoClose
    <3>5. CASE i = 1
      <4>1. m # NoModel
        BY <1>1, <3>2, <3>5 DEF RestoresCome
      <4> QED
        BY <2>0, <3>4, <3>5, <4>1 DEF Exists
    <3>6. CASE i # 1
      <4>1. Is(q[i - 1], "open", p) /\ i - 1 \in 1..Len(q) /\ (i - 1) + 1 = i
        BY <1>1, <2>0, <3>2, <3>6 DEF RestoresCome
      <4> QED
        BY <2>0, <3>4, <4>1 DEF Exists
    <3> QED
      BY <3>5, <3>6
  <2>2. ASSUME ~Closes(pane, p), m.first # 0
        PROVE  FALSE
    <3>1. m # NoModel
      BY <2>2 DEF NoModel
    <3> QED
      BY <2>0, <2>2, <3>1 DEF Closes, Exists
  <2> QED
    BY <1>1, <1>4, <2>1, <2>2 DEF Least
<1> QED
  BY <1>3, <1>4

\* A step of the pane alone.
LEMMA CarriedStep ==
    ASSUME IInv, IInv', EditsInsured, Watch, page' = page,
           NEW down, Carries(pane, pane', down), down # {} => pane.replies # <<>>
    PROVE  EditsInsured'
<1> DEFINE v == AfterStep
<1>1. v.page = page /\ v.stake = ghost'.atStake /\ v.gone = ghost.misread \cup {p \in Paths : Misread(p)}
  BY DEF AfterStep
<1>2. Stakes.page = page /\ Stakes.stake = ghost.atStake /\ Stakes.gone = ghost.misread
  BY DEF Stakes
<1>3. pane.toPage \in Seq(Command \cup Command') /\ pane'.toPage \in Seq(Command \cup Command')
  <2>1. pane.toPage \in Seq(Command) /\ pane'.toPage \in Seq(Command')
    BY DEF IInv, Linked, Typed, PaneType
  <2> QED
    BY <2>1
<1>4. /\ pane'.life = "crashed" => pane.life = "crashed"
      /\ pane'.life = "loading" => pane.life = "loading"
  BY DEF Carries
<1>5. \A p \in Paths : v.stake[p] = IF ~IsOpen(pane', p) THEN 0 ELSE ghost.atStake[p]
  BY <1>1, <1>4, StakeOf
<1> HIDE DEF v
<1>6. Insuring(pane, v)
  BY <1>1, <1>2, <1>5, LessAtStake DEF EditsInsured
<1>7. ASSUME NEW p \in Paths, ~IsOpen(pane, p)
      PROVE  Least(pane, v, p) = 0
  <2>1. Least(pane, Stakes, p) = 0
    BY <1>7, OnlyOpenFiles
  <2> QED
    BY <1>1, <1>2, <1>5, <2>1 DEF Least
<1>8. ASSUME NEW p \in Paths \cap down, IsOpen(pane', p)
      PROVE  /\ pane.life # "loading"
             /\ IsDirty(pane, p) /\ Least(pane, v, p) # 0 => IsDirty(pane', p) \/ p \in v.gone
  <2>1. pane.replies # <<>>
    OBVIOUS
  <2>2. pane.life # "loading"
    BY <2>1 DEF IInv, Linked, DownIsEmpty
  <2>3. \A i \in DOMAIN pane.toPage : pane.toPage[i].op # "restore"
    BY <1>6, <2>1 DEF Insuring, RestoresCome
  <2>4. ~Refills(pane, p, Nat \ {0})
    BY <2>3 DEF Refills, Restoration, Is
  <2>5. ASSUME Least(pane, v, p) # 0, IsDirty(pane, p), ~IsDirty(pane', p)
        PROVE  p \in v.gone
    <3>1. page[p].first # 0 \/ v.stake[p] # 0
      BY <1>1, <2>4, <2>5 DEF Least
    <3>2. Dirty(page[p]) \/ ghost.atStake[p] # 0
      BY <1>1, <1>5, <1>6, <3>1 DEF Insuring, Guarded
    <3>3. Misread(p)
      BY <1>8, <2>5, <3>2 DEF Misread
    <3> QED
      BY <1>1, <3>3
  <2> QED
    BY <2>2, <2>5
<1>9. Insuring(pane', v)
  BY <1>3, <1>5, <1>6, <1>7, <1>8, CarriedIsInsured
<1> QED
  BY <1>9, EndsInsured DEF v

-----------------------------------------------------------------------------
(* The functions of the pane.                                                  *)

\* Nothing changes that an unsaved edit depends on.
LEMMA StillHandles ==
    ASSUME NEW s, NEW t, s \in PaneType, t.tabs = s.tabs, t.toPage = s.toPage, t.posts = s.posts,
           t.replies = s.replies, t.life = s.life, t.needsModelRestore = s.needsModelRestore,
           t.snapshots = s.snapshots
    PROVE  Handles(s, t, {})
<1>1. Len(s.toPage) \in Nat /\ ~(\E i \in (Len(s.toPage) + 1)..Len(t.toPage) : TRUE)
  BY DEF PaneType
<1>2. \A p : (IsOpen(t, p) <=> IsOpen(s, p)) /\ (IsDirty(s, p) => IsDirty(t, p))
  BY DEF IsOpen, IsDirty, IndexOf
<1> QED
  BY <1>1, <1>2 DEF Handles, Carries

\* A command is sent.
LEMMA SendHandles ==
    ASSUME NEW s, NEW t, s \in PaneType, NEW c \in Command, c.op \notin {"restore", "close"},
           t.toPage = IF s.life = "crashed" THEN s.toPage ELSE Append(s.toPage, c),
           t.tabs = s.tabs, t.posts = s.posts,
           t.replies = s.replies, t.life = s.life, t.needsModelRestore = s.needsModelRestore,
           t.snapshots = s.snapshots
    PROVE  Handles(s, t, {})
<1>1. CASE s.life = "crashed"
  BY <1>1, StillHandles
<1>2. CASE s.life # "crashed"
  <2>1. s.toPage \in Seq(Command) /\ t.toPage = Append(s.toPage, c) /\ Len(s.toPage) \in Nat
    BY <1>2 DEF PaneType
  <2>2. Len(t.toPage) = Len(s.toPage) + 1 /\ t.toPage[Len(s.toPage) + 1] = c
        /\ \A i \in 1..Len(s.toPage) : t.toPage[i] = s.toPage[i]
    BY <2>1
  <2>3. \A i \in (Len(s.toPage) + 1)..Len(t.toPage) : t.toPage[i] = c
    BY <2>1, <2>2
  <2>4. \A p : (IsOpen(t, p) <=> IsOpen(s, p)) /\ (IsDirty(s, p) => IsDirty(t, p))
    BY DEF IsOpen, IsDirty, IndexOf
  <2> QED
    BY <2>1, <2>2, <2>3, <2>4 DEF Handles, Carries
<1> QED
  BY <1>1, <1>2

\* A question is asked.
LEMMA AskHandles ==
    ASSUME NEW s, Typed(s), NEW op \in {"content", "clean"}, NEW p \in Paths,
           NEW why, NEW tab, NEW rest, NEW since
    PROVE  Handles(s, Ask(s, op, p, why, tab, rest, since), {})
<1> DEFINE id == FreshId(s)
           c == [op |-> op, path |-> p, id |-> id]
           q == Question(op, p, id, why, tab, rest, since)
           r == Send(s, c)
           t == Ask(s, op, p, why, tab, rest, since)
<1>1. s \in PaneType /\ IsFiniteSet(s.waiting)
  BY DEF Typed
<1>2. id \in Nat
  BY <1>1, FreshIdIsNew
<1>3. c \in Command /\ c.op = op
  BY <1>2, Commands
<1>4. /\ r \in PaneType
      /\ r.toPage = IF s.life = "crashed" THEN s.toPage ELSE Append(s.toPage, c)
      /\ r.tabs = s.tabs /\ r.snapshots = s.snapshots /\ r.life = s.life
      /\ r.replies = s.replies /\ r.posts = s.posts /\ r.needsModelRestore = s.needsModelRestore
  BY <1>1, <1>3, SendIsSent
<1>5. t = [r EXCEPT !.waiting = r.waiting \cup {q}]
  BY DEF Ask
<1> HIDE DEF r, t, q, c, id
<1>6. /\ t.toPage = r.toPage /\ t.tabs = r.tabs /\ t.snapshots = r.snapshots /\ t.life = r.life
      /\ t.replies = r.replies /\ t.posts = r.posts /\ t.needsModelRestore = r.needsModelRestore
  BY <1>4, <1>5 DEF PaneType
<1>7. Handles(s, t, {})
  BY <1>1, <1>3, <1>4, <1>6, SendHandles
<1> QED
  BY <1>7 DEF t

\* A card is presented.
LEMMA PresentHandles ==
    ASSUME NEW s, s \in PaneType, NEW kind, NEW p
    PROVE  Handles(s, Present(s, kind, p), {}) /\ Handles(s, CancelAsk(s), {})
<1> DEFINE r == CancelAsk(s)
           card == [kind |-> kind, path |-> p, index |-> IF IsOpen(s, p) THEN IndexOf(s, p) ELSE 0]
           quit == IF s.ask.kind = "drain" THEN "no" ELSE s.quit
           t == Present(s, kind, p)
<1>1. r = [s EXCEPT !.ask = NoAsk, !.quit = quit] /\ t = [s EXCEPT !.ask = card, !.quit = quit]
  BY DEF Present, CancelAsk, PaneType
<1> HIDE DEF r, card, quit, t
<1>2. /\ t.tabs = s.tabs /\ t.toPage = s.toPage /\ t.posts = s.posts
      /\ t.replies = s.replies /\ t.life = s.life /\ t.needsModelRestore = s.needsModelRestore
      /\ t.snapshots = s.snapshots
  BY <1>1 DEF PaneType
<1>3. /\ r.tabs = s.tabs /\ r.toPage = s.toPage /\ r.posts = s.posts
      /\ r.replies = s.replies /\ r.life = s.life /\ r.needsModelRestore = s.needsModelRestore
      /\ r.snapshots = s.snapshots
  BY <1>1 DEF PaneType
<1>4. Handles(s, t, {}) /\ Handles(s, r, {})
  BY <1>2, <1>3, StillHandles
<1> QED
  BY <1>4 DEF t, r

\* The flag of a path is that of its tab.
LEMMA FlagOf ==
    ASSUME NEW s, TabsDiffer(s), NEW p
    PROVE  IsDirty(s, p) <=> \E i \in DOMAIN s.tabs : s.tabs[i].path = p /\ s.tabs[i].dirty
<1>1. ASSUME NEW i \in DOMAIN s.tabs, s.tabs[i].path = p
      PROVE  IsOpen(s, p) /\ IndexOf(s, p) = i
  BY <1>1 DEF TabsDiffer, IsOpen, IndexOf
<1>2. IsOpen(s, p) => IndexOf(s, p) \in DOMAIN s.tabs /\ s.tabs[IndexOf(s, p)].path = p
  BY DEF IsOpen, IndexOf
<1> QED
  BY <1>1, <1>2 DEF IsDirty

\* A flag is set, or taken down.
LEMMA SetDirtyHandles ==
    ASSUME NEW s, NEW w, Deciding(s, w), NEW p, NEW dirty \in BOOLEAN
    PROVE  /\ Handles(s, SetDirty(s, p, dirty), IF dirty THEN {} ELSE {p})
           /\ dirty /\ IsOpen(s, p) => IsDirty(SetDirty(s, p, dirty), p)
           /\ \A x : x # p => (IsDirty(SetDirty(s, p, dirty), x) <=> IsDirty(s, x))
<1> DEFINE t == SetDirty(s, p, dirty)
           i == IndexOf(s, p)
<1>0. s \in PaneType /\ s.tabs \in Seq(Tab) /\ TabsDiffer(s)
  BY DEF Deciding, Linked, Typed, PaneType
<1>1. CASE ~IsOpen(s, p)
  <2>1. t = s
    BY <1>1 DEF SetDirty
  <2>2. Handles(s, s, {})
    BY <1>0, StillHandles
  <2> QED
    BY <1>1, <2>1, <2>2 DEF Handles, Carries
<1>2. CASE IsOpen(s, p)
  <2>1. i \in DOMAIN s.tabs /\ s.tabs[i].path = p
    BY <1>0, <1>2, TabOf
  <2> DEFINE tab == [path |-> p, dirty |-> dirty, pinned |-> s.tabs[i].pinned \/ dirty]
             new == [s.tabs EXCEPT ![i] = tab]
  <2>2. t = [s EXCEPT !.tabs = new] /\ tab.path = p /\ tab.dirty = dirty
    BY <1>0, <1>2 DEF SetDirty, PaneType
  <2> HIDE DEF i, t, tab
  <2>3. /\ DOMAIN new = DOMAIN s.tabs /\ new[i] = tab
        /\ \A j \in DOMAIN new : new[j].path = s.tabs[j].path /\ (j # i => new[j] = s.tabs[j])
    BY <1>0, <2>1, <2>2
  <2> HIDE DEF new
  <2>4. /\ t.tabs = new /\ t.toPage = s.toPage /\ t.posts = s.posts
        /\ t.replies = s.replies /\ t.life = s.life /\ t.needsModelRestore = s.needsModelRestore
        /\ t.snapshots = s.snapshots
    BY <1>0, <2>2 DEF PaneType
  <2>5. TabsDiffer(t) /\ \A x : IsOpen(t, x) <=> IsOpen(s, x)
    BY <1>0, <2>3, <2>4 DEF TabsDiffer, IsOpen
  <2>6. ASSUME NEW x, x # p
        PROVE  IsDirty(t, x) <=> IsDirty(s, x)
    <3>1. \A j \in DOMAIN new : new[j].path = x => j # i
      BY <2>1, <2>3, <2>6
    <3> QED
      BY <1>0, <2>3, <2>4, <2>5, <3>1, FlagOf
  <2>7. dirty => IsDirty(t, p)
    <3>1. i \in DOMAIN t.tabs /\ t.tabs[i].path = p /\ t.tabs[i].dirty = dirty
      BY <2>1, <2>2, <2>3, <2>4
    <3> QED
      BY <2>5, <3>1, FlagOf
  <2>8. Len(s.toPage) \in Nat /\ ~(\E j \in (Len(s.toPage) + 1)..Len(t.toPage) : TRUE)
    BY <1>0, <2>4 DEF PaneType
  <2>9. Handles(s, t, IF dirty THEN {} ELSE {p})
    BY <2>4, <2>5, <2>6, <2>7, <2>8 DEF Handles, Carries
  <2> QED
    BY <2>6, <2>7, <2>9 DEF t
<1> QED
  BY <1>1, <1>2

\* A tab is closed.
LEMMA CloseHandles ==
    ASSUME NEW s, NEW w, Deciding(s, w), NEW p \in Paths, NEW upto \in Nat, CountsTyped
    PROVE  Handles(s, PerformClose(s, p, upto), {})
<1> DEFINE t == PerformClose(s, p, upto)
           i == IndexOf(s, p)
           new == RemoveAt(s.tabs, i)
           c == [op |-> "close", path |-> p, upto |-> upto]
           r == [s EXCEPT !.tabs = new]
           u == Send(r, c)
           shots == [u.snapshots EXCEPT ![p] = 0]
<1>0. s \in PaneType /\ TabsDiffer(s) /\ s.toPage \in Seq(Command) /\ s.snapshots \in [Paths -> Past]
  BY DEF Deciding, Linked, Typed, PaneType
<1>1. CASE ~IsOpen(s, p)
  <2>1. t = s
    BY <1>1 DEF PerformClose
  <2> QED
    BY <1>0, <2>1, StillHandles
<1>2. CASE IsOpen(s, p)
  <2>1. c \in Command /\ c.op = "close" /\ c.path = p
    BY Commands
  <2>2. i \in DOMAIN s.tabs /\ s.tabs[i].path = p
    BY <1>0, <1>2, TabOf
  <2>3. t = [u EXCEPT !.unseen = u.unseen \ {p}, !.snapshots = shots]
    BY <1>2 DEF PerformClose, DiscardResources
  <2> HIDE DEF i, c
  <2>4. /\ new \in Seq(Tab)
        /\ \A j, k \in DOMAIN new : new[j].path = new[k].path => j = k
        /\ \A x : (\E j \in DOMAIN new : new[j].path = x)
                  <=> (\E j \in DOMAIN s.tabs : s.tabs[j].path = x) /\ x # p
        /\ \A k \in DOMAIN s.tabs : k # i => \E j \in DOMAIN new : new[j] = s.tabs[k]
    <3>1. s.tabs \in Seq(Tab)
      BY <1>0 DEF PaneType
    <3>2. LET gone == s.tabs[i].path
              rest == RemoveAt(s.tabs, i)
          IN /\ rest \in Seq(Tab)
             /\ \A j, k \in DOMAIN rest : rest[j].path = rest[k].path => j = k
             /\ \A x : (\E j \in DOMAIN rest : rest[j].path = x)
                       <=> (\E j \in DOMAIN s.tabs : s.tabs[j].path = x) /\ x # gone
             /\ \A k \in DOMAIN s.tabs : k # i => \E j \in DOMAIN rest : rest[j] = s.tabs[k]
      BY <1>0, <2>2, <3>1, TabRemoved
    <3> QED
      BY <2>2, <3>2
  <2> HIDE DEF new
  <2>5. r \in PaneType
    BY <1>0, <2>4 DEF PaneType
  <2>6. /\ r.tabs = new /\ r.snapshots = s.snapshots /\ r.life = s.life /\ r.toPage = s.toPage
        /\ r.replies = s.replies /\ r.posts = s.posts /\ r.needsModelRestore = s.needsModelRestore
    BY <1>0 DEF PaneType
  <2> HIDE DEF r
  <2>7. /\ u \in PaneType
        /\ u.toPage = IF r.life = "crashed" THEN r.toPage ELSE Append(r.toPage, c)
        /\ u.tabs = r.tabs /\ u.snapshots = r.snapshots /\ u.life = r.life
        /\ u.replies = r.replies /\ u.posts = r.posts /\ u.needsModelRestore = r.needsModelRestore
    BY <2>1, <2>5, SendIsSent
  <2>8. \A x \in Paths : x # p => shots[x] = s.snapshots[x]
    BY <1>0, <2>6, <2>7
  <2> HIDE DEF u, shots, t
  <2>9. /\ t.toPage = u.toPage /\ t.tabs = u.tabs /\ t.snapshots = shots /\ t.life = u.life
        /\ t.replies = u.replies /\ t.posts = u.posts /\ t.needsModelRestore = u.needsModelRestore
    BY <2>3, <2>7 DEF PaneType
  <2>10. TabsDiffer(t) /\ t.tabs = new
    BY <2>4, <2>6, <2>7, <2>9 DEF TabsDiffer
  <2>11. \A x : IsOpen(t, x) <=> IsOpen(s, x) /\ x # p
    <3>1. t.tabs = new
      BY <2>10
    <3> QED
      BY SMTT(30), <2>4, <3>1 DEF IsOpen
  <2>12. ASSUME NEW x, IsOpen(t, x)
         PROVE  t.snapshots[x] = s.snapshots[x] /\ (IsDirty(s, x) => IsDirty(t, x))
    <3>1. x # p /\ IsOpen(s, x)
      BY <2>11, <2>12
    <3>2. x \in Paths
      BY <1>0, <3>1, TabOf
    <3>3. ASSUME IsDirty(s, x)
          PROVE  IsDirty(t, x)
      <4>1. PICK k \in DOMAIN s.tabs : s.tabs[k].path = x /\ s.tabs[k].dirty
        BY <1>0, <3>3, FlagOf
      <4>2. PICK j \in DOMAIN new : new[j] = s.tabs[k]
        BY <2>2, <2>4, <3>1, <4>1
      <4> QED
        BY <2>10, <4>1, <4>2, FlagOf
    <3> QED
      BY <2>8, <2>9, <3>1, <3>2, <3>3
  <2>13. t.toPage = IF s.life = "crashed" THEN s.toPage ELSE Append(s.toPage, c)
    BY <2>6, <2>7, <2>9
  <2>14. /\ Len(s.toPage) \in Nat /\ Len(t.toPage) \in {Len(s.toPage), Len(s.toPage) + 1}
         /\ \A j \in 1..Len(s.toPage) : t.toPage[j] = s.toPage[j]
         /\ \A j \in (Len(s.toPage) + 1)..Len(t.toPage) : t.toPage[j] = c
    <3>1. CASE s.life = "crashed"
      BY <1>0, <2>13, <3>1
    <3>2. CASE s.life # "crashed"
      <4>1. t.toPage = Append(s.toPage, c)
        BY <2>13, <3>2
      <4>2. Len(t.toPage) = Len(s.toPage) + 1 /\ t.toPage[Len(s.toPage) + 1] = c
            /\ \A j \in 1..Len(s.toPage) : t.toPage[j] = s.toPage[j]
        BY <1>0, <2>1, <4>1
      <4> QED
        BY <1>0, <4>2
    <3> QED
      BY <3>1, <3>2
  <2>15. \A j \in (Len(s.toPage) + 1)..Len(t.toPage) :
            t.toPage[j].op # "restore" /\ (t.toPage[j].op = "close" => ~IsOpen(t, t.toPage[j].path))
    BY <2>1, <2>11, <2>14
  <2>16. Handles(s, t, {})
    BY <2>6, <2>7, <2>9, <2>11, <2>12, <2>14, <2>15 DEF Handles, Carries
  <2> QED
    BY <2>16 DEF t
<1> QED
  BY <1>1, <1>2

\* requestCloseTab
LEMMA CloseOrPromptHandles ==
    ASSUME NEW s, NEW w, Deciding(s, w), NEW p \in Paths, NEW dirty \in BOOLEAN, NEW known \in Nat,
           CountsTyped
    PROVE  Handles(s, CloseOrPrompt(s, p, dirty, known), {})
<1>0. s \in PaneType
  BY DEF Deciding, Linked, Typed
<1>1. Handles(s, s, {}) /\ Handles(s, Present(s, "close", p), {}) /\ Handles(s, PerformClose(s, p, known), {})
  BY <1>0, StillHandles, PresentHandles, CloseHandles
<1> QED
  BY <1>1 DEF CloseOrPrompt

\* A flag is one.
LEMMA FlagIsBoolean ==
    ASSUME NEW s, s \in PaneType, NEW p
    PROVE  IsDirty(s, p) \in BOOLEAN
<1>1. CASE ~IsOpen(s, p)
  BY <1>1 DEF IsDirty
<1>2. CASE IsOpen(s, p)
  <2>1. IndexOf(s, p) \in DOMAIN s.tabs
    BY <1>2, TabOf
  <2>2. s.tabs[IndexOf(s, p)] \in Tab
    BY <2>1 DEF PaneType
  <2> QED
    BY <1>2, <2>2 DEF IsDirty, Tab
<1> QED
  BY <1>1, <1>2

\* requestCloseTab, from the start.
LEMMA RequestCloseHandles ==
    ASSUME NEW s, NEW w, Deciding(s, w), NEW p \in Paths, CountsTyped
    PROVE  Handles(s, RequestClose(s, p), {})
<1> DEFINE dirty == IsDirty(s, p)
<1>1. dirty \in BOOLEAN
  BY FlagIsBoolean DEF Deciding, Linked, Typed
<1>2. RequestClose(s, p) = IF IsReady(s) THEN Ask(s, "clean", p, "close", p, <<>>, Latest)
                           ELSE CloseOrPrompt(s, p, dirty, Clock)
  BY DEF RequestClose
<1> HIDE DEF dirty
<1>3. Handles(s, CloseOrPrompt(s, p, dirty, Clock), {})
  BY <1>1, CloseOrPromptHandles, ClocksAreNumbers
<1>4. Handles(s, Ask(s, "clean", p, "close", p, <<>>, Latest), {})
  BY AskHandles DEF Deciding, Linked
<1> QED
  BY <1>2, <1>3, <1>4

\* saveTabsSerially
LEMMA SaveSeriallyHandles ==
    ASSUME NEW s, Typed(s), NEW paths \in Seq(Paths)
    PROVE  Handles(s, SaveSerially(s, paths), {})
<1>1. CASE WalkEnds(s, paths) \/ ~IsReady(s)
  BY <1>1, StillHandles DEF SaveSerially, Typed
<1>2. CASE ~WalkEnds(s, paths) /\ IsReady(s)
  <2> DEFINE i == NextOpen(s, paths)
  <2>1. paths[i] \in Paths
    BY <1>2, NextOpenIsOpen
  <2>2. SaveSerially(s, paths) = Ask(s, "content", paths[i], "saveAll", paths[i], Rest(paths, i), Latest)
    BY <1>2 DEF SaveSerially, Save
  <2> HIDE DEF i
  <2> QED
    BY <2>1, <2>2, AskHandles
<1> QED
  BY <1>1, <1>2

\* The walks over the tabs.
LEMMA ReconciledHandles ==
    ASSUME NEW s, NEW w, Deciding(s, w), NEW why \in {"drain", "saveAll"}, NEW since
    PROVE  Handles(s, Reconciled(s, why, since), {})
<1>1. s \in PaneType /\ Typed(s)
  BY DEF Deciding, Linked, Typed
<1>2. CASE why = "saveAll"
  <2>1. Reconciled(s, why, since) = SaveSerially(s, DirtyPaths(s))
    BY <1>2 DEF Reconciled
  <2> QED
    BY <1>1, <2>1, PathsOfTabs, SaveSeriallyHandles
<1>3. CASE why = "drain"
  <2> DEFINE p == Head(DirtyPaths(s))
             card == [kind |-> "drain", path |-> p, index |-> IF IsOpen(s, p) THEN IndexOf(s, p) ELSE 0]
             quit == IF s.ask.kind = "drain" THEN "no" ELSE s.quit
             t == Reconciled(s, why, since)
  <2>1. t \in {[s EXCEPT !.quit = "yes", !.quitSince = since],
               [s EXCEPT !.ask = card, !.quit = quit, !.quitSince = since]}
    BY <1>1, <1>3 DEF Reconciled, DrainReconciled, Present, CancelAsk, PaneType
  <2> HIDE DEF card, quit, t
  <2>2. /\ t.tabs = s.tabs /\ t.toPage = s.toPage /\ t.posts = s.posts
        /\ t.replies = s.replies /\ t.life = s.life /\ t.needsModelRestore = s.needsModelRestore
        /\ t.snapshots = s.snapshots
    BY <1>1, <2>1 DEF PaneType
  <2>3. Handles(s, t, {})
    BY <1>1, <2>2, StillHandles
  <2> QED
    BY <2>3 DEF t
<1> QED
  BY <1>2, <1>3

LEMMA ReconcileRestHandles ==
    ASSUME NEW s, NEW w, Deciding(s, w), NEW paths \in Seq(Paths), NEW why \in {"drain", "saveAll"},
           NEW since
    PROVE  Handles(s, ReconcileRest(s, paths, why, since), {})
<1>1. CASE WalkEnds(s, paths) \/ ~IsReady(s)
  BY <1>1, ReconciledHandles DEF ReconcileRest
<1>2. CASE ~WalkEnds(s, paths) /\ IsReady(s)
  <2> DEFINE i == NextOpen(s, paths)
  <2>1. paths[i] \in Paths
    BY <1>2, NextOpenIsOpen
  <2>2. ReconcileRest(s, paths, why, since) = Ask(s, "clean", paths[i], why, paths[i], Rest(paths, i), since)
    BY <1>2 DEF ReconcileRest
  <2> HIDE DEF i
  <2> QED
    BY <2>1, <2>2, AskHandles DEF Deciding, Linked
<1> QED
  BY <1>1, <1>2

LEMMA ReconcileHandles ==
    ASSUME NEW s, NEW w, Deciding(s, w), NEW why \in {"drain", "saveAll"}
    PROVE  Handles(s, Reconcile(s, why), {})
<1>1. OpenPaths(s) \in Seq(Paths)
  BY PathsOfTabs DEF Deciding, Linked, Typed
<1> QED
  BY <1>1, ReconcileRestHandles DEF Reconcile

\* resolveExternalChange
LEMMA ResolveHandles ==
    ASSUME NEW s, NEW w, Deciding(s, w), NEW p \in Paths, NEW clean \in BOOLEAN, NEW known \in Nat, FilesTyped
    PROVE  /\ Handles(s, ReloadFromDisk(s, p, known), {})
           /\ Handles(s, ResolveExternalChange(s, p, clean, known), {})
<1>0. s \in PaneType
  BY DEF Deciding, Linked, Typed
<1>1. Handles(s, s, {}) /\ Handles(s, Present(s, "conflict", p), {})
  BY <1>0, StillHandles, PresentHandles
<1>2. Handles(s, ReloadFromDisk(s, p, known), {})
  <2> DEFINE c == [op |-> "set", path |-> p, text |-> disk[p].text, upto |-> known]
  <2>1. disk[p].text \in Past
    BY DEF FilesTyped, File
  <2>2. c \in Command /\ c.op = "set"
    BY <2>1, Commands
  <2>3. ReloadFromDisk(s, p, known) \in {s, Send(s, c)}
    BY DEF ReloadFromDisk
  <2> HIDE DEF c
  <2>4. Handles(s, Send(s, c), {})
    BY <1>0, <2>2, SendIsSent, SendHandles
  <2> QED
    BY <1>1, <2>3, <2>4
<1>3. ASSUME NEW unseen
      PROVE  Handles(s, [s EXCEPT !.unseen = unseen], {})
  <2> DEFINE t == [s EXCEPT !.unseen = unseen]
  <2>1. /\ t.tabs = s.tabs /\ t.toPage = s.toPage /\ t.posts = s.posts
        /\ t.replies = s.replies /\ t.life = s.life /\ t.needsModelRestore = s.needsModelRestore
        /\ t.snapshots = s.snapshots
    BY <1>0 DEF PaneType
  <2> HIDE DEF t
  <2>2. Handles(s, t, {})
    BY <1>0, <2>1, StillHandles
  <2> QED
    BY <2>2 DEF t
<1>4. ResolveExternalChange(s, p, clean, known)
          \in {ReloadFromDisk(s, p, known), Present(s, "conflict", p)}
              \cup {[s EXCEPT !.unseen = unseen] : unseen \in {s.unseen, s.unseen \cup {p}}}
  BY DEF ResolveExternalChange
<1> QED
  BY <1>1, <1>2, <1>3, <1>4

\* One function after another, and the flags that may go down.
LEMMA ThenHandles ==
    ASSUME NEW s, NEW t, NEW u, NEW w, NEW d, Deciding(s, w), Deciding(t, w), Fine(u, w),
           Handles(s, t, d), Handles(t, u, {})
    PROVE  Handles(s, u, d)
<1>1. Len(s.toPage) \in Nat /\ Len(t.toPage) \in Nat /\ Len(u.toPage) \in Nat
  BY SMTT(30) DEF Deciding, Fine, Linked, Typed, PaneType
<1>2. Handles(s, u, d \cup {})
  BY <1>1, HandlesInTurn
<1>3. d \cup {} = d
  OBVIOUS
<1> QED
  BY <1>2, <1>3

LEMMA MoreFlags ==
    ASSUME NEW s, NEW t, NEW d, Handles(s, t, {})
    PROVE  Handles(s, t, d)
BY DEF Handles, Carries

\* The completion of requestIsClean: a flag goes down only on the page's own word.
LEMMA OnCleanHandles ==
    ASSUME NEW s, NEW w, Deciding(s, w), NEW q \in Questions, q.op = "clean", NEW clean \in BOOLEAN,
           NEW known \in Nat, w.disk = disk, FilesTyped, CountsTyped
    PROVE  Handles(s, OnClean(s, q, clean, known), IF clean THEN {q.path} ELSE {})
<1> DEFINE d == IF clean THEN {q.path} ELSE {}
           t == OnClean(s, q, clean, known)
           r == SetDirty(s, q.path, ~clean)
           told == Knows(q, known)
<1>0. Fine(s, w) /\ q.path \in Paths /\ q.tab \in Paths /\ q.rest \in Seq(Paths) /\ q.since \in Nat
         /\ told \in Nat
  BY CleanFields DEF Deciding, Fine, Knows
<1>1. Deciding(r, w) /\ Handles(s, r, d)
  <2>1. Handles(s, r, IF ~clean THEN {} ELSE {q.path})
    BY SetDirtyHandles
  <2>2. (IF ~clean THEN {} ELSE {q.path}) = d
    OBVIOUS
  <2> HIDE DEF r, d
  <2>3. Handles(s, r, d)
    BY <2>1, <2>2
  <2>4. Deciding(r, w)
    BY SetDirtyDecides DEF r
  <2> QED
    BY <2>3, <2>4
<1>2. Fine(t, w)
  BY OnCleanIsFine
<1> HIDE DEF r, d
<1>3. CASE q.why = "check"
  <2>1. t = ResolveExternalChange(s, q.path, clean, known)
    BY <1>3 DEF OnClean
  <2> HIDE DEF t
  <2>2. Handles(s, t, {})
    BY <1>0, <2>1, ResolveHandles
  <2> QED
    BY <2>2, MoreFlags DEF t, d
<1>4. CASE q.why = "close"
  <2>1. t = CloseOrPrompt(r, q.path, ~clean, known)
    BY <1>4 DEF OnClean, r
  <2> HIDE DEF t
  <2>2. Handles(r, t, {})
    BY <1>0, <1>1, <2>1, CloseOrPromptHandles
  <2>3. Handles(s, t, d)
    BY <1>1, <1>2, <2>2, ThenHandles
  <2> QED
    BY <2>3 DEF t, d
<1>5. CASE q.why \in {"drain", "saveAll"}
  <2> DEFINE since == IF known < q.since THEN known ELSE q.since
  <2>1. t = ReconcileRest(r, q.rest, q.why, since)
    BY <1>5 DEF OnClean, r
  <2> HIDE DEF t, since
  <2>2. Handles(r, t, {})
    BY <1>0, <1>1, <1>5, <2>1, ReconcileRestHandles
  <2>3. Handles(s, t, d)
    BY <1>1, <1>2, <2>2, ThenHandles
  <2> QED
    BY <2>3 DEF t, d
<1>6. CASE q.why = "savedForClose"
  <2>1. t = IF clean THEN PerformClose(s, q.tab, told) ELSE IF IsOpen(s, q.tab) THEN RequestClose(s, q.tab) ELSE s
    BY <1>6 DEF OnClean
  <2> HIDE DEF t
  <2>2. /\ Handles(s, PerformClose(s, q.tab, told), {})
        /\ Handles(s, RequestClose(s, q.tab), {})
        /\ Handles(s, s, {})
    BY <1>0, CloseHandles, RequestCloseHandles, StillHandles DEF Deciding, Linked, Typed
  <2>3. Handles(s, t, {})
    BY <2>1, <2>2
  <2> QED
    BY <2>3, MoreFlags DEF t, d
<1>7. CASE q.why = "savedForDrain"
  <2> DEFINE u == IF clean THEN PerformClose(s, q.tab, told) ELSE s
  <2>1. t = Reconcile(u, "drain")
    BY <1>7 DEF OnClean
  <2>2. Deciding(u, w)
    BY <1>0, CloseDecides
  <2>3. Handles(s, PerformClose(s, q.tab, told), {}) /\ Handles(s, s, {})
    BY <1>0, CloseHandles, StillHandles DEF Deciding, Linked, Typed
  <2>4. Handles(s, u, {})
    BY <2>3
  <2> HIDE DEF t, u
  <2>5. Handles(u, t, {})
    BY <2>1, <2>2, ReconcileHandles
  <2>6. Handles(s, t, {})
    BY <1>2, <2>2, <2>4, <2>5, ThenHandles
  <2> QED
    BY <2>6, MoreFlags DEF t, d
<1> QED
  BY <1>3, <1>4, <1>5, <1>6, <1>7, CleanFields DEF t, d

\* The completion of requestContent, once the bytes are on disk.
LEMMA OnSavedHandles ==
    ASSUME NEW s, Typed(s), NEW q \in Questions, q.op = "content", NEW version \in Nat,
           Len(OnSaved(s, q, version).toPage) \in Nat
    PROVE  Handles(s, OnSaved(s, q, version), {})
<1> DEFINE p == q.path
           c == [op |-> "mark", path |-> p, version |-> version]
           unseen == s.unseen \ {p}
           u == [s EXCEPT !.unseen = unseen]
           t == Send(u, c)
           v == OnSaved(s, q, version)
<1>0. s \in PaneType
  BY DEF Typed
<1>1. p \in Paths /\ q.tab \in Paths /\ q.rest \in Seq(Paths) /\ q.why \in {"save", "close", "drain", "saveAll"}
  BY CleanFields
<1>2. c \in Command /\ c.op = "mark" /\ c.path = p /\ c.version = version
  BY <1>1, Commands
<1>3. u \in PaneType
  BY <1>0 DEF PaneType
<1>4. /\ u.tabs = s.tabs /\ u.toPage = s.toPage /\ u.snapshots = s.snapshots
      /\ u.replies = s.replies /\ u.posts = s.posts /\ u.life = s.life
      /\ u.needsModelRestore = s.needsModelRestore /\ u.waiting = s.waiting
      /\ u.unseen \subseteq s.unseen
  BY <1>0 DEF PaneType
<1>5. v = CASE q.why = "close" -> Ask(t, "clean", p, "savedForClose", q.tab, <<>>, Latest)
            [] q.why = "drain" -> Ask(t, "clean", p, "savedForDrain", q.tab, <<>>, Latest)
            [] q.why = "saveAll" -> SaveSerially(t, q.rest)
            [] OTHER -> t
  BY DEF OnSaved
<1> HIDE DEF p, c, unseen, u, v
<1>6. /\ t \in PaneType
      /\ t.toPage = IF u.life = "crashed" THEN u.toPage ELSE Append(u.toPage, c)
      /\ t.tabs = u.tabs /\ t.life = u.life /\ t.snapshots = u.snapshots
      /\ t.waiting = u.waiting /\ t.unseen = u.unseen
      /\ t.replies = u.replies /\ t.posts = u.posts /\ t.needsModelRestore = u.needsModelRestore
  BY <1>2, <1>3, SendIsSent
<1> HIDE DEF t
<1>7. Typed(t)
  <2>1. \A x : IsOpen(t, x) <=> IsOpen(s, x)
    BY <1>4, <1>6 DEF IsOpen
  <2> QED
    BY <1>4, <1>6, <2>1 DEF Typed, TabsDiffer
<1>8. Handles(s, t, {})
  BY <1>0, <1>2, <1>4, <1>6, SendHandles
<1>9. /\ Handles(t, Ask(t, "clean", p, "savedForClose", q.tab, <<>>, Latest), {})
      /\ Handles(t, Ask(t, "clean", p, "savedForDrain", q.tab, <<>>, Latest), {})
      /\ Handles(t, SaveSerially(t, q.rest), {})
      /\ Handles(t, t, {})
  BY <1>1, <1>6, <1>7, AskHandles, SaveSeriallyHandles, StillHandles
<1>10. Handles(t, v, {})
  BY <1>1, <1>5, <1>9
<1>11. Handles(s, v, {} \cup {})
  <2>1. Len(s.toPage) \in Nat /\ Len(t.toPage) \in Nat /\ Len(v.toPage) \in Nat
    BY <1>0, <1>6 DEF PaneType, v
  <2> QED
    BY <1>8, <1>10, <2>1, HandlesInTurn
<1>12. {} \cup {} = {}
  OBVIOUS
<1> QED
  BY <1>11, <1>12 DEF v

\* A save that fails.
LEMMA SaveFailedHandles ==
    ASSUME NEW s, s \in PaneType, NEW why
    PROVE  Handles(s, SaveFailed(s, why), {})
<1> DEFINE quit == IF why = "drain" THEN "no" ELSE s.quit
           t == SaveFailed(s, why)
<1>1. t = [s EXCEPT !.quit = quit]
  BY DEF SaveFailed
<1> HIDE DEF quit, t
<1>2. /\ t.tabs = s.tabs /\ t.toPage = s.toPage /\ t.posts = s.posts
      /\ t.replies = s.replies /\ t.life = s.life /\ t.needsModelRestore = s.needsModelRestore
      /\ t.snapshots = s.snapshots
  BY <1>1 DEF PaneType
<1>3. Handles(s, t, {})
  BY <1>2, StillHandles
<1> QED
  BY <1>3 DEF t

-----------------------------------------------------------------------------
(* The steps of the pane alone.                                                *)

\* They go by.
LEMMA HandledStep ==
    ASSUME IInv, IInv', EditsInsured, Watch, page' = page,
           NEW s, Handles(pane, s, {}), Len(s.toPage) \in Nat,
           NEW down, Handles(s, pane', down), down # {} => pane.replies # <<>>
    PROVE  EditsInsured'
<1>1. Len(pane.toPage) \in Nat /\ Len(pane'.toPage) \in Nat
  BY DEF IInv, Linked, Typed, PaneType
<1>2. Handles(pane, pane', {} \cup down)
  BY <1>1, HandlesInTurn
<1>3. {} \cup down = down
  OBVIOUS
<1> QED
  BY <1>2, <1>3, CarriedStep DEF Handles

\* What a step starts with does not concern the edits: a card is taken down, an answer is taken.
LEMMA SmallChangeHandles ==
    ASSUME NEW s, s \in PaneType, NEW ask, NEW quit
    PROVE  Handles(s, [s EXCEPT !.ask = ask], {}) /\ Handles(s, [s EXCEPT !.quit = quit], {})
<1> DEFINE t == [s EXCEPT !.ask = ask]
           u == [s EXCEPT !.quit = quit]
<1>1. /\ t.tabs = s.tabs /\ t.toPage = s.toPage /\ t.posts = s.posts
      /\ t.replies = s.replies /\ t.life = s.life /\ t.needsModelRestore = s.needsModelRestore
      /\ t.snapshots = s.snapshots
  BY DEF PaneType
<1>2. /\ u.tabs = s.tabs /\ u.toPage = s.toPage /\ u.posts = s.posts
      /\ u.replies = s.replies /\ u.life = s.life /\ u.needsModelRestore = s.needsModelRestore
      /\ u.snapshots = s.snapshots
  BY DEF PaneType
<1> HIDE DEF t, u
<1>3. Handles(s, t, {}) /\ Handles(s, u, {})
  BY <1>1, <1>2, StillHandles
<1> QED
  BY <1>3 DEF t, u

LEMMA AnsweredHandles ==
    ASSUME IInv, NEW q, NEW t,
           \/ t = Answered(q)
           \/ pane.replies # <<>> /\ t \in {[Answered(q) EXCEPT !.replies = Tail(pane.replies)],
                                            [pane EXCEPT !.replies = Tail(pane.replies)]}
    PROVE  Handles(pane, t, {}) /\ Len(t.toPage) \in Nat
<1>1. pane \in PaneType
  BY DEF IInv, Linked, Typed
<1> DEFINE waiting == pane.waiting \ {q}
           rest == Tail(pane.replies)
<1>2. Answered(q) = [pane EXCEPT !.waiting = waiting]
  BY <1>1 DEF Answered, PaneType
<1> HIDE DEF waiting, rest
<1>3. t \in {[pane EXCEPT !.waiting = waiting], [pane EXCEPT !.waiting = waiting, !.replies = rest],
             [pane EXCEPT !.replies = rest]}
  BY <1>1, <1>2 DEF PaneType, rest
<1>4. /\ t.tabs = pane.tabs /\ t.toPage = pane.toPage /\ t.posts = pane.posts
      /\ t.life = pane.life /\ t.needsModelRestore = pane.needsModelRestore
      /\ t.snapshots = pane.snapshots
  BY <1>1, <1>3 DEF PaneType
<1>5. pane.replies = <<>> => t.replies = <<>>
  BY <1>1, <1>2 DEF PaneType
<1>6. Len(pane.toPage) \in Nat /\ ~(\E i \in (Len(pane.toPage) + 1)..Len(t.toPage) : TRUE)
  BY <1>1, <1>4 DEF PaneType
<1>7. \A p : (IsOpen(t, p) <=> IsOpen(pane, p)) /\ (IsDirty(pane, p) => IsDirty(t, p))
  BY <1>4 DEF IsOpen, IsDirty, IndexOf
<1> QED
  BY <1>4, <1>5, <1>6, <1>7 DEF Handles, Carries

\* AnswerClean
LEMMA AnswerCleanInsures ==
    ASSUME IInv, IInv', EditsInsured, AnswerClean
    PROVE  EditsInsured'
<1> PICK q \in Asker :
        /\ q.op = "clean"
        /\ LET r == Head(pane.replies)
           IN pane' = OnClean([Answered(q) EXCEPT !.replies = Tail(@)], q, r.clean, r.at)
        /\ UNCHANGED <<page, disk, count>> /\ Watch
  BY DEF AnswerClean
<1> DEFINE r == Head(pane.replies)
           set == IF q.why = "check" THEN {q.path} ELSE {}
           w == During(page, disk, {}, set)
           s == [Answered(q) EXCEPT !.replies = Tail(pane.replies)]
           down == IF r.clean THEN {q.path} ELSE {}
<1>1. q \in pane.waiting /\ pane.replies # <<>> /\ r \in Clean
  BY AnswerAtHead
<1>2. Answered(q).replies = pane.replies
  BY DEF Answered, IInv, Linked, Typed, PaneType
<1>3. pane' = OnClean(s, q, r.clean, r.at)
  BY <1>2
<1>4. r.clean \in BOOLEAN /\ r.at \in Nat
  BY <1>1 DEF Clean
<1>5. Deciding(s, w) /\ q \in Questions
  BY <1>1, AnsweredDecides
<1>6. w.disk = disk /\ FilesTyped /\ CountsTyped
  BY DEF During, IInv
<1>7. Handles(pane, s, {}) /\ Len(s.toPage) \in Nat
  BY <1>1, AnsweredHandles
<1> HIDE DEF r, s, w
<1>8. Handles(s, pane', down)
  <2> DEFINE yes == r.clean
             at == r.at
  <2>1. yes \in BOOLEAN /\ at \in Nat /\ pane' = OnClean(s, q, yes, at) /\ q.op = "clean"
    BY <1>3, <1>4
  <2>2. down = IF yes THEN {q.path} ELSE {}
    OBVIOUS
  <2> HIDE DEF yes, at, down
  <2>3. Handles(s, OnClean(s, q, yes, at), IF yes THEN {q.path} ELSE {})
    BY <1>5, <1>6, <2>1, OnCleanHandles
  <2> QED
    BY <2>1, <2>2, <2>3
<1> HIDE DEF down
<1> QED
  BY <1>1, <1>7, <1>8, HandledStep

\* AnswerContent
LEMMA AnswerContentInsures ==
    ASSUME IInv, IInv', EditsInsured, AnswerContent
    PROVE  EditsInsured'
<1> DEFINE r == Head(pane.replies)
           S(q) == [Answered(q) EXCEPT !.replies = Tail(pane.replies)]
<1>1. PICK q \in Asker :
        /\ q.op = "content" /\ page' = page /\ Watch
        /\ pane' \in {SaveFailed(S(q), q.why), OnSaved(S(q), q, r.version)}
  <2>1. PICK q \in Asker :
        /\ q.op = "content"
        /\ LET s == [Answered(q) EXCEPT !.replies = Tail(@)]
           IN IF ~IsOpen(s, q.path) \/ r.none
              THEN pane' = SaveFailed(s, q.why) /\ UNCHANGED <<disk, count>>
              ELSE pane' = OnSaved(s, q, r.version) /\ Torn(q.path, Written(disk[q.path], r.text, TRUE), count.opens)
        /\ UNCHANGED page /\ Watch
    BY DEF AnswerContent
  <2>2. Answered(q).replies = pane.replies
    BY DEF Answered, IInv, Linked, Typed, PaneType
  <2> QED
    BY <2>1, <2>2
<1> DEFINE s == S(q)
<1>2. q \in pane.waiting /\ pane.replies # <<>> /\ r \in Content
  BY <1>1, AnswerAtHead
<1>3. r.version \in Nat
  BY <1>2 DEF Content
<1>4. q.why # "check" /\ q \in Questions
  BY <1>1, <1>2, CleanFields DEF IInv, Linked, Typed, PaneType
<1>5. Typed(s)
  <2>1. \A p \in Paths : disk[p].past \subseteq disk[p].past
    OBVIOUS
  <2>2. Deciding(s, During(page, disk, {}, {}))
    BY <1>2, <1>4, <2>1, AnsweredDecides
  <2> QED
    BY <2>2 DEF Deciding, Linked
<1>6. Handles(pane, s, {}) /\ Len(s.toPage) \in Nat
  BY <1>2, AnsweredHandles
<1>7. pane' \in {SaveFailed(s, q.why), OnSaved(s, q, r.version)}
  BY <1>1
<1> HIDE DEF s, r
<1>8. Len(pane'.toPage) \in Nat
  BY DEF IInv, Linked, Typed, PaneType
<1>9. Handles(s, pane', {})
  BY <1>1, <1>3, <1>4, <1>5, <1>7, <1>8, OnSavedHandles, SaveFailedHandles DEF Typed
<1> QED
  BY <1>1, <1>6, <1>9, HandledStep

\* WriteFails
LEMMA WriteFailsInsures ==
    ASSUME IInv, IInv', EditsInsured, WriteFails
    PROVE  EditsInsured'
<1> PICK q \in Asker :
        /\ q.op = "content"
        /\ pane' = SaveFailed([Answered(q) EXCEPT !.replies = Tail(@)], q.why)
        /\ UNCHANGED <<page, disk, count>> /\ Watch
  BY DEF WriteFails
<1> DEFINE s == [Answered(q) EXCEPT !.replies = Tail(pane.replies)]
<1>1. Answered(q).replies = pane.replies
  BY DEF Answered, IInv, Linked, Typed, PaneType
<1>2. q \in pane.waiting /\ pane.replies # <<>>
  BY AnswerAtHead
<1>3. q.why # "check"
  BY <1>2, CleanFields DEF IInv, Linked, Typed, PaneType
<1>4. s \in PaneType
  <2>1. Deciding(s, During(page, disk, {}, {}))
    BY <1>2, <1>3, AnsweredDecides
  <2> QED
    BY <2>1 DEF Deciding, Linked, Typed
<1>5. Handles(pane, s, {}) /\ Len(s.toPage) \in Nat
  BY <1>2, AnsweredHandles
<1>6. pane' = SaveFailed(s, q.why)
  BY <1>1
<1> HIDE DEF s
<1>7. Handles(s, pane', {})
  BY <1>4, <1>6, SaveFailedHandles
<1> QED
  BY <1>5, <1>7, HandledStep

\* LateAnswer
LEMMA LateAnswerInsures ==
    ASSUME IInv, IInv', EditsInsured, LateAnswer
    PROVE  EditsInsured'
<1>1. pane' = [pane EXCEPT !.replies = Tail(pane.replies)] /\ pane.replies # <<>> /\ page' = page /\ Watch
  BY DEF LateAnswer
<1>2. Handles(pane, pane', {}) /\ Len(pane'.toPage) \in Nat
  BY <1>1, AnsweredHandles
<1> QED
  BY <1>1, <1>2, CarriedStep DEF Handles

\* Fallback
LEMMA FallbackInsures ==
    ASSUME IInv, IInv', EditsInsured, Fallback
    PROVE  EditsInsured'
<1> PICK q \in pane.waiting :
        /\ pane' = IF q.op = "clean" THEN OnClean(Answered(q), q, FALSE, 0) ELSE SaveFailed(Answered(q), q.why)
        /\ UNCHANGED <<page, disk, count>> /\ Watch
  BY DEF Fallback
<1> DEFINE set == IF q.why = "check" THEN {q.path} ELSE {}
           w == During(page, disk, {}, set)
           s == Answered(q)
<1>1. Deciding(s, w) /\ q \in Questions
  BY AnsweredDecides
<1>2. w.disk = disk /\ FilesTyped /\ CountsTyped
  BY DEF During, IInv
<1>3. Handles(pane, s, {}) /\ Len(s.toPage) \in Nat
  BY AnsweredHandles
<1>4. pane' = IF q.op = "clean" THEN OnClean(s, q, FALSE, 0) ELSE SaveFailed(s, q.why)
  OBVIOUS
<1> HIDE DEF s, w
<1>5. Handles(s, pane', {})
  <2>1. CASE q.op # "clean"
    BY <1>1, <1>4, <2>1, SaveFailedHandles DEF Deciding, Linked, Typed
  <2>2. CASE q.op = "clean"
    <3>1. Handles(s, pane', IF FALSE THEN {q.path} ELSE {})
      BY <1>1, <1>2, <1>4, <2>2, OnCleanHandles
    <3> QED
      BY <3>1
  <2> QED
    BY <2>1, <2>2
<1> QED
  BY <1>3, <1>5, HandledStep

\* PinTab
LEMMA PinTabInsures ==
    ASSUME IInv, IInv', EditsInsured, NEW p \in Paths, PinTab(p)
    PROVE  EditsInsured'
<1> DEFINE i == IndexOf(pane, p)
           tab == [pane.tabs[i] EXCEPT !.pinned = TRUE]
           tabs == [pane.tabs EXCEPT ![i] = tab]
<1>1. IsOpen(pane, p) /\ pane' = [pane EXCEPT !.tabs[i].pinned = TRUE] /\ UNCHANGED <<page, disk, count>> /\ Watch
  BY DEF PinTab
<1>2. pane \in PaneType /\ pane' \in PaneType' /\ TabsDiffer(pane) /\ TabsDiffer(pane')
  BY DEF IInv, Linked, Typed
<1>3. pane' = [pane EXCEPT !.tabs = tabs]
  BY <1>1
<1> HIDE DEF tabs, tab
<1>4. i \in DOMAIN pane.tabs /\ pane.tabs[i] \in Tab /\ pane.tabs \in Seq(Tab)
  <2>1. i \in DOMAIN pane.tabs
    BY <1>1, <1>2, TabOf
  <2>2. pane.tabs \in Seq(Tab)
    BY <1>2 DEF PaneType
  <2> HIDE DEF i
  <2> QED
    BY <2>1, <2>2
<1> HIDE DEF i
<1>5. DOMAIN tabs = DOMAIN pane.tabs
      /\ \A j \in DOMAIN tabs : tabs[j].path = pane.tabs[j].path /\ tabs[j].dirty = pane.tabs[j].dirty
  <2>1. tab.path = pane.tabs[i].path /\ tab.dirty = pane.tabs[i].dirty
    BY <1>4 DEF Tab, tab
  <2> QED
    BY <1>4, <2>1 DEF tabs
<1>6. /\ pane'.tabs = tabs /\ pane'.toPage = pane.toPage /\ pane'.posts = pane.posts
      /\ pane'.replies = pane.replies /\ pane'.life = pane.life
      /\ pane'.needsModelRestore = pane.needsModelRestore /\ pane'.snapshots = pane.snapshots
  BY <1>2, <1>3 DEF PaneType
<1>7. \A x : (IsOpen(pane', x) <=> IsOpen(pane, x)) /\ (IsDirty(pane, x) => IsDirty(pane', x))
  <2>1. \A x : IsOpen(pane', x) <=> IsOpen(pane, x)
    BY <1>5, <1>6 DEF IsOpen
  <2>2. \A x : IsDirty(pane, x) => IsDirty(pane', x)
    BY <1>2, <1>5, <1>6, FlagOf
  <2> QED
    BY <2>1, <2>2
<1>8. Len(pane.toPage) \in Nat /\ ~(\E j \in (Len(pane.toPage) + 1)..Len(pane'.toPage) : TRUE)
  BY <1>2, <1>6 DEF PaneType
<1>9. Carries(pane, pane', {})
  BY <1>6, <1>7, <1>8 DEF Carries
<1> QED
  BY <1>1, <1>9, CarriedStep

\* A handler of the user's, from a pane that has taken note of it.
LEMMA AloneInsures ==
    ASSUME IInv, IInv', EditsInsured, Watch, page' = page,
           NEW s, Handles(pane, s, {}), Deciding(s, Alone), Handles(s, pane', {})
    PROVE  EditsInsured'
BY HandledStep DEF Deciding, Linked, Typed, PaneType

\* CloseTab
LEMMA CloseTabInsures ==
    ASSUME IInv, IInv', EditsInsured, NEW p \in Paths, CloseTab(p)
    PROVE  EditsInsured'
<1>1. pane' = RequestClose(pane, p) /\ page' = page /\ Watch
  BY DEF CloseTab
<1>2. Handles(pane, pane, {})
  BY AloneStarts, StillHandles
<1>3. Handles(pane, pane', {})
  BY <1>1, AloneStarts, RequestCloseHandles
<1> QED
  BY <1>1, <1>2, <1>3, AloneStarts, AloneInsures

\* CloseAll
LEMMA CloseAllInsures ==
    ASSUME IInv, IInv', EditsInsured, CloseAll
    PROVE  EditsInsured'
<1> DEFINE s == [pane EXCEPT !.quit = "waiting"]
<1>1. pane' = Reconcile(s, "drain") /\ page' = page /\ Watch
  BY DEF CloseAll
<1>2. Deciding(s, Alone)
  BY AloneStarts, QuitDecides
<1>3. Handles(pane, s, {})
  BY AloneStarts, SmallChangeHandles
<1> HIDE DEF s
<1>4. Handles(s, pane', {})
  BY <1>1, <1>2, ReconcileHandles
<1> QED
  BY <1>1, <1>2, <1>3, <1>4, AloneInsures

\* SaveAllDirty
LEMMA SaveAllDirtyInsures ==
    ASSUME IInv, IInv', EditsInsured, SaveAllDirty
    PROVE  EditsInsured'
<1>1. pane' = Reconcile(pane, "saveAll") /\ page' = page /\ Watch
  BY DEF SaveAllDirty
<1>2. Handles(pane, pane, {})
  BY AloneStarts, StillHandles
<1>3. Handles(pane, pane', {})
  BY <1>1, AloneStarts, ReconcileHandles
<1> QED
  BY <1>1, <1>2, <1>3, AloneStarts, AloneInsures

\* Cancel
LEMMA CancelInsures ==
    ASSUME IInv, IInv', EditsInsured, Cancel
    PROVE  EditsInsured'
<1>1. pane' = CancelAsk(pane) /\ page' = page /\ Watch
  BY DEF Cancel
<1>2. Handles(pane, pane', {}) /\ Handles(pane, pane, {})
  BY <1>1, AloneStarts, PresentHandles, StillHandles
<1> QED
  BY <1>1, <1>2, AloneStarts, AloneInsures

\* Discard
LEMMA DiscardInsures ==
    ASSUME IInv, IInv', EditsInsured, Discard
    PROVE  EditsInsured'
<1> DEFINE t == [pane EXCEPT !.ask = NoAsk]
           p == pane.ask.path
           s == PerformClose(t, p, 0)
<1>1. /\ pane.ask.kind \in {"close", "drain"}
      /\ pane' = IF pane.ask.kind = "drain" THEN Reconcile(s, "drain") ELSE s
      /\ page' = page /\ Watch
  BY DEF Discard
<1>2. Deciding(t, Alone)
  BY CardIsAnswered
<1>3. p \in Paths
  BY <1>1, AloneStarts, CardFields DEF PaneType
<1>4. Handles(pane, t, {})
  BY AloneStarts, SmallChangeHandles
<1> HIDE DEF t, p
<1>5. Deciding(s, Alone) /\ Handles(t, s, {})
  BY <1>2, <1>3, AloneStarts, CloseDecides, CloseHandles
<1> HIDE DEF s
<1>6. Fine(s, Alone)
  BY <1>5 DEF Deciding, Fine
<1>7. Handles(pane, s, {})
  BY <1>2, <1>4, <1>5, <1>6, AloneStarts, ThenHandles
<1>8. Handles(s, s, {}) /\ Handles(s, Reconcile(s, "drain"), {})
  BY <1>5, StillHandles, ReconcileHandles DEF Deciding, Linked, Typed
<1>9. Handles(s, pane', {})
  BY <1>1, <1>8
<1> QED
  BY <1>1, <1>5, <1>7, <1>9, AloneInsures

\* SaveThenClose
LEMMA SaveThenCloseInsures ==
    ASSUME IInv, IInv', EditsInsured, SaveThenClose
    PROVE  EditsInsured'
<1> DEFINE a == pane.ask
           s == [pane EXCEPT !.ask = NoAsk]
           p == s.tabs[a.index].path
<1>1. /\ a.kind \in {"close", "drain"}
      /\ pane' = IF a.index \notin DOMAIN s.tabs \/ ~IsReady(s) THEN SaveFailed(s, a.kind)
                 ELSE Save(s, p, a.kind, a.path, <<>>)
      /\ page' = page /\ Watch
  BY DEF SaveThenClose
<1>2. Deciding(s, Alone) /\ s \in PaneType /\ Typed(s)
  BY CardIsAnswered DEF Deciding, Linked
<1>3. Handles(pane, s, {})
  BY AloneStarts, SmallChangeHandles
<1> HIDE DEF s
<1>4. Handles(s, SaveFailed(s, a.kind), {})
  BY <1>2, SaveFailedHandles
<1>5. ASSUME a.index \in DOMAIN s.tabs
      PROVE  Handles(s, Save(s, p, a.kind, a.path, <<>>), {})
  <2>1. s.tabs[a.index] \in Tab
    BY <1>2, <1>5 DEF PaneType
  <2>2. p \in Paths
    BY <2>1 DEF Tab
  <2> QED
    BY <1>2, <2>2, AskHandles DEF Save
<1> HIDE DEF a, p
<1>6. Handles(s, pane', {})
  BY <1>1, <1>4, <1>5
<1> QED
  BY <1>1, <1>2, <1>3, <1>6, AloneInsures

\* TakeDisk
LEMMA TakeDiskInsures ==
    ASSUME IInv, IInv', EditsInsured, TakeDisk
    PROVE  EditsInsured'
<1> DEFINE s == [pane EXCEPT !.ask = NoAsk]
           p == pane.ask.path
<1>1. /\ pane.ask.kind = "conflict" /\ pane' = ReloadFromDisk(s, p, 0)
      /\ page' = page /\ Watch
  BY DEF TakeDisk
<1>2. Deciding(s, Alone)
  BY CardIsAnswered
<1>3. p \in Paths
  BY <1>1, AloneStarts, CardFields DEF PaneType
<1>4. Handles(pane, s, {})
  BY AloneStarts, SmallChangeHandles
<1> HIDE DEF s, p
<1>5. Handles(s, pane', {})
  BY <1>1, <1>2, <1>3, AloneStarts, ResolveHandles
<1> QED
  BY <1>1, <1>2, <1>4, <1>5, AloneInsures

\* Wedge, Unwedge, AgentWrites
LEMMA WorldInsures ==
    ASSUME IInv, IInv', EditsInsured, Wedge \/ Unwedge \/ \E p \in Paths : AgentWrites(p)
    PROVE  EditsInsured'
<1>1. pane \in PaneType
  BY AloneStarts
<1>2. page' = page /\ Watch
  BY DEF Wedge, Unwedge, AgentWrites
<1>3. PICK life, unseen :
          /\ pane' \in {pane, [pane EXCEPT !.life = life], [pane EXCEPT !.unseen = unseen]}
          /\ life = pane.life \/ {life, pane.life} \subseteq {"up", "wedged"}
  <2>1. CASE Wedge \/ Unwedge
    <3>1. \E life \in {"up", "wedged"} : pane' = [pane EXCEPT !.life = life]
      BY <2>1 DEF Wedge, Unwedge
    <3>2. pane.life \in {"up", "wedged"}
      BY <2>1 DEF Wedge, Unwedge
    <3> QED
      BY <3>1, <3>2
  <2>2. CASE \E p \in Paths : AgentWrites(p)
    <3>1. PICK p \in Paths : AgentWrites(p)
      BY <2>2
    <3>2. pane' = IF IsOpen(pane, p) THEN [pane EXCEPT !.unseen = @ \cup {p}] ELSE pane
      BY <3>1 DEF AgentWrites
    <3>3. pane' \in {pane, [pane EXCEPT !.unseen = pane.unseen \cup {p}]}
      BY <3>2
    <3> QED
      BY <3>3
  <2> QED
    BY <2>1, <2>2
<1>4. /\ pane'.tabs = pane.tabs /\ pane'.toPage = pane.toPage /\ pane'.posts = pane.posts
      /\ pane'.replies = pane.replies /\ pane'.life \in {life, pane.life}
      /\ pane'.needsModelRestore = pane.needsModelRestore /\ pane'.snapshots = pane.snapshots
  BY <1>1, <1>3 DEF PaneType
<1>5. \A x : (IsOpen(pane', x) <=> IsOpen(pane, x)) /\ (IsDirty(pane, x) => IsDirty(pane', x))
  BY <1>4 DEF IsOpen, IsDirty, IndexOf
<1>6. Len(pane.toPage) \in Nat /\ ~(\E j \in (Len(pane.toPage) + 1)..Len(pane'.toPage) : TRUE)
  BY <1>1, <1>4 DEF PaneType
<1>7. Carries(pane, pane', {})
  BY <1>3, <1>4, <1>5, <1>6 DEF Carries
<1> QED
  BY <1>2, <1>7, CarriedStep

\* CheckExternalChanges
LEMMA CheckExternalChangesInsures ==
    ASSUME IInv, IInv', EditsInsured, CheckExternalChanges
    PROVE  EditsInsured'
<1>1. page' = page /\ Watch
  BY DEF CheckExternalChanges
<1>2. PICK b \in Seq(Command) :
          /\ \A j \in 1..Len(b) : b[j].op = "clean"
          /\ pane'.toPage = IF pane.life = "crashed" THEN pane.toPage ELSE pane.toPage \o b
  BY CheckExternalChangesStep
<1>3. /\ pane'.tabs = pane.tabs /\ pane'.replies = pane.replies /\ pane'.posts = pane.posts
      /\ pane'.life = pane.life /\ pane'.needsModelRestore = pane.needsModelRestore
      /\ pane'.snapshots = pane.snapshots
  BY CheckExternalChangesStep
<1>4. \A x : (IsOpen(pane', x) <=> IsOpen(pane, x)) /\ (IsDirty(pane, x) => IsDirty(pane', x))
  BY <1>3 DEF IsOpen, IsDirty, IndexOf
<1>5. pane.toPage \in Seq(Command)
  BY AloneStarts DEF PaneType
<1>6. /\ Len(pane.toPage) <= Len(pane'.toPage)
      /\ \A i \in 1..Len(pane.toPage) : pane'.toPage[i] = pane.toPage[i]
      /\ \A i \in (Len(pane.toPage) + 1)..Len(pane'.toPage) : pane'.toPage[i].op = "clean"
  <2> DEFINE q == pane.toPage
             r == pane'.toPage
  <2>1. CASE pane.life = "crashed"
    <3>1. r = q /\ Len(q) \in Nat
      BY <1>2, <1>5, <2>1
    <3> QED
      BY <3>1
  <2>2. CASE pane.life # "crashed"
    <3>1. r = q \o b /\ q \in Seq(Command) /\ Len(q) \in Nat /\ Len(b) \in Nat
      BY <1>2, <1>5, <2>2
    <3> HIDE DEF q, r
    <3>2. Len(r) = Len(q) + Len(b) /\ \A i \in 1..Len(q) : r[i] = q[i]
      BY <3>1
    <3>3. ASSUME NEW i \in (Len(q) + 1)..Len(r)
          PROVE  r[i].op = "clean"
      <4>1. r[i] = b[i - Len(q)] /\ i - Len(q) \in 1..Len(b)
        BY <3>1, <3>2
      <4> QED
        BY <1>2, <4>1
    <3> QED
      BY <3>1, <3>2, <3>3 DEF q, r
  <2> QED
    BY <2>1, <2>2
<1>7. Carries(pane, pane', {})
  BY <1>3, <1>4, <1>6 DEF Carries
<1> QED
  BY <1>1, <1>7, CarriedStep

\* Commands that are sent one after the other.
LEMMA TwoAreSent ==
    ASSUME NEW C, NEW q \in Seq(C), NEW c \in C, NEW d \in C
    PROVE  LET r == Append(q, c)
               t == Append(r, d)
           IN /\ Len(r) = Len(q) + 1 /\ Len(t) = Len(q) + 2 /\ Len(q) \in Nat
              /\ \A i \in 1..Len(q) : r[i] = q[i] /\ t[i] = q[i]
              /\ \A i \in (Len(q) + 1)..Len(r) : r[i] = c
              /\ \A i \in (Len(q) + 1)..Len(t) : t[i] \in {c, d}
<1> DEFINE r == Append(q, c)
           t == Append(r, d)
           n == Len(q)
<1>1. n \in Nat /\ r \in Seq(C) /\ Len(r) = n + 1 /\ r[n + 1] = c /\ \A i \in 1..n : r[i] = q[i]
  OBVIOUS
<1> HIDE DEF r, n
<1>2. Len(t) = n + 2 /\ t[n + 2] = d /\ \A i \in 1..(n + 1) : t[i] = r[i]
  BY <1>1
<1> HIDE DEF t
<1>3. \A i \in (n + 1)..(n + 2) : i = n + 1 \/ i = n + 2
  BY <1>1
<1>4. \A i \in 1..n : i \in 1..(n + 1)
  BY <1>1
<1>5. n + 1 \in 1..(n + 1) /\ \A i \in (n + 1)..(n + 1) : i = n + 1
  BY <1>1
<1>6. \A i \in (n + 1)..(n + 2) : t[i] \in {c, d}
  BY <1>1, <1>2, <1>3, <1>5
<1>7. \A i \in 1..n : r[i] = q[i] /\ t[i] = q[i]
  BY <1>1, <1>2, <1>4
<1>8. \A i \in (n + 1)..(n + 1) : r[i] = c
  BY <1>1, <1>5
<1> QED
  BY <1>1, <1>2, <1>6, <1>7, <1>8 DEF r, t, n

\* A file is opened, in a tab of its own or in that of a preview, whose model is closed.
Evicted(s, c) == /\ c.op = "close"
                 /\ \E i \in Reusable(s) : c.path = s.tabs[i].path /\ c.upto = Told(s, s.tabs[i].path)
LEMMA OpensTab ==
    ASSUME IInv, IInv', NEW p \in Paths, NEW preview \in BOOLEAN, OpenFile(p, preview)
    PROVE  /\ pane'.life = pane.life /\ pane'.posts = pane.posts /\ pane'.replies = pane.replies
           /\ pane'.needsModelRestore = pane.needsModelRestore /\ pane'.waiting = pane.waiting
           /\ pane'.quit = pane.quit
           /\ Len(pane.toPage) <= Len(pane'.toPage)
           /\ \A k \in 1..Len(pane.toPage) : pane'.toPage[k] = pane.toPage[k]
           /\ \A k \in (Len(pane.toPage) + 1)..Len(pane'.toPage) :
                  \/ Is(pane'.toPage[k], "open", p)
                  \/ Evicted(pane, pane'.toPage[k]) /\ ~IsOpen(pane', pane'.toPage[k].path)
           /\ \A k \in DOMAIN pane'.tabs :
                  \/ pane'.tabs[k].path = p /\ ~pane'.tabs[k].dirty
                  \/ \E j \in DOMAIN pane.tabs : pane'.tabs[k] = pane.tabs[j]
           /\ \A x : IsOpen(pane', x) => pane'.snapshots[x] = pane.snapshots[x]
           /\ \A x : IsDirty(pane, x) => IsDirty(pane', x)
<1> DEFINE text == disk[p].text
           c == [op |-> "open", path |-> p, text |-> text]
           u == OpenTab(pane, p, preview)
<1>1. ~IsOpen(pane, p) /\ pane' = Send(u, c) /\ page' = page /\ Watch
  BY DEF OpenFile
<1>2. pane \in PaneType /\ TabsDiffer(pane) /\ TabsDiffer(pane') /\ FilesTyped /\ CountsTyped
  BY DEF IInv, Linked, Typed
<1>3. text \in Past
  BY <1>2 DEF FilesTyped, File
<1>4. c \in Command /\ c.op = "open" /\ c.path = p
  BY <1>3, Commands
<1>5. pane.toPage \in Seq(Command) /\ pane.tabs \in Seq(Tab) /\ DOMAIN pane.tabs \subseteq Nat
  BY <1>2 DEF PaneType
<1>6. Clock \in Nat
  BY <1>2, ClocksAreNumbers
<1> HIDE DEF c, text, u
<1>7. CASE ~preview \/ Reusable(pane) = {}
  <2> DEFINE tab == NewTab(p, ~preview)
             new == Append(pane.tabs, tab)
  <2>1. u = [pane EXCEPT !.tabs = new]
    BY <1>7 DEF u, OpenTab
  <2>2. tab \in Tab /\ tab.path = p /\ ~tab.dirty
    BY DEF NewTab, Tab
  <2> HIDE DEF tab
  <2>3. /\ new \in Seq(Tab) /\ \A k \in DOMAIN pane.tabs : k \in DOMAIN new /\ new[k] = pane.tabs[k]
        /\ \A k \in DOMAIN new : new[k] = tab \/ \E j \in DOMAIN pane.tabs : new[k] = pane.tabs[j]
    BY <1>5, <2>2
  <2> HIDE DEF new
  <2>4. /\ u \in PaneType /\ u.tabs = new /\ u.life = pane.life /\ u.toPage = pane.toPage
        /\ u.replies = pane.replies /\ u.posts = pane.posts /\ u.snapshots = pane.snapshots
        /\ u.needsModelRestore = pane.needsModelRestore /\ u.waiting = pane.waiting /\ u.quit = pane.quit
    BY <1>2, <2>1, <2>3 DEF PaneType
  <2>5. /\ pane'.toPage = IF u.life = "crashed" THEN u.toPage ELSE Append(u.toPage, c)
        /\ pane'.tabs = u.tabs /\ pane'.snapshots = u.snapshots /\ pane'.life = u.life
        /\ pane'.replies = u.replies /\ pane'.posts = u.posts
        /\ pane'.needsModelRestore = u.needsModelRestore /\ pane'.waiting = u.waiting /\ pane'.quit = u.quit
    <3>1. Send(u, c).quit = u.quit
      BY <2>4 DEF Send, PaneType
    <3> QED
      BY <1>1, <1>4, <2>4, <3>1, SendIsSent
  <2>6. \A x : IsDirty(pane, x) => IsDirty(pane', x)
    BY <1>2, <2>3, <2>4, <2>5, FlagOf
  <2>7. /\ Len(pane.toPage) <= Len(pane'.toPage)
        /\ \A i \in 1..Len(pane.toPage) : pane'.toPage[i] = pane.toPage[i]
        /\ \A i \in (Len(pane.toPage) + 1)..Len(pane'.toPage) : pane'.toPage[i] = c
    <3>1. CASE pane.life = "crashed"
      BY <1>5, <2>4, <2>5, <3>1
    <3>2. CASE pane.life # "crashed"
      <4>1. pane'.toPage = Append(pane.toPage, c)
        BY <2>4, <2>5, <3>2
      <4> QED
        BY <1>4, <1>5, <4>1, TwoAreSent
    <3> QED
      BY <3>1, <3>2
  <2>8. \A k \in (Len(pane.toPage) + 1)..Len(pane'.toPage) : Is(pane'.toPage[k], "open", p)
    BY <1>4, <2>7 DEF Is
  <2>9. \A k \in DOMAIN pane'.tabs : \/ pane'.tabs[k].path = p /\ ~pane'.tabs[k].dirty
                                     \/ \E j \in DOMAIN pane.tabs : pane'.tabs[k] = pane.tabs[j]
    BY <2>2, <2>3, <2>4, <2>5
  <2> QED
    BY <2>4, <2>5, <2>6, <2>7, <2>8, <2>9
<1>8. CASE preview /\ Reusable(pane) # {}
  <2>1. Reusable(pane) \subseteq DOMAIN pane.tabs
    BY DEF Reusable
  <2>2. \E x \in Reusable(pane) : \A j \in Reusable(pane) : x <= j
    BY <1>5, <1>8, <2>1, LeastOf
  <2>3. PICK i \in Reusable(pane) :
            u = LET tab == NewTab(p, FALSE)
                    evicted == pane.tabs[i].path
                IN DiscardResources([pane EXCEPT !.tabs = [pane.tabs EXCEPT ![i] = tab]], evicted,
                                    Told(pane, evicted))
    BY <1>8, <2>2 DEF u, OpenTab
  <2> DEFINE evicted == pane.tabs[i].path
             tab == NewTab(p, FALSE)
             new == [pane.tabs EXCEPT ![i] = tab]
             upto == Told(pane, evicted)
             gone == [op |-> "close", path |-> evicted, upto |-> upto]
             a == [pane EXCEPT !.tabs = new]
             b == Send(a, gone)
             shots == [b.snapshots EXCEPT ![evicted] = 0]
             unseen == b.unseen \ {evicted}
  <2>4. u = DiscardResources(a, evicted, upto)
    BY <2>3
  <2>5. i \in DOMAIN pane.tabs /\ ~pane.tabs[i].dirty /\ evicted # p /\ evicted \in Paths
    <3>1. i \in DOMAIN pane.tabs /\ ~pane.tabs[i].dirty
      BY DEF Reusable
    <3>2. pane.tabs[i] \in Tab
      BY <1>5, <3>1
    <3> QED
      BY <1>1, <3>1, <3>2 DEF Tab, IsOpen
  <2>6. tab \in Tab /\ tab.path = p /\ ~tab.dirty
    BY DEF NewTab, Tab
  <2>7. upto \in Nat
    BY <1>6 DEF Told
  <2> HIDE DEF tab, upto
  <2>8. /\ new \in Seq(Tab) /\ DOMAIN new = DOMAIN pane.tabs
        /\ new[i].path = p /\ ~new[i].dirty /\ \A k \in DOMAIN pane.tabs : k # i => new[k] = pane.tabs[k]
    BY <1>5, <2>5, <2>6
  <2> HIDE DEF evicted, new
  <2>9. gone \in Command /\ gone.op = "close" /\ gone.path = evicted /\ Evicted(pane, gone)
    <3>1. gone \in Command /\ gone.op = "close" /\ gone.path = evicted /\ gone.upto = upto
      BY <2>5, <2>7, Commands
    <3> QED
      BY <3>1 DEF Evicted, evicted, upto
  <2>10. u = [b EXCEPT !.unseen = unseen, !.snapshots = shots]
    BY <2>4 DEF DiscardResources
  <2> HIDE DEF gone
  <2>11. /\ a \in PaneType /\ a.tabs = new /\ a.life = pane.life /\ a.toPage = pane.toPage
         /\ a.replies = pane.replies /\ a.posts = pane.posts /\ a.snapshots = pane.snapshots
         /\ a.needsModelRestore = pane.needsModelRestore /\ a.waiting = pane.waiting /\ a.quit = pane.quit
    BY <1>2, <2>8 DEF PaneType
  <2> HIDE DEF a
  <2>12. /\ b \in PaneType /\ b.toPage = IF a.life = "crashed" THEN a.toPage ELSE Append(a.toPage, gone)
         /\ b.tabs = a.tabs /\ b.life = a.life /\ b.snapshots = a.snapshots
         /\ b.replies = a.replies /\ b.posts = a.posts /\ b.needsModelRestore = a.needsModelRestore
         /\ b.waiting = a.waiting /\ b.quit = a.quit
    <3>1. Send(a, gone).quit = a.quit
      BY <2>11 DEF Send, PaneType
    <3> QED
      BY <2>9, <2>11, <3>1, SendIsSent
  <2>13. /\ shots \in [Paths -> Past] /\ unseen \in SUBSET Paths
         /\ \A x \in Paths : x # evicted => shots[x] = pane.snapshots[x]
    BY <1>2, <2>11, <2>12, ZeroIsText DEF PaneType
  <2> HIDE DEF b, shots, unseen
  <2>14. /\ u \in PaneType /\ u.tabs = b.tabs /\ u.life = b.life /\ u.toPage = b.toPage
         /\ u.replies = b.replies /\ u.posts = b.posts /\ u.snapshots = shots
         /\ u.needsModelRestore = b.needsModelRestore /\ u.waiting = b.waiting /\ u.quit = b.quit
    BY <2>10, <2>12, <2>13 DEF PaneType
  <2>15. /\ pane'.toPage = IF u.life = "crashed" THEN u.toPage ELSE Append(u.toPage, c)
         /\ pane'.tabs = u.tabs /\ pane'.snapshots = u.snapshots /\ pane'.life = u.life
         /\ pane'.replies = u.replies /\ pane'.posts = u.posts
         /\ pane'.needsModelRestore = u.needsModelRestore /\ pane'.waiting = u.waiting /\ pane'.quit = u.quit
    <3>1. Send(u, c).quit = u.quit
      BY <2>14 DEF Send, PaneType
    <3> QED
      BY <1>1, <1>4, <2>14, <3>1, SendIsSent
  <2>16. pane'.tabs = new
    BY <2>11, <2>12, <2>14, <2>15
  <2>17. ~IsOpen(pane', evicted)
    BY <1>2, <2>5, <2>8, <2>16 DEF IsOpen, TabsDiffer, evicted
  <2>18. ASSUME NEW x, IsDirty(pane, x)
         PROVE  IsDirty(pane', x)
    <3>1. PICK k \in DOMAIN pane.tabs : pane.tabs[k].path = x /\ pane.tabs[k].dirty
      BY <1>2, <2>18, FlagOf
    <3>2. k \in DOMAIN new /\ new[k] = pane.tabs[k]
      BY <2>5, <2>8, <3>1
    <3> QED
      BY <1>2, <2>16, <3>1, <3>2, FlagOf
  <2>19. ASSUME NEW x, IsOpen(pane', x)
         PROVE  pane'.snapshots[x] = pane.snapshots[x]
    <3>1. x # evicted
      BY <2>17, <2>19
    <3>2. x \in Paths
      <4>1. PICK k \in DOMAIN new : new[k].path = x
        BY <2>16, <2>19 DEF IsOpen
      <4>2. new[k] \in Tab
        BY <2>8
      <4> QED
        BY <4>1, <4>2 DEF Tab
    <3> QED
      BY <2>13, <2>14, <2>15, <3>1, <3>2
  <2>20. /\ Len(pane.toPage) <= Len(pane'.toPage)
         /\ \A k \in 1..Len(pane.toPage) : pane'.toPage[k] = pane.toPage[k]
         /\ \A k \in (Len(pane.toPage) + 1)..Len(pane'.toPage) : pane'.toPage[k] \in {gone, c}
    <3>1. CASE pane.life = "crashed"
      BY <1>5, <2>11, <2>12, <2>14, <2>15, <3>1
    <3>2. CASE pane.life # "crashed"
      <4>1. pane'.toPage = Append(Append(pane.toPage, gone), c)
        BY <2>11, <2>12, <2>14, <2>15, <3>2
      <4>2. LET r == Append(pane.toPage, gone)
                t == Append(r, c)
            IN /\ Len(t) = Len(pane.toPage) + 2 /\ Len(pane.toPage) \in Nat
               /\ \A k \in 1..Len(pane.toPage) : t[k] = pane.toPage[k]
               /\ \A k \in (Len(pane.toPage) + 1)..Len(t) : t[k] \in {gone, c}
        BY <1>4, <1>5, <2>9, TwoAreSent
      <4> QED
        BY <4>1, <4>2
    <3> QED
      BY <3>1, <3>2
  <2>21. \A k \in (Len(pane.toPage) + 1)..Len(pane'.toPage) :
             \/ Is(pane'.toPage[k], "open", p)
             \/ Evicted(pane, pane'.toPage[k]) /\ ~IsOpen(pane', pane'.toPage[k].path)
    BY <1>4, <2>9, <2>17, <2>20 DEF Is
  <2>22. /\ pane'.life = pane.life /\ pane'.posts = pane.posts /\ pane'.replies = pane.replies
         /\ pane'.needsModelRestore = pane.needsModelRestore /\ pane'.waiting = pane.waiting
         /\ pane'.quit = pane.quit
    BY <2>11, <2>12, <2>14, <2>15
  <2>23. \A k \in DOMAIN pane'.tabs : \/ pane'.tabs[k].path = p /\ ~pane'.tabs[k].dirty
                                      \/ \E j \in DOMAIN pane.tabs : pane'.tabs[k] = pane.tabs[j]
    BY <2>8, <2>16
  <2> QED
    BY <2>18, <2>19, <2>20, <2>21, <2>22, <2>23
<1> QED
  BY <1>7, <1>8

\* OpenFile
LEMMA OpenFileInsures ==
    ASSUME IInv, IInv', EditsInsured, NEW p \in Paths, NEW preview \in BOOLEAN, OpenFile(p, preview)
    PROVE  EditsInsured'
<1>1. page' = page /\ Watch
  BY DEF OpenFile
<1>2. /\ Len(pane.toPage) <= Len(pane'.toPage)
      /\ \A k \in 1..Len(pane.toPage) : pane'.toPage[k] = pane.toPage[k]
      /\ \A k \in (Len(pane.toPage) + 1)..Len(pane'.toPage) :
             /\ pane'.toPage[k].op # "restore"
             /\ pane'.toPage[k].op = "close" => ~IsOpen(pane', pane'.toPage[k].path)
  BY OpensTab DEF Is, Evicted
<1>3. /\ pane'.life = pane.life /\ pane'.posts = pane.posts /\ pane'.replies = pane.replies
      /\ pane'.needsModelRestore = pane.needsModelRestore
      /\ \A x : IsOpen(pane', x) => pane'.snapshots[x] = pane.snapshots[x]
      /\ \A x : IsDirty(pane, x) => IsDirty(pane', x)
  BY OpensTab
<1>4. Carries(pane, pane', {})
  BY <1>2, <1>3 DEF Carries
<1> QED
  BY <1>1, <1>4, CarriedStep

-----------------------------------------------------------------------------
(* The page posts.                                                             *)

\* A flag that is up stays up through a post, unless the post takes it down.
LEMMA FlagUpPosted ==
    ASSUME NEW s, NEW t, NEW v, NEW w, NEW p, NEW C, s.posts \in Seq(C), NEW m \in C,
           t.posts = Append(s.posts, m), IsDirty(s, p) \/ p \in v.gone => IsDirty(t, p) \/ p \in w.gone
    PROVE  /\ \A n \in 0..Len(s.posts) : FlagUp(s, v, p, n) => FlagUp(t, w, p, n)
           /\ Tells(m, p, TRUE) => FlagUp(t, w, p, Len(t.posts))
           /\ FlagUp(s, v, p, Len(s.posts)) /\ ~Tells(m, p, FALSE) => FlagUp(t, w, p, Len(t.posts))
<1> DEFINE l == Len(s.posts)
           k == l + 1
<1>1. /\ l \in Nat /\ k \in Nat /\ Len(t.posts) = k /\ t.posts[k] = m
      /\ \A i \in 1..l : t.posts[i] = s.posts[i]
  OBVIOUS
<1> HIDE DEF l
<1>2. ASSUME NEW n \in 0..l, FlagUp(s, v, p, n)
      PROVE  FlagUp(t, w, p, n)
  <2>1. \A i \in 1..n : t.posts[i] = s.posts[i] /\ \A j \in (i + 1)..n : t.posts[j] = s.posts[j]
    BY <1>1
  <2> QED
    BY <1>2, <2>1 DEF FlagUp
<1>3. \A i \in 1..k : i = k \/ i \in 1..l
  BY <1>1
<1>4. \A i \in 1..l : \A j \in (i + 1)..k : j = k \/ j \in (i + 1)..l
  BY <1>1
<1>5. ASSUME Tells(m, p, TRUE)
      PROVE  FlagUp(t, w, p, k)
  <2>1. k \in 1..k /\ ~(\E j \in (k + 1)..k : TRUE)
    BY <1>1
  <2> QED
    BY <1>1, <1>5, <2>1 DEF FlagUp
<1>6. ASSUME FlagUp(s, v, p, l), ~Tells(m, p, FALSE)
      PROVE  FlagUp(t, w, p, k)
  <2>1. FlagUp(t, w, p, l)
    BY <1>1, <1>2, <1>6
  <2>2. \A i \in 1..l : i \in 1..k
    BY <1>1
  <2> QED
    BY <1>1, <1>3, <1>4, <1>6, <2>1, <2>2 DEF FlagUp
<1> QED
  BY <1>1, <1>2, <1>5, <1>6 DEF l

\* What there was to hold the edit is flagged still.
LEMMA FlaggedPosted ==
    ASSUME NEW s, NEW t, NEW v, NEW w, NEW p, s.posts \in Seq(Message), NEW m \in Message,
           t.posts = s.posts \/ t.posts = Append(s.posts, m),
           IsDirty(s, p) \/ p \in v.gone => IsDirty(t, p) \/ p \in w.gone,
           t.snapshots[p] = s.snapshots[p], s.snapshots[p] \in Past, CountsTyped,
           Least(s, v, p) \in Nat, Least(t, w, p) \in Nat, Least(s, v, p) <= Least(t, w, p),
           Flagged(s, v, p),
           t.posts # s.posts /\ IsSnapshot(m, p) => v.page[p].timer,
           w.page[p].timer => \/ t.posts # s.posts /\ Tells(m, p, TRUE)
                              \/ v.page[p].timer /\ (t.posts # s.posts => ~Tells(m, p, FALSE))
    PROVE  Flagged(t, w, p)
<1>1. Past \subseteq Nat
  BY ZeroIsText
<1>2. t.snapshots[p] >= Least(t, w, p) => IsDirty(t, p) \/ p \in w.gone
  <2>1. s.snapshots[p] \in Nat
    BY <1>1
  <2>2. t.snapshots[p] >= Least(t, w, p) => s.snapshots[p] >= Least(s, v, p)
    BY <2>1
  <2> QED
    BY <2>2 DEF Flagged
<1>3. \A i \in DOMAIN s.posts : i \in 1..Len(s.posts) /\ i \in 0..Len(s.posts)
  OBVIOUS
<1>4. \A i \in DOMAIN s.posts : IsSnapshot(s.posts[i], p) => s.posts[i].text \in Nat
  <2> SUFFICES ASSUME NEW i \in DOMAIN s.posts, IsSnapshot(s.posts[i], p)
               PROVE  s.posts[i].text \in Nat
    OBVIOUS
  <2>1. s.posts[i] \in Message
    OBVIOUS
  <2> QED
    BY <1>1, <2>1, MessageFields DEF IsSnapshot
<1>5. \A i \in DOMAIN s.posts :
          IsSnapshot(s.posts[i], p) /\ s.posts[i].text >= Least(t, w, p) => FlagUp(s, v, p, i)
  BY <1>4 DEF Flagged
<1>6. CASE t.posts = s.posts
  <2>1. \A n : FlagUp(s, v, p, n) => FlagUp(t, w, p, n)
    BY <1>6 DEF FlagUp
  <2> QED
    BY <1>2, <1>5, <1>6, <2>1 DEF Flagged
<1>7. CASE t.posts # s.posts
  <2> DEFINE l == Len(s.posts)
  <2>1. t.posts = Append(s.posts, m)
    BY <1>7
  <2>2. /\ \A n \in 0..l : FlagUp(s, v, p, n) => FlagUp(t, w, p, n)
        /\ Tells(m, p, TRUE) => FlagUp(t, w, p, Len(t.posts))
        /\ FlagUp(s, v, p, l) /\ ~Tells(m, p, FALSE) => FlagUp(t, w, p, Len(t.posts))
    BY <2>1, FlagUpPosted
  <2>3. /\ l \in Nat /\ Len(t.posts) = l + 1 /\ t.posts[l + 1] = m
        /\ \A i \in DOMAIN t.posts : i = l + 1 \/ i \in DOMAIN s.posts
        /\ \A i \in DOMAIN s.posts : t.posts[i] = s.posts[i]
    BY <2>1
  <2> HIDE DEF l
  <2>4. w.page[p].timer => FlagUp(t, w, p, Len(t.posts))
    BY <1>7, <2>2 DEF Flagged, l
  <2>5. IsSnapshot(m, p) => FlagUp(t, w, p, l + 1)
    <3>1. IsSnapshot(m, p) => ~Tells(m, p, FALSE)
      BY DEF IsSnapshot, Tells
    <3> QED
      BY <1>7, <2>2, <2>3, <3>1 DEF Flagged, l
  <2>6. ASSUME NEW i \in DOMAIN t.posts, IsSnapshot(t.posts[i], p), t.posts[i].text >= Least(t, w, p)
        PROVE  FlagUp(t, w, p, i)
    <3>1. CASE i = l + 1
      BY <2>3, <2>5, <2>6, <3>1
    <3>2. CASE i # l + 1
      BY <1>3, <1>5, <2>2, <2>3, <2>6, <3>2 DEF l
    <3> QED
      BY <3>1, <3>2
  <2> QED
    BY <1>2, <2>4, <2>6 DEF Flagged
<1> QED
  BY <1>6, <1>7

\* A model of the page goes on, and the page posts a message.
LEMMA PagePosts ==
    ASSUME IInv, EditsInsured, Watch, pane.life = "up", NEW m \in Message, pane' = Post(pane, m),
           NEW p \in Paths, NEW n, page' = [page EXCEPT ![p] = n], n # NoModel, page'[p].text \in Nat,
           n.first \in Nat, n.first # 0 \/ Dirty(page[p]) => Dirty(n), n.text >= page[p].text,
           \A x : ~Tells(m, x, FALSE),
           \A x : IsSnapshot(m, x) => x = p /\ page[p].timer,
           n.timer => page[p].timer \/ Tells(m, p, TRUE),
           page[p].first # 0 => n.first = page[p].first,
           page[p].first = 0 /\ n.first # 0 => n.first > Clock /\ Tells(m, p, TRUE)
    PROVE  EditsInsured'
<1> DEFINE v == Stakes
           w == AfterStep
           posts == Append(pane.posts, m)
<1>1. /\ v.page = page /\ v.stake = ghost.atStake /\ v.gone = ghost.misread
      /\ w.page = page' /\ w.stake = ghost'.atStake /\ w.gone = ghost.misread \cup {x \in Paths : Misread(x)}
  BY DEF Stakes, AfterStep
<1>2. /\ pane \in PaneType /\ CountsTyped /\ page \in [Paths -> Model] /\ pane.posts \in Seq(Message)
      /\ pane.snapshots \in [Paths -> Past]
  BY DEF IInv, Linked, Typed, PageTyped, PaneType
<1>3. Past \subseteq Nat /\ Clock \in Nat
  BY <1>2, ZeroIsText, ClocksAreNumbers
<1>4. pane' = [pane EXCEPT !.posts = posts]
  BY DEF Post
<1> HIDE DEF posts
<1>5. /\ pane'.tabs = pane.tabs /\ pane'.toPage = pane.toPage /\ pane'.posts = posts
      /\ pane'.replies = pane.replies /\ pane'.life = "up" /\ pane'.snapshots = pane.snapshots
      /\ pane'.needsModelRestore = pane.needsModelRestore
  BY <1>2, <1>4 DEF PaneType
<1>6. \A x : (IsOpen(pane', x) <=> IsOpen(pane, x)) /\ (IsDirty(pane', x) <=> IsDirty(pane, x))
  BY <1>5 DEF IsOpen, IsDirty, IndexOf
<1>7. page'[p] = n /\ \A x \in Paths : x # p => page'[x] = page[x]
  BY <1>2
<1>8. /\ \A x, texts : Refills(pane', x, texts) <=> Refills(pane, x, texts)
      /\ \A x : (ToRefill(pane', x) <=> ToRefill(pane, x)) /\ (Closes(pane', x) <=> Closes(pane, x))
  BY <1>5 DEF Refills, ToRefill, Restoration, Closes
<1>9. ~Down(pane) /\ ~Down(pane')
  BY <1>5 DEF Down
<1>10. \A x \in Paths : w.stake[x] = 0 \/ (w.stake[x] = v.stake[x] /\ IsOpen(pane', x))
  BY <1>1, <1>5, StakeOf
<1>11. \A x \in Paths : page[x].first \in Nat /\ page[x].text \in Nat
  <2> SUFFICES ASSUME NEW x \in Paths
               PROVE  page[x].first \in Nat /\ page[x].text \in Nat
    OBVIOUS
  <2>1. page[x] \in Model
    BY <1>2
  <2> QED
    BY <1>3, <2>1 DEF Model
<1> HIDE DEF v, w
<1>12. Insuring(pane, v)
  BY DEF EditsInsured, v
<1>13. RestoresCome(pane', w)
  BY <1>1, <1>5, <1>7, <1>12, CommandFields DEF Insuring, RestoresCome
<1>14. ASSUME NEW x \in Paths
       PROVE  Guarded(pane', w, x)
  <2> DEFINE a == Least(pane, v, x)
             b == Least(pane', w, x)
  <2>1. Guarded(pane, v, x)
    BY <1>12 DEF Insuring
  <2>2. /\ a = IF Refills(pane, x, Nat \ {0}) THEN 1 ELSE IF Closes(pane, x) THEN 0 ELSE page[x].first
        /\ b = IF Refills(pane, x, Nat \ {0}) THEN 1 ELSE IF Closes(pane, x) THEN 0 ELSE page'[x].first
    BY <1>1, <1>8, <1>9 DEF Least
  <2>3. a \in Nat /\ b \in Nat
    BY <1>7, <1>11, <2>2
  <2> HIDE DEF a, b
  <2>4. a # 0 => b = a
    BY <1>7, <2>2
  <2>5. a = 0 /\ b # 0 => x = p /\ b > Clock /\ Tells(m, p, TRUE)
    BY <1>7, <2>2
  <2>6. pane.snapshots[x] \in Past
    BY <1>2
  <2>7. IsDirty(pane, x) \/ x \in v.gone => IsDirty(pane', x) \/ x \in w.gone
    BY <1>1, <1>6
  <2>8. ASSUME IsOpen(pane', x), b # 0
        PROVE  Flagged(pane', w, x)
    <3>1. CASE a # 0
      <4>1. Flagged(pane, v, x)
        BY <1>6, <2>1, <2>8, <3>1 DEF Guarded, a
      <4>2. IsSnapshot(m, x) => v.page[x].timer
        BY <1>1
      <4>3. w.page[x].timer => Tells(m, x, TRUE) \/ v.page[x].timer
        BY <1>1, <1>7
      <4>4. a <= b
        BY <2>3, <2>4, <3>1
      <4>5. ~Tells(m, x, FALSE)
        OBVIOUS
      <4>6. posts # pane.posts
        BY <1>2 DEF posts
      <4> QED
        BY ZenonT(30), <1>2, <1>5, <2>3, <2>6, <2>7, <4>1, <4>2, <4>3, <4>4, <4>5, <4>6, FlaggedPosted DEF a, b, posts
    <3>2. CASE a = 0
      <4>1. x = p /\ b > Clock /\ Tells(m, p, TRUE)
        BY <2>5, <2>8, <3>2
      <4>2. \A text \in Past : ~(text >= b)
        BY <1>3, <2>3, <4>1 DEF Past
      <4>3. pane'.snapshots[x] \in Past
        BY <1>5, <2>6
      <4>4. ASSUME NEW i \in DOMAIN posts, IsSnapshot(posts[i], x)
            PROVE  posts[i].text \in Past
        <5>1. posts[i] \in Message
          BY <1>2 DEF posts
        <5> QED
          BY <4>4, <5>1, MessageFields DEF IsSnapshot
      <4>5. FlagUp(pane', w, x, Len(posts))
        BY <1>2, <1>5, <2>7, <4>1, FlagUpPosted DEF posts
      <4> QED
        BY <1>5, <4>2, <4>3, <4>4, <4>5 DEF Flagged, b
    <3> QED
      BY <3>1, <3>2
  <2>9. page'[x].first # 0 \/ Dirty(page[x]) => Dirty(page'[x])
    BY <1>1, <1>7, <2>1 DEF Guarded
  <2>10. page'[x].text >= page[x].text /\ page'[x].text \in Nat
    BY <1>7, <1>11
  <2>11. w.stake[x] \in Nat
    BY <1>10, <2>1 DEF Guarded
  <2>12. Kept(pane', w, x)
    <3> SUFFICES ASSUME w.stake[x] # 0
                 PROVE  IsOpen(pane', x) /\ Returns(pane', w, x)
      BY <1>5 DEF Kept
    <3>1. w.stake[x] = v.stake[x] /\ IsOpen(pane', x)
      BY <1>10
    <3>2. Returns(pane, v, x)
      BY <1>9, <2>1, <3>1 DEF Guarded, Kept
    <3>3. page[x].text >= v.stake[x] => page'[x].text >= w.stake[x]
      BY <1>11, <2>10, <2>11, <3>1
    <3> QED
      BY <1>1, <1>8, <2>9, <3>1, <3>2, <3>3 DEF Returns
  <2> QED
    BY <1>1, <2>8, <2>9, <2>11, <2>12 DEF Guarded, b
<1>15. Insuring(pane', w)
  BY <1>13, <1>14 DEF Insuring
<1> QED
  BY <1>15, EndsInsured DEF w

\* The model of an open file.
LEMMA ModelFields ==
    ASSUME IInv, NEW p \in Paths
    PROVE  /\ page[p] \in Model /\ page[p].text \in Nat /\ page[p].first \in Nat
           /\ page[p].version \in Nat /\ page[p].saved \in Nat /\ page[p].saved <= page[p].version
<1>1. CountsTyped /\ PageTyped
  BY DEF IInv
<1>2. page[p] \in Model /\ Past \subseteq Nat
  BY <1>1, ZeroIsText DEF PageTyped
<1>3. /\ page[p].text \in Nat /\ page[p].first \in Nat
      /\ page[p].version \in Nat /\ page[p].saved \in Nat
  BY <1>2 DEF Model
<1>4. page[p].saved <= page[p].version
  <2>1. CASE page[p] = NoModel
    BY <2>1 DEF NoModel
  <2>2. CASE page[p] # NoModel
    BY <1>1, <2>2 DEF PageTyped
  <2> QED
    BY <2>1, <2>2
<1> QED
  BY <1>2, <1>3, <1>4

\* An unsaved edit makes a buffer dirty.
LEMMA EditsAreDirty ==
    ASSUME EditsInsured, NEW p \in Paths
    PROVE  page[p].first # 0 => Dirty(page[p])
BY DEF EditsInsured, Insuring, Guarded, Stakes

\* PressSave
LEMMA PressSaveInsures ==
    ASSUME IInv, EditsInsured, NEW p \in Paths, PressSave(p)
    PROVE  EditsInsured'
<1> DEFINE m == [type |-> "save", path |-> p]
           n == page[p]
<1>1. /\ pane.life = "up" /\ page[p] # NoModel /\ pane' = Post(pane, m) /\ page' = page /\ Watch
  BY DEF PressSave
<1>2. m \in Message /\ \A x : ~Tells(m, x, FALSE) /\ ~IsSnapshot(m, x)
  BY DEF Message, Tells, IsSnapshot
<1>3. page' = [page EXCEPT ![p] = n]
  BY <1>1 DEF IInv, PageTyped
<1>4. n.text \in Nat /\ n.first \in Nat /\ n.text >= n.text
  BY ModelFields
<1>5. n.first # 0 => Dirty(n)
  BY EditsAreDirty
<1> HIDE DEF m
<1> QED
  BY <1>1, <1>2, <1>3, <1>4, <1>5, PagePosts

\* SnapshotTimer
LEMMA SnapshotTimerInsures ==
    ASSUME IInv, EditsInsured, NEW p \in Paths, SnapshotTimer(p)
    PROVE  EditsInsured'
<1> DEFINE m == [type |-> "snapshot", path |-> p, text |-> page[p].text]
           n == [page[p] EXCEPT !.timer = FALSE]
<1>1. /\ pane.life = "up" /\ page[p].timer /\ pane' = Post(pane, m)
      /\ page' = [page EXCEPT ![p] = n] /\ Watch
  BY DEF SnapshotTimer
<1>2. page[p] \in Model /\ page[p].text \in Past /\ page \in [Paths -> Model]
  BY DEF IInv, PageTyped, Model
<1>3. m \in Message /\ \A x : ~Tells(m, x, FALSE) /\ (IsSnapshot(m, x) => x = p)
  BY <1>2 DEF Message, Tells, IsSnapshot
<1>4. /\ n.text = page[p].text /\ n.first = page[p].first /\ n.timer = FALSE
      /\ n.version = page[p].version /\ n.saved = page[p].saved
  BY <1>2 DEF Model
<1>5. page[p] # NoModel /\ n.version >= 1
  <2>1. page[p] # NoModel
    BY <1>1 DEF NoModel
  <2> QED
    BY <1>2, <1>4, <2>1 DEF IInv, PageTyped, Model
<1>6. n # NoModel
  BY <1>5 DEF NoModel
<1>7. page[p].text \in Nat /\ page[p].first \in Nat /\ n.text >= page[p].text
  BY <1>4, ModelFields
<1>8. n.first # 0 \/ Dirty(page[p]) => Dirty(n)
  BY <1>4, EditsAreDirty DEF Dirty
<1>9. page'[p] = n
  BY <1>1, <1>2
<1> HIDE DEF m, n
<1> QED
  BY <1>1, <1>3, <1>4, <1>6, <1>7, <1>8, <1>9, PagePosts

\* Type
LEMMA TypeInsures ==
    ASSUME IInv, EditsInsured, NEW p \in Paths, Type(p)
    PROVE  EditsInsured'
<1> DEFINE text == Clock + 1
           first == IF page[p].first = 0 THEN text ELSE page[p].first
           n == [Changed(page[p], text) EXCEPT !.first = IF @ = 0 THEN text ELSE @]
           m == DirtyChanged(p, n)
<1>1. /\ pane.life = "up" /\ page[p] # NoModel /\ pane' = Post(pane, m)
      /\ page' = [page EXCEPT ![p] = n] /\ Watch
  BY DEF Type
<1>2. /\ page[p] \in Model /\ page \in [Paths -> Model] /\ page[p].text \in Past /\ Clock \in Nat
      /\ page[p].version \in Nat /\ page[p].saved \in Nat /\ page[p].saved <= page[p].version
      /\ page[p].first \in Nat
  BY ClocksAreNumbers, ModelFields DEF IInv, PageTyped, Model
<1>3. n = [page[p] EXCEPT !.text = text, !.version = page[p].version + 1, !.timer = TRUE, !.first = first]
  BY <1>2 DEF Changed, Model
<1>4. /\ n.text = text /\ n.version = page[p].version + 1 /\ n.saved = page[p].saved
      /\ n.first = first /\ n.timer = TRUE
  BY <1>2, <1>3 DEF Model
<1> HIDE DEF n
<1>5. n.version # n.saved /\ n.version >= 1 /\ n.version # 0
  BY <1>2, <1>4
<1>6. Dirty(n) /\ n # NoModel
  BY <1>5 DEF Dirty, NoModel
<1>7. m \in Message /\ (\A x : ~Tells(m, x, FALSE) /\ ~IsSnapshot(m, x)) /\ Tells(m, p, TRUE)
  BY <1>6 DEF DirtyChanged, Message, Tells, IsSnapshot
<1>8. text \in Nat /\ text # 0 /\ text > Clock /\ text >= page[p].text
  BY <1>2 DEF Past
<1>9. page'[p] = n
  BY <1>1, <1>2
<1>10. n.first \in Nat /\ (page[p].first # 0 => n.first = page[p].first)
       /\ (page[p].first = 0 => n.first > Clock)
  BY <1>2, <1>4, <1>8
<1> HIDE DEF m, text
<1> QED
  BY <1>1, <1>4, <1>6, <1>7, <1>8, <1>9, <1>10, PagePosts

-----------------------------------------------------------------------------
(* The renderer dies.                                                          *)

\* A command is pending for a page that is to have it.
LEMMA ClosesOf ==
    ASSUME IInv, NEW p
    PROVE  (Closes(pane, p) <=> Pending("close", p)) /\ (ToRefill(pane, p) <=> Pending("restore", p))
<1>1. DOMAIN pane.toPage = 1..Len(pane.toPage)
  BY AloneStarts DEF PaneType
<1> QED
  BY <1>1 DEF Closes, NoClose, Is, Pending, ToRefill, Restoration

\* What asks the least of a snapshot is a number.
LEMMA LeastIsNumber ==
    ASSUME NEW s, NEW v, NEW p, v.stake[p] \in Nat, v.page[p].first \in Nat
    PROVE  Least(s, v, p) \in Nat
BY DEF Least

\* Crash
LEMMA CrashInsures ==
    ASSUME IInv, EditsInsured, Crash
    PROVE  EditsInsured'
<1> DEFINE v == Stakes
           w == AfterStep
<1>1. /\ v.page = page /\ v.stake = ghost.atStake /\ v.gone = ghost.misread
      /\ w.page = page' /\ w.stake = ghost'.atStake /\ w.gone = ghost.misread \cup {x \in Paths : Misread(x)}
  BY DEF Stakes, AfterStep
<1>2. /\ pane.life = "up" /\ pane' = [pane EXCEPT !.life = "crashed", !.toPage = <<>>]
      /\ page' = [p \in Paths |-> NoModel] /\ Watch
  BY DEF Crash
<1>3. /\ pane \in PaneType /\ CountsTyped /\ pane.posts \in Seq(Message) /\ pane.snapshots \in [Paths -> Past]
  BY DEF IInv, Linked, Typed, PaneType
<1>4. /\ pane'.tabs = pane.tabs /\ pane'.toPage = <<>> /\ pane'.posts = pane.posts
      /\ pane'.life = "crashed" /\ pane'.snapshots = pane.snapshots
  BY <1>2, <1>3 DEF PaneType
<1>5. \A x : (IsOpen(pane', x) <=> IsOpen(pane, x)) /\ (IsDirty(pane', x) <=> IsDirty(pane, x))
  BY <1>4 DEF IsOpen, IsDirty, IndexOf
<1>6. \A x \in Paths : w.page[x] = NoModel /\ w.page[x].first = 0 /\ w.page[x].timer = FALSE
  BY <1>1, <1>2 DEF NoModel
<1>7. \A x \in Paths : w.stake[x] = IF IsOpen(pane', x) THEN LostWithPage(x) ELSE 0
  <2> SUFFICES ASSUME NEW x \in Paths
               PROVE  w.stake[x] = IF IsOpen(pane', x) THEN LostWithPage(x) ELSE 0
    OBVIOUS
  <2>1. Dies /\ ~Reloads
    BY <1>2, <1>4 DEF Dies, Reloads
  <2>2. w.stake[x] = AtStake(x)
    BY <1>1, <1>2 DEF Watch
  <2> QED
    BY <2>1, <2>2 DEF AtStake
<1>8. Down(pane') /\ ~Down(pane)
  BY <1>2, <1>4 DEF Down
<1> HIDE DEF v, w
<1>9. Insuring(pane, v)
  BY DEF EditsInsured, v
<1>10. RestoresCome(pane', w)
  BY <1>4 DEF RestoresCome
<1>11. ASSUME NEW x \in Paths
       PROVE  Guarded(pane', w, x)
  <2>1. Guarded(pane, v, x) /\ v.stake[x] \in Nat
    BY <1>9 DEF Insuring, Guarded
  <2>2. page[x].first \in Nat
    BY ModelFields
  <2>3. Least(pane, v, x) \in Nat
    BY <1>1, <2>1, <2>2, LeastIsNumber
  <2>4. LostWithPage(x) \in Nat
    BY <1>1, <2>1, <2>2 DEF LostWithPage
  <2>5. Least(pane', w, x) = w.stake[x] /\ w.stake[x] \in Nat
    BY <1>7, <1>8, <2>4 DEF Least
  <2>6. ASSUME LostWithPage(x) # 0
        PROVE  Least(pane, v, x) # 0 /\ Least(pane, v, x) <= LostWithPage(x)
    <3>1. ~Closes(pane, x)
      BY <2>6, ClosesOf DEF LostWithPage
    <3>2. CASE page[x] = NoModel \/ Pending("restore", x)
      <4>1. LostWithPage(x) = v.stake[x]
        BY <1>1, <3>1, <3>2, ClosesOf DEF LostWithPage
      <4>2. Returns(pane, v, x)
        BY <1>8, <2>1, <2>6, <4>1 DEF Guarded, Kept
      <4>3. ~(~ToRefill(pane, x) /\ Dirty(page[x]))
        BY <3>2, ClosesOf DEF Dirty, NoModel
      <4>4. Refills(pane, x, {v.stake[x]})
        BY <1>1, <4>2, <4>3 DEF Returns
      <4>5. Refills(pane, x, Nat \ {0})
        BY <2>1, <2>6, <4>1, <4>4 DEF Refills
      <4>6. Least(pane, v, x) = 1
        BY <1>8, <4>5 DEF Least
      <4> QED
        BY <2>4, <2>6, <4>6
    <3>3. CASE ~(page[x] = NoModel \/ Pending("restore", x))
      <4>1. LostWithPage(x) = page[x].first
        BY <3>1, <3>3, ClosesOf DEF LostWithPage
      <4>2. ~Refills(pane, x, Nat \ {0})
        BY <3>3, ClosesOf DEF Refills, ToRefill
      <4>3. Least(pane, v, x) = page[x].first
        BY <1>1, <1>8, <3>1, <4>2 DEF Least
      <4> QED
        BY <2>2, <2>6, <4>1, <4>3
    <3> QED
      BY <3>2, <3>3
  <2>7. ASSUME IsOpen(pane', x), Least(pane', w, x) # 0
        PROVE  Flagged(pane', w, x)
    <3>1. Least(pane', w, x) = LostWithPage(x)
      BY <1>7, <2>5, <2>7
    <3>2. Least(pane, v, x) # 0 /\ Least(pane, v, x) <= Least(pane', w, x)
      BY <2>6, <2>7, <3>1
    <3>3. Flagged(pane, v, x)
      BY <1>5, <2>1, <2>7, <3>2 DEF Guarded
    <3>4. IsDirty(pane, x) \/ x \in v.gone => IsDirty(pane', x) \/ x \in w.gone
      BY <1>1, <1>5
    <3>5. pane.snapshots[x] \in Past /\ Least(pane', w, x) \in Nat
      BY <1>3, <2>5
    <3>6. [type |-> "save", path |-> x] \in Message
      BY DEF Message
    <3> QED
      BY <1>3, <1>4, <1>6, <2>3, <3>2, <3>3, <3>4, <3>5, <3>6, FlaggedPosted
  <2>8. Kept(pane', w, x)
    BY <1>4, <1>7, <1>8 DEF Kept
  <2> QED
    BY <1>6, <2>5, <2>7, <2>8 DEF Guarded
<1>12. Insuring(pane', w)
  BY <1>10, <1>11 DEF Insuring
<1> QED
  BY <1>2, <1>12, EndsInsured DEF w

\* DidTerminate
LEMMA DidTerminateInsures ==
    ASSUME IInv, EditsInsured, DidTerminate
    PROVE  EditsInsured'
<1> DEFINE v == Stakes
           w == AfterStep
<1>1. /\ v.page = page /\ v.stake = ghost.atStake /\ v.gone = ghost.misread
      /\ w.page = page' /\ w.stake = ghost'.atStake
  BY DEF Stakes, AfterStep
<1>2. /\ pane.life = "crashed" /\ page' = page /\ Watch
      /\ pane' = [pane EXCEPT !.life = "loading", !.needsModelRestore = TRUE, !.posts = <<>>, !.replies = <<>>]
  BY DEF DidTerminate
<1>3. /\ pane \in PaneType /\ CountsTyped /\ pane.snapshots \in [Paths -> Past]
      /\ pane.toPage = <<>> /\ \A x \in Paths : page[x] = NoModel
  BY <1>2 DEF IInv, Linked, Typed, PaneType, DownIsEmpty, Down, Now
<1>4. /\ pane'.tabs = pane.tabs /\ pane'.toPage = <<>> /\ pane'.posts = <<>>
      /\ pane'.life = "loading" /\ pane'.snapshots = pane.snapshots /\ pane'.needsModelRestore = TRUE
  BY <1>2, <1>3 DEF PaneType
<1>5. \A x : (IsOpen(pane', x) <=> IsOpen(pane, x)) /\ (IsDirty(pane', x) <=> IsDirty(pane, x))
  BY <1>4 DEF IsOpen, IsDirty, IndexOf
<1>6. \A x \in Paths : w.page[x].first = 0 /\ w.page[x].timer = FALSE
  BY <1>1, <1>2, <1>3 DEF NoModel
<1>7. \A x \in Paths : w.stake[x] = IF IsOpen(pane', x) /\ Insured(x) THEN pane.snapshots[x] ELSE 0
  <2> SUFFICES ASSUME NEW x \in Paths
               PROVE  w.stake[x] = IF IsOpen(pane', x) /\ Insured(x) THEN pane.snapshots[x] ELSE 0
    OBVIOUS
  <2>1. Reloads /\ ~Dies
    BY <1>2, <1>4 DEF Dies, Reloads
  <2>2. w.stake[x] = AtStake(x)
    BY <1>1, <1>2 DEF Watch
  <2> QED
    BY <2>1, <2>2 DEF AtStake
<1>8. Down(pane') /\ Down(pane)
  BY <1>2, <1>4 DEF Down
<1> HIDE DEF v, w
<1>9. Insuring(pane, v)
  BY DEF EditsInsured, v
<1>10. RestoresCome(pane', w)
  BY <1>4 DEF RestoresCome
<1>11. ASSUME NEW x \in Paths
       PROVE  Guarded(pane', w, x)
  <2>1. Guarded(pane, v, x)
    BY <1>9 DEF Insuring
  <2>2. pane.snapshots[x] \in Nat
    BY <1>3, ZeroIsText
  <2>3. w.stake[x] \in Nat /\ Least(pane', w, x) = w.stake[x]
    BY <1>7, <1>8, <2>2 DEF Least
  <2>4. ASSUME w.stake[x] # 0
        PROVE  IsOpen(pane', x) /\ IsDirty(pane', x) /\ pane'.snapshots[x] = w.stake[x]
    <3>1. IsOpen(pane', x) /\ Insured(x) /\ w.stake[x] = pane.snapshots[x]
      BY <1>7, <2>4
    <3>2. v.stake[x] # 0 /\ pane.snapshots[x] >= v.stake[x] /\ x \notin v.gone
      BY <1>1, <3>1 DEF Insured
    <3>3. Flagged(pane, v, x) /\ Least(pane, v, x) = v.stake[x]
      BY <1>5, <1>8, <2>1, <3>1, <3>2 DEF Guarded, Least
    <3>4. IsDirty(pane, x)
      BY <3>2, <3>3 DEF Flagged
    <3> QED
      BY <1>4, <1>5, <3>1, <3>4
  <2>5. ASSUME w.stake[x] # 0
        PROVE  Flagged(pane', w, x)
    BY <1>4, <1>6, <2>4, <2>5 DEF Flagged
  <2>6. Kept(pane', w, x)
    BY <1>4, <1>8, <2>4 DEF Kept
  <2> QED
    BY <1>6, <2>3, <2>5, <2>6 DEF Guarded
<1>12. Insuring(pane', w)
  BY <1>10, <1>11 DEF Insuring
<1> QED
  BY <1>2, <1>12, EndsInsured DEF w

\* No renderer has died yet.
LEMMA NothingAtStake == Init => EditsInsured
<1> SUFFICES ASSUME Init
             PROVE  EditsInsured
  OBVIOUS
<1> DEFINE v == Stakes
<1>1. /\ pane.life = "loading" /\ \A i \in DOMAIN pane.toPage : pane.toPage[i].op = "open"
      /\ page = [p \in Paths |-> NoModel] /\ ghost.atStake = [p \in Paths |-> 0]
  BY DEF Init
<1>2. v.page = page /\ v.stake = ghost.atStake
  BY DEF Stakes
<1>3. \A p \in Paths : v.stake[p] = 0 /\ v.page[p].first = 0
  BY <1>1, <1>2 DEF NoModel
<1> HIDE DEF v
<1>4. \A p \in Paths : Least(pane, v, p) = 0 /\ Kept(pane, v, p)
  BY <1>1, <1>3 DEF Least, Down, Kept
<1>5. RestoresCome(pane, v)
  BY <1>1 DEF RestoresCome
<1> QED
  BY <1>3, <1>4, <1>5 DEF EditsInsured, Insuring, Guarded, v

\* Nothing happens.
LEMMA StutterInsures ==
    ASSUME EditsInsured, UNCHANGED vars
    PROVE  EditsInsured'
<1>1. pane' = pane /\ Stakes' = Stakes
  BY DEF vars, Stakes
<1>2. Insuring(pane', Stakes')
  BY <1>1 DEF EditsInsured
<1> QED
  BY <1>2 DEF EditsInsured

-----------------------------------------------------------------------------
(* The pane takes a post.                                                      *)

\* What the flag will be is what the posts say, the one that is taken first.
LEMMA FlagUpDelivered ==
    ASSUME NEW s, NEW t, NEW v, NEW w, NEW p, NEW C, s.posts \in Seq(C), s.posts # <<>>,
           t.posts = Tail(s.posts), Tells(s.posts[1], p, TRUE) => IsDirty(t, p),
           ~Tells(s.posts[1], p, FALSE) /\ (IsDirty(s, p) \/ p \in v.gone) => IsDirty(t, p) \/ p \in w.gone
    PROVE  \A n \in 0..Len(t.posts) : FlagUp(s, v, p, n + 1) => FlagUp(t, w, p, n)
<1> SUFFICES ASSUME NEW n \in 0..Len(t.posts), FlagUp(s, v, p, n + 1)
             PROVE  FlagUp(t, w, p, n)
  OBVIOUS
<1>1. n \in Nat /\ \A i \in 1..n : t.posts[i] = s.posts[i + 1]
  OBVIOUS
<1>2. \A i \in 1..n : i + 1 \in 1..(n + 1) /\ \A j \in (i + 1)..n : j \in 1..n /\ j + 1 \in ((i + 1) + 1)..(n + 1)
  BY <1>1
<1>3. CASE \E i \in 1..(n + 1) : /\ Tells(s.posts[i], p, TRUE)
                                 /\ \A j \in (i + 1)..(n + 1) : ~Tells(s.posts[j], p, FALSE)
  <2>1. PICK i \in 1..(n + 1) : /\ Tells(s.posts[i], p, TRUE)
                                /\ \A j \in (i + 1)..(n + 1) : ~Tells(s.posts[j], p, FALSE)
    BY <1>3
  <2>2. CASE i = 1
    <3>1. \A j \in 1..n : j + 1 \in (i + 1)..(n + 1)
      BY <1>1, <2>2
    <3> QED
      BY <1>1, <2>1, <2>2, <3>1 DEF FlagUp
  <2>3. CASE i # 1
    <3>1. i - 1 \in 1..n /\ t.posts[i - 1] = s.posts[i]
      BY <1>1, <2>3
    <3>2. \A j \in ((i - 1) + 1)..n : j + 1 \in (i + 1)..(n + 1) /\ t.posts[j] = s.posts[j + 1]
      BY <1>1, <2>3
    <3> QED
      BY <2>1, <3>1, <3>2 DEF FlagUp
  <2> QED
    BY <2>2, <2>3
<1>4. CASE (IsDirty(s, p) \/ p \in v.gone) /\ \A j \in 1..(n + 1) : ~Tells(s.posts[j], p, FALSE)
  <2>1. 1 \in 1..(n + 1) /\ \A j \in 1..n : j + 1 \in 1..(n + 1)
    BY <1>1
  <2> QED
    BY <1>1, <1>4, <2>1 DEF FlagUp
<1> QED
  BY <1>3, <1>4 DEF FlagUp

\* What the post says of the flag and of the snapshot of p.
Delivers(s, t, v, w, p) ==
    LET m == s.posts[1]
    IN /\ Tells(m, p, TRUE) => IsDirty(t, p)
       /\ ~Tells(m, p, FALSE) /\ (IsDirty(s, p) \/ p \in v.gone) => IsDirty(t, p) \/ p \in w.gone
       /\ t.snapshots[p] = IF IsSnapshot(m, p) THEN m.text
                           ELSE IF Tells(m, p, FALSE) THEN 0 ELSE s.snapshots[p]

\* The snapshot that is taken, and those that come, are flagged.
LEMMA FlaggedDelivered ==
    ASSUME NEW s, NEW t, NEW v, NEW w, NEW p, s.posts \in Seq(Message), s.posts # <<>>,
           t.posts = Tail(s.posts), Delivers(s, t, v, w, p), w.page = v.page,
           Least(s, v, p) \in Nat \ {0}, Least(t, w, p) = Least(s, v, p), Flagged(s, v, p)
    PROVE  Flagged(t, w, p)
<1> DEFINE m == s.posts[1]
           l == Least(s, v, p)
<1>1. \A n \in 0..Len(t.posts) : FlagUp(s, v, p, n + 1) => FlagUp(t, w, p, n)
  BY FlagUpDelivered DEF Delivers
<1>2. /\ Len(t.posts) \in Nat /\ Len(s.posts) = Len(t.posts) + 1 /\ 1 \in DOMAIN s.posts
      /\ \A i \in DOMAIN t.posts : i \in 0..Len(t.posts) /\ i + 1 \in DOMAIN s.posts
                                   /\ t.posts[i] = s.posts[i + 1]
  OBVIOUS
<1>3. FlagUp(t, w, p, 0) => IsDirty(t, p) \/ p \in w.gone
  BY DEF FlagUp
<1>4. ASSUME t.snapshots[p] >= l
      PROVE  IsDirty(t, p) \/ p \in w.gone
  <2>1. CASE IsSnapshot(m, p)
    <3>1. FlagUp(s, v, p, 1)
      BY <1>2, <1>4, <2>1 DEF Flagged, Delivers
    <3>2. FlagUp(t, w, p, 0)
      BY <1>1, <1>2, <3>1, 0 + 1 = 1
    <3> QED
      BY <1>3, <3>2
  <2>2. CASE ~IsSnapshot(m, p) /\ Tells(m, p, FALSE)
    <3>1. 0 >= l
      BY <1>4, <2>2 DEF Delivers
    <3> QED
      BY <3>1
  <2>3. CASE ~IsSnapshot(m, p) /\ ~Tells(m, p, FALSE)
    BY <1>4, <2>3 DEF Delivers, Flagged
  <2> QED
    BY <2>1, <2>2, <2>3
<1>5. ASSUME NEW i \in DOMAIN t.posts, IsSnapshot(t.posts[i], p), t.posts[i].text >= l
      PROVE  FlagUp(t, w, p, i)
  BY <1>1, <1>2, <1>5 DEF Flagged
<1>6. w.page[p].timer => FlagUp(t, w, p, Len(t.posts))
  <2>1. Len(t.posts) \in 0..Len(t.posts)
    BY <1>2
  <2> QED
    BY <1>1, <1>2, <2>1 DEF Flagged
<1> QED
  BY <1>4, <1>5, <1>6 DEF Flagged

\* The invariant, once a post is taken.
LEMMA DeliveredIsInsured ==
    ASSUME IInv, EditsInsured, pane.life # "loading", pane.posts # <<>>,
           NEW t, NEW w, t.posts = Tail(pane.posts), t.toPage = pane.toPage, t.replies = pane.replies,
           t.life = pane.life, \A x : IsOpen(t, x) <=> IsOpen(pane, x),
           w.page = page, \A x \in Paths : w.stake[x] \in {0, ghost.atStake[x]},
           \A x \in Paths : IsOpen(pane, x) => Delivers(pane, t, Stakes, w, x)
    PROVE  Insuring(t, w)
<1> DEFINE v == Stakes
<1>1. v.page = page /\ v.stake = ghost.atStake /\ v.gone = ghost.misread
  BY DEF Stakes
<1> HIDE DEF v
<1>2. Insuring(pane, v) /\ pane.posts \in Seq(Message)
  BY DEF EditsInsured, v, IInv, Linked, Typed, PaneType
<1>3. RestoresCome(t, w)
  BY <1>1, <1>2 DEF Insuring, RestoresCome
<1>4. /\ \A x, texts : Refills(t, x, texts) <=> Refills(pane, x, texts)
      /\ \A x : (ToRefill(t, x) <=> ToRefill(pane, x)) /\ (Closes(t, x) <=> Closes(pane, x))
      /\ Down(t) <=> Down(pane)
  BY DEF Refills, ToRefill, Restoration, Closes, Down
<1>5. ASSUME NEW x \in Paths
      PROVE  Guarded(t, w, x)
  <2>1. Guarded(pane, v, x) /\ v.stake[x] \in Nat /\ w.stake[x] \in {0, v.stake[x]}
    BY <1>1, <1>2 DEF Insuring, Guarded
  <2>2. page[x].first \in Nat
    BY ModelFields
  <2>3. Least(pane, v, x) \in Nat
    BY <1>1, <2>1, <2>2, LeastIsNumber
  <2>4. Least(t, w, x) # 0 => Least(t, w, x) = Least(pane, v, x)
    BY <1>1, <1>4, <2>1 DEF Least
  <2>5. ASSUME IsOpen(t, x), Least(t, w, x) # 0
        PROVE  Flagged(t, w, x)
    <3>1. Flagged(pane, v, x)
      BY <2>1, <2>4, <2>5 DEF Guarded
    <3>2. Delivers(pane, t, v, w, x)
      BY <2>5 DEF v
    <3>3. Least(pane, v, x) \in Nat \ {0} /\ Least(t, w, x) = Least(pane, v, x)
      BY <2>3, <2>4, <2>5
    <3> QED
      BY <1>1, <1>2, <3>1, <3>2, <3>3, FlaggedDelivered
  <2>6. Kept(t, w, x)
    <3> SUFFICES ASSUME w.stake[x] # 0
                 PROVE  IsOpen(t, x) /\ (~Down(t) => Returns(t, w, x))
      BY DEF Kept
    <3>1. v.stake[x] # 0 /\ w.stake[x] = v.stake[x]
      BY <2>1
    <3>2. IsOpen(pane, x) /\ (~Down(pane) => Returns(pane, v, x))
      BY <2>1, <3>1 DEF Guarded, Kept
    <3>3. Returns(pane, v, x) => Returns(t, w, x)
      BY <1>1, <1>4, <3>1 DEF Returns
    <3> QED
      BY <1>4, <3>2, <3>3
  <2>7. w.page[x].first # 0 => Dirty(w.page[x])
    BY <1>1, <2>1 DEF Guarded
  <2> QED
    BY <2>1, <2>5, <2>6, <2>7 DEF Guarded
<1> QED
  BY <1>3, <1>5 DEF Insuring

\* DeliverPost
LEMMA DeliverPostInsures ==
    ASSUME IInv, IInv', EditsInsured, DeliverPost
    PROVE  EditsInsured'
<1> DEFINE m == Head(pane.posts)
           rest == Tail(pane.posts)
           s == [pane EXCEPT !.posts = rest]
           w == AfterStep
<1>1. /\ pane.life # "loading" /\ pane.posts # <<>>
      /\ pane' = CASE m.type = "dirty" -> OnDirtyChanged(s, m.path, m.dirty)
                   [] m.type = "snapshot" -> [s EXCEPT !.snapshots[m.path] = m.text]
                   [] m.type = "save" -> IF IsOpen(s, m.path) THEN Save(s, m.path, "save", m.path, <<>>)
                                         ELSE s
      /\ page' = page /\ Watch
  BY DEF DeliverPost
<1>2. Deciding(pane, Alone) /\ pane \in PaneType /\ CountsTyped
  BY AloneStarts
<1>3. rest \in Seq(Message) /\ m \in Message /\ m = pane.posts[1]
  BY <1>1, <1>2 DEF PaneType
<1>4. m.path \in Paths /\ m.type \in {"dirty", "snapshot", "save"} /\ (m.type = "dirty" => m.dirty \in BOOLEAN)
  BY <1>3, MessageFields
<1> HIDE DEF m, rest
<1>5. Deciding(s, Alone) /\ s \in PaneType /\ s.life # "loading"
  BY <1>1, <1>2, <1>3, PostsDecide DEF SameCard
<1>6. /\ s.tabs = pane.tabs /\ s.posts = rest /\ s.toPage = pane.toPage /\ s.replies = pane.replies
      /\ s.life = pane.life /\ s.needsModelRestore = pane.needsModelRestore /\ s.snapshots = pane.snapshots
  BY <1>2 DEF PaneType
<1>7. \A x : (IsOpen(s, x) <=> IsOpen(pane, x)) /\ (IsDirty(s, x) <=> IsDirty(pane, x))
  BY <1>6 DEF IsOpen, IsDirty, IndexOf
<1> HIDE DEF s
<1>8. /\ w.page = page' /\ w.stake = ghost'.atStake
      /\ w.gone = ghost.misread \cup {x \in Paths : Misread(x)} /\ Stakes.gone = ghost.misread
  BY DEF AfterStep, Stakes
<1> HIDE DEF w
<1>9. SUFFICES \E t : /\ t.posts = rest /\ t.toPage = pane.toPage /\ t.replies = pane.replies /\ t.life = pane.life
                      /\ t \in PaneType /\ Handles(t, pane', {}) /\ \A x : IsOpen(t, x) <=> IsOpen(pane, x)
                      /\ \A x \in Paths : IsOpen(pane, x) => Delivers(pane, t, Stakes, w, x)
  <2>1. PICK t : /\ t.posts = rest /\ t.toPage = pane.toPage /\ t.replies = pane.replies /\ t.life = pane.life
                 /\ t \in PaneType /\ Handles(t, pane', {}) /\ \A x : IsOpen(t, x) <=> IsOpen(pane, x)
                 /\ \A x \in Paths : IsOpen(pane, x) => Delivers(pane, t, Stakes, w, x)
    BY <1>9
  <2>2. pane'.life = "crashed" => pane.life = "crashed"
    BY <2>1 DEF Handles, Carries
  <2>3. pane'.life = "loading" => pane.life = "loading"
    BY <2>1 DEF Handles, Carries
  <2>4. \A x \in Paths : w.stake[x] = IF ~IsOpen(pane', x) THEN 0 ELSE ghost.atStake[x]
    BY <1>1, <1>8, <2>2, <2>3, StakeOf
  <2>5. Insuring(t, w)
    BY <1>1, <1>8, <2>1, <2>4, DeliveredIsInsured DEF rest
  <2>6. t.toPage \in Seq(Command \cup Command') /\ pane'.toPage \in Seq(Command \cup Command')
    <3>1. t.toPage \in Seq(Command) /\ pane'.toPage \in Seq(Command')
      BY <2>1 DEF PaneType, IInv, Linked, Typed
    <3> QED
      BY <3>1
  <2>7. Carries(t, pane', {}) /\ \A x : IsOpen(pane', x) => IsOpen(t, x)
    BY <2>1 DEF Handles
  <2>8. Insuring(pane', w)
    BY <2>4, <2>5, <2>6, <2>7, CarriedIsInsured
  <2> QED
    BY <1>1, <2>8, EndsInsured DEF w
<1>10. CASE m.type = "dirty"
  <2> DEFINE p == m.path
             dirty == m.dirty
             u == SetDirty(s, p, dirty)
  <2>1. pane' = OnDirtyChanged(s, p, dirty) /\ dirty \in BOOLEAN
    BY <1>1, <1>4, <1>10
  <2>2. /\ Like(s, u) /\ u.snapshots = s.snapshots /\ Deciding(u, Alone)
        /\ dirty /\ IsOpen(s, p) => IsDirty(u, p)
        /\ \A x : x # p => (IsDirty(u, x) <=> IsDirty(s, x))
    BY <1>5, <2>1, SetDirtyDecides, SetDirtyHandles
  <2>3. \A x, b : (Tells(m, x, b) <=> x = p /\ b = dirty) /\ ~IsSnapshot(m, x)
    BY <1>10 DEF Tells, IsSnapshot
  <2>4. CASE ~IsOpen(s, p)
    <3>1. pane' = s /\ Handles(s, s, {})
      BY <1>5, <2>1, <2>4, StillHandles DEF OnDirtyChanged
    <3>2. \A x \in Paths : IsOpen(pane, x) => Delivers(pane, s, Stakes, w, x)
      BY <1>3, <1>6, <1>7, <1>8, <2>3, <2>4 DEF Delivers
    <3> QED
      BY <1>5, <1>6, <1>7, <3>1, <3>2
  <2>5. CASE IsOpen(s, p)
    <3> DEFINE shots == [u.snapshots EXCEPT ![p] = IF dirty THEN @ ELSE 0]
    <3>1. pane' = [u EXCEPT !.snapshots = shots]
      BY <2>1, <2>5 DEF OnDirtyChanged
    <3> HIDE DEF u
    <3>2. u \in PaneType /\ u.snapshots \in [Paths -> Past] /\ 0 \in Past
      BY <1>2, <2>2, ZeroIsText DEF Deciding, Linked, Typed, PaneType
    <3>3. /\ shots \in [Paths -> Past] /\ shots[p] = IF dirty THEN pane.snapshots[p] ELSE 0
          /\ \A x \in Paths : x # p => shots[x] = pane.snapshots[x]
      BY <1>4, <1>6, <2>2, <3>2
    <3> HIDE DEF shots
    <3>4. /\ pane' \in PaneType /\ pane'.tabs = u.tabs /\ pane'.snapshots = shots /\ pane'.posts = u.posts
          /\ pane'.toPage = u.toPage /\ pane'.replies = u.replies /\ pane'.life = u.life
      BY <3>1, <3>2, <3>3 DEF PaneType
    <3>5. \A x : (IsOpen(pane', x) <=> IsOpen(u, x)) /\ (IsDirty(pane', x) <=> IsDirty(u, x))
      BY <3>4 DEF IsOpen, IsDirty, IndexOf
    <3>6. ASSUME NEW x \in Paths
          PROVE  Delivers(pane, pane', Stakes, w, x)
      <4>1. CASE x = p
        BY <1>3, <1>7, <1>8, <2>1, <2>2, <2>3, <2>5, <3>3, <3>4, <3>5, <4>1 DEF Delivers
      <4>2. CASE x # p
        BY <1>3, <1>7, <1>8, <2>2, <2>3, <3>3, <3>4, <3>5, <4>2 DEF Delivers
      <4> QED
        BY <4>1, <4>2
    <3>7. Handles(pane', pane', {})
      BY <3>4, StillHandles
    <3>8. \A x : IsOpen(pane', x) <=> IsOpen(pane, x)
      BY <1>7, <2>2, <3>5 DEF Like
    <3> QED
      BY <1>6, <2>2, <3>4, <3>6, <3>7, <3>8 DEF Like
  <2> QED
    BY <2>4, <2>5
<1>11. CASE m.type = "snapshot"
  <2> DEFINE shots == [s.snapshots EXCEPT ![m.path] = m.text]
  <2>1. pane' = [s EXCEPT !.snapshots = shots]
    BY <1>1, <1>11
  <2>2. m.text \in Past /\ s.snapshots \in [Paths -> Past]
    BY <1>3, <1>5, <1>11, MessageFields DEF PaneType
  <2>3. /\ shots \in [Paths -> Past] /\ shots[m.path] = m.text
        /\ \A x \in Paths : x # m.path => shots[x] = pane.snapshots[x]
    BY <1>4, <1>6, <2>2
  <2> HIDE DEF shots
  <2>4. /\ pane' \in PaneType /\ pane'.tabs = s.tabs /\ pane'.snapshots = shots /\ pane'.posts = s.posts
        /\ pane'.toPage = s.toPage /\ pane'.replies = s.replies /\ pane'.life = s.life
    BY <1>5, <2>1, <2>3 DEF PaneType
  <2>5. \A x : (IsOpen(pane', x) <=> IsOpen(s, x)) /\ (IsDirty(pane', x) <=> IsDirty(s, x))
    BY <2>4 DEF IsOpen, IsDirty, IndexOf
  <2>6. \A x, b : ~Tells(m, x, b) /\ (IsSnapshot(m, x) <=> x = m.path)
    BY <1>11 DEF Tells, IsSnapshot
  <2>7. \A x \in Paths : Delivers(pane, pane', Stakes, w, x)
    BY <1>3, <1>7, <1>8, <2>3, <2>4, <2>5, <2>6 DEF Delivers
  <2>8. Handles(pane', pane', {})
    BY <2>4, StillHandles
  <2> QED
    BY <1>6, <1>7, <2>4, <2>5, <2>7, <2>8
<1>12. CASE m.type = "save"
  <2>1. pane' = IF IsOpen(s, m.path) THEN Save(s, m.path, "save", m.path, <<>>) ELSE s
    BY <1>1, <1>12
  <2>2. Handles(s, s, {}) /\ Handles(s, Save(s, m.path, "save", m.path, <<>>), {})
    BY <1>4, <1>5, StillHandles, AskHandles DEF Save, Deciding, Linked
  <2>3. \A x, b : ~Tells(m, x, b) /\ ~IsSnapshot(m, x)
    BY <1>12 DEF Tells, IsSnapshot
  <2>4. \A x \in Paths : Delivers(pane, s, Stakes, w, x)
    BY <1>3, <1>6, <1>7, <1>8, <2>3 DEF Delivers
  <2>5. Handles(s, pane', {})
    BY <2>1, <2>2
  <2> QED
    BY <1>5, <1>6, <1>7, <2>4, <2>5
<1> QED
  BY <1>4, <1>10, <1>11, <1>12

-----------------------------------------------------------------------------
(* The page is back.                                                           *)

Replay(s) == LET steps == InOrder(Restores(s)) IN [k \in DOMAIN steps |-> Restoring(s, steps[k])]

\* An unsaved edit is restored right after its file is opened, and once.
LEMMA ReplayRestores ==
    ASSUME NEW s, s \in PaneType, TabsDiffer(s), FilesTyped
    PROVE  LET b == Replay(s)
               Lost(p) == IsDirty(s, p) /\ s.snapshots[p] # 0
           IN /\ b \in Seq(Command) /\ DOMAIN b = 1..Len(b)
              /\ \A k \in DOMAIN b : b[k].op \in {"open", "restore"}
              /\ \A p : Lost(p) => \E k \in DOMAIN b : Is(b[k], "restore", p) /\ b[k].text = s.snapshots[p]
              /\ \A k \in DOMAIN b : \A p : Is(b[k], "restore", p) =>
                    /\ Lost(p) /\ b[k].text = s.snapshots[p]
                    /\ k - 1 \in DOMAIN b /\ Is(b[k - 1], "open", p)
                    /\ \A j \in DOMAIN b : Is(b[j], "restore", p) => j = k
<1> DEFINE I == Restores(s)
           steps == InOrder(I)
           b == Replay(s)
           Lost(p) == IsDirty(s, p) /\ s.snapshots[p] # 0
           D == DOMAIN s.tabs
<1>1. s.tabs \in Seq(Tab) /\ D \subseteq Nat /\ s.snapshots \in [Paths -> Past]
  BY DEF PaneType
<1>2. /\ I \subseteq Nat /\ IsFiniteSet(I)
      /\ \A i \in D : 2 * i \in I
      /\ \A n \in I : \E i \in D :
            n = 2 * i \/ (n = 2 * i + 1 /\ s.tabs[i].dirty /\ s.snapshots[s.tabs[i].path] # 0)
      /\ \A i \in D : s.tabs[i].dirty /\ s.snapshots[s.tabs[i].path] # 0 => 2 * i + 1 \in I
  BY RestoresAre
<1> HIDE DEF I
<1>3. /\ steps \in Seq(I) /\ DOMAIN steps = 1..Len(steps) /\ Len(steps) \in Nat
      /\ \A i \in I : \E k \in DOMAIN steps : steps[k] = i
      /\ \A k, l \in DOMAIN steps : steps[k] = steps[l] => k = l
      /\ \A k, l \in DOMAIN steps : k < l => steps[k] < steps[l]
  BY ZenonT(30), <1>2, InOrderHasAll
<1>4. DOMAIN b = DOMAIN steps /\ \A k \in DOMAIN steps : b[k] = Restoring(s, steps[k])
  BY DEF Replay, I
<1> HIDE DEF steps, b
<1>5. ASSUME NEW i \in D
      PROVE  LET p == s.tabs[i].path
             IN /\ p \in Paths /\ disk[p].text \in Past /\ s.snapshots[p] \in Past
                /\ \A q : p = q => (IsDirty(s, q) <=> s.tabs[i].dirty)
  <2>1. s.tabs[i] \in Tab
    BY <1>1
  <2>2. s.tabs[i].path \in Paths
    BY <2>1 DEF Tab
  <2>3. disk[s.tabs[i].path].text \in Past /\ s.snapshots[s.tabs[i].path] \in Past
    BY <1>1, <2>2 DEF FilesTyped, File
  <2>4. IsDirty(s, s.tabs[i].path) <=> s.tabs[i].dirty
    BY FlagOf DEF TabsDiffer
  <2> QED
    BY <2>2, <2>3, <2>4
<1>6. ASSUME NEW k \in DOMAIN b, NEW i \in D, steps[k] = 2 * i
      PROVE  b[k] \in Command /\ Is(b[k], "open", s.tabs[i].path)
  <2>1. steps[k] % 2 = 0 /\ steps[k] \div 2 = i
    BY <1>1, <1>6, StepOf
  <2> DEFINE p == s.tabs[i].path
  <2>2. b[k] = [op |-> "open", path |-> p, text |-> disk[p].text]
    BY <1>4, <2>1 DEF Restoring
  <2>3. p \in Paths /\ disk[p].text \in Past
    BY <1>5
  <2> HIDE DEF p
  <2>4. b[k] \in Command /\ b[k].op = "open" /\ b[k].path = p
    BY <2>2, <2>3, Commands
  <2> QED
    BY <2>4 DEF Is, p
<1>7. ASSUME NEW k \in DOMAIN b, NEW i \in D, steps[k] = 2 * i + 1
      PROVE  b[k] \in Command /\ Is(b[k], "restore", s.tabs[i].path) /\ b[k].text = s.snapshots[s.tabs[i].path]
  <2>1. steps[k] % 2 = 1 /\ steps[k] \div 2 = i
    BY <1>1, <1>7, StepOf
  <2> DEFINE p == s.tabs[i].path
  <2>2. b[k] = [op |-> "restore", path |-> p, text |-> s.snapshots[p]]
    BY <1>4, <2>1 DEF Restoring
  <2>3. p \in Paths /\ s.snapshots[p] \in Past
    BY <1>5
  <2> HIDE DEF p
  <2>4. b[k] \in Command /\ b[k].op = "restore" /\ b[k].path = p /\ b[k].text = s.snapshots[p]
    BY <2>2, <2>3, Commands
  <2> QED
    BY <2>4 DEF Is, p
<1>8. ASSUME NEW k \in DOMAIN b
      PROVE  b[k] \in Command /\ b[k].op \in {"open", "restore"}
  <2>1. steps[k] \in I
    BY <1>3, <1>4
  <2>2. PICK i \in D : steps[k] = 2 * i \/ steps[k] = 2 * i + 1
    BY <1>2, <2>1
  <2> QED
    BY <1>6, <1>7, <2>2 DEF Is
<1>9. b \in Seq(Command) /\ DOMAIN b = 1..Len(b)
  <2>1. Len(steps) \in Nat /\ DOMAIN b = 1..Len(steps)
    BY <1>3, <1>4
  <2>2. b = [k \in DOMAIN b |-> b[k]]
    BY DEF b, Replay
  <2>3. b \in [1..Len(steps) -> Command]
    BY <1>8, <2>1, <2>2
  <2> QED
    BY <2>1, <2>3
<1>10. ASSUME NEW p, Lost(p)
       PROVE  \E k \in DOMAIN b : Is(b[k], "restore", p) /\ b[k].text = s.snapshots[p]
  <2>1. PICK i \in D : s.tabs[i].path = p /\ s.tabs[i].dirty
    BY <1>10, FlagOf
  <2>2. 2 * i + 1 \in I
    BY <1>2, <1>10, <2>1
  <2>3. PICK k \in DOMAIN steps : steps[k] = 2 * i + 1
    BY <1>3, <2>2
  <2> QED
    BY <1>4, <1>7, <2>1, <2>3
<1>11. ASSUME NEW k \in DOMAIN b, NEW p, Is(b[k], "restore", p)
       PROVE  \E i \in D : s.tabs[i].path = p /\ steps[k] = 2 * i + 1 /\ Lost(p) /\ b[k].text = s.snapshots[p]
  <2>1. steps[k] \in I
    BY <1>3, <1>4
  <2>2. PICK i \in D : \/ steps[k] = 2 * i
                       \/ steps[k] = 2 * i + 1 /\ s.tabs[i].dirty /\ s.snapshots[s.tabs[i].path] # 0
    BY <1>2, <2>1
  <2>3. steps[k] # 2 * i
    BY <1>6, <1>11 DEF Is
  <2>4. Is(b[k], "restore", s.tabs[i].path) /\ b[k].text = s.snapshots[s.tabs[i].path]
    BY <1>7, <2>2, <2>3
  <2>5. s.tabs[i].path = p
    BY <1>11, <2>4 DEF Is
  <2>6. IsDirty(s, p)
    BY <1>5, <2>2, <2>3, <2>5
  <2> QED
    BY <2>2, <2>3, <2>4, <2>5, <2>6
<1>12. ASSUME NEW k \in DOMAIN b, NEW p, Is(b[k], "restore", p)
       PROVE  k - 1 \in DOMAIN b /\ Is(b[k - 1], "open", p)
  <2>1. PICK i \in D : s.tabs[i].path = p /\ steps[k] = 2 * i + 1
    BY <1>11, <1>12
  <2>2. PICK l \in DOMAIN steps : steps[l] = 2 * i
    BY <1>2, <1>3
  <2>3. k \in Nat /\ l \in Nat /\ k \in DOMAIN steps /\ i \in Nat /\ 1 <= l
    BY <1>1, <1>3, <1>4
  <2>4. k # l
    BY <2>1, <2>2, <2>3
  <2>5. ~(k < l)
    <3>1. ~(steps[k] < steps[l])
      BY <2>1, <2>2, <2>3
    <3> QED
      BY <1>3, <2>2, <2>3, <3>1
  <2>6. ASSUME l < k - 1
        PROVE  FALSE
    <3>1. k - 1 \in DOMAIN steps /\ k - 1 < k
      BY <1>3, <2>3, <2>6
    <3>2. steps[l] < steps[k - 1] /\ steps[k - 1] < steps[k]
      BY <1>3, <2>2, <2>3, <2>6, <3>1
    <3>3. \A h \in DOMAIN steps : steps[h] \in I
      BY <1>3
    <3>4. steps[k - 1] \in Nat
      BY <1>2, <3>1, <3>3
    <3> QED
      BY <2>1, <2>2, <2>3, <3>2, <3>4
  <2>7. l = k - 1
    BY <2>3, <2>4, <2>5, <2>6
  <2> QED
    BY <1>4, <1>6, <2>1, <2>2, <2>7
<1>13. ASSUME NEW k \in DOMAIN b, NEW j \in DOMAIN b, NEW p, Is(b[k], "restore", p), Is(b[j], "restore", p)
       PROVE  j = k
  <2>1. PICK i \in D : s.tabs[i].path = p /\ steps[k] = 2 * i + 1
    BY <1>11, <1>13
  <2>2. PICK h \in D : s.tabs[h].path = p /\ steps[j] = 2 * h + 1
    BY <1>11, <1>13
  <2>3. i = h
    BY <2>1, <2>2 DEF TabsDiffer
  <2> QED
    BY <1>3, <1>4, <2>1, <2>2, <2>3
<1>14. \A k \in DOMAIN b : \A p : Is(b[k], "restore", p) =>
           /\ Lost(p) /\ b[k].text = s.snapshots[p]
           /\ k - 1 \in DOMAIN b /\ Is(b[k - 1], "open", p)
           /\ \A j \in DOMAIN b : Is(b[j], "restore", p) => j = k
  BY <1>11, <1>12, <1>13
<1> QED
  BY <1>8, <1>9, <1>10, <1>14 DEF b

\* What a page that is ready is sent.
Restorable(s, p) == IsDirty(s, p) /\ s.snapshots[p] # 0
LEMMA PageReplays ==
    ASSUME IInv, PageReady
    PROVE  /\ pane'.tabs = pane.tabs /\ pane'.waiting = pane.waiting /\ pane'.quit = pane.quit
           /\ pane'.posts = <<>> /\ pane'.replies = <<>>
           /\ pane'.life = "up" /\ pane'.snapshots = pane.snapshots
           /\ \A x \in Paths : page[x] = NoModel
           /\ \A i \in DOMAIN pane.toPage : pane.toPage[i].op \in {"open", "set", "close"}
           /\ \E b \in Seq(Command) :
                 /\ pane'.toPage = pane.toPage \o b /\ DOMAIN b = 1..Len(b)
                 /\ \A k \in DOMAIN b : b[k].op \in {"open", "restore"}
                 /\ \A k \in DOMAIN b : \A p : Is(b[k], "restore", p) =>
                       /\ Restorable(pane, p) /\ b[k].text = pane.snapshots[p]
                       /\ k - 1 \in DOMAIN b /\ Is(b[k - 1], "open", p)
                       /\ \A j \in DOMAIN b : Is(b[j], "restore", p) => j = k
                 /\ pane.needsModelRestore => \A p : Restorable(pane, p) =>
                       \E k \in DOMAIN b : Is(b[k], "restore", p) /\ b[k].text = pane.snapshots[p]
<1> DEFINE s == [pane EXCEPT !.life = "up", !.needsModelRestore = FALSE]
           b == IF pane.needsModelRestore THEN Replay(pane) ELSE <<>>
           r == pane.toPage \o b
<1>1. /\ pane.life = "loading"
      /\ pane' = IF pane.needsModelRestore THEN Restored(s) ELSE s
  BY DEF PageReady
<1>2. pane \in PaneType /\ FilesTyped /\ TabsDiffer(pane) /\ pane.toPage \in Seq(Command)
  BY DEF IInv, Linked, Typed, PaneType
<1>3. /\ pane.replies = <<>> /\ pane.posts = <<>> /\ \A x \in Paths : page[x] = NoModel
      /\ \A i \in DOMAIN pane.toPage : pane.toPage[i].op \in {"open", "set", "close"}
  BY <1>1 DEF IInv, Linked, DownIsEmpty, Down, Now
<1>4. /\ s.tabs = pane.tabs /\ s.toPage = pane.toPage /\ s.posts = pane.posts
      /\ s.waiting = pane.waiting /\ s.quit = pane.quit
      /\ s.replies = pane.replies /\ s.life = "up" /\ s.snapshots = pane.snapshots /\ s \in PaneType
  BY <1>2 DEF PaneType
<1> HIDE DEF s
<1>5. Replay(s) = Replay(pane)
  BY <1>4 DEF Replay, Restoring, Restores, DirtyTabs
<1>6. /\ b \in Seq(Command) /\ DOMAIN b = 1..Len(b)
      /\ \A k \in DOMAIN b : b[k].op \in {"open", "restore"}
      /\ \A k \in DOMAIN b : \A p : Is(b[k], "restore", p) =>
            /\ Restorable(pane, p) /\ b[k].text = pane.snapshots[p]
            /\ k - 1 \in DOMAIN b /\ Is(b[k - 1], "open", p)
            /\ \A j \in DOMAIN b : Is(b[j], "restore", p) => j = k
      /\ pane.needsModelRestore => \A p : Restorable(pane, p) =>
            \E k \in DOMAIN b : Is(b[k], "restore", p) /\ b[k].text = pane.snapshots[p]
  <2>1. CASE pane.needsModelRestore
    BY <1>2, <2>1, ReplayRestores DEF Restorable
  <2>2. CASE ~pane.needsModelRestore
    BY <2>2
  <2> QED
    BY <2>1, <2>2
<1>7. /\ pane'.tabs = pane.tabs /\ pane'.toPage = r /\ pane'.posts = <<>> /\ pane'.replies = <<>>
      /\ pane'.waiting = pane.waiting /\ pane'.quit = pane.quit
      /\ pane'.life = "up" /\ pane'.snapshots = pane.snapshots
  <2>1. CASE pane.needsModelRestore
    <3>1. pane' = [s EXCEPT !.toPage = r]
      BY <1>1, <1>4, <1>5, <2>1 DEF Restored, SendAll, Replay
    <3> HIDE DEF r
    <3> QED
      BY <1>3, <1>4, <3>1 DEF PaneType
  <2>2. CASE ~pane.needsModelRestore
    <3>1. pane' = s
      BY <1>1, <2>2
    <3>2. r = pane.toPage
      BY <1>2, <2>2
    <3> QED
      BY <1>3, <1>4, <3>1, <3>2
  <2> QED
    BY <2>1, <2>2
<1> HIDE DEF b
<1> QED
  BY <1>3, <1>6, <1>7

\* PageReady
LEMMA PageReadyInsures ==
    ASSUME IInv, EditsInsured, PageReady
    PROVE  EditsInsured'
<1> DEFINE v == Stakes
           w == AfterStep
<1>1. pane.life = "loading" /\ page' = page /\ disk' = disk /\ Watch
  BY DEF PageReady
<1>2. pane \in PaneType /\ pane.toPage \in Seq(Command) /\ pane.snapshots \in [Paths -> Past]
  BY DEF IInv, Linked, Typed, PaneType
<1>3. /\ \A x \in Paths : page[x] = NoModel
      /\ \A i \in DOMAIN pane.toPage : pane.toPage[i].op \in {"open", "set", "close"}
  BY PageReplays
<1>6. PICK b \in Seq(Command) :
      /\ pane'.toPage = pane.toPage \o b /\ DOMAIN b = 1..Len(b)
      /\ \A k \in DOMAIN b : b[k].op \in {"open", "restore"}
      /\ \A k \in DOMAIN b : \A p : Is(b[k], "restore", p) =>
            /\ Restorable(pane, p) /\ b[k].text = pane.snapshots[p]
            /\ k - 1 \in DOMAIN b /\ Is(b[k - 1], "open", p)
            /\ \A j \in DOMAIN b : Is(b[j], "restore", p) => j = k
      /\ pane.needsModelRestore => \A p : Restorable(pane, p) =>
            \E k \in DOMAIN b : Is(b[k], "restore", p) /\ b[k].text = pane.snapshots[p]
  BY PageReplays
<1> DEFINE r == pane.toPage \o b
<1>7. /\ pane'.tabs = pane.tabs /\ pane'.toPage = r /\ pane'.posts = <<>> /\ pane'.replies = <<>>
      /\ pane'.life = "up" /\ pane'.snapshots = pane.snapshots
  BY <1>6, PageReplays
<1>8. \A x : (IsOpen(pane', x) <=> IsOpen(pane, x)) /\ (IsDirty(pane', x) <=> IsDirty(pane, x))
  BY <1>7 DEF IsOpen, IsDirty, IndexOf
<1>9. /\ v.page = page /\ v.stake = ghost.atStake /\ v.gone = ghost.misread
      /\ w.page = page' /\ w.stake = ghost'.atStake
  BY DEF Stakes, AfterStep
<1>10. \A x \in Paths : /\ w.page[x] = NoModel /\ w.page[x].first = 0 /\ w.page[x].timer = FALSE
                        /\ ~Dirty(w.page[x])
  BY <1>1, <1>3, <1>9 DEF NoModel, Dirty
<1>11. \A x \in Paths : w.stake[x] = IF ~IsOpen(pane', x) THEN 0 ELSE v.stake[x]
  BY <1>1, <1>7, <1>9, StakeOf
<1>12. Insuring(pane, v)
  BY DEF EditsInsured
<1> HIDE DEF v, w
<1>13. LET q == pane.toPage
       IN /\ Len(r) = Len(q) + Len(b) /\ Len(q) \in Nat /\ Len(b) \in Nat
          /\ DOMAIN r = 1..Len(r) /\ DOMAIN q = 1..Len(q)
          /\ \A i \in 1..Len(q) : r[i] = q[i]
          /\ \A k \in 1..Len(b) : r[Len(q) + k] = b[k]
          /\ \A i \in 1..Len(r) : i \in 1..Len(q) \/ \E k \in 1..Len(b) : i = Len(q) + k
  BY <1>2, <1>6, BatchQueue
<1> DEFINE n == Len(pane.toPage)
<1>14. /\ Len(r) = n + Len(b) /\ n \in Nat /\ Len(b) \in Nat /\ DOMAIN r = 1..Len(r)
       /\ \A i \in 1..n : r[i] = pane.toPage[i] /\ i \in DOMAIN pane.toPage
       /\ \A k \in 1..Len(b) : r[n + k] = b[k]
       /\ \A i \in 1..Len(r) : i \in 1..n \/ \E k \in 1..Len(b) : i = n + k
  BY <1>13
<1> HIDE DEF r, n
<1>15. \A i \in 1..n : r[i].op \in {"open", "set", "close"}
  BY <1>3, <1>14
<1>16. ASSUME NEW i \in DOMAIN r, NEW p, Is(r[i], "restore", p)
       PROVE  \E k \in DOMAIN b : i = n + k /\ Is(b[k], "restore", p) /\ r[i] = b[k]
  <2>1. i \notin 1..n
    BY <1>15, <1>16 DEF Is
  <2>2. PICK k \in 1..Len(b) : i = n + k
    BY <1>14, <1>16, <2>1
  <2> QED
    BY <1>6, <1>14, <1>16, <2>2
<1>17. RestoresCome(pane', w)
  <2> SUFFICES ASSUME NEW i \in DOMAIN r, r[i].op = "restore"
               PROVE  /\ r[i].text # 0
                      /\ \A j \in 1..(i - 1) : /\ r[j].op \in {"open", "set", "close", "restore"}
                                               /\ ~Is(r[j], "restore", r[i].path)
                      /\ IF i = 1 THEN w.page[r[i].path] # NoModel ELSE Is(r[i - 1], "open", r[i].path)
    BY <1>7 DEF RestoresCome
  <2> DEFINE p == r[i].path
  <2>1. PICK k \in DOMAIN b : i = n + k /\ Is(b[k], "restore", p) /\ r[i] = b[k]
    BY <1>16 DEF Is
  <2>2. Restorable(pane, p) /\ b[k].text = pane.snapshots[p] /\ k - 1 \in DOMAIN b /\ Is(b[k - 1], "open", p)
    BY <1>6, <2>1
  <2>3. k \in Nat /\ k - 1 \in 1..Len(b) /\ i - 1 = n + (k - 1) /\ i # 1
    <3>1. k \in 1..Len(b) /\ k - 1 \in 1..Len(b) /\ n \in Nat /\ Len(b) \in Nat /\ i = n + k
      BY <1>6, <1>14, <2>1, <2>2
    <3> QED
      BY <3>1
  <2>4. r[i - 1] = b[k - 1]
    BY <1>14, <2>3
  <2>5. ASSUME NEW j \in 1..(i - 1)
        PROVE  r[j].op \in {"open", "set", "close", "restore"} /\ ~Is(r[j], "restore", p)
    <3>1. j \in 1..Len(r) /\ j # i
      BY <1>14, <2>1, <2>3
    <3>2. CASE j \in 1..n
      BY <1>15, <3>2 DEF Is
    <3>3. CASE j \notin 1..n
      <4>1. PICK h \in 1..Len(b) : j = n + h
        BY <1>14, <3>1, <3>3
      <4>2. r[j] = b[h] /\ h # k /\ h \in DOMAIN b
        BY <1>6, <1>14, <2>1, <3>1, <4>1
      <4> QED
        BY <1>6, <2>1, <4>2
    <3> QED
      BY <3>2, <3>3
  <2>6. r[i].text # 0
    BY <2>1, <2>2 DEF Restorable
  <2> QED
    BY <2>2, <2>3, <2>4, <2>5, <2>6
<1>18. ASSUME NEW p, NEW k \in DOMAIN b, Is(b[k], "restore", p)
       PROVE  Restoration(pane', p, n + k) /\ NoClose(r, p, (n + k) + 1, Len(r)) /\ r[n + k] = b[k]
  <2>1. k \in 1..Len(b) /\ r[n + k] = b[k] /\ n + k \in DOMAIN r
    BY <1>6, <1>14
  <2>2. ASSUME NEW j \in ((n + k) + 1)..Len(r)
        PROVE  ~Is(r[j], "close", p)
    <3>0. n \in Nat /\ Len(r) \in Nat /\ k \in Nat
      BY <1>14, <2>1
    <3>1. j \in 1..Len(r) /\ j \notin 1..n
      BY <2>1, <3>0
    <3>2. PICK h \in 1..Len(b) : j = n + h
      BY <1>14, <3>1
    <3>3. r[j] = b[h] /\ h \in DOMAIN b
      BY <1>6, <1>14, <3>2
    <3>4. b[h].op # "close"
      BY <1>6, <3>3
    <3> QED
      BY <3>3, <3>4 DEF Is
  <2> QED
    BY <1>7, <1>18, <2>1, <2>2 DEF Restoration, NoClose
<1>19. ~Down(pane') /\ Down(pane)
  BY <1>1, <1>7 DEF Down
<1>20. ASSUME NEW x \in Paths
       PROVE  Guarded(pane', w, x)
  <2>1. Guarded(pane, v, x) /\ v.stake[x] \in Nat
    BY <1>12 DEF Insuring, Guarded
  <2>2. ASSUME Least(pane', w, x) # 0
        PROVE  IsDirty(pane', x)
    <3>1. Refills(pane', x, Nat \ {0})
      BY <1>10, <1>19, <2>2 DEF Least
    <3>2. PICK i \in DOMAIN r : Is(r[i], "restore", x)
      BY <1>7, <3>1 DEF Refills, Restoration
    <3>3. Restorable(pane, x)
      BY <1>6, <1>16, <3>2
    <3> QED
      BY <1>8, <3>3 DEF Restorable
  <2>3. Least(pane', w, x) # 0 => Flagged(pane', w, x)
    BY <1>7, <1>10, <2>2 DEF Flagged
  <2>4. ASSUME w.stake[x] # 0
        PROVE  IsOpen(pane', x) /\ Refills(pane', x, {w.stake[x]})
    <3>1. w.stake[x] = v.stake[x] /\ IsOpen(pane', x)
      BY <1>11, <2>4
    <3>2. IsDirty(pane, x) /\ pane.snapshots[x] = v.stake[x] /\ pane.needsModelRestore
      BY <1>1, <2>1, <2>4, <3>1 DEF Guarded, Kept
    <3>3. Restorable(pane, x)
      BY <2>4, <3>1, <3>2 DEF Restorable
    <3>4. PICK k \in DOMAIN b : Is(b[k], "restore", x) /\ b[k].text = pane.snapshots[x]
      BY <1>6, <3>2, <3>3
    <3>5. Restoration(pane', x, n + k) /\ NoClose(r, x, (n + k) + 1, Len(r)) /\ r[n + k] = b[k]
      BY <1>18, <3>4
    <3> QED
      BY <1>7, <3>1, <3>2, <3>4, <3>5 DEF Refills, Restoration
  <2>5. Kept(pane', w, x)
    BY <1>7, <2>4 DEF Kept, Returns
  <2>6. w.stake[x] \in Nat
    BY <1>11, <2>1
  <2> QED
    BY <1>10, <2>3, <2>5, <2>6 DEF Guarded
<1>21. Insuring(pane', w)
  BY <1>17, <1>20 DEF Insuring
<1> QED
  BY <1>1, <1>21, EndsInsured DEF w

-----------------------------------------------------------------------------
(* The page runs its first command.                                            *)

\* What the first command leaves of what is on its way.
LEMMA FirstOfQueue ==
    ASSUME NEW s, NEW t, s.toPage \in Seq(Command), s.toPage # <<>>, t.toPage = Tail(s.toPage), NEW p
    PROVE  LET c == s.toPage[1]
           IN /\ \A texts : Refills(s, p, texts) <=>
                     Refills(t, p, texts) \/ (Is(c, "restore", p) /\ c.text \in texts /\ ~Closes(t, p))
              /\ ToRefill(s, p) <=> ToRefill(t, p) \/ Is(c, "restore", p)
              /\ Closes(s, p) <=> Closes(t, p) \/ Is(c, "close", p)
<1> DEFINE q == s.toPage
           r == t.toPage
           c == q[1]
           l == Len(r)
<1>1. /\ Len(q) \in Nat /\ 1 <= Len(q) /\ r \in Seq(Command) /\ l = Len(q) - 1 /\ 1 \in DOMAIN q
      /\ \A i \in DOMAIN r : i \in Nat /\ i + 1 \in DOMAIN q /\ r[i] = q[i + 1]
      /\ \A a, b : a \in Nat /\ b \in Nat /\ b <= l /\ 1 <= a =>
            (NoClose(r, p, a, b) <=> NoClose(q, p, a + 1, b + 1))
  BY TailOfQueue
<1>2. l \in Nat /\ l + 1 = Len(q) /\ DOMAIN r = 1..l /\ DOMAIN q = 1..Len(q)
  BY <1>1
<1> HIDE DEF q, r, l
<1>3. \A i \in DOMAIN q : i = 1 \/ (i - 1 \in DOMAIN r /\ (i - 1) + 1 = i)
  BY <1>1, <1>2
<1>4. \A a \in DOMAIN r : a \in Nat /\ a + 1 \in Nat /\ 1 <= a + 1 /\ a + 1 \in DOMAIN q
                          /\ (NoClose(r, p, a + 1, l) <=> NoClose(q, p, (a + 1) + 1, Len(q)))
  BY SMTT(30), <1>1, <1>2
<1>5. /\ NoClose(r, p, 1, l) <=> NoClose(q, p, 1 + 1, Len(q))
      /\ NoClose(q, p, 1, Len(q)) <=> ~Is(c, "close", p) /\ NoClose(q, p, 1 + 1, Len(q))
  <2>1. \A i \in 1..Len(q) : i = 1 \/ i \in (1 + 1)..Len(q)
    BY <1>1
  <2>2. \A i \in (1 + 1)..Len(q) : i \in 1..Len(q)
    BY <1>1
  <2>3. 1 \in 1..Len(q)
    BY <1>1
  <2>4. NoClose(q, p, 1, Len(q)) <=> ~Is(c, "close", p) /\ NoClose(q, p, 1 + 1, Len(q))
    BY <2>1, <2>2, <2>3 DEF NoClose
  <2>5. NoClose(r, p, 1, l) <=> NoClose(q, p, 1 + 1, Len(q))
    BY <1>1, <1>2
  <2> QED
    BY <2>4, <2>5
<1>6. Closes(s, p) <=> Closes(t, p) \/ Is(c, "close", p)
  BY <1>5 DEF Closes, q, r, l
<1>7. ASSUME NEW texts, Refills(s, p, texts)
      PROVE  Refills(t, p, texts) \/ (Is(c, "restore", p) /\ c.text \in texts /\ ~Closes(t, p))
  <2>1. PICK i \in DOMAIN q : Is(q[i], "restore", p) /\ q[i].text \in texts /\ NoClose(q, p, i + 1, Len(q))
    BY <1>7 DEF Refills, Restoration, q
  <2>2. CASE i = 1
    BY <1>5, <2>1, <2>2 DEF Closes, r, l
  <2>3. CASE i # 1
    <3>1. i - 1 \in DOMAIN r /\ (i - 1) + 1 = i /\ r[i - 1] = q[i]
      BY <1>1, <1>3, <2>1, <2>3
    <3>2. NoClose(r, p, (i - 1) + 1, l)
      BY <1>4, <2>1, <3>1
    <3>3. Is(r[i - 1], "restore", p) /\ r[i - 1].text \in texts
      BY <2>1, <3>1
    <3> QED
      BY <3>1, <3>2, <3>3 DEF Refills, Restoration, r, l
  <2> QED
    BY <2>2, <2>3
<1>8. ASSUME NEW texts, Refills(t, p, texts)
      PROVE  Refills(s, p, texts)
  <2>1. PICK i \in DOMAIN r : Is(r[i], "restore", p) /\ r[i].text \in texts /\ NoClose(r, p, i + 1, l)
    BY <1>8 DEF Refills, Restoration, r, l
  <2>2. i + 1 \in DOMAIN q /\ r[i] = q[i + 1] /\ NoClose(q, p, (i + 1) + 1, Len(q))
    BY <1>1, <1>4, <2>1
  <2> QED
    BY <2>1, <2>2 DEF Refills, Restoration, q
<1>9. ASSUME NEW texts, Is(c, "restore", p), c.text \in texts, ~Closes(t, p)
      PROVE  Refills(s, p, texts)
  <2>1. NoClose(q, p, 1 + 1, Len(q))
    BY <1>5, <1>9 DEF Closes, r, l
  <2> QED
    BY <1>1, <1>9, <2>1 DEF Refills, Restoration, q
<1>10. ToRefill(s, p) <=> ToRefill(t, p) \/ Is(c, "restore", p)
  <2>1. ToRefill(s, p) <=> \E i \in DOMAIN q : Is(q[i], "restore", p)
    BY DEF ToRefill, Restoration, q
  <2>2. ToRefill(t, p) <=> \E i \in DOMAIN r : Is(r[i], "restore", p)
    BY DEF ToRefill, Restoration, r
  <2> QED
    BY <1>1, <1>3, <2>1, <2>2
<1> QED
  BY <1>6, <1>7, <1>8, <1>9, <1>10 DEF q

\* What a command makes of the unsaved edit in its buffer.
LEMMA ModelAfter ==
    ASSUME IInv, NEW c \in Command, page[c.path].first # 0 => Dirty(page[c.path])
    PROVE  LET m == page[c.path]
               n == PageModel(c)
           IN /\ n.first \in Nat
              /\ n.first # 0 => n.first = m.first \/ (c.op = "restore" /\ m # NoModel)
              /\ n.first # 0 => Dirty(n)
              /\ c.op = "open" => n # NoModel
              /\ c.op = "restore" /\ m # NoModel =>
                     Posts(c) /\ n.text = c.text /\ n.first = c.text /\ Dirty(n)
              /\ Posts(c) => c.op = "restore" \/ n.first = 0
              /\ Posts(c) /\ c.op # "restore" => c.op \in {"set", "mark"}
              /\ Posts(c) /\ c.op = "set" => ~n.timer
              /\ n.timer => m.timer \/ (c.op = "restore" /\ m # NoModel)
              /\ Dirty(m) /\ Dirty(n) /\ c.op # "restore" => n.text = m.text
              /\ c.op = "close" => ~Posts(c) /\ n.first = 0
<1> DEFINE p == c.path
           m == page[p]
           n == PageModel(c)
<1>1. /\ p \in Paths /\ c.op \in {"open", "restore", "set", "mark", "close", "content", "clean"}
      /\ c.op \in {"open", "restore", "set"} => c.text \in Nat
      /\ c.op = "mark" => c.version \in Nat
  <2>1. Past \subseteq Nat
    BY ZeroIsText DEF IInv
  <2> QED
    BY <2>1, CommandFields
<1>2. /\ m \in Model /\ m.first \in Nat
      /\ m.version \in Nat /\ m.saved \in Nat /\ m.saved <= m.version
  BY <1>1, ModelFields
<1>3. n = IF c.op = "open" THEN OpenModel(p, c.text)
          ELSE IF m = NoModel THEN NoModel
          ELSE CASE c.op = "set" -> SetContent(m, c.text)
                 [] c.op = "mark" -> MarkSaved(m, c.version)
                 [] c.op = "restore" -> RestoreUnsaved(m, c.text)
                 [] c.op = "close" -> CloseModel(m)
                 [] OTHER -> m
  BY DEF PageModel
<1>4. NoModel.first = 0 /\ ~Dirty(NoModel) /\ NoModel.timer = FALSE
  BY DEF NoModel, Dirty
<1>5. Posts(c) <=> m # NoModel /\ (c.op \in {"set", "restore"} \/ (c.op = "mark" /\ c.version = m.version))
  BY DEF Posts
<1>6. m.first # 0 => Dirty(m)
  OBVIOUS
<1> HIDE DEF n, m, p
<1>7. CASE c.op = "open" /\ m = NoModel
  <2>1. n = [NoModel EXCEPT !.text = c.text, !.base = c.text, !.version = 1, !.saved = 1]
    BY <1>3, <1>7 DEF OpenModel, m
  <2>2. n.first = 0 /\ n.timer = FALSE /\ n.version = 1
    BY <2>1 DEF NoModel
  <2>3. n # NoModel
    BY <2>2 DEF NoModel
  <2> QED
    BY <1>4, <1>5, <1>7, <2>2, <2>3 DEF m, n, p
<1>8. CASE m # NoModel /\ c.op \in {"open", "content", "clean"}
  <2>1. n = m
    BY <1>3, <1>8 DEF OpenModel, m
  <2> QED
    BY <1>2, <1>5, <1>6, <1>8, <2>1 DEF m, n, p
<1>9. CASE m = NoModel /\ c.op # "open"
  <2>1. n = m
    BY <1>3, <1>9
  <2> QED
    BY <1>2, <1>4, <1>5, <1>9, <2>1 DEF m, n, p
<1>10. CASE m # NoModel /\ c.op = "set"
  <2>1. n = SetContent(m, c.text)
    BY <1>3, <1>10
  <2>2. n.first = 0 /\ n.timer = FALSE /\ n.version = m.version + 1 /\ n.saved = m.version + 1
    BY <1>2, <2>1 DEF SetContent, Model
  <2>3. ~Dirty(n)
    BY <2>2 DEF Dirty
  <2> QED
    BY <1>5, <1>10, <2>2, <2>3 DEF m, n, p
<1>11. CASE m # NoModel /\ c.op = "mark" /\ c.version = m.version
  <2>1. n = [m EXCEPT !.saved = c.version, !.base = m.text, !.first = 0]
    BY <1>3, <1>11 DEF MarkSaved
  <2>2. n.first = 0 /\ n.timer = m.timer /\ n.version = m.version /\ n.saved = m.version
    BY <1>2, <1>11, <2>1 DEF Model
  <2>3. ~Dirty(n)
    BY <2>2 DEF Dirty
  <2> QED
    BY <1>5, <1>11, <2>2, <2>3 DEF m, n, p
<1>12. CASE m # NoModel /\ c.op = "mark" /\ c.version # m.version
  <2>1. n = m
    BY <1>3, <1>12 DEF MarkSaved
  <2> QED
    BY <1>2, <1>5, <1>6, <1>12, <2>1 DEF m, n, p
<1>13. CASE m # NoModel /\ c.op = "restore"
  <2>1. n = [Changed(m, c.text) EXCEPT !.first = c.text]
    BY <1>3, <1>13 DEF RestoreUnsaved
  <2>2. /\ n.first = c.text /\ n.text = c.text /\ n.timer = TRUE
        /\ n.version = m.version + 1 /\ n.saved = m.saved
    BY <1>2, <2>1 DEF Changed, Model
  <2>3. Dirty(n)
    BY <1>2, <2>2 DEF Dirty
  <2> QED
    BY <1>1, <1>5, <1>13, <2>2, <2>3 DEF m, n, p
<1>14. CASE m # NoModel /\ c.op = "close"
  <2>1. n = NoModel
    BY <1>3, <1>14 DEF CloseModel
  <2> QED
    BY <1>4, <1>5, <1>14, <2>1 DEF m, n, p
<1> QED
  BY <1>1, <1>7, <1>8, <1>9, <1>10, <1>11, <1>12, <1>13, <1>14

\* What a command of the page does.
LEMMA RunsHead ==
    ASSUME IInv, NEW op \in {"open", "set", "mark", "restore", "close", "content", "clean"}, PageRuns(op)
    PROVE  LET q == pane.toPage
               c == Head(q)
           IN /\ q \in Seq(Command) /\ q # <<>> /\ pane.life = "up" /\ c.op = op
              /\ c \in Command /\ c = q[1] /\ 1 \in DOMAIN q /\ c.path \in Paths /\ Tail(q) \in Seq(Command)
              /\ pane'.tabs = pane.tabs /\ pane'.toPage = Tail(q) /\ pane'.waiting = pane.waiting
              /\ pane'.quit = pane.quit /\ pane'.life = "up" /\ pane'.snapshots = pane.snapshots
              /\ pane'.posts = IF Posts(c) THEN Append(pane.posts, DirtyChanged(c.path, PageModel(c))) ELSE pane.posts
              /\ op = "content" => pane'.replies = Append(pane.replies, GetContent(c))
              /\ op = "clean" => pane'.replies = Append(pane.replies, IsClean(c))
              /\ op \notin {"content", "clean"} => pane'.replies = pane.replies
              /\ page'[c.path] = PageModel(c) /\ \A x \in Paths : x # c.path => page'[x] = page[x]
<1> DEFINE c == Head(pane.toPage)
           s == [pane EXCEPT !.toPage = Tail(pane.toPage)]
           n == PageModel(c)
           note == DirtyChanged(c.path, n)
           q == pane.toPage
           r == Tail(q)
           posted == Posts(c)
<1>1. /\ pane.life = "up" /\ q # <<>> /\ c.op = op
      /\ page' = [page EXCEPT ![c.path] = n]
      /\ pane' = CASE op = "content" -> [s EXCEPT !.replies = Append(@, GetContent(c))]
                   [] op = "clean" -> [s EXCEPT !.replies = Append(@, IsClean(c))]
                   [] OTHER -> IF posted THEN Post(s, note) ELSE s
  BY DEF PageRuns
<1>2. pane \in PaneType /\ page \in [Paths -> Model] /\ q \in Seq(Command)
  <2>1. pane \in PaneType /\ page \in [Paths -> Model]
    BY DEF IInv, Linked, Typed, PageTyped
  <2> QED
    BY <2>1 DEF PaneType
<1>3. c \in Command /\ c = q[1] /\ 1 \in DOMAIN q /\ r \in Seq(Command)
  BY <1>1, <1>2, TailOfQueue
<1> HIDE DEF c
<1>4. c.path \in Paths
  BY <1>3, CommandFields
<1>5. s.tabs = pane.tabs /\ s.toPage = r /\ s.posts = pane.posts /\ s.replies = pane.replies
      /\ s.waiting = pane.waiting /\ s.quit = pane.quit
      /\ s.life = "up" /\ s.snapshots = pane.snapshots /\ s \in PaneType
  BY <1>1, <1>2, <1>3 DEF PaneType
<1> HIDE DEF s
<1>6. /\ pane'.tabs = pane.tabs /\ pane'.toPage = r /\ pane'.waiting = pane.waiting /\ pane'.quit = pane.quit
      /\ pane'.life = "up" /\ pane'.snapshots = pane.snapshots
      /\ pane'.posts = IF posted THEN Append(pane.posts, note) ELSE pane.posts
      /\ op = "content" => pane'.replies = Append(pane.replies, GetContent(c))
      /\ op = "clean" => pane'.replies = Append(pane.replies, IsClean(c))
      /\ op \notin {"content", "clean"} => pane'.replies = pane.replies
  <2>1. CASE op = "content"
    <3> DEFINE replies == Append(s.replies, GetContent(c))
    <3>1. pane' = [s EXCEPT !.replies = replies]
      BY <1>1, <2>1
    <3>2. ~posted
      BY <1>1, <2>1 DEF Posts
    <3> HIDE DEF posted, r, replies
    <3>3. /\ pane'.tabs = pane.tabs /\ pane'.toPage = r /\ pane'.waiting = pane.waiting /\ pane'.quit = pane.quit
          /\ pane'.life = "up" /\ pane'.snapshots = pane.snapshots /\ pane'.posts = pane.posts /\ pane'.replies = replies
      BY <1>5, <3>1 DEF PaneType
    <3> QED
      BY <1>5, <2>1, <3>2, <3>3 DEF replies
  <2>2. CASE op = "clean"
    <3> DEFINE replies == Append(s.replies, IsClean(c))
    <3>1. pane' = [s EXCEPT !.replies = replies]
      BY <1>1, <2>2
    <3>2. ~posted
      BY <1>1, <2>2 DEF Posts
    <3> HIDE DEF posted, r, replies
    <3>3. /\ pane'.tabs = pane.tabs /\ pane'.toPage = r /\ pane'.waiting = pane.waiting /\ pane'.quit = pane.quit
          /\ pane'.life = "up" /\ pane'.snapshots = pane.snapshots /\ pane'.posts = pane.posts /\ pane'.replies = replies
      BY <1>5, <3>1 DEF PaneType
    <3> QED
      BY <1>5, <2>2, <3>2, <3>3 DEF replies
  <2>3. CASE op \notin {"content", "clean"} /\ posted
    <3>1. pane' = [s EXCEPT !.posts = Append(s.posts, note)]
      BY <1>1, <2>3 DEF Post
    <3> HIDE DEF posted, r, note
    <3> QED
      BY <1>5, <2>3, <3>1 DEF PaneType
  <2>4. CASE op \notin {"content", "clean"} /\ ~posted
    <3>1. pane' = s
      BY <1>1, <2>4
    <3> QED
      BY <1>5, <2>4, <3>1
  <2> QED
    BY <2>1, <2>2, <2>3, <2>4
<1> HIDE DEF n, note, posted
<1>7. page'[c.path] = n /\ \A x \in Paths : x # c.path => page'[x] = page[x]
  BY <1>1, <1>2, <1>4
<1> HIDE DEF q, r
<1> QED
  BY <1>1, <1>2, <1>3, <1>4, <1>6, <1>7 DEF c, n, note, q, r, posted

\* PageRuns
LEMMA PageRunsInsures ==
    ASSUME IInv, EditsInsured, NEW op \in {"open", "set", "mark", "restore", "close", "content", "clean"},
           PageRuns(op)
    PROVE  EditsInsured'
<1> DEFINE c == Head(pane.toPage)
           p == c.path
           m == page[p]
           n == PageModel(c)
           note == DirtyChanged(p, n)
           q == pane.toPage
           r == Tail(q)
           v == Stakes
           w == AfterStep
           posted == Posts(c)
<1>1. pane.life = "up" /\ q # <<>> /\ c.op = op /\ Watch
  BY DEF PageRuns
<1>2. /\ pane \in PaneType /\ CountsTyped /\ pane.posts \in Seq(Message)
      /\ pane.snapshots \in [Paths -> Past] /\ q \in Seq(Command) /\ Past \subseteq Nat
  <2>1. pane \in PaneType /\ CountsTyped
    BY DEF IInv, Linked, Typed
  <2> QED
    BY <2>1, ZeroIsText DEF PaneType
<1>3. /\ c \in Command /\ c = q[1] /\ 1 \in DOMAIN q /\ r \in Seq(Command) /\ p \in Paths
      /\ page'[p] = n /\ \A x \in Paths : x # p => page'[x] = page[x]
  BY RunsHead
<1>6. /\ pane'.tabs = pane.tabs /\ pane'.toPage = r /\ pane'.life = "up" /\ pane'.snapshots = pane.snapshots
      /\ pane'.posts = IF posted THEN Append(pane.posts, note) ELSE pane.posts
      /\ op \notin {"content", "clean"} => pane'.replies = pane.replies
  BY RunsHead
<1> HIDE DEF c
<1>4. p \in Paths
  BY <1>3
<1>7. /\ v.page = page /\ v.stake = ghost.atStake /\ v.gone = ghost.misread
      /\ w.page = page' /\ w.stake = ghost'.atStake /\ w.gone = ghost.misread \cup {x \in Paths : Misread(x)}
  BY DEF Stakes, AfterStep
<1>8. Insuring(pane, v)
  BY DEF EditsInsured
<1> HIDE DEF v, w
<1>9. m.first # 0 => Dirty(m)
  BY <1>4, <1>7, <1>8 DEF Insuring, Guarded
<1>10. /\ n.first \in Nat
       /\ n.first # 0 => n.first = m.first \/ (c.op = "restore" /\ m # NoModel)
       /\ n.first # 0 => Dirty(n)
       /\ c.op = "open" => n # NoModel
       /\ c.op = "restore" /\ m # NoModel => posted /\ n.text = c.text /\ n.first = c.text /\ Dirty(n)
       /\ posted => c.op = "restore" \/ n.first = 0
       /\ posted /\ c.op # "restore" => c.op \in {"set", "mark"}
       /\ posted /\ c.op = "set" => ~n.timer
       /\ n.timer => m.timer \/ (c.op = "restore" /\ m # NoModel)
       /\ Dirty(m) /\ Dirty(n) /\ c.op # "restore" => n.text = m.text
       /\ c.op = "close" => ~posted /\ n.first = 0
  BY <1>3, <1>9, ModelAfter
<1>11. note \in Message /\ note.type = "dirty" /\ note.path = p /\ note.dirty = Dirty(n)
  BY <1>4 DEF DirtyChanged, Dirty, Message
<1>12. page'[p] = n /\ \A x \in Paths : x # p => page'[x] = page[x]
  BY <1>3
<1> HIDE DEF n, note, posted
<1>13. /\ ~Down(pane) /\ ~Down(pane')
       /\ \A x : (IsOpen(pane', x) <=> IsOpen(pane, x)) /\ (IsDirty(pane', x) <=> IsDirty(pane, x))
  <2>1. pane'.tabs = pane.tabs /\ pane'.life = "up" /\ pane.life = "up"
    BY <1>1, <1>6
  <2>2. ~Down(pane) /\ ~Down(pane')
    BY <2>1 DEF Down
  <2>3. \A x : (IsOpen(pane', x) <=> IsOpen(pane, x)) /\ (IsDirty(pane', x) <=> IsDirty(pane, x))
    BY <2>1 DEF IsOpen, IsDirty, IndexOf
  <2> QED
    BY <2>2, <2>3
<1>14. \A x : /\ \A texts : Refills(pane, x, texts) <=>
                    Refills(pane', x, texts) \/ (Is(c, "restore", x) /\ c.text \in texts /\ ~Closes(pane', x))
              /\ ToRefill(pane, x) <=> ToRefill(pane', x) \/ Is(c, "restore", x)
              /\ Closes(pane, x) <=> Closes(pane', x) \/ Is(c, "close", x)
  <2>1. pane.toPage \in Seq(Command) /\ pane.toPage # <<>> /\ pane'.toPage = Tail(pane.toPage)
    BY <1>1, <1>2, <1>6
  <2>2. c = pane.toPage[1]
    BY <1>3
  <2> HIDE DEF q, r, p
  <2> QED
    BY <2>1, <2>2, FirstOfQueue
<1>15. \A x \in Paths : w.stake[x] = IF ~IsOpen(pane', x) \/ (Dirty(page[x]) /\ ~Dirty(page'[x])) THEN 0
                                     ELSE v.stake[x]
  BY <1>1, <1>6, <1>7, StakeOf
<1>16. /\ Len(q) \in Nat /\ Len(r) = Len(q) - 1 /\ DOMAIN q = 1..Len(q) /\ DOMAIN r = 1..Len(r)
       /\ \A i \in DOMAIN r : i \in Nat /\ i + 1 \in DOMAIN q /\ r[i] = q[i + 1]
  BY <1>1, <1>2, TailOfQueue
<1> HIDE DEF r
\* What is said of a restore that follows.
<1>17. ASSUME NEW i \in DOMAIN r, r[i].op = "restore"
       PROVE  /\ r[i].text # 0 /\ pane'.replies = <<>>
              /\ c.op \in {"open", "set", "close", "restore"} /\ ~Is(c, "restore", r[i].path)
              /\ \A j \in 1..(i - 1) : /\ r[j].op \in {"open", "set", "close", "restore"}
                                       /\ ~Is(r[j], "restore", r[i].path)
              /\ IF i = 1 THEN page'[r[i].path] # NoModel ELSE Is(r[i - 1], "open", r[i].path)
  <2>1. i \in Nat /\ i + 1 \in DOMAIN q /\ r[i] = q[i + 1] /\ 1 <= i /\ i + 1 # 1 /\ (i + 1) - 1 = i
    BY <1>16
  <2>2. /\ q[i + 1].text # 0 /\ pane.replies = <<>>
        /\ \A j \in 1..i : /\ q[j].op \in {"open", "set", "close", "restore"}
                           /\ ~Is(q[j], "restore", q[i + 1].path)
        /\ Is(q[i], "open", q[i + 1].path)
    BY <1>8, <1>17, <2>1 DEF Insuring, RestoresCome
  <2>3. c.op \in {"open", "set", "close", "restore"} /\ ~Is(c, "restore", r[i].path)
    BY <1>3, <2>1, <2>2
  <2>4. \A j \in 1..(i - 1) : j \in DOMAIN r /\ j + 1 \in 1..i /\ r[j] = q[j + 1]
    <3> SUFFICES ASSUME NEW j \in 1..(i - 1)
                 PROVE  j \in DOMAIN r /\ j + 1 \in 1..i /\ r[j] = q[j + 1]
      OBVIOUS
    <3>1. i \in 1..Len(r) /\ Len(r) \in Nat
      BY <1>16
    <3>2. j \in 1..Len(r) /\ j + 1 \in 1..i
      BY <2>1, <3>1
    <3> QED
      BY <1>16, <3>2
  <2>5. pane'.replies = <<>>
    BY <1>1, <1>6, <2>2, <2>3
  <2>6. IF i = 1 THEN page'[r[i].path] # NoModel ELSE Is(r[i - 1], "open", r[i].path)
    <3>1. CASE i = 1
      <4>1. c.op = "open" /\ r[i].path = p
        BY <1>3, <2>1, <2>2, <3>1 DEF Is
      <4> QED
        BY <1>10, <1>12, <3>1, <4>1
    <3>2. CASE i # 1
      <4>1. i - 1 \in 1..(i - 1) /\ (i - 1) + 1 = i
        BY <2>1, <3>2
      <4> QED
        BY <2>1, <2>2, <2>4, <3>2, <4>1
    <3> QED
      BY <3>1, <3>2
  <2> QED
    BY <2>1, <2>2, <2>3, <2>4, <2>5, <2>6
<1>18. RestoresCome(pane', w)
  BY <1>6, <1>7, <1>17 DEF RestoresCome
<1>19. \A x : ToRefill(pane', x) => c.op \in {"open", "set", "close", "restore"} /\ ~Is(c, "restore", x)
  BY <1>6, <1>17 DEF ToRefill, Restoration, Is
<1>20. \A x, texts : Refills(pane', x, texts) => ToRefill(pane', x)
  BY DEF Refills, ToRefill
<1>21. c.op = "restore" => c.text \in Nat \ {0} /\ m # NoModel
  <2>1. c.op = "restore" => c.text \in Nat
    BY <1>2, <1>3, CommandFields
  <2>2. c.op = "restore" => c.text # 0 /\ m # NoModel
    BY <1>3, <1>7, <1>8 DEF Insuring, RestoresCome
  <2> QED
    BY <2>1, <2>2
<1>22. ASSUME NEW x \in Paths
       PROVE  Guarded(pane', w, x)
  <2> DEFINE a == Least(pane, v, x)
             b == Least(pane', w, x)
             Filled(t) == Refills(t, x, Nat \ {0})
  <2>1. Guarded(pane, v, x) /\ v.stake[x] \in Nat
    BY <1>8 DEF Insuring, Guarded
  <2>2. /\ a = IF Filled(pane) THEN 1 ELSE IF Closes(pane, x) THEN 0 ELSE page[x].first
        /\ b = IF Filled(pane') THEN 1 ELSE IF Closes(pane', x) THEN 0 ELSE page'[x].first
    BY <1>7, <1>13 DEF Least
  <2>3. page[x].first \in Nat /\ page'[x].first \in Nat
    BY <1>2, <1>10, <1>12, ModelFields
  <2>4. a \in Nat /\ b \in Nat
    BY <2>2, <2>3
  <2>5. /\ Filled(pane) <=> Filled(pane') \/ (Is(c, "restore", x) /\ ~Closes(pane', x))
        /\ Closes(pane, x) <=> Closes(pane', x) \/ Is(c, "close", x)
    BY <1>14, <1>21 DEF Is
  <2>6. /\ Filled(pane') => c.op \in {"open", "set", "close", "restore"} /\ ~Is(c, "restore", x)
    BY <1>19, <1>20
  <2> HIDE DEF a, b, Filled
  <2>7. b # 0 => a # 0 /\ a <= b
    <3>1. CASE Filled(pane')
      BY <2>2, <2>5, <3>1
    <3>2. CASE ~Filled(pane') /\ (Closes(pane', x) \/ page'[x].first = 0)
      BY <2>2, <3>2
    <3>3. CASE ~Filled(pane') /\ ~Closes(pane', x) /\ page'[x].first # 0 /\ Is(c, "restore", x)
      BY <2>2, <2>3, <2>5, <3>3
    <3>4. CASE ~Filled(pane') /\ ~Closes(pane', x) /\ page'[x].first # 0 /\ ~Is(c, "restore", x)
      <4>1. page'[x].first = page[x].first /\ ~Is(c, "close", x)
        BY <1>10, <1>12, <3>4 DEF Is
      <4> QED
        BY <2>2, <2>3, <2>5, <3>4, <4>1
    <3> QED
      BY <3>1, <3>2, <3>3, <3>4
  <2>8. ASSUME IsOpen(pane', x), b # 0
        PROVE  Flagged(pane', w, x)
    <3>1. Flagged(pane, v, x)
      BY <1>13, <2>1, <2>7, <2>8 DEF Guarded, a
    <3>2. pane'.posts = pane.posts \/ pane'.posts = Append(pane.posts, note)
      BY <1>6
    <3>3. IsDirty(pane, x) \/ x \in v.gone => IsDirty(pane', x) \/ x \in w.gone
      BY <1>7, <1>13
    <3>4. ~IsSnapshot(note, x)
      BY <1>11 DEF IsSnapshot
    <3>5. posted => pane'.posts # pane.posts
      BY <1>2, <1>6
    <3>6. w.page[x].timer => \/ pane'.posts # pane.posts /\ Tells(note, x, TRUE)
                             \/ v.page[x].timer /\ (pane'.posts # pane.posts => ~Tells(note, x, FALSE))
      <4>1. CASE x # p
        BY <1>7, <1>11, <1>12, <4>1 DEF Tells
      <4>2. CASE x = p /\ c.op = "restore"
        BY <1>10, <1>11, <1>21, <3>5, <4>2 DEF Tells
      <4>3. CASE x = p /\ c.op # "restore" /\ ~posted
        BY <1>6, <1>7, <1>10, <1>12, <4>3
      <4>4. CASE x = p /\ c.op = "set" /\ posted
        BY <1>7, <1>10, <1>12, <4>4
      <4>5. CASE x = p /\ c.op = "mark" /\ posted
        <5>1. ~Filled(pane') /\ page'[x].first = 0
          BY <1>10, <1>12, <2>6, <4>5
        <5> QED
          BY <2>2, <2>8, <5>1
      <4> QED
        BY <1>10, <4>1, <4>2, <4>3, <4>4, <4>5
    <3>7. pane'.snapshots[x] = pane.snapshots[x] /\ pane.snapshots[x] \in Past
      BY <1>2, <1>6
    <3> HIDE DEF q
    <3> QED
      BY <1>2, <1>11, <2>4, <2>7, <2>8, <3>1, <3>2, <3>3, <3>4, <3>6, <3>7, FlaggedPosted DEF a, b
  <2>9. page'[x].first # 0 => Dirty(page'[x])
    <3>1. CASE x = p
      BY <1>10, <1>12, <3>1
    <3>2. CASE x # p
      BY <1>7, <1>12, <2>1, <3>2 DEF Guarded
    <3> QED
      BY <3>1, <3>2
  <2>10. w.stake[x] \in Nat
    BY <1>15, <2>1
  <2>11. ASSUME w.stake[x] # 0
         PROVE  IsOpen(pane', x) /\ Returns(pane', w, x)
    <3>1. IsOpen(pane', x) /\ ~(Dirty(page[x]) /\ ~Dirty(page'[x])) /\ w.stake[x] = v.stake[x]
      BY <1>15, <2>11
    <3>2. Returns(pane, v, x)
      BY <1>13, <2>1, <2>11, <3>1 DEF Guarded, Kept
    <3>3. CASE Refills(pane', x, {v.stake[x]})
      BY <3>1, <3>3 DEF Returns
    <3>4. CASE Is(c, "restore", x) /\ c.text = v.stake[x] /\ ~Closes(pane', x)
      <4>1. ~ToRefill(pane', x)
        BY <1>19, <3>4
      <4>2. x = p /\ c.op = "restore"
        BY <3>4 DEF Is
      <4>3. Dirty(page'[x]) /\ page'[x].text = w.stake[x]
        BY <1>10, <1>12, <1>21, <3>1, <3>4, <4>2
      <4> QED
        BY <1>7, <2>10, <3>1, <3>4, <4>1, <4>3 DEF Returns
    <3>5. CASE ~ToRefill(pane, x) /\ ~Closes(pane, x) /\ Dirty(page[x]) /\ page[x].text >= v.stake[x]
      <4>1. ~ToRefill(pane', x) /\ ~Closes(pane', x) /\ ~Is(c, "restore", x)
        BY <1>14, <3>5
      <4>2. Dirty(page'[x])
        BY <3>1, <3>5
      <4>3. page'[x].text = page[x].text
        BY <1>10, <1>12, <3>5, <4>1, <4>2 DEF Is
      <4> QED
        BY <1>7, <3>1, <3>5, <4>1, <4>2, <4>3 DEF Returns
    <3>6. Refills(pane, x, {v.stake[x]}) =>
             Refills(pane', x, {v.stake[x]}) \/ (Is(c, "restore", x) /\ c.text = v.stake[x] /\ ~Closes(pane', x))
      BY <1>14
    <3> QED
      BY <1>7, <3>2, <3>3, <3>4, <3>5, <3>6 DEF Returns
  <2>12. Kept(pane', w, x)
    BY <1>6, <2>11 DEF Kept
  <2> QED
    BY <1>7, <2>8, <2>9, <2>10, <2>12 DEF Guarded, b
<1>23. Insuring(pane', w)
  BY <1>18, <1>22 DEF Insuring
<1> QED
  BY <1>1, <1>23, EndsInsured DEF w

-----------------------------------------------------------------------------
(* Every step.                                                                 *)

LEMMA StepInsures == IInv /\ EditsInsured /\ [Next]_vars => IInv' /\ EditsInsured'
<1> SUFFICES ASSUME IInv, EditsInsured, [Next]_vars
             PROVE  IInv' /\ EditsInsured'
  OBVIOUS
<1>1. IInv'
  BY StepIsFine
<1>2. CASE UNCHANGED vars
  BY <1>1, <1>2, StutterInsures
<1>3. CASE Swift
  BY <1>1, <1>3, DeliverPostInsures, AnswerCleanInsures, AnswerContentInsures, WriteFailsInsures,
     LateAnswerInsures, FallbackInsures, DidTerminateInsures DEF Swift, Answer
<1>4. CASE Page
  <2>1. CASE PageRunsHead
    BY <1>1, <2>1, PageRunsInsures DEF PageRunsHead
  <2>2. ASSUME NEW p \in Paths, Type(p) \/ SnapshotTimer(p) \/ PressSave(p)
        PROVE  EditsInsured'
    BY <2>2, TypeInsures, SnapshotTimerInsures, PressSaveInsures
  <2> QED
    BY <1>1, <1>4, <2>1, <2>2 DEF Page
<1>5. CASE User
  <2>1. ASSUME NEW p \in Paths, OpenFile(p, TRUE) \/ OpenFile(p, FALSE) \/ PinTab(p) \/ CloseTab(p)
        PROVE  EditsInsured'
    <3>1. ASSUME OpenFile(p, TRUE)
          PROVE  EditsInsured'
      BY <1>1, <3>1, OpenFileInsures
    <3>2. ASSUME OpenFile(p, FALSE)
          PROVE  EditsInsured'
      BY <1>1, <3>2, OpenFileInsures
    <3> QED
      BY <1>1, <2>1, <3>1, <3>2, PinTabInsures, CloseTabInsures
  <2> QED
    BY <1>1, <1>5, <2>1, CloseAllInsures, SaveAllDirtyInsures, CheckExternalChangesInsures, CancelInsures,
       DiscardInsures, SaveThenCloseInsures, TakeDiskInsures DEF User
<1>6. CASE World
  BY <1>1, <1>6, PageReadyInsures, CrashInsures, WorldInsures DEF World
<1> QED
  BY <1>1, <1>2, <1>3, <1>4, <1>5, <1>6 DEF Next

\* An unsaved edit that a snapshot held when the renderer died is waiting in its snapshot,
\* under a flag that is up, while the page reloads, and when the page is back it is in the
\* buffer, which counts as unsaved: no order of the posts, the answers, the closes and the
\* replayed commands, and no second death, drops it or brings it back as saved
\* (contentSnapshot, restoreAfterRendererCrash, restoreUnsaved).
THEOREM InsuredEditsComeBack == Spec => []InsuredEditsSurvive
<1>1. Init => IInv /\ EditsInsured
  BY InitIsFine, NothingAtStake
<1>2. IInv /\ EditsInsured /\ [Next]_vars => IInv' /\ EditsInsured'
  BY StepInsures
<1>3. EditsInsured => InsuredEditsSurvive
  <2> SUFFICES ASSUME EditsInsured, NEW p \in Paths, ghost.atStake[p] # 0
               PROVE  /\ pane.life = "loading" => IsDirty(pane, p) /\ pane.snapshots[p] = ghost.atStake[p]
                      /\ Quiet => Dirty(page[p]) /\ page[p].text >= ghost.atStake[p]
    BY DEF InsuredEditsSurvive
  <2>1. Kept(pane, Stakes, p) /\ Stakes.page = page /\ Stakes.stake = ghost.atStake
    BY DEF EditsInsured, Insuring, Guarded, Stakes
  <2>2. ASSUME Quiet
        PROVE  Dirty(page[p]) /\ page[p].text >= ghost.atStake[p]
    <3>1. ~Down(pane) /\ DOMAIN pane.toPage = {}
      BY <2>2 DEF Quiet, Down
    <3>2. Returns(pane, Stakes, p) /\ ~Refills(pane, p, {ghost.atStake[p]})
      BY <2>1, <3>1 DEF Kept, Refills
    <3> QED
      BY <2>1, <3>2 DEF Returns
  <2> QED
    BY <2>1, <2>2 DEF Kept
<1> QED
  BY <1>1, <1>2, <1>3, PTL DEF Spec
=============================================================================
