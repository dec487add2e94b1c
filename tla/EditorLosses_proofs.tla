------------------------- MODULE EditorLosses_proofs -------------------------
(***************************************************************************)
(* The proof that no edit is destroyed that the decision to destroy its    *)
(* buffer knew of (NoKnownEditIsLost of EditorPane), on top of the         *)
(* invariants of EditorPane_proofs and EditorEdits_proofs, for all files,  *)
(* tabs and bounds.                                                        *)
(*                                                                         *)
(* EditsHeeded is inductive.  It dates every decision by the clock of the  *)
(* answer it acts on, and says of each one on its way that no edit it can  *)
(* meet is as old: a close or a replacement in the queue (Spares), a       *)
(* "clean" among the answers (Truthful), the tab that a preview may        *)
(* recycle (Recyclable), and a walk over the tabs, which has asked some    *)
(* and has others to ask (Walks).                                          *)
(***************************************************************************)
EXTENDS EditorEdits_proofs

-----------------------------------------------------------------------------
(* Edits that a decision knew of.                                              *)

\* After the first n commands of q the buffer of p, which is m now, may hold an unsaved edit
\* that began with one of the texts.
MayHold(q, p, m, n, texts) ==
    \/ m.first \in texts /\ NoClose(q, p, 1, n)
    \/ \E j \in 1..n : Is(q[j], "restore", p) /\ q[j].text \in texts /\ NoClose(q, p, j + 1, n)
Edited(s, v, p, texts) == MayHold(s.toPage, p, v.page[p], Len(s.toPage), texts)

\* A buffer goes with no edit that the decision on it knew of.
Replaces(c) == c.op \in {"close", "set"}
Spares(s, v) ==
    \A i \in DOMAIN s.toPage : Replaces(s.toPage[i]) =>
        /\ s.toPage[i].upto <= v.now
        /\ ~MayHold(s.toPage, s.toPage[i].path, v.page[s.toPage[i].path], i - 1, 1..s.toPage[i].upto)

\* The page has not called a buffer clean that had an edit by then.
Truthful(s, v) ==
    \A i \in DOMAIN s.replies :
        /\ s.replies[i].at <= v.now
        /\ s.replies[i] \in Clean /\ s.replies[i].clean => ~Edited(s, v, s.replies[i].path, 1..s.replies[i].at)

\* A preview tab that was edited is one no more, or will hear of it.
Posted(s, p) == \E i \in DOMAIN s.posts : Tells(s.posts[i], p, TRUE)
Previewed(s, v, p) == Posted(s, p) \/ ~Edited(s, v, p, Nat \ {0})
Recyclable(s, v) ==
    \A i \in DOMAIN s.tabs : ~s.tabs[i].pinned => ~s.tabs[i].dirty /\ Previewed(s, v, s.tabs[i].path)

\* A walk over the tabs knows of the edits before its earliest answer that no flag tells of,
\* in every file that it has not yet to ask about.
Drains(q) == q.op = "clean" /\ q.why = "drain"
OnWalk(q) == {q.path} \cup Range(q.rest)
Overlooked(s, v, p) == IsOpen(s, p) /\ ~IsDirty(s, p) /\ p \notin v.gone
Unmissed(s, v, q, upto) ==
    \A p \in Paths \ OnWalk(q) : Overlooked(s, v, p) => ~Edited(s, v, p, 1..upto)
Earlier(a, b) == IF a < b THEN a ELSE b
Fresh(s, v, q, i) == \A p \in Paths \ OnWalk(q) : ~Exists(s.toPage, p, v.page[p], i - 1)
Later(s, v, q) ==
    /\ q.since <= v.now /\ Unmissed(s, v, q, q.since)
    /\ q.since = 0 \/ \A p \in Paths : ~ToRefill(s, p)
Walking(s, v, q) ==
    /\ \A i \in DOMAIN s.toPage : s.toPage[i] = Asking(q) => Fresh(s, v, q, i) \/ Later(s, v, q)
    /\ \A i \in DOMAIN s.replies :
           Answers(s.replies[i], q) => Unmissed(s, v, q, Earlier(s.replies[i].at, q.since))
Walks(s, v) == \A q \in s.waiting : Drains(q) => Walking(s, v, q)

Heeding(s, v) == Spares(s, v) /\ Truthful(s, v) /\ Recyclable(s, v) /\ Walks(s, v)
Seen == [page |-> page, gone |-> ghost.misread, now |-> Clock]
EditsHeeded == Heeding(pane, Seen)

-----------------------------------------------------------------------------
(* Queues.                                                                     *)

\* A longer queue without more restores brings no edit.
LEMMA HeldBefore ==
    ASSUME NEW q, NEW r, Len(q) \in Nat, Len(r) \in Nat, Len(q) <= Len(r),
           \A i \in 1..Len(q) : r[i] = q[i], NEW p, NEW m, NEW n, NEW texts,
           n.first \in texts => n.first = m.first
    PROVE  /\ \A k \in 0..Len(q) : MayHold(r, p, n, k, texts) => MayHold(q, p, m, k, texts)
           /\ (\A i \in (Len(q) + 1)..Len(r) : ~Is(r[i], "restore", p)) =>
                  \A k \in Len(q)..Len(r) : MayHold(r, p, n, k, texts) => MayHold(q, p, m, Len(q), texts)
<1>1. Len(q) \in Nat /\ Len(r) \in Nat
  OBVIOUS
<1>2. ASSUME NEW k \in 0..Len(q), MayHold(r, p, n, k, texts)
      PROVE  MayHold(q, p, m, k, texts)
  <2>1. \A a \in 1..(k + 1) : NoClose(r, p, a, k) => NoClose(q, p, a, k)
    <3>1. \A a \in 1..(k + 1) : \A j \in a..k : j \in 1..Len(q)
      BY <1>1
    <3> QED
      BY <3>1 DEF NoClose
  <2>2. 1 \in 1..(k + 1) /\ \A j \in 1..k : j \in 1..Len(q) /\ j + 1 \in 1..(k + 1)
    BY <1>1
  <2> QED
    BY <1>2, <2>1, <2>2 DEF MayHold
<1>3. ASSUME \A i \in (Len(q) + 1)..Len(r) : ~Is(r[i], "restore", p),
             NEW k \in Len(q)..Len(r), MayHold(r, p, n, k, texts)
      PROVE  MayHold(q, p, m, Len(q), texts)
  <2> DEFINE l == Len(q)
  <2>1. \A a \in 1..(l + 1) : NoClose(r, p, a, k) => NoClose(q, p, a, l)
    <3>1. \A a \in 1..(l + 1) : \A j \in a..l : j \in 1..Len(q) /\ j \in a..k
      BY <1>1
    <3> QED
      BY <3>1 DEF NoClose
  <2>2. 1 \in 1..(l + 1)
    BY <1>1
  <2>3. ASSUME NEW j \in 1..k, Is(r[j], "restore", p)
        PROVE  j \in 1..l /\ r[j] = q[j] /\ j + 1 \in 1..(l + 1)
    <3>1. j \in 1..l \/ j \in (l + 1)..Len(r)
      BY <1>1
    <3>2. j \in 1..l
      BY <1>3, <2>3, <3>1
    <3> QED
      BY <1>1, <3>2
  <2> HIDE DEF l
  <2>4. CASE n.first \in texts /\ NoClose(r, p, 1, k)
    BY <2>1, <2>2, <2>4 DEF MayHold, l
  <2>5. CASE \E j \in 1..k : Is(r[j], "restore", p) /\ r[j].text \in texts /\ NoClose(r, p, j + 1, k)
    <3>1. PICK j \in 1..k : Is(r[j], "restore", p) /\ r[j].text \in texts /\ NoClose(r, p, j + 1, k)
      BY <2>5
    <3>2. j \in 1..l /\ Is(q[j], "restore", p) /\ q[j].text \in texts /\ NoClose(q, p, j + 1, l)
      BY <2>1, <2>3, <3>1
    <3> QED
      BY <3>2 DEF MayHold, l
  <2> QED
    BY <1>3, <2>4, <2>5 DEF MayHold
<1> QED
  BY <1>2, <1>3

\* Fewer texts, fewer edits.
LEMMA HeldAmong ==
    ASSUME NEW q, NEW p, NEW m, NEW n, NEW few, NEW many, few \subseteq many, MayHold(q, p, m, n, few)
    PROVE  MayHold(q, p, m, n, many)
BY DEF MayHold

\* The page runs the first command.
LEMMA HeldAfter ==
    ASSUME NEW C, NEW q \in Seq(C), q # <<>>, NEW p, NEW m, NEW n, NEW texts, 0 \notin texts,
           IF Is(q[1], "restore", p) THEN n.first \in {0, m.first, q[1].text}
           ELSE IF Is(q[1], "close", p) THEN n.first = 0 ELSE n.first \in {0, m.first}
    PROVE  \A k \in 0..(Len(q) - 1) : MayHold(Tail(q), p, n, k, texts) => MayHold(q, p, m, k + 1, texts)
<1> DEFINE r == Tail(q)
<1>1. Len(q) \in Nat /\ Len(r) = Len(q) - 1 /\ \A i \in 1..(Len(q) - 1) : r[i] = q[i + 1]
  OBVIOUS
<1> HIDE DEF r
<1> SUFFICES ASSUME NEW k \in 0..(Len(q) - 1), MayHold(r, p, n, k, texts)
             PROVE  MayHold(q, p, m, k + 1, texts)
  BY DEF r
<1>2. k \in Nat /\ \A j \in 1..k : r[j] = q[j + 1] /\ j + 1 \in 1..(k + 1)
  BY <1>1
<1>3. \A a \in 1..(k + 1) : NoClose(r, p, a, k) => NoClose(q, p, a + 1, k + 1)
  <2> SUFFICES ASSUME NEW a \in 1..(k + 1), NoClose(r, p, a, k), NEW j \in (a + 1)..(k + 1)
               PROVE  ~Is(q[j], "close", p)
    BY DEF NoClose
  <2>1. j - 1 \in a..k /\ j - 1 \in 1..k /\ (j - 1) + 1 = j
    BY <1>2
  <2> QED
    BY <1>2, <2>1 DEF NoClose
<1>4. CASE \E j \in 1..k : Is(r[j], "restore", p) /\ r[j].text \in texts /\ NoClose(r, p, j + 1, k)
  <2>1. PICK j \in 1..k : Is(r[j], "restore", p) /\ r[j].text \in texts /\ NoClose(r, p, j + 1, k)
    BY <1>4
  <2>2. j + 1 \in 1..(k + 1)
    BY <1>2
  <2>3. Is(q[j + 1], "restore", p) /\ q[j + 1].text \in texts /\ NoClose(q, p, (j + 1) + 1, k + 1)
    BY <1>2, <1>3, <2>1, <2>2
  <2> QED
    BY <2>2, <2>3 DEF MayHold
<1>5. CASE n.first \in texts /\ NoClose(r, p, 1, k)
  <2>1. n.first # 0 /\ NoClose(q, p, 2, k + 1)
    <3>1. 1 \in 1..(k + 1) /\ 1 + 1 = 2
      BY <1>2
    <3> QED
      BY <1>3, <1>5, <3>1
  <2>2. \A j \in 1..(k + 1) : j = 1 \/ j \in 2..(k + 1)
    BY <1>2
  <2>3. CASE n.first = m.first
    <3>1. ~Is(q[1], "close", p)
      BY <2>1 DEF Is
    <3>2. NoClose(q, p, 1, k + 1)
      BY <2>1, <2>2, <3>1 DEF NoClose
    <3> QED
      BY <1>5, <2>3, <3>2 DEF MayHold
  <2>4. CASE n.first # m.first
    <3>1. Is(q[1], "restore", p) /\ q[1].text \in texts
      BY <1>5, <2>1, <2>4
    <3>2. 1 \in 1..(k + 1) /\ 1 + 1 = 2
      BY <1>2
    <3> QED
      BY <2>1, <3>1, <3>2 DEF MayHold
  <2> QED
    BY <2>3, <2>4
<1> QED
  BY <1>4, <1>5 DEF MayHold

-----------------------------------------------------------------------------
(* A step of the pane, or of the page, that takes no command from the queue.   *)

\* What a decision may act on.
Safe(s, v, c) == c.upto <= v.now /\ ~Edited(s, v, c.path, 1..c.upto)

\* From s to t commands are sent but no restore, a buffer is edited only later than all that
\* was seen, a tab that can be recycled was there or has no edit, and a flag that goes down was wrong or is misread.
Proceeds(s, v, t, w) ==
    /\ v.now \in Nat /\ w.now \in Nat /\ v.now <= w.now
    /\ \A p \in Paths : /\ w.page[p] = NoModel <=> v.page[p] = NoModel
                        /\ w.page[p].first \in {0, v.page[p].first} \/ w.page[p].first > v.now
                        /\ v.page[p].first \in Nat /\ w.page[p].first \in Nat
    /\ Len(s.toPage) <= Len(t.toPage)
    /\ \A i \in 1..Len(s.toPage) : t.toPage[i] = s.toPage[i]
    /\ \A i \in (Len(s.toPage) + 1)..Len(t.toPage) :
           /\ t.toPage[i].op # "restore"
           /\ Replaces(t.toPage[i]) => Safe(s, v, t.toPage[i])
    /\ \A i \in DOMAIN t.replies : \E j \in DOMAIN s.replies : t.replies[i] = s.replies[j]
    /\ (\E j \in DOMAIN s.replies : TRUE) => \A p \in Paths : ~ToRefill(s, p)
    /\ \A i \in DOMAIN t.tabs : ~t.tabs[i].pinned =>
           /\ ~t.tabs[i].dirty
           /\ \/ Posted(t, t.tabs[i].path)
              \/ /\ ~Edited(s, v, t.tabs[i].path, Nat \ {0})
                 /\ w.page[t.tabs[i].path].first \in {0, v.page[t.tabs[i].path].first}
    /\ \A p \in Paths : Overlooked(t, w, p) =>
           Overlooked(s, v, p) \/ v.page[p].first = 0 \/ ~Edited(s, v, p, 1..v.now)

Shaped(s) ==
    /\ Len(s.toPage) \in Nat /\ DOMAIN s.toPage = 1..Len(s.toPage)
    /\ \A i \in DOMAIN s.toPage : /\ s.toPage[i].path \in Paths
                                  /\ Replaces(s.toPage[i]) => s.toPage[i].upto \in Nat
    /\ \A i \in DOMAIN s.replies : s.replies[i].path \in Paths /\ s.replies[i].at \in Nat
    /\ \A i \in DOMAIN s.tabs : s.tabs[i].path \in Paths
    /\ \A q \in s.waiting : q.since \in Nat

LEMMA PaneIsShaped ==
    ASSUME NEW s, s \in PaneType
    PROVE  Shaped(s)
<1>1. /\ s.toPage \in Seq(Command) /\ s.replies \in Seq(Content \cup Clean) /\ s.tabs \in Seq(Tab)
      /\ s.waiting \subseteq Questions
  BY DEF PaneType
<1>2. \A c \in Command : c.path \in Paths /\ (Replaces(c) => c.upto \in Nat)
  BY DEF Command, Replaces
<1>3. \A r \in Content \cup Clean : r.path \in Paths /\ r.at \in Nat
  BY DEF Content, Clean
<1>4. \A b \in Tab : b.path \in Paths
  BY DEF Tab
<1>5. \A q \in Questions : q.since \in Nat
  BY DEF Questions
<1> QED
  BY <1>1, <1>2, <1>3, <1>4, <1>5 DEF Shaped

\* The pane before and after a step.
LEMMA StepIsShaped ==
    ASSUME IInv, IInv'
    PROVE  Shaped(pane) /\ Shaped(pane')
<1>1. Shaped(pane)
  BY PaneIsShaped DEF IInv, Linked, Typed
<1>2. Shaped(pane')
  <2>1. /\ pane'.toPage \in Seq(Command') /\ pane'.replies \in Seq((Content \cup Clean)') /\ pane'.tabs \in Seq(Tab)
        /\ pane'.waiting \subseteq Questions
    BY DEF IInv, Linked, Typed, PaneType
  <2>2. \A c \in Command' : c.path \in Paths /\ (Replaces(c) => c.upto \in Nat)
    BY DEF Command, Replaces
  <2>3. \A r \in (Content \cup Clean)' : r.path \in Paths /\ r.at \in Nat
    BY DEF Content, Clean
  <2>4. \A b \in Tab : b.path \in Paths
    BY DEF Tab
  <2>5. \A q \in Questions : q.since \in Nat
    BY DEF Questions
  <2> QED
    BY <2>1, <2>2, <2>3, <2>4, <2>5 DEF Shaped
<1> QED
  BY <1>1, <1>2

\* Of what was seen, nothing is edited that was not.
LEMMA ProceedsEdits ==
    ASSUME NEW s, NEW v, NEW t, NEW w, Shaped(s), Shaped(t), Proceeds(s, v, t, w), NEW p \in Paths, NEW texts,
           texts \subseteq 1..v.now
    PROVE  /\ \A k \in 0..Len(s.toPage) :
                  MayHold(t.toPage, p, w.page[p], k, texts) => MayHold(s.toPage, p, v.page[p], k, texts)
           /\ \A k \in Len(s.toPage)..Len(t.toPage) :
                  MayHold(t.toPage, p, w.page[p], k, texts) => Edited(s, v, p, texts)
           /\ Edited(t, w, p, texts) => Edited(s, v, p, texts)
<1> DEFINE q == s.toPage
           r == t.toPage
           m == v.page[p]
           n == w.page[p]
<1>1. Len(q) \in Nat /\ Len(r) \in Nat
  BY DEF Shaped
<1>2. Len(q) <= Len(r) /\ (\A i \in 1..Len(q) : r[i] = q[i])
      /\ (\A i \in (Len(q) + 1)..Len(r) : r[i].op # "restore")
  BY DEF Proceeds
<1>3. v.now \in Nat /\ (n.first \in {0, m.first} \/ n.first > v.now) /\ n.first \in Nat
  BY DEF Proceeds
<1> HIDE DEF m, n
<1>4. n.first \in texts => n.first = m.first
  BY <1>3
<1>5. \A i \in (Len(q) + 1)..Len(r) : ~Is(r[i], "restore", p)
  BY <1>2 DEF Is
<1>6. /\ \A k \in 0..Len(q) : MayHold(r, p, n, k, texts) => MayHold(q, p, m, k, texts)
      /\ \A k \in Len(q)..Len(r) : MayHold(r, p, n, k, texts) => MayHold(q, p, m, Len(q), texts)
  <2> HIDE DEF q, r
  <2> QED
    BY <1>1, <1>2, <1>4, <1>5, HeldBefore
<1>7. Len(r) \in Len(q)..Len(r)
  BY <1>1, <1>2
<1> QED
  BY <1>6, <1>7 DEF Edited, m, n

\* Nothing is edited that no restore edits and that the page has not edited.
LEMMA UneditedHeld ==
    ASSUME NEW s, NEW v, NEW p, NEW texts, v.page[p].first \notin texts, ~ToRefill(s, p), Shaped(s)
    PROVE  ~Edited(s, v, p, texts)
BY DEF Edited, MayHold, ToRefill, Restoration, Shaped

\* What a walk has not missed, it has not missed.
LEMMA ProceedsUnmissed ==
    ASSUME NEW s, NEW v, NEW t, NEW w, Shaped(s), Shaped(t), Proceeds(s, v, t, w),
           NEW q, NEW upto \in Nat, upto <= v.now, Unmissed(s, v, q, upto),
           upto = 0 \/ \A p \in Paths : ~ToRefill(s, p)
    PROVE  Unmissed(t, w, q, upto)
<1> SUFFICES ASSUME NEW p \in Paths \ OnWalk(q), Overlooked(t, w, p)
             PROVE  ~Edited(t, w, p, 1..upto)
  BY DEF Unmissed
<1>1. v.now \in Nat /\ 1..upto \subseteq 1..v.now
  BY SMTT(30) DEF Proceeds
<1>2. ~Edited(s, v, p, 1..upto) => ~Edited(t, w, p, 1..upto)
  BY <1>1, ProceedsEdits
<1>3. Overlooked(s, v, p) \/ v.page[p].first = 0 \/ ~Edited(s, v, p, 1..v.now)
  BY DEF Proceeds
<1>4. CASE Overlooked(s, v, p)
  BY <1>2, <1>4 DEF Unmissed
<1>5. CASE ~Edited(s, v, p, 1..v.now)
  BY <1>1, <1>2, <1>5, HeldAmong DEF Edited
<1>6. CASE v.page[p].first = 0
  <2>1. CASE upto = 0
    <3>1. 1..upto = {}
      BY <2>1
    <3>2. ~Edited(s, v, p, 1..upto)
      BY <3>1 DEF Edited, MayHold
    <3> QED
      BY <1>2, <3>2
  <2>2. CASE \A x \in Paths : ~ToRefill(s, x)
    <3>1. v.page[p].first \notin 1..upto
      BY <1>6
    <3>2. ~Edited(s, v, p, 1..upto)
      BY <2>2, <3>1, UneditedHeld
    <3> QED
      BY <1>2, <3>2
  <2> QED
    BY <2>1, <2>2
<1> QED
  BY <1>3, <1>4, <1>5, <1>6

\* The first commands make of the page what they made of it.
LEMMA ProceedsExists ==
    ASSUME NEW s, NEW v, NEW t, NEW w, Shaped(s), Proceeds(s, v, t, w), NEW p \in Paths
    PROVE  \A n \in 0..Len(s.toPage) :
               Exists(t.toPage, p, w.page[p], n) <=> Exists(s.toPage, p, v.page[p], n)
<1> DEFINE q == s.toPage
           r == t.toPage
<1>1. Len(q) \in Nat /\ (\A i \in 1..Len(q) : r[i] = q[i]) /\ (w.page[p] = NoModel <=> v.page[p] = NoModel)
  BY DEF Proceeds, Shaped
<1> HIDE DEF q, r
<1> SUFFICES ASSUME NEW n \in 0..Len(q)
             PROVE  Exists(r, p, w.page[p], n) <=> Exists(q, p, v.page[p], n)
  BY DEF q, r
<1>2. \A i \in 1..n : i \in 1..Len(q)
  BY <1>1
<1>3. NoClose(r, p, 1, n) <=> NoClose(q, p, 1, n)
  BY <1>1, <1>2 DEF NoClose
<1>4. \A i \in 1..n : NoClose(r, p, i + 1, n) <=> NoClose(q, p, i + 1, n)
  <2>1. \A i \in 1..n : \A j \in (i + 1)..n : j \in 1..n
    OBVIOUS
  <2> QED
    BY <1>1, <1>2, <2>1 DEF NoClose
<1> QED
  BY <1>1, <1>2, <1>3, <1>4 DEF Exists

\* The invariant goes by such a step, if the walks that begin are right.
Begun(s, t, w) ==
    \A q \in t.waiting : Drains(q) =>
        \/ Walking(t, w, q)
        \/ q \in s.waiting /\ \A i \in (Len(s.toPage) + 1)..Len(t.toPage) : t.toPage[i] # Asking(q)

LEMMA ProceedsHeeds ==
    ASSUME NEW s, NEW v, NEW t, NEW w, Shaped(s), Shaped(t), Proceeds(s, v, t, w), Begun(s, t, w),
           Heeding(s, v)
    PROVE  Heeding(t, w)
<1> DEFINE a == Len(s.toPage)
           b == Len(t.toPage)
<1>1. /\ a \in Nat /\ b \in Nat /\ a <= b /\ DOMAIN s.toPage = 1..a /\ DOMAIN t.toPage = 1..b
      /\ \A i \in 1..a : t.toPage[i] = s.toPage[i]
      /\ v.now \in Nat /\ w.now \in Nat /\ v.now <= w.now
  BY DEF Proceeds, Shaped
<1>2. Spares(t, w)
  <2> SUFFICES ASSUME NEW i \in 1..b, Replaces(t.toPage[i])
               PROVE  /\ t.toPage[i].upto <= w.now
                      /\ ~MayHold(t.toPage, t.toPage[i].path, w.page[t.toPage[i].path], i - 1, 1..t.toPage[i].upto)
    BY <1>1 DEF Spares
  <2> DEFINE c == t.toPage[i]
             k == i - 1
  <2>1. c.path \in Paths /\ c.upto \in Nat
    BY <1>1 DEF Shaped
  <2>2. CASE i \in 1..a
    <3>1. c = s.toPage[i] /\ i \in DOMAIN s.toPage /\ k \in 0..a
      BY <1>1, <2>2
    <3>2. c.upto <= v.now /\ ~MayHold(s.toPage, c.path, v.page[c.path], k, 1..c.upto)
      BY <3>1 DEF Heeding, Spares
    <3> HIDE DEF c, k
    <3>3. 1..c.upto \subseteq 1..v.now /\ c.upto <= w.now
      BY <1>1, <2>1, <3>2
    <3>4. ~MayHold(t.toPage, c.path, w.page[c.path], k, 1..c.upto)
      BY <2>1, <3>1, <3>2, <3>3, ProceedsEdits DEF a
    <3> QED
      BY <3>3, <3>4 DEF c, k
  <2>3. CASE i \in (a + 1)..b
    <3>1. Safe(s, v, c) /\ k \in a..b
      BY SMTT(30), <1>1, <2>3 DEF Proceeds
    <3> HIDE DEF c, k
    <3>2. c.upto <= v.now /\ ~Edited(s, v, c.path, 1..c.upto)
      BY <3>1 DEF Safe
    <3>3. 1..c.upto \subseteq 1..v.now /\ c.upto <= w.now
      BY <1>1, <2>1, <3>2
    <3>4. ~MayHold(t.toPage, c.path, w.page[c.path], k, 1..c.upto)
      BY <2>1, <3>1, <3>2, <3>3, ProceedsEdits DEF a, b
    <3> QED
      BY <3>3, <3>4 DEF c, k
  <2> QED
    BY <1>1, <2>2, <2>3
<1>3. Truthful(t, w)
  <2> SUFFICES ASSUME NEW i \in DOMAIN t.replies
               PROVE  /\ t.replies[i].at <= w.now
                      /\ t.replies[i] \in Clean /\ t.replies[i].clean =>
                             ~Edited(t, w, t.replies[i].path, 1..t.replies[i].at)
    BY DEF Truthful
  <2> DEFINE r == t.replies[i]
  <2>1. PICK j \in DOMAIN s.replies : r = s.replies[j]
    BY DEF Proceeds
  <2>2. r.at \in Nat /\ r.path \in Paths
    BY DEF Shaped
  <2>3. r.at <= v.now /\ (r \in Clean /\ r.clean => ~Edited(s, v, r.path, 1..r.at))
    BY <2>1 DEF Heeding, Truthful
  <2> HIDE DEF r
  <2>4. r.at <= w.now /\ 1..r.at \subseteq 1..v.now
    BY <1>1, <2>2, <2>3
  <2>5. r \in Clean /\ r.clean => ~Edited(t, w, r.path, 1..r.at)
    BY <2>2, <2>3, <2>4, ProceedsEdits
  <2> QED
    BY <2>4, <2>5 DEF r
<1>4. Recyclable(t, w)
  <2> SUFFICES ASSUME NEW i \in DOMAIN t.tabs, ~t.tabs[i].pinned
               PROVE  ~t.tabs[i].dirty /\ Previewed(t, w, t.tabs[i].path)
    BY DEF Recyclable
  <2> DEFINE p == t.tabs[i].path
  <2>1. /\ ~t.tabs[i].dirty
        /\ \/ Posted(t, p)
           \/ ~Edited(s, v, p, Nat \ {0}) /\ w.page[p].first \in {0, v.page[p].first}
    BY DEF Proceeds
  <2>2. p \in Paths
    BY DEF Shaped
  <2> HIDE DEF p
  <2>3. ASSUME ~Edited(s, v, p, Nat \ {0}), w.page[p].first \in {0, v.page[p].first}
        PROVE  ~Edited(t, w, p, Nat \ {0})
    <3> DEFINE X == Nat \ {0}
    <3>1. w.page[p].first \in X => w.page[p].first = v.page[p].first
      BY <2>3
    <3>2. \A j \in (a + 1)..b : ~Is(t.toPage[j], "restore", p)
      BY DEF Proceeds, Is
    <3>3. b \in a..b
      BY <1>1
    <3>4. MayHold(t.toPage, p, w.page[p], b, X) => MayHold(s.toPage, p, v.page[p], a, X)
      <4> HIDE DEF X
      <4> QED
        BY <1>1, <3>1, <3>2, <3>3, HeldBefore
    <3> QED
      BY <2>3, <3>4 DEF Edited
  <2> QED
    BY <2>1, <2>3 DEF Previewed, p
<1>5. Walks(t, w)
  <2> SUFFICES ASSUME NEW q \in t.waiting, Drains(q), ~Walking(t, w, q)
               PROVE  Walking(t, w, q)
    BY DEF Walks
  <2>1. q \in s.waiting /\ \A i \in (a + 1)..b : t.toPage[i] # Asking(q)
    BY DEF Begun
  <2>2. Walking(s, v, q) /\ q.since \in Nat
    BY <2>1 DEF Heeding, Walks, Shaped
  <2>3. ASSUME NEW i \in 1..b, t.toPage[i] = Asking(q)
        PROVE  Fresh(t, w, q, i) \/ Later(t, w, q)
    <3>1. i \in 1..a
      BY <1>1, <2>1, <2>3
    <3>2. s.toPage[i] = Asking(q) /\ i \in DOMAIN s.toPage
      BY <1>1, <2>3, <3>1
    <3>3. CASE Fresh(s, v, q, i)
      <4>1. i - 1 \in 0..a
        BY <1>1, <3>1
      <4>2. Fresh(t, w, q, i)
        BY <3>3, <4>1, ProceedsExists DEF Fresh, a
      <4> QED
        BY <4>2
    <3>4. CASE Later(s, v, q)
      <4>1. q.since <= v.now /\ Unmissed(s, v, q, q.since) /\ (q.since = 0 \/ \A p \in Paths : ~ToRefill(s, p))
        BY <3>4 DEF Later
      <4>2. Unmissed(t, w, q, q.since)
        BY <2>2, <4>1, ProceedsUnmissed
      <4>3. q.since <= w.now
        BY <1>1, <2>2, <4>1
      <4>4. \A p \in Paths : ~ToRefill(s, p) => ~ToRefill(t, p)
        <5> SUFFICES ASSUME NEW p \in Paths, NEW j \in 1..b, Is(t.toPage[j], "restore", p)
                     PROVE  ToRefill(s, p)
          BY <1>1 DEF ToRefill, Restoration
        <5>1. j \in 1..a
          BY SMTT(30), <1>1 DEF Proceeds, Is
        <5> QED
          BY <1>1, <5>1 DEF ToRefill, Restoration
      <4> QED
        BY <4>1, <4>2, <4>3, <4>4 DEF Later
    <3> QED
      BY <2>2, <3>2, <3>3, <3>4 DEF Walking
  <2>4. ASSUME NEW i \in DOMAIN t.replies, Answers(t.replies[i], q)
        PROVE  Unmissed(t, w, q, Earlier(t.replies[i].at, q.since))
    <3>1. PICK j \in DOMAIN s.replies : t.replies[i] = s.replies[j]
      BY DEF Proceeds
    <3> DEFINE n == Earlier(t.replies[i].at, q.since)
    <3>2. Unmissed(s, v, q, n) /\ s.replies[j].at <= v.now /\ \A p \in Paths : ~ToRefill(s, p)
      BY <2>2, <2>4, <3>1 DEF Walking, Heeding, Truthful, Proceeds
    <3>3. t.replies[i].at \in Nat
      BY DEF Shaped
    <3>4. n \in Nat /\ n <= v.now
      BY <1>1, <2>2, <3>1, <3>2, <3>3 DEF Earlier
    <3> HIDE DEF n
    <3>5. Unmissed(t, w, q, n)
      BY <3>2, <3>4, ProceedsUnmissed
    <3> QED
      BY <3>5 DEF n
  <2> QED
    BY <1>1, <2>3, <2>4 DEF Walking
<1> QED
  BY <1>2, <1>3, <1>4, <1>5 DEF Heeding

-----------------------------------------------------------------------------
(* What the functions of the pane decide.                                      *)

\* A walk begins, or goes on: its question is the last that is sent, and it has its file and
\* all the others that are open to ask about, or knows of the edits in those it has not.
Passed(t, q, upto) ==
    \A p \in Paths \ OnWalk(q) : Overlooked(t, Seen, p) => ~Edited(pane, Seen, p, 1..upto)
WalkBegins(s, t, q) ==
    /\ \A i \in 1..Len(s.toPage) : s.toPage[i] # Asking(q)
    /\ \A i \in DOMAIN s.replies : ~Answers(s.replies[i], q)
    /\ \A i \in DOMAIN t.toPage : t.toPage[i] = Asking(q) => i = Len(t.toPage)
    /\ \/ \A p \in Paths \ OnWalk(q) : ~IsOpen(t, p)
       \/ /\ q.since <= Clock /\ Passed(t, q, q.since)
          /\ q.since = 0 \/ \A p \in Paths : ~ToRefill(pane, p)
Leaves(t) ==
    \A p \in Paths : IsOpen(t, p) /\ p \notin ghost.misread => ~Edited(pane, Seen, p, 1..t.quitSince)

\* From s to t only what is safe is sent, no tab becomes a preview, and a walk begins or
\* ends only if it has missed nothing.
Minds(s, t) ==
    /\ s.waiting \subseteq t.waiting /\ t.replies = s.replies
    /\ \A i \in (Len(s.toPage) + 1)..Len(t.toPage) :
           /\ Replaces(t.toPage[i]) => Safe(pane, Seen, t.toPage[i])
           /\ \A q \in s.waiting : t.toPage[i] # Asking(q)
    /\ \A i \in DOMAIN t.tabs : ~t.tabs[i].pinned =>
           \E j \in DOMAIN s.tabs : /\ s.tabs[j].path = t.tabs[i].path /\ ~s.tabs[j].pinned
                                    /\ t.tabs[i].dirty => s.tabs[j].dirty
    /\ \A q \in t.waiting : Drains(q) => q \in s.waiting \/ WalkBegins(s, t, q)
    /\ t.quit = "yes" => s.quit = "yes" \/ Leaves(t)

\* A function of the pane that begins no walk, and another.
LEMMA MindsInTurn ==
    ASSUME NEW s, NEW t, NEW u, NEW d, NEW e, Handles(s, t, d), Handles(t, u, e),
           Len(s.toPage) \in Nat, Len(t.toPage) \in Nat, Len(u.toPage) \in Nat,
           Minds(s, t), Minds(t, u), t.waiting = s.waiting, t.quit = s.quit
    PROVE  Minds(s, u)
<1> DEFINE a == Len(s.toPage)
           b == Len(t.toPage)
           c == Len(u.toPage)
<1>1. /\ a <= b /\ b <= c
      /\ \A i \in 1..a : t.toPage[i] = s.toPage[i]
      /\ \A i \in 1..b : u.toPage[i] = t.toPage[i]
  BY DEF Handles, Carries
<1>2. a \in Nat /\ b \in Nat /\ c \in Nat
  OBVIOUS
<1>3. ASSUME NEW i \in (a + 1)..c
      PROVE  /\ Replaces(u.toPage[i]) => Safe(pane, Seen, u.toPage[i])
             /\ \A q \in s.waiting : u.toPage[i] # Asking(q)
  <2>1. CASE i \in (a + 1)..b
    <3>1. u.toPage[i] = t.toPage[i]
      BY <1>1, <1>2, <2>1
    <3> QED
      BY <2>1, <3>1 DEF Minds
  <2>2. CASE i \in (b + 1)..c
    BY <2>2 DEF Minds
  <2> QED
    BY <1>2, <2>1, <2>2
<1>4. ASSUME NEW i \in DOMAIN u.tabs, ~u.tabs[i].pinned
      PROVE  \E j \in DOMAIN s.tabs : /\ s.tabs[j].path = u.tabs[i].path /\ ~s.tabs[j].pinned
                                      /\ u.tabs[i].dirty => s.tabs[j].dirty
  <2>1. PICK k \in DOMAIN t.tabs : /\ t.tabs[k].path = u.tabs[i].path /\ ~t.tabs[k].pinned
                                   /\ u.tabs[i].dirty => t.tabs[k].dirty
    BY <1>4 DEF Minds
  <2>2. PICK j \in DOMAIN s.tabs : /\ s.tabs[j].path = t.tabs[k].path /\ ~s.tabs[j].pinned
                                   /\ t.tabs[k].dirty => s.tabs[j].dirty
    BY <2>1 DEF Minds
  <2> QED
    BY <2>1, <2>2
<1>5. ASSUME NEW q \in u.waiting, Drains(q), q \notin s.waiting
      PROVE  WalkBegins(s, u, q)
  <2>1. WalkBegins(t, u, q)
    BY <1>5 DEF Minds
  <2>2. \A i \in 1..a : i \in 1..b
    BY <1>1, <1>2
  <2>3. \A i \in 1..a : s.toPage[i] # Asking(q)
    BY <1>1, <2>1, <2>2 DEF WalkBegins
  <2>4. t.replies = s.replies
    BY DEF Minds
  <2> QED
    BY <2>1, <2>3, <2>4 DEF WalkBegins
<1>6. s.waiting \subseteq u.waiting /\ u.replies = s.replies
  BY DEF Minds
<1>7. u.quit = "yes" => s.quit = "yes" \/ Leaves(u)
  BY DEF Minds
<1> QED
  BY <1>3, <1>4, <1>5, <1>6, <1>7 DEF Minds

\* Nothing is sent, asked or left.
LEMMA StillMinds ==
    ASSUME NEW s, NEW t, t.tabs = s.tabs, t.toPage = s.toPage, t.waiting = s.waiting,
           t.replies = s.replies, Len(s.toPage) \in Nat, t.quit = "yes" => s.quit = "yes"
    PROVE  Minds(s, t)
<1>1. ~\E i \in (Len(s.toPage) + 1)..Len(t.toPage) : TRUE
  OBVIOUS
<1> QED
  BY <1>1 DEF Minds

\* A command is sent that asks nothing.
LEMMA SentMinds ==
    ASSUME NEW s, NEW t, NEW c, s \in PaneType, c \in Command, ~Asks(c),
           t.toPage = IF s.life = "crashed" THEN s.toPage ELSE Append(s.toPage, c),
           t.tabs = s.tabs, t.waiting = s.waiting, t.replies = s.replies, t.quit = s.quit,
           Replaces(c) => Safe(pane, Seen, c)
    PROVE  Minds(s, t)
<1>1. s.toPage \in Seq(Command) /\ Len(s.toPage) \in Nat /\ s.waiting \subseteq Questions
  BY DEF PaneType
<1>2. CASE s.life = "crashed"
  BY <1>1, <1>2, StillMinds
<1>3. CASE s.life # "crashed"
  <2>1. Len(t.toPage) = Len(s.toPage) + 1 /\ t.toPage[Len(s.toPage) + 1] = c
    BY <1>1, <1>3
  <2>2. \A i \in (Len(s.toPage) + 1)..Len(t.toPage) : t.toPage[i] = c
    BY <1>1, <2>1
  <2>3. ASSUME NEW q \in s.waiting
        PROVE  c # Asking(q)
    <3>1. q.op \in {"content", "clean"}
      BY <1>1 DEF Questions
    <3> QED
      BY <3>1 DEF Asking, Asks
  <2> QED
    BY <2>2, <2>3 DEF Minds
<1> QED
  BY <1>2, <1>3

\* A question is asked; if it is the one of a walk, the walk is right.
LEMMA AskMinds ==
    ASSUME NEW s, Typed(s), NEW op \in {"content", "clean"}, NEW p \in Paths,
           NEW why, NEW tab, NEW rest, NEW since,
           op = "clean" /\ why = "drain" =>
               \/ \A x \in Paths \ ({p} \cup Range(rest)) : ~IsOpen(s, x)
               \/ /\ since <= Clock /\ (since = 0 \/ \A x \in Paths : ~ToRefill(pane, x))
                  /\ \A x \in Paths \ ({p} \cup Range(rest)) :
                         Overlooked(s, Seen, x) => ~Edited(pane, Seen, x, 1..since)
    PROVE  Minds(s, Ask(s, op, p, why, tab, rest, since))
<1> DEFINE id == FreshId(s)
           c == [op |-> op, path |-> p, id |-> id]
           q == Question(op, p, id, why, tab, rest, since)
           r == Send(s, c)
           t == Ask(s, op, p, why, tab, rest, since)
<1>1. s \in PaneType /\ IsFiniteSet(s.waiting) /\ s.toPage \in Seq(Command) /\ Len(s.toPage) \in Nat
  BY DEF Typed, PaneType
<1>2. id \in Nat /\ id \notin UsedIds(s)
  BY <1>1, FreshIdIsNew
<1>3. c \in Command /\ c.op = op /\ c.path = p /\ c.id = id
  BY <1>2, Commands
<1>4. /\ r \in PaneType
      /\ r.toPage = IF s.life = "crashed" THEN s.toPage ELSE Append(s.toPage, c)
      /\ r.tabs = s.tabs /\ r.replies = s.replies /\ r.waiting = s.waiting
  BY <1>1, <1>3, SendIsSent
<1>5. r.quit = s.quit
  <2> DEFINE more == Append(s.toPage, c)
  <2>1. r \in {s, [s EXCEPT !.toPage = more]}
    BY DEF Send
  <2> HIDE DEF r, more
  <2> QED
    BY <1>1, <2>1 DEF PaneType
<1>6. t = [r EXCEPT !.waiting = r.waiting \cup {q}]
  BY DEF Ask
<1>7. /\ Asking(q) = c /\ q.op = op /\ q.why = why /\ q.path = p /\ q.rest = rest /\ q.since = since /\ q.id = id
  BY DEF Asking, Question
<1> HIDE DEF r, t, q, c, id
<1>8. /\ t.toPage = r.toPage /\ t.tabs = r.tabs /\ t.replies = r.replies /\ t.quit = r.quit
      /\ t.waiting = s.waiting \cup {q}
  BY <1>4, <1>6 DEF PaneType
<1>9. /\ \A x \in s.waiting : x.id # id
      /\ \A i \in DOMAIN s.toPage : Asks(s.toPage[i]) => s.toPage[i].id # id
      /\ \A i \in DOMAIN s.replies : s.replies[i].id # id
  BY <1>2, UsedIdsAre
<1>10. Asks(c) /\ ~Replaces(c)
  BY <1>3 DEF Asks, Replaces
<1>11. \A i \in 1..Len(s.toPage) : s.toPage[i] # c
  <2>1. DOMAIN s.toPage = 1..Len(s.toPage)
    BY <1>1
  <2> QED
    BY <1>3, <1>9, <1>10, <2>1
<1>12. \A i \in (Len(s.toPage) + 1)..Len(t.toPage) : t.toPage[i] = c /\ i = Len(t.toPage)
  <2>1. CASE s.life = "crashed"
    BY <1>1, <1>4, <1>8, <2>1
  <2>2. CASE s.life # "crashed"
    <3>1. t.toPage = Append(s.toPage, c)
      BY <1>4, <1>8, <2>2
    <3>2. Len(t.toPage) = Len(s.toPage) + 1 /\ t.toPage[Len(s.toPage) + 1] = c
      BY <1>1, <1>3, <3>1
    <3> QED
      BY <1>1, <3>2
  <2> QED
    BY <2>1, <2>2
<1>13. \A i \in DOMAIN t.toPage : t.toPage[i] = c => i = Len(t.toPage)
  <2>1. CASE s.life = "crashed"
    BY <1>1, <1>4, <1>8, <1>11, <2>1
  <2>2. CASE s.life # "crashed"
    <3>1. t.toPage = Append(s.toPage, c)
      BY <1>4, <1>8, <2>2
    <3>2. /\ Len(t.toPage) = Len(s.toPage) + 1 /\ DOMAIN t.toPage = 1..(Len(s.toPage) + 1)
          /\ \A i \in 1..Len(s.toPage) : t.toPage[i] = s.toPage[i]
      BY <1>1, <1>3, <3>1
    <3>3. \A i \in 1..(Len(s.toPage) + 1) : i \in 1..Len(s.toPage) \/ i = Len(s.toPage) + 1
      BY <1>1
    <3> QED
      BY <1>11, <3>2, <3>3
  <2> QED
    BY <2>1, <2>2
<1>14. \A x : IsOpen(t, x) <=> IsOpen(s, x)
  BY <1>4, <1>8 DEF IsOpen
<1>15. \A x : Overlooked(t, Seen, x) => Overlooked(s, Seen, x)
  BY <1>4, <1>8 DEF Overlooked, IsOpen, IsDirty, IndexOf
<1>16. ASSUME Drains(q)
       PROVE  WalkBegins(s, t, q)
  <2>1. OnWalk(q) = {p} \cup Range(rest) /\ op = "clean" /\ why = "drain"
    BY <1>7, <1>16 DEF OnWalk, Drains
  <2>2. \A i \in DOMAIN s.replies : ~Answers(s.replies[i], q)
    BY <1>7, <1>9 DEF Answers
  <2>3. \/ \A x \in Paths \ OnWalk(q) : ~IsOpen(t, x)
        \/ /\ q.since <= Clock /\ Passed(t, q, q.since)
           /\ q.since = 0 \/ \A x \in Paths : ~ToRefill(pane, x)
    BY <1>7, <1>14, <1>15, <2>1 DEF Passed
  <2> QED
    BY <1>7, <1>11, <1>13, <2>2, <2>3 DEF WalkBegins
<1>17. \A x \in s.waiting : c # Asking(x)
  BY <1>3, <1>9 DEF Asking
<1>18. /\ s.waiting \subseteq t.waiting /\ t.replies = s.replies /\ t.quit = s.quit /\ t.tabs = s.tabs
       /\ \A x \in t.waiting : x \in s.waiting \/ x = q
  BY <1>4, <1>5, <1>8
<1>19. Minds(s, t)
  BY <1>10, <1>12, <1>16, <1>17, <1>18 DEF Minds
<1> QED
  BY <1>19 DEF t

\* A decision that knows of no edit is safe, and so is any while there is no page.
LEMMA NothingKnown ==
    ASSUME NEW v, NEW s, NEW p
    PROVE  ~Edited(s, v, p, 1..0)
<1>1. 1..0 = {}
  OBVIOUS
<1> QED
  BY <1>1 DEF Edited, MayHold

Calm == pane.life = "loading" => \A p \in Paths : \A n \in Nat : ~Edited(pane, Seen, p, 1..n)
LEMMA CalmWhileLoading ==
    ASSUME IInv
    PROVE  Calm
<1> SUFFICES ASSUME pane.life = "loading", NEW p \in Paths, NEW n \in Nat
             PROVE  ~Edited(pane, Seen, p, 1..n)
  BY DEF Calm
<1>1. page[p] = NoModel /\ \A i \in DOMAIN pane.toPage : pane.toPage[i].op \in {"open", "set", "close"}
  BY DEF IInv, Linked, DownIsEmpty, Down, Now
<1>2. page[p].first \notin 1..n
  BY <1>1 DEF NoModel
<1>3. DOMAIN pane.toPage = 1..Len(pane.toPage)
  BY StepIsShaped, PaneIsShaped DEF IInv, Linked, Typed, Shaped
<1>4. \A i \in 1..Len(pane.toPage) : ~Is(pane.toPage[i], "restore", p)
  BY <1>1, <1>3 DEF Is
<1> QED
  BY <1>2, <1>4 DEF Edited, MayHold, Seen

\* A card is presented.
LEMMA PresentMinds ==
    ASSUME NEW s, s \in PaneType, NEW kind, NEW p
    PROVE  Minds(s, Present(s, kind, p)) /\ Minds(s, CancelAsk(s))
<1> DEFINE r == CancelAsk(s)
           card == [kind |-> kind, path |-> p, index |-> IF IsOpen(s, p) THEN IndexOf(s, p) ELSE 0]
           quit == IF s.ask.kind = "drain" THEN "no" ELSE s.quit
           t == Present(s, kind, p)
<1>1. r = [s EXCEPT !.ask = NoAsk, !.quit = quit] /\ t = [s EXCEPT !.ask = card, !.quit = quit]
  BY DEF Present, CancelAsk, PaneType
<1>2. quit = "yes" => s.quit = "yes"
  OBVIOUS
<1> HIDE DEF r, card, quit, t
<1>3. /\ t.tabs = s.tabs /\ t.toPage = s.toPage /\ t.waiting = s.waiting /\ t.replies = s.replies
      /\ t.quit = quit
  BY <1>1 DEF PaneType
<1>4. /\ r.tabs = s.tabs /\ r.toPage = s.toPage /\ r.waiting = s.waiting /\ r.replies = s.replies
      /\ r.quit = quit
  BY <1>1 DEF PaneType
<1>5. Len(s.toPage) \in Nat
  BY DEF PaneType
<1>6. Minds(s, t) /\ Minds(s, r)
  BY <1>2, <1>3, <1>4, <1>5, StillMinds
<1> QED
  BY <1>6 DEF t, r

\* A flag is set, or taken down.
LEMMA SetDirtyMinds ==
    ASSUME NEW s, s \in PaneType, NEW p, NEW dirty \in BOOLEAN
    PROVE  /\ Minds(s, SetDirty(s, p, dirty))
           /\ SetDirty(s, p, dirty).waiting = s.waiting /\ SetDirty(s, p, dirty).quit = s.quit
           /\ SetDirty(s, p, dirty).toPage = s.toPage /\ SetDirty(s, p, dirty).life = s.life
           /\ \A x : IsOpen(SetDirty(s, p, dirty), x) <=> IsOpen(s, x)
<1> DEFINE t == SetDirty(s, p, dirty)
           i == IndexOf(s, p)
           tab == [path |-> p, dirty |-> dirty, pinned |-> s.tabs[i].pinned \/ dirty]
           new == [s.tabs EXCEPT ![i] = tab]
<1>1. CASE ~IsOpen(s, p)
  <2>1. t = s
    BY <1>1 DEF SetDirty
  <2>2. Minds(s, s)
    BY StillMinds DEF PaneType
  <2> QED
    BY <2>1, <2>2
<1>2. CASE IsOpen(s, p)
  <2>1. i \in DOMAIN s.tabs /\ s.tabs[i].path = p /\ s.tabs \in Seq(Tab)
    BY <1>2, TabOf DEF PaneType
  <2>2. t = [s EXCEPT !.tabs = new]
    BY <1>2 DEF SetDirty, PaneType
  <2>3. tab.path = p /\ tab.dirty = dirty /\ (~tab.pinned => ~s.tabs[i].pinned /\ ~dirty)
    OBVIOUS
  <2> HIDE DEF i, t, tab
  <2>4. /\ DOMAIN new = DOMAIN s.tabs /\ new[i] = tab
        /\ \A j \in DOMAIN new : j # i => new[j] = s.tabs[j]
    BY <2>1
  <2> HIDE DEF new
  <2>5. /\ t.tabs = new /\ t.toPage = s.toPage /\ t.waiting = s.waiting /\ t.replies = s.replies
        /\ t.quit = s.quit /\ t.life = s.life
    BY <2>2 DEF PaneType
  <2>6. \A x : IsOpen(t, x) <=> IsOpen(s, x)
    BY <2>1, <2>3, <2>4, <2>5 DEF IsOpen
  <2>7. ASSUME NEW j \in DOMAIN t.tabs, ~t.tabs[j].pinned
        PROVE  /\ j \in DOMAIN s.tabs /\ s.tabs[j].path = t.tabs[j].path /\ ~s.tabs[j].pinned
               /\ t.tabs[j].dirty => s.tabs[j].dirty
    <3>1. CASE j = i
      BY <2>1, <2>3, <2>4, <2>5, <2>7, <3>1
    <3>2. CASE j # i
      BY <2>4, <2>5, <2>7, <3>2
    <3> QED
      BY <3>1, <3>2
  <2>8. ~(\E j \in (Len(s.toPage) + 1)..Len(t.toPage) : TRUE)
    BY <2>5 DEF PaneType
  <2>9. Minds(s, t)
    BY <2>5, <2>7, <2>8 DEF Minds
  <2> QED
    BY <2>5, <2>6, <2>9 DEF t
<1> QED
  BY <1>1, <1>2

\* The tabs that stay were there.
LEMMA TabsThatStay ==
    ASSUME NEW tabs \in Seq(Tab), NEW i \in DOMAIN tabs
    PROVE  \A j \in DOMAIN RemoveAt(tabs, i) : \E k \in DOMAIN tabs : RemoveAt(tabs, i)[j] = tabs[k]
<1> DEFINE a == SubSeq(tabs, 1, i - 1)
           b == SubSeq(tabs, i + 1, Len(tabs))
<1>1. Len(tabs) \in Nat /\ i \in 1..Len(tabs) /\ DOMAIN tabs = 1..Len(tabs)
  OBVIOUS
<1>2. a \in Seq(Tab) /\ Len(a) = i - 1 /\ \A j \in 1..(i - 1) : a[j] = tabs[j]
  BY <1>1
<1>3. b \in Seq(Tab) /\ Len(b) = Len(tabs) - i /\ \A j \in 1..(Len(tabs) - i) : b[j] = tabs[j + i]
  BY SMTT(30), <1>1
<1>4. RemoveAt(tabs, i) = a \o b
  BY DEF RemoveAt
<1> HIDE DEF a, b
<1>5. /\ DOMAIN (a \o b) = 1..(Len(tabs) - 1)
      /\ \A j \in 1..(Len(tabs) - 1) : (a \o b)[j] = IF j <= i - 1 THEN a[j] ELSE b[j - (i - 1)]
  <2>1. /\ DOMAIN (a \o b) = 1..(Len(a) + Len(b))
        /\ \A j \in 1..(Len(a) + Len(b)) : (a \o b)[j] = IF j <= Len(a) THEN a[j] ELSE b[j - Len(a)]
    BY SMTT(30), <1>2, <1>3
  <2>2. Len(a) + Len(b) = Len(tabs) - 1
    BY <1>1, <1>2, <1>3
  <2> QED
    BY <1>2, <2>1, <2>2
<1>6. ASSUME NEW j \in 1..(Len(tabs) - 1)
      PROVE  \E k \in DOMAIN tabs : (a \o b)[j] = tabs[k]
  <2>1. CASE j <= i - 1
    <3>1. j \in 1..(i - 1) /\ j \in 1..Len(tabs)
      BY <1>1, <2>1
    <3> QED
      BY <1>1, <1>2, <1>5, <2>1, <3>1
  <2>2. CASE ~(j <= i - 1)
    <3>1. j - (i - 1) \in 1..(Len(tabs) - i) /\ (j - (i - 1)) + i = j + 1 /\ j + 1 \in 1..Len(tabs)
      BY <1>1, <2>2
    <3>2. (a \o b)[j] = tabs[j + 1]
      BY <1>3, <1>5, <2>2, <3>1
    <3> QED
      BY <1>1, <3>1, <3>2
  <2> QED
    BY <2>1, <2>2
<1> QED
  BY <1>4, <1>5, <1>6

\* A tab is closed that has no edit that was known.
LEMMA CloseMinds ==
    ASSUME NEW s, s \in PaneType, NEW p \in Paths, NEW upto \in Nat,
           upto <= Clock, ~Edited(pane, Seen, p, 1..upto)
    PROVE  /\ Minds(s, PerformClose(s, p, upto))
           /\ PerformClose(s, p, upto).waiting = s.waiting /\ PerformClose(s, p, upto).quit = s.quit
<1> DEFINE t == PerformClose(s, p, upto)
           i == IndexOf(s, p)
           new == RemoveAt(s.tabs, i)
           c == [op |-> "close", path |-> p, upto |-> upto]
           queue == IF s.life = "crashed" THEN s.toPage ELSE Append(s.toPage, c)
<1>1. CASE ~IsOpen(s, p)
  <2>1. t = s
    BY <1>1 DEF PerformClose
  <2>2. Minds(s, s)
    BY StillMinds DEF PaneType
  <2> QED
    BY <2>1, <2>2
<1>2. CASE IsOpen(s, p)
  <2>1. c \in Command /\ c.op = "close" /\ c.path = p /\ c.upto = upto
    BY Commands
  <2>2. i \in DOMAIN s.tabs /\ s.tabs \in Seq(Tab)
    BY <1>2, TabOf DEF PaneType
  <2>3. \E unseen, shots : t = [s EXCEPT !.tabs = new, !.toPage = queue, !.unseen = unseen, !.snapshots = shots]
    <3> DEFINE r == [s EXCEPT !.tabs = new]
               u == Send(r, c)
               unseen == u.unseen \ {p}
               shots == [u.snapshots EXCEPT ![p] = 0]
    <3>1. t = [u EXCEPT !.unseen = unseen, !.snapshots = shots]
      BY <1>2 DEF PerformClose, DiscardResources
    <3> HIDE DEF unseen, shots, new, c
    <3>2. r.life = s.life /\ r.toPage = s.toPage
      BY DEF PaneType
    <3>3. u = [s EXCEPT !.tabs = new, !.toPage = queue]
      BY <3>2 DEF Send, PaneType
    <3> HIDE DEF u, t
    <3>4. t = [s EXCEPT !.tabs = new, !.toPage = queue, !.unseen = unseen, !.snapshots = shots]
      BY <3>1, <3>3 DEF PaneType
    <3> QED
      BY <3>4 DEF t
  <2>4. \A j \in DOMAIN new : \E k \in DOMAIN s.tabs : new[j] = s.tabs[k]
    BY <2>2, TabsThatStay
  <2> HIDE DEF t, i, new, c
  <2>5. /\ t.tabs = new /\ t.toPage = queue /\ t.waiting = s.waiting /\ t.replies = s.replies
        /\ t.quit = s.quit
    BY <2>3 DEF PaneType
  <2>6. ~Asks(c) /\ (Replaces(c) => Safe(pane, Seen, c))
    BY <2>1 DEF Asks, Safe, Seen
  <2> DEFINE r == [s EXCEPT !.toPage = queue]
  <2>7. /\ r.tabs = s.tabs /\ r.toPage = queue /\ r.waiting = s.waiting /\ r.replies = s.replies
        /\ r.quit = s.quit
    BY DEF PaneType
  <2> HIDE DEF r
  <2>8. Minds(s, r)
    BY <2>1, <2>6, <2>7, SentMinds
  <2>9. Minds(s, t)
    <3>1. \A j \in (Len(s.toPage) + 1)..Len(t.toPage) :
             /\ Replaces(t.toPage[j]) => Safe(pane, Seen, t.toPage[j])
             /\ \A q \in s.waiting : t.toPage[j] # Asking(q)
      BY <2>5, <2>7, <2>8 DEF Minds
    <3>2. \A j \in DOMAIN t.tabs : ~t.tabs[j].pinned =>
             \E k \in DOMAIN s.tabs : /\ s.tabs[k].path = t.tabs[j].path /\ ~s.tabs[k].pinned
                                      /\ t.tabs[j].dirty => s.tabs[k].dirty
      BY <2>4, <2>5
    <3> QED
      BY <2>5, <3>1, <3>2 DEF Minds
  <2> QED
    BY <2>5, <2>9 DEF t
<1> QED
  BY <1>1, <1>2

\* requestCloseTab: what is closed is closed on the page's word.
LEMMA CloseOrPromptMinds ==
    ASSUME NEW s, s \in PaneType, NEW p \in Paths, NEW dirty \in BOOLEAN, NEW known \in Nat,
           dirty \/ (known <= Clock /\ ~Edited(pane, Seen, p, 1..known))
    PROVE  Minds(s, CloseOrPrompt(s, p, dirty, known))
<1>1. Minds(s, s) /\ Minds(s, Present(s, "close", p))
  BY StillMinds, PresentMinds DEF PaneType
<1>2. CASE ~dirty
  <2>1. Minds(s, PerformClose(s, p, known))
    BY <1>2, CloseMinds
  <2> QED
    BY <1>1, <1>2, <2>1 DEF CloseOrPrompt
<1>3. CASE dirty
  BY <1>1, <1>3 DEF CloseOrPrompt
<1> QED
  BY <1>2, <1>3

LEMMA RequestCloseMinds ==
    ASSUME NEW s, Typed(s), NEW p \in Paths, CountsTyped, Calm, s.life = "loading" => pane.life = "loading"
    PROVE  Minds(s, RequestClose(s, p))
<1> DEFINE dirty == IsDirty(s, p)
<1>1. dirty \in BOOLEAN /\ s \in PaneType
  BY FlagIsBoolean DEF Typed
<1>2. RequestClose(s, p) = IF IsReady(s) THEN Ask(s, "clean", p, "close", p, <<>>, Latest)
                           ELSE CloseOrPrompt(s, p, dirty, Clock)
  BY DEF RequestClose
<1> HIDE DEF dirty
<1>3. CASE IsReady(s)
  <2>1. Minds(s, Ask(s, "clean", p, "close", p, <<>>, Latest))
    BY AskMinds
  <2> QED
    BY <1>2, <1>3, <2>1
<1>4. CASE ~IsReady(s)
  <2>1. Clock \in Nat
    BY ClocksAreNumbers
  <2> DEFINE n == Clock
  <2>2. n \in Nat /\ n <= Clock /\ ~Edited(pane, Seen, p, 1..n)
    BY <1>4, <2>1 DEF IsReady, Calm
  <2>3. RequestClose(s, p) = CloseOrPrompt(s, p, dirty, n)
    BY <1>2, <1>4
  <2> HIDE DEF n
  <2> QED
    BY <1>1, <2>2, <2>3, CloseOrPromptMinds
<1> QED
  BY <1>3, <1>4

\* saveTabsSerially
LEMMA SaveSeriallyMinds ==
    ASSUME NEW s, Typed(s), NEW paths \in Seq(Paths)
    PROVE  Minds(s, SaveSerially(s, paths))
<1>1. CASE WalkEnds(s, paths) \/ ~IsReady(s)
  BY <1>1, StillMinds DEF SaveSerially, Typed, PaneType
<1>2. CASE ~WalkEnds(s, paths) /\ IsReady(s)
  <2> DEFINE i == NextOpen(s, paths)
  <2>1. paths[i] \in Paths
    BY <1>2, NextOpenIsOpen
  <2>2. SaveSerially(s, paths) = Ask(s, "content", paths[i], "saveAll", paths[i], Rest(paths, i), Latest)
    BY <1>2 DEF SaveSerially, Save
  <2> HIDE DEF i
  <2> QED
    BY <2>1, <2>2, AskMinds
<1> QED
  BY <1>1, <1>2

\* When no path is flagged, no tab is.
LEMMA NoDirtyPaths ==
    ASSUME NEW s, s \in PaneType, DirtyPaths(s) = <<>>, NEW p
    PROVE  ~IsDirty(s, p)
<1> DEFINE I == DirtyTabs(s)
           order == InOrder(I)
<1>1. I \subseteq DOMAIN s.tabs /\ s.tabs \in Seq(Tab) /\ DOMAIN s.tabs \subseteq Nat
  BY DEF DirtyTabs, PaneType
<1>2. IsFiniteSet(I)
  BY <1>1, FiniteQueue
<1>3. I \subseteq Nat
  BY <1>1
<1>4. \A i \in I : \E k \in DOMAIN order : order[k] = i
  <2> HIDE DEF I
  <2> QED
    BY <1>2, <1>3, InOrderHasAll
<1>5. DOMAIN DirtyPaths(s) = DOMAIN order
  BY DEF DirtyPaths
<1> HIDE DEF order
<1>6. DOMAIN order = {}
  BY <1>5
<1>7. I = {}
  BY <1>4, <1>6
<1>8. IsOpen(s, p) => IndexOf(s, p) \in DOMAIN s.tabs
  BY TabOf
<1> QED
  BY <1>7, <1>8 DEF DirtyTabs, IsDirty

\* The walk of a close ends in the answer that the pane may go only if it has missed nothing.
Faultless(s, since) == \A p \in Paths : Overlooked(s, Seen, p) => ~Edited(pane, Seen, p, 1..since)
Passing(s, paths, since) ==
    /\ \A p \in Paths \ Range(paths) : Overlooked(s, Seen, p) => ~Edited(pane, Seen, p, 1..since)
    /\ \/ \A p \in Paths \ Range(paths) : ~IsOpen(s, p)
       \/ since <= Clock /\ (since = 0 \/ \A p \in Paths : ~ToRefill(pane, p))

LEMMA ReconciledMinds ==
    ASSUME NEW s, Typed(s), NEW why \in {"drain", "saveAll"}, NEW since \in Nat,
           why = "drain" => Faultless(s, since)
    PROVE  Minds(s, Reconciled(s, why, since))
<1>1. s \in PaneType /\ Len(s.toPage) \in Nat
  BY DEF Typed, PaneType
<1>2. CASE why = "saveAll"
  <2>1. Reconciled(s, why, since) = SaveSerially(s, DirtyPaths(s))
    BY <1>2 DEF Reconciled
  <2> QED
    BY <1>1, <2>1, PathsOfTabs, SaveSeriallyMinds
<1>3. CASE why = "drain"
  <2> DEFINE p == Head(DirtyPaths(s))
             card == [kind |-> "drain", path |-> p, index |-> IF IsOpen(s, p) THEN IndexOf(s, p) ELSE 0]
             quit == IF s.ask.kind = "drain" THEN "no" ELSE s.quit
             t == Reconciled(s, why, since)
  <2>1. \/ t = [s EXCEPT !.quit = "yes", !.quitSince = since] /\ DirtyPaths(s) = <<>>
        \/ t = [s EXCEPT !.ask = card, !.quit = quit, !.quitSince = since]
    BY <1>1, <1>3 DEF Reconciled, DrainReconciled, Present, CancelAsk, PaneType
  <2>2. quit = "yes" => s.quit = "yes"
    OBVIOUS
  <2> HIDE DEF card, quit, t
  <2>3. /\ t.tabs = s.tabs /\ t.toPage = s.toPage /\ t.waiting = s.waiting /\ t.replies = s.replies
        /\ t.quit = "yes" => s.quit = "yes" \/ (DirtyPaths(s) = <<>> /\ t.quitSince = since)
    BY <1>1, <2>1, <2>2 DEF PaneType
  <2>4. ASSUME DirtyPaths(s) = <<>>, t.quitSince = since
        PROVE  Leaves(t)
    <3> SUFFICES ASSUME NEW x \in Paths, IsOpen(t, x), x \notin ghost.misread
                 PROVE  ~Edited(pane, Seen, x, 1..t.quitSince)
      BY DEF Leaves
    <3>1. IsOpen(s, x)
      BY <2>3 DEF IsOpen
    <3>2. ~IsDirty(s, x)
      BY <1>1, <2>4, NoDirtyPaths
    <3> QED
      BY <1>3, <2>4, <3>1, <3>2 DEF Faultless, Overlooked, Seen
  <2>5. t.quit = "yes" => s.quit = "yes" \/ Leaves(t)
    BY <2>3, <2>4
  <2>6. ~(\E i \in (Len(s.toPage) + 1)..Len(t.toPage) : TRUE)
    BY <1>1, <2>3
  <2>7. Minds(s, t)
    BY <2>3, <2>5, <2>6 DEF Minds
  <2> QED
    BY <2>7 DEF t
<1> QED
  BY <1>2, <1>3

LEMMA ReconcileRestMinds ==
    ASSUME NEW s, Typed(s), NEW paths \in Seq(Paths), NEW why \in {"drain", "saveAll"},
           NEW since \in Nat, Calm, s.life = "loading" => pane.life = "loading",
           why = "drain" => Passing(s, paths, since)
    PROVE  Minds(s, ReconcileRest(s, paths, why, since))
<1>1. CASE WalkEnds(s, paths) \/ ~IsReady(s)
  <2>1. ASSUME why = "drain"
        PROVE  Faultless(s, since)
    <3> SUFFICES ASSUME NEW p \in Paths, Overlooked(s, Seen, p)
                 PROVE  ~Edited(pane, Seen, p, 1..since)
      BY DEF Faultless
    <3>1. CASE ~IsReady(s)
      BY <3>1 DEF IsReady, Calm
    <3>2. CASE WalkEnds(s, paths)
      <4>1. p \notin Range(paths)
        BY <3>2 DEF WalkEnds, Overlooked, Range
      <4> QED
        BY <2>1, <4>1 DEF Passing
    <3> QED
      BY <1>1, <3>1, <3>2
  <2> QED
    BY <1>1, <2>1, ReconciledMinds DEF ReconcileRest
<1>2. CASE ~WalkEnds(s, paths) /\ IsReady(s)
  <2> DEFINE i == NextOpen(s, paths)
             p == paths[i]
             rest == Rest(paths, i)
  <2>1. i \in DOMAIN paths /\ p \in Paths /\ \A j \in 1..(i - 1) : ~IsOpen(s, paths[j])
    BY <1>2, NextOpenIsOpen
  <2>2. ReconcileRest(s, paths, why, since) = Ask(s, "clean", p, why, p, rest, since)
    BY <1>2 DEF ReconcileRest
  <2>3. ASSUME NEW x \in Range(paths), IsOpen(s, x)
        PROVE  x \in {p} \cup Range(rest)
    <3>1. PICK j \in DOMAIN paths : paths[j] = x
      BY DEF Range
    <3>2. DOMAIN paths = 1..Len(paths) /\ Len(paths) \in Nat
      OBVIOUS
    <3>3. i \in Nat /\ i \in 1..Len(paths)
      BY <2>1, <3>2
    <3>4. j \notin 1..(i - 1)
      BY <2>1, <2>3, <3>1
    <3>5. j = i \/ j - i \in 1..(Len(paths) - i)
      BY <3>1, <3>2, <3>3, <3>4
    <3>6. CASE j - i \in 1..(Len(paths) - i)
      <4>1. rest = SubSeq(paths, i + 1, Len(paths))
        BY DEF Rest
      <4> HIDE DEF i, rest
      <4>2. DOMAIN rest = 1..(Len(paths) - i) /\ \A k \in 1..(Len(paths) - i) : rest[k] = paths[k + i]
        BY <3>2, <3>3, <4>1
      <4>3. (j - i) + i = j
        BY <3>1, <3>2, <3>3
      <4>4. j - i \in DOMAIN rest /\ rest[j - i] = x
        BY <3>1, <3>6, <4>2, <4>3
      <4> QED
        BY <4>4 DEF Range
    <3> QED
      BY <3>1, <3>5, <3>6
  <2> HIDE DEF i, p, rest
  <2>4. ASSUME why = "drain"
        PROVE  \/ \A x \in Paths \ ({p} \cup Range(rest)) : ~IsOpen(s, x)
               \/ /\ since <= Clock /\ (since = 0 \/ \A x \in Paths : ~ToRefill(pane, x))
                  /\ \A x \in Paths \ ({p} \cup Range(rest)) :
                         Overlooked(s, Seen, x) => ~Edited(pane, Seen, x, 1..since)
    <3>1. \A x \in Paths \ ({p} \cup Range(rest)) : IsOpen(s, x) => x \in Paths \ Range(paths)
      BY <2>3
    <3> QED
      BY <2>4, <3>1 DEF Passing, Overlooked
  <2>5. Minds(s, Ask(s, "clean", p, why, p, rest, since))
    BY <2>1, <2>4, AskMinds
  <2> QED
    BY <2>2, <2>5
<1> QED
  BY <1>1, <1>2

\* reconcileDirtyFlags, from the first tab.
LEMMA ReconcileMinds ==
    ASSUME NEW s, Typed(s), NEW why \in {"drain", "saveAll"}, CountsTyped, Calm,
           s.life = "loading" => pane.life = "loading"
    PROVE  Minds(s, Reconcile(s, why))
<1>1. s \in PaneType /\ Latest \in Nat
  BY ClocksAreNumbers DEF Typed
<1>2. OpenPaths(s) \in Seq(Paths)
  BY <1>1, PathsOfTabs
<1>3. \A p \in Paths \ Range(OpenPaths(s)) : ~IsOpen(s, p)
  BY DEF OpenPaths, Range, IsOpen
<1>4. Passing(s, OpenPaths(s), Latest)
  BY <1>3 DEF Passing, Overlooked
<1> QED
  BY <1>1, <1>2, <1>4, ReconcileRestMinds DEF Reconcile

\* resolveExternalChange: what is replaced is replaced on the page's word.
LEMMA ReloadMinds ==
    ASSUME NEW s, s \in PaneType, NEW p \in Paths, NEW known \in Nat, FilesTyped,
           known <= Clock, ~Edited(pane, Seen, p, 1..known)
    PROVE  Minds(s, ReloadFromDisk(s, p, known))
<1> DEFINE c == [op |-> "set", path |-> p, text |-> disk[p].text, upto |-> known]
           t == Send(s, c)
<1>1. disk[p].text \in Past
  BY DEF FilesTyped, File
<1>2. c \in Command /\ c.op = "set" /\ c.path = p /\ c.upto = known
  BY <1>1, Commands
<1>3. ReloadFromDisk(s, p, known) \in {s, t}
  BY DEF ReloadFromDisk
<1>4. ~Asks(c) /\ (Replaces(c) => Safe(pane, Seen, c))
  BY <1>2 DEF Asks, Safe, Seen
<1> HIDE DEF c
<1>5. /\ t.toPage = IF s.life = "crashed" THEN s.toPage ELSE Append(s.toPage, c)
      /\ t.tabs = s.tabs /\ t.waiting = s.waiting /\ t.replies = s.replies
  BY <1>2, SendIsSent
<1>6. t.quit = s.quit
  <2> DEFINE more == Append(s.toPage, c)
  <2>1. t \in {s, [s EXCEPT !.toPage = more]}
    BY DEF Send
  <2> HIDE DEF t, more
  <2> QED
    BY <2>1 DEF PaneType
<1> HIDE DEF t
<1>7. Minds(s, t)
  BY <1>2, <1>4, <1>5, <1>6, SentMinds
<1>8. Minds(s, s)
  BY StillMinds DEF PaneType
<1> QED
  BY <1>3, <1>7, <1>8

LEMMA ResolveMinds ==
    ASSUME NEW s, s \in PaneType, NEW p \in Paths, NEW clean \in BOOLEAN, NEW known \in Nat, FilesTyped,
           clean => known <= Clock /\ ~Edited(pane, Seen, p, 1..known)
    PROVE  Minds(s, ResolveExternalChange(s, p, clean, known))
<1>1. Minds(s, Present(s, "conflict", p))
  BY PresentMinds
<1>2. clean => Minds(s, ReloadFromDisk(s, p, known))
  BY ReloadMinds
<1>3. ASSUME NEW unseen
      PROVE  Minds(s, [s EXCEPT !.unseen = unseen])
  <2> DEFINE t == [s EXCEPT !.unseen = unseen]
  <2>1. /\ t.tabs = s.tabs /\ t.toPage = s.toPage /\ t.waiting = s.waiting /\ t.replies = s.replies
        /\ t.quit = s.quit /\ Len(s.toPage) \in Nat
    BY DEF PaneType
  <2> HIDE DEF t
  <2>2. Minds(s, t)
    BY <2>1, StillMinds
  <2> QED
    BY <2>2 DEF t
<1>4. \/ clean /\ ResolveExternalChange(s, p, clean, known) = ReloadFromDisk(s, p, known)
      \/ ResolveExternalChange(s, p, clean, known)
             \in {Present(s, "conflict", p)}
                 \cup {[s EXCEPT !.unseen = unseen] : unseen \in {s.unseen, s.unseen \cup {p}}}
  BY DEF ResolveExternalChange
<1> QED
  BY <1>1, <1>2, <1>3, <1>4

\* A save that fails.
LEMMA SaveFailedMinds ==
    ASSUME NEW s, s \in PaneType, NEW why
    PROVE  Minds(s, SaveFailed(s, why))
<1> DEFINE quit == IF why = "drain" THEN "no" ELSE s.quit
           t == SaveFailed(s, why)
<1>1. t = [s EXCEPT !.quit = quit] /\ (quit = "yes" => s.quit = "yes")
  BY DEF SaveFailed
<1> HIDE DEF quit, t
<1>2. /\ t.tabs = s.tabs /\ t.toPage = s.toPage /\ t.waiting = s.waiting /\ t.replies = s.replies
      /\ t.quit = quit /\ Len(s.toPage) \in Nat
  BY <1>1 DEF PaneType
<1>3. Minds(s, t)
  BY <1>1, <1>2, StillMinds
<1> QED
  BY <1>3 DEF t

\* What an answer says, or the deadline that speaks for it.
Heard(s, q, clean, known) ==
    /\ known <= Clock /\ (known = 0 \/ \A p \in Paths : ~ToRefill(pane, p))
    /\ clean => ~Edited(pane, Seen, q.path, 1..known)
    /\ Drains(q) => \A p \in Paths \ OnWalk(q) :
           Overlooked(s, Seen, p) => ~Edited(pane, Seen, p, 1..Earlier(known, q.since))

\* One function after another.
LEMMA ThenMinds ==
    ASSUME NEW s, NEW t, NEW u, NEW w, NEW d, NEW e, Deciding(s, w), Deciding(t, w), Fine(u, w),
           Handles(s, t, d), Handles(t, u, e), Minds(s, t), Minds(t, u),
           t.waiting = s.waiting, t.quit = s.quit
    PROVE  Minds(s, u)
<1>1. Len(s.toPage) \in Nat /\ Len(t.toPage) \in Nat /\ Len(u.toPage) \in Nat
  BY SMTT(30) DEF Deciding, Fine, Linked, Typed, PaneType
<1> QED
  BY <1>1, MindsInTurn

\* The completion of requestIsClean.
LEMMA OnCleanMinds ==
    ASSUME NEW s, NEW w, Deciding(s, w), NEW q \in Questions, q.op = "clean", NEW clean \in BOOLEAN,
           NEW known \in Nat, w.disk = disk, FilesTyped, CountsTyped, Calm,
           s.life = "loading" => pane.life = "loading", Heard(s, q, clean, known)
    PROVE  Minds(s, OnClean(s, q, clean, known))
<1> DEFINE t == OnClean(s, q, clean, known)
           p == q.path
           r == SetDirty(s, p, ~clean)
           d == IF ~clean THEN {} ELSE {p}
           told == Knows(q, known)
<1>0. /\ Fine(s, w) /\ p \in Paths /\ q.tab \in Paths /\ q.rest \in Seq(Paths) /\ q.since \in Nat
      /\ told \in Nat /\ s \in PaneType /\ Typed(s) /\ Clock \in Nat /\ (~clean) \in BOOLEAN
  BY CleanFields, ClocksAreNumbers DEF Deciding, Fine, Knows, Linked, Typed
<1>1. Deciding(r, w) /\ Handles(s, r, d)
  BY SetDirtyHandles, SetDirtyDecides
<1>2. /\ Minds(s, r) /\ r.waiting = s.waiting /\ r.quit = s.quit /\ r.life = s.life
      /\ Typed(r) /\ r \in PaneType /\ \A x : IsOpen(r, x) <=> IsOpen(s, x)
  BY <1>0, <1>1, SetDirtyMinds DEF Deciding, Linked, Typed
<1>3. Fine(t, w)
  BY OnCleanIsFine
<1>4. known <= Clock /\ (clean => ~Edited(pane, Seen, p, 1..known))
  BY DEF Heard
<1>5. clean => told <= Clock /\ ~Edited(pane, Seen, q.tab, 1..told)
  <2>1. CASE q.tab = p
    BY <1>4, <2>1 DEF Knows
  <2>2. CASE q.tab # p
    BY <1>0, <2>2, NothingKnown DEF Knows
  <2> QED
    BY <2>1, <2>2
<1>6. /\ ~clean => \A x \in Paths : x = p /\ IsOpen(r, x) => IsDirty(r, x)
      /\ \A x \in Paths : x # p => (IsDirty(r, x) <=> IsDirty(s, x))
  BY <1>0, <1>2, SetDirtyHandles
<1> HIDE DEF r, told
<1>7. CASE q.why = "check"
  <2>1. t = ResolveExternalChange(s, p, clean, known)
    BY <1>7 DEF OnClean
  <2> HIDE DEF t
  <2> QED
    BY <1>0, <1>4, <2>1, ResolveMinds DEF t
<1>8. CASE q.why = "close"
  <2> DEFINE dirty == ~clean
  <2>1. t = CloseOrPrompt(r, p, dirty, known)
    BY <1>8 DEF OnClean, r
  <2>2. dirty \in BOOLEAN /\ (dirty \/ (known <= Clock /\ ~Edited(pane, Seen, p, 1..known)))
    BY <1>0, <1>4
  <2> HIDE DEF t, dirty, p, d
  <2>3. Minds(r, t) /\ Handles(r, t, {})
    BY <1>0, <1>1, <1>2, <2>1, <2>2, CloseOrPromptMinds, CloseOrPromptHandles
  <2>4. Minds(s, t)
    BY <1>1, <1>2, <1>3, <2>3, ThenMinds
  <2> QED
    BY <2>4 DEF t
<1>9. CASE q.why \in {"drain", "saveAll"}
  <2> DEFINE since == Earlier(known, q.since)
  <2>1. t = ReconcileRest(r, q.rest, q.why, since)
    BY <1>9 DEF OnClean, r, Earlier
  <2>2. since \in Nat /\ since <= known /\ since <= Clock /\ (known = 0 => since = 0)
    BY <1>0, <1>4 DEF Earlier
  <2> HIDE DEF t, since, d
  <2>3. ASSUME q.why = "drain"
        PROVE  Passing(r, q.rest, since)
    <3>1. Drains(q)
      BY <2>3 DEF Drains
    <3>2. ASSUME NEW x \in Paths \ Range(q.rest), Overlooked(r, Seen, x)
          PROVE  ~Edited(pane, Seen, x, 1..since)
      <4>1. CASE x = p
        <5>1. clean
          BY <1>6, <3>2, <4>1 DEF Overlooked
        <5>2. 1..since \subseteq 1..known
          BY <2>2
        <5> QED
          BY <1>4, <4>1, <5>1, <5>2, HeldAmong DEF Edited
      <4>2. CASE x # p
        <5>1. Overlooked(s, Seen, x)
          BY <1>2, <1>6, <3>2, <4>2 DEF Overlooked
        <5>2. x \in Paths \ OnWalk(q)
          BY <4>2 DEF OnWalk
        <5> QED
          BY <3>1, <5>1, <5>2 DEF Heard, since
      <4> QED
        BY <4>1, <4>2
    <3>3. since <= Clock /\ (since = 0 \/ \A x \in Paths : ~ToRefill(pane, x))
      BY <2>2 DEF Heard
    <3> QED
      BY <3>2, <3>3 DEF Passing
  <2>4. Minds(r, t)
    BY <1>0, <1>2, <1>9, <2>1, <2>2, <2>3, ReconcileRestMinds
  <2>5. Handles(r, t, {})
    BY <1>0, <1>1, <1>9, <2>1, ReconcileRestHandles
  <2>6. Minds(s, t)
    BY <1>1, <1>2, <1>3, <2>4, <2>5, ThenMinds
  <2> QED
    BY <2>6 DEF t
<1>10. CASE q.why = "savedForClose"
  <2>1. t = IF clean THEN PerformClose(s, q.tab, told) ELSE IF IsOpen(s, q.tab) THEN RequestClose(s, q.tab) ELSE s
    BY <1>10 DEF OnClean, told
  <2> HIDE DEF t
  <2>2. clean => Minds(s, PerformClose(s, q.tab, told))
    BY <1>0, <1>5, CloseMinds
  <2>3. Minds(s, RequestClose(s, q.tab)) /\ Minds(s, s)
    BY <1>0, RequestCloseMinds, StillMinds DEF PaneType
  <2>4. Minds(s, t)
    BY <2>1, <2>2, <2>3
  <2> QED
    BY <2>4 DEF t
<1>11. CASE q.why = "savedForDrain"
  <2> DEFINE u == IF clean THEN PerformClose(s, q.tab, told) ELSE s
  <2>1. t = Reconcile(u, "drain")
    BY <1>11 DEF OnClean, told
  <2>2. Deciding(u, w)
    BY <1>0, CloseDecides
  <2>3. Handles(s, u, {})
    <3>1. Handles(s, PerformClose(s, q.tab, told), {}) /\ Handles(s, s, {})
      BY <1>0, CloseHandles, StillHandles
    <3> QED
      BY <3>1
  <2>4. Minds(s, u) /\ u.waiting = s.waiting /\ u.quit = s.quit
    <3>1. clean => /\ Minds(s, PerformClose(s, q.tab, told))
                   /\ PerformClose(s, q.tab, told).waiting = s.waiting
                   /\ PerformClose(s, q.tab, told).quit = s.quit
      BY <1>0, <1>5, CloseMinds
    <3>2. Minds(s, s)
      BY <1>0, StillMinds DEF PaneType
    <3> QED
      BY <3>1, <3>2
  <2> HIDE DEF t, u
  <2>5. Handles(u, t, {})
    BY <2>1, <2>2, ReconcileHandles
  <2>6. Typed(u) /\ (u.life = "loading" => pane.life = "loading")
    BY <2>2, <2>3 DEF Deciding, Linked, Handles, Carries
  <2>7. Minds(u, t)
    BY <2>1, <2>6, ReconcileMinds
  <2>8. Minds(s, t)
    BY <1>3, <2>2, <2>3, <2>4, <2>5, <2>7, ThenMinds
  <2> QED
    BY <2>8 DEF t
<1> QED
  BY <1>7, <1>8, <1>9, <1>10, <1>11, CleanFields DEF t

\* The completion of requestContent, once the bytes are on disk.
LEMMA OnSavedMinds ==
    ASSUME NEW s, Typed(s), NEW q \in Questions, q.op = "content", NEW version \in Nat,
           Len(OnSaved(s, q, version).toPage) \in Nat
    PROVE  Minds(s, OnSaved(s, q, version))
<1> DEFINE p == q.path
           c == [op |-> "mark", path |-> p, version |-> version]
           unseen == s.unseen \ {p}
           u == [s EXCEPT !.unseen = unseen]
           t == Send(u, c)
           v == OnSaved(s, q, version)
<1>0. s \in PaneType
  BY DEF Typed
<1>1. p \in Paths /\ q.tab \in Paths /\ q.rest \in Seq(Paths) /\ q.why \in {"save", "close", "drain", "saveAll"}
  BY CleanFields
<1>2. c \in Command /\ c.op = "mark" /\ c.path = p /\ c.version = version
  BY <1>1, Commands
<1>3. u \in PaneType
  BY <1>0 DEF PaneType
<1>4. /\ u.tabs = s.tabs /\ u.toPage = s.toPage /\ u.snapshots = s.snapshots
      /\ u.replies = s.replies /\ u.posts = s.posts /\ u.life = s.life
      /\ u.needsModelRestore = s.needsModelRestore /\ u.waiting = s.waiting /\ u.quit = s.quit
      /\ u.unseen \subseteq s.unseen
  BY <1>0 DEF PaneType
<1>5. v = CASE q.why = "close" -> Ask(t, "clean", p, "savedForClose", q.tab, <<>>, Latest)
            [] q.why = "drain" -> Ask(t, "clean", p, "savedForDrain", q.tab, <<>>, Latest)
            [] q.why = "saveAll" -> SaveSerially(t, q.rest)
            [] OTHER -> t
  BY DEF OnSaved
<1> HIDE DEF p, c, unseen, u, v
<1>6. /\ t \in PaneType
      /\ t.toPage = IF u.life = "crashed" THEN u.toPage ELSE Append(u.toPage, c)
      /\ t.tabs = u.tabs /\ t.life = u.life /\ t.snapshots = u.snapshots
      /\ t.waiting = u.waiting /\ t.unseen = u.unseen
      /\ t.replies = u.replies /\ t.posts = u.posts /\ t.needsModelRestore = u.needsModelRestore
  BY <1>2, <1>3, SendIsSent
<1>7. t.quit = u.quit
  <2> DEFINE more == Append(u.toPage, c)
  <2>1. t \in {u, [u EXCEPT !.toPage = more]}
    BY DEF Send
  <2> HIDE DEF t, more
  <2> QED
    BY <1>3, <2>1 DEF PaneType
<1> HIDE DEF t
<1>8. Typed(t)
  <2>1. \A x : IsOpen(t, x) <=> IsOpen(s, x)
    BY <1>4, <1>6 DEF IsOpen
  <2> QED
    BY <1>4, <1>6, <2>1 DEF Typed, TabsDiffer
<1>9. ~Asks(c) /\ ~Replaces(c)
  BY <1>2 DEF Asks, Replaces
<1>10. Minds(s, t) /\ Handles(s, t, {})
  BY <1>0, <1>2, <1>4, <1>6, <1>7, <1>9, SentMinds, SendHandles
<1>11. /\ Handles(t, Ask(t, "clean", p, "savedForClose", q.tab, <<>>, Latest), {})
       /\ Handles(t, Ask(t, "clean", p, "savedForDrain", q.tab, <<>>, Latest), {})
       /\ Handles(t, SaveSerially(t, q.rest), {})
       /\ Handles(t, t, {})
  BY <1>1, <1>6, <1>8, AskHandles, SaveSeriallyHandles, StillHandles
<1>12. Minds(t, Ask(t, "clean", p, "savedForClose", q.tab, <<>>, Latest))
  BY <1>1, <1>8, AskMinds
<1>13. Minds(t, Ask(t, "clean", p, "savedForDrain", q.tab, <<>>, Latest))
  BY <1>1, <1>8, AskMinds
<1>14. Minds(t, SaveSerially(t, q.rest)) /\ Minds(t, t)
  BY <1>1, <1>6, <1>8, SaveSeriallyMinds, StillMinds DEF PaneType
<1>15. Handles(t, v, {}) /\ Minds(t, v)
  BY <1>1, <1>5, <1>11, <1>12, <1>13, <1>14
<1>16. Len(s.toPage) \in Nat /\ Len(t.toPage) \in Nat /\ Len(v.toPage) \in Nat
  BY <1>0, <1>6 DEF PaneType, v
<1>17. Minds(s, v)
  BY <1>4, <1>6, <1>7, <1>10, <1>15, <1>16, MindsInTurn
<1> QED
  BY <1>17 DEF v

-----------------------------------------------------------------------------
(* The steps of the pane alone.                                                *)

After == [page |-> page', gone |-> ghost'.misread, now |-> Clock']

\* What the invariant reads, before a step and after it.
LEMMA WhatIsSeen ==
    /\ Seen.page = page /\ Seen.gone = ghost.misread /\ Seen.now = Clock
    /\ After.page = page' /\ After.gone = ghost'.misread /\ After.now = Clock'
BY DEF Seen, After

LEMMA EndsHeeding ==
    ASSUME Heeding(pane', After)
    PROVE  EditsHeeded'
<1>1. Seen' = After
  BY DEF Seen, After
<1> QED
  BY <1>1 DEF EditsHeeded

\* A step that goes on from where the pane was.
LEMMA StepHeeds ==
    ASSUME IInv, IInv', EditsHeeded, Proceeds(pane, Seen, pane', After), Begun(pane, pane', After)
    PROVE  EditsHeeded'
<1>1. Shaped(pane) /\ Shaped(pane')
  BY StepIsShaped
<1>2. Heeding(pane, Seen)
  BY DEF EditsHeeded
<1>3. Heeding(pane', After)
  BY <1>1, <1>2, ProceedsHeeds
<1> QED
  BY <1>3, EndsHeeding

\* A flag goes down where there is no edit, or that is seen.
LEMMA OverlookedAfter ==
    ASSUME EditsInsured, Watch, NEW p \in Paths, Overlooked(pane', After, p), IsOpen(pane, p)
    PROVE  /\ p \notin ghost.misread
           /\ Overlooked(pane, Seen, p) \/ page[p].first = 0
<1>1. IsOpen(pane', p) /\ ~IsDirty(pane', p) /\ p \notin ghost'.misread
  BY WhatIsSeen DEF Overlooked
<1>2. ghost'.misread = {x \in Paths : /\ x \in ghost.misread \/ Misread(x)
                                      /\ IsOpen(pane', x) /\ ~IsDirty(pane', x)}
  BY DEF Watch
<1>3. p \notin ghost.misread /\ ~Misread(p)
  BY <1>1, <1>2
<1>4. CASE IsDirty(pane, p)
  <2>1. ~Dirty(page[p])
    BY <1>1, <1>3, <1>4 DEF Misread
  <2> QED
    BY <1>3, <2>1, EditsAreDirty
<1>5. CASE ~IsDirty(pane, p)
  BY <1>3, <1>5, WhatIsSeen DEF Overlooked
<1> QED
  BY <1>3, <1>4, <1>5

\* While there is an answer, nothing is to be restored.
LEMMA AnswersAfterRestores ==
    ASSUME EditsInsured, NEW j \in DOMAIN pane.replies, NEW p
    PROVE  ~ToRefill(pane, p)
<1>1. \A i \in DOMAIN pane.toPage : pane.toPage[i].op # "restore"
  BY DEF EditsInsured, Insuring, RestoresCome
<1> QED
  BY <1>1 DEF ToRefill, Restoration, Is

\* What the page has when a command is to be run, it has after it, unless that closes it.
LEMMA ExistsStill ==
    ASSUME NEW q, NEW p, NEW m, NEW n \in Nat, 1 <= n, Exists(q, p, m, n - 1), ~Is(q[n], "close", p)
    PROVE  Exists(q, p, m, n)
<1>1. \A a \in 1..n : NoClose(q, p, a, n - 1) => NoClose(q, p, a, n)
  <2>1. \A a \in 1..n : \A j \in a..n : j \in a..(n - 1) \/ j = n
    OBVIOUS
  <2> QED
    BY <2>1 DEF NoClose
<1>2. 1 \in 1..n /\ \A i \in 1..(n - 1) : i \in 1..n /\ i + 1 \in 1..n
  OBVIOUS
<1> QED
  BY <1>1, <1>2 DEF Exists

\* The pane decides, in a state s that it starts from.
LEMMA MindedStep ==
    ASSUME IInv, IInv', EditsInsured, EditsHeeded, Watch, page' = page,
           Clock \in Nat, Clock' \in Nat, Clock <= Clock',
           NEW s, Handles(pane, s, {}), s.toPage = pane.toPage, s.tabs = pane.tabs,
           s.waiting \subseteq pane.waiting, s.quit = "yes" => pane.quit = "yes",
           \A i \in DOMAIN s.replies : \E j \in DOMAIN pane.replies : s.replies[i] = pane.replies[j],
           NEW down, Handles(s, pane', down), Minds(s, pane')
    PROVE  /\ EditsHeeded'
           /\ pane'.quit = "yes" => Leaves(pane')
<1> DEFINE a == Len(pane.toPage)
           b == Len(pane'.toPage)
<1>1. Shaped(pane) /\ Shaped(pane')
  BY StepIsShaped
<1>2. /\ a \in Nat /\ b \in Nat /\ a <= b /\ \A i \in 1..a : pane'.toPage[i] = pane.toPage[i]
      /\ \A i \in (a + 1)..b : pane'.toPage[i].op # "restore"
      /\ DOMAIN pane.toPage = 1..a /\ DOMAIN pane'.toPage = 1..b
  BY <1>1 DEF Shaped, Handles, Carries
<1>3. /\ \A i \in DOMAIN pane'.replies : \E j \in DOMAIN pane.replies : pane'.replies[i] = pane.replies[j]
      /\ pane'.posts = pane.posts
  BY DEF Handles, Carries, Minds
<1>4. \A x : IsOpen(pane', x) => IsOpen(pane, x)
  BY DEF Handles
<1>5. \A x \in Paths : page[x].first \in Nat
  BY ModelFields
<1>6. ASSUME NEW x \in Paths, Overlooked(pane', After, x)
      PROVE  /\ x \notin ghost.misread
             /\ Overlooked(pane, Seen, x) \/ page[x].first = 0
  BY <1>4, <1>6, OverlookedAfter DEF Overlooked
<1>7. Proceeds(pane, Seen, pane', After)
  <2>1. \A x \in Paths : /\ After.page[x] = NoModel <=> Seen.page[x] = NoModel
                         /\ After.page[x].first \in {0, Seen.page[x].first} \/ After.page[x].first > Seen.now
                         /\ Seen.page[x].first \in Nat /\ After.page[x].first \in Nat
    BY <1>5, WhatIsSeen
  <2>2. \A i \in (a + 1)..b : Replaces(pane'.toPage[i]) => Safe(pane, Seen, pane'.toPage[i])
    BY DEF Minds
  <2>3. ASSUME NEW i \in DOMAIN pane'.tabs, ~pane'.tabs[i].pinned
        PROVE  /\ ~pane'.tabs[i].dirty
               /\ \/ Posted(pane', pane'.tabs[i].path)
                  \/ /\ ~Edited(pane, Seen, pane'.tabs[i].path, Nat \ {0})
                     /\ After.page[pane'.tabs[i].path].first \in {0, Seen.page[pane'.tabs[i].path].first}
    <3>1. PICK j \in DOMAIN pane.tabs : /\ pane.tabs[j].path = pane'.tabs[i].path /\ ~pane.tabs[j].pinned
                                        /\ pane'.tabs[i].dirty => pane.tabs[j].dirty
      BY <2>3 DEF Minds
    <3>2. ~pane.tabs[j].dirty /\ Previewed(pane, Seen, pane.tabs[j].path)
      BY <3>1 DEF EditsHeeded, Heeding, Recyclable
    <3>3. Posted(pane, pane.tabs[j].path) => Posted(pane', pane.tabs[j].path)
      BY <1>3 DEF Posted
    <3> QED
      BY <3>1, <3>2, <3>3, WhatIsSeen DEF Previewed
  <2>4. (\E j \in DOMAIN pane.replies : TRUE) => \A x \in Paths : ~ToRefill(pane, x)
    BY AnswersAfterRestores
  <2>5. \A x \in Paths : Overlooked(pane', After, x) =>
            Overlooked(pane, Seen, x) \/ Seen.page[x].first = 0 \/ ~Edited(pane, Seen, x, 1..Seen.now)
    BY <1>6, WhatIsSeen
  <2> QED
    BY <1>2, <1>3, <2>1, <2>2, <2>3, <2>4, <2>5, WhatIsSeen DEF Proceeds
<1>8. ASSUME NEW q \in pane'.waiting, Drains(q), q \notin s.waiting
      PROVE  Walking(pane', After, q)
  <2>1. WalkBegins(s, pane', q) /\ q.since \in Nat
    BY <1>1, <1>8 DEF Minds, Shaped
  <2>2. \A i \in DOMAIN pane'.replies : ~Answers(pane'.replies[i], q)
    BY <2>1 DEF WalkBegins, Minds
  <2>3. ASSUME NEW i \in DOMAIN pane'.toPage, pane'.toPage[i] = Asking(q)
        PROVE  Fresh(pane', After, q, i) \/ Later(pane', After, q)
    <3>1. i = b /\ b >= 1
      BY <1>2, <2>1, <2>3 DEF WalkBegins
    <3>2. CASE \A x \in Paths \ OnWalk(q) : ~IsOpen(pane', x)
      <4>1. Fresh(pane', After, q, i)
        <5> SUFFICES ASSUME NEW x \in Paths \ OnWalk(q), Exists(pane'.toPage, x, page'[x], b - 1)
                     PROVE  FALSE
          BY <3>1, WhatIsSeen DEF Fresh
        <5>1. ~Is(pane'.toPage[b], "close", x)
          <6>1. pane'.toPage[b].op = "clean"
            BY <1>8, <2>3, <3>1 DEF Asking, Drains
          <6> QED
            BY <6>1 DEF Is
        <5>2. Exists(pane'.toPage, x, page'[x], b)
          BY <1>2, <3>1, <5>1, ExistsStill
        <5>3. Exists(pane'.toPage, x, page'[x], b) => IsOpen(pane', x)
          BY DEF IInv, Linked, Follows, HasModel, Now
        <5> QED
          BY <3>2, <5>2, <5>3
      <4> QED
        BY <4>1
    <3>3. CASE /\ q.since <= Clock /\ Passed(pane', q, q.since)
               /\ q.since = 0 \/ \A x \in Paths : ~ToRefill(pane, x)
      <4>1. Unmissed(pane', After, q, q.since)
        <5> SUFFICES ASSUME NEW x \in Paths \ OnWalk(q), Overlooked(pane', After, x)
                     PROVE  ~Edited(pane', After, x, 1..q.since)
          BY DEF Unmissed
        <5>1. Overlooked(pane', Seen, x)
          BY <1>6, WhatIsSeen DEF Overlooked
        <5>2. ~Edited(pane, Seen, x, 1..q.since)
          BY <3>3, <5>1 DEF Passed
        <5>3. 1..q.since \subseteq 1..Seen.now
          BY <2>1, <3>3, WhatIsSeen
        <5> QED
          BY <1>1, <1>7, <5>2, <5>3, ProceedsEdits
      <4>2. q.since <= After.now
        BY <2>1, <3>3, WhatIsSeen
      <4>3. \A x \in Paths : ~ToRefill(pane, x) => ~ToRefill(pane', x)
        BY <1>2 DEF ToRefill, Restoration, Is
      <4> QED
        BY <3>3, <4>1, <4>2, <4>3 DEF Later
    <3> QED
      BY <2>1, <3>2, <3>3 DEF WalkBegins
  <2> QED
    BY <2>2, <2>3 DEF Walking
<1>9. Begun(pane, pane', After)
  <2>1. \A q \in s.waiting : q \in pane.waiting /\ \A i \in (a + 1)..b : pane'.toPage[i] # Asking(q)
    BY DEF Minds
  <2> QED
    BY <1>8, <2>1 DEF Begun
<1>10. EditsHeeded'
  BY <1>7, <1>9, StepHeeds
<1>11. pane'.quit = "yes" => Leaves(pane')
  BY DEF Minds, Watch
<1> QED
  BY <1>10, <1>11

\* The invariant holds after a step, and the pane goes only if it may.
Heeds == EditsHeeded' /\ (pane'.quit = "yes" => Leaves(pane'))

\* What a handler starts from: a card was taken down, or an answer was taken.
Starts(s) ==
    /\ s.toPage = pane.toPage /\ s.tabs = pane.tabs /\ s.waiting \subseteq pane.waiting
    /\ s.life = pane.life /\ (s.quit = "yes" => pane.quit = "yes")
    /\ \A i \in DOMAIN s.replies : \E j \in DOMAIN pane.replies : s.replies[i] = pane.replies[j]

LEMMA DecidedStep ==
    ASSUME IInv, IInv', EditsInsured, EditsHeeded, Watch, page' = page,
           Clock' \in Nat, Clock <= Clock',
           NEW s, Handles(pane, s, {}), Starts(s), NEW down, Handles(s, pane', down), Minds(s, pane')
    PROVE  Heeds
<1>1. Clock \in Nat
  BY ClocksAreNumbers DEF IInv
<1>2. /\ s.toPage = pane.toPage /\ s.tabs = pane.tabs
      /\ s.waiting \subseteq pane.waiting /\ (s.quit = "yes" => pane.quit = "yes")
      /\ \A i \in DOMAIN s.replies : \E j \in DOMAIN pane.replies : s.replies[i] = pane.replies[j]
  BY DEF Starts
<1>3. EditsHeeded'
  BY <1>1, <1>2, MindedStep
<1>4. pane'.quit = "yes" => Leaves(pane')
  BY <1>1, <1>2, MindedStep
<1> QED
  BY <1>3, <1>4 DEF Heeds

\* What a pane is that takes an answer.
LEMMA TakenAnswer ==
    ASSUME IInv, NEW q, NEW t,
           \/ t = Answered(q)
           \/ pane.replies # <<>> /\ t \in {[Answered(q) EXCEPT !.replies = Tail(pane.replies)],
                                            [pane EXCEPT !.replies = Tail(pane.replies)]}
    PROVE  Starts(t)
<1>1. pane \in PaneType
  BY DEF IInv, Linked, Typed
<1> DEFINE waiting == pane.waiting \ {q}
           rest == Tail(pane.replies)
<1>2. Answered(q) = [pane EXCEPT !.waiting = waiting]
  BY <1>1 DEF Answered, PaneType
<1>3. waiting \subseteq pane.waiting
  OBVIOUS
<1>4. pane.replies # <<>> => \A i \in DOMAIN rest : \E j \in DOMAIN pane.replies : rest[i] = pane.replies[j]
  <2>1. pane.replies \in Seq(Content \cup Clean)
    BY <1>1 DEF PaneType
  <2> HIDE DEF rest
  <2>2. ASSUME pane.replies # <<>>, NEW i \in DOMAIN rest
        PROVE  i + 1 \in DOMAIN pane.replies /\ rest[i] = pane.replies[i + 1]
    BY <2>1, <2>2 DEF rest
  <2> QED
    BY <2>2
<1> HIDE DEF waiting, rest
<1>5. t \in {[pane EXCEPT !.waiting = waiting], [pane EXCEPT !.waiting = waiting, !.replies = rest],
             [pane EXCEPT !.replies = rest]}
  BY <1>1, <1>2 DEF PaneType, rest
<1>6. /\ t.tabs = pane.tabs /\ t.toPage = pane.toPage /\ t.quit = pane.quit /\ t.life = pane.life
      /\ t.posts = pane.posts /\ t.waiting \in {waiting, pane.waiting} /\ t.replies \in {rest, pane.replies}
  BY <1>1, <1>5 DEF PaneType
<1>7. t.replies = pane.replies \/ pane.replies # <<>>
  BY <1>1, <1>2 DEF PaneType
<1>8. \A i \in DOMAIN t.replies : \E j \in DOMAIN pane.replies : t.replies[i] = pane.replies[j]
  BY <1>4, <1>6, <1>7
<1>9. t.waiting \subseteq pane.waiting
  BY <1>3, <1>6
<1> QED
  BY <1>6, <1>8, <1>9 DEF Starts

\* AnswerClean
LEMMA AnswerCleanHeeds ==
    ASSUME IInv, IInv', EditsInsured, EditsHeeded, AnswerClean
    PROVE  Heeds
<1> PICK q \in Asker :
        /\ q.op = "clean"
        /\ LET r == Head(pane.replies)
           IN pane' = OnClean([Answered(q) EXCEPT !.replies = Tail(@)], q, r.clean, r.at)
        /\ UNCHANGED <<page, disk, count>> /\ Watch
  BY DEF AnswerClean
<1> DEFINE r == Head(pane.replies)
           set == IF q.why = "check" THEN {q.path} ELSE {}
           w == During(page, disk, {}, set)
           s == [Answered(q) EXCEPT !.replies = Tail(pane.replies)]
           down == IF r.clean THEN {q.path} ELSE {}
<1>1. q \in pane.waiting /\ pane.replies # <<>> /\ r \in Clean /\ Answers(r, q)
  BY AnswerAtHead DEF Asker
<1>2. Answered(q).replies = pane.replies
  BY DEF Answered, IInv, Linked, Typed, PaneType
<1>3. pane' = OnClean(s, q, r.clean, r.at)
  BY <1>2
<1>4. r.clean \in BOOLEAN /\ r.at \in Nat
  BY <1>1 DEF Clean
<1>5. Deciding(s, w) /\ q \in Questions
  BY <1>1, AnsweredDecides
<1>6. w.disk = disk /\ FilesTyped /\ CountsTyped
  BY DEF During, IInv
<1>7. Handles(pane, s, {})
  BY <1>1, AnsweredHandles
<1>8. Starts(s)
  BY <1>1, TakenAnswer
<1>9. r = pane.replies[1] /\ 1 \in DOMAIN pane.replies
  <2>1. pane.replies \in Seq(Content \cup Clean)
    BY DEF IInv, Linked, Typed, PaneType
  <2> QED
    BY <1>1, <2>1
<1>10. Clock \in Nat /\ Clock' = Clock /\ Clock <= Clock' /\ Calm
  BY ClocksAreNumbers, CalmWhileLoading DEF IInv, Clock
<1> DEFINE yes == r.clean
           at == r.at
<1> HIDE DEF r, s, w
<1>11. Heard(s, q, yes, at)
  <2>1. at <= Clock /\ (yes => ~Edited(pane, Seen, r.path, 1..at))
    BY <1>1, <1>9, WhatIsSeen DEF EditsHeeded, Heeding, Truthful
  <2>2. r.path = q.path
    BY <1>1 DEF Answers
  <2>3. \A p \in Paths : ~ToRefill(pane, p)
    BY <1>9, AnswersAfterRestores
  <2>4. Drains(q) => Unmissed(pane, Seen, q, Earlier(at, q.since))
    BY <1>1, <1>9 DEF EditsHeeded, Heeding, Walks, Walking
  <2>5. \A p : Overlooked(s, Seen, p) <=> Overlooked(pane, Seen, p)
    BY <1>8 DEF Starts, Overlooked, IsOpen, IsDirty, IndexOf
  <2> QED
    BY <2>1, <2>2, <2>3, <2>4, <2>5 DEF Heard, Unmissed
<1>12. yes \in BOOLEAN /\ at \in Nat /\ pane' = OnClean(s, q, yes, at) /\ q.op = "clean"
  BY <1>3, <1>4
<1> HIDE DEF yes, at, down
<1>13. Handles(s, pane', IF yes THEN {q.path} ELSE {})
  <2>1. Handles(s, OnClean(s, q, yes, at), IF yes THEN {q.path} ELSE {})
    BY <1>5, <1>6, <1>12, OnCleanHandles
  <2> QED
    BY <1>12, <2>1
<1>14. s.life = "loading" => pane.life = "loading"
  BY <1>8 DEF Starts
<1>15. Minds(s, pane')
  BY <1>5, <1>6, <1>10, <1>11, <1>12, <1>14, OnCleanMinds
<1> QED
  BY <1>7, <1>8, <1>10, <1>13, <1>15, DecidedStep

\* Fallback
LEMMA FallbackHeeds ==
    ASSUME IInv, IInv', EditsInsured, EditsHeeded, Fallback
    PROVE  Heeds
<1> PICK q \in pane.waiting :
        /\ pane' = IF q.op = "clean" THEN OnClean(Answered(q), q, FALSE, 0) ELSE SaveFailed(Answered(q), q.why)
        /\ UNCHANGED <<page, disk, count>> /\ Watch
  BY DEF Fallback
<1> DEFINE set == IF q.why = "check" THEN {q.path} ELSE {}
           w == During(page, disk, {}, set)
           s == Answered(q)
<1>1. Deciding(s, w) /\ q \in Questions
  BY AnsweredDecides
<1>2. w.disk = disk /\ FilesTyped /\ CountsTyped
  BY DEF During, IInv
<1>3. Handles(pane, s, {})
  BY AnsweredHandles
<1>4. pane' = IF q.op = "clean" THEN OnClean(s, q, FALSE, 0) ELSE SaveFailed(s, q.why)
  OBVIOUS
<1>5. Starts(s)
  BY TakenAnswer
<1>6. Clock \in Nat /\ Clock' = Clock /\ Clock <= Clock' /\ Calm
  BY ClocksAreNumbers, CalmWhileLoading DEF IInv, Clock
<1> HIDE DEF s, w
<1>7. Handles(s, pane', {}) /\ Minds(s, pane')
  <2>1. CASE q.op # "clean"
    BY <1>1, <1>4, <2>1, SaveFailedHandles, SaveFailedMinds DEF Deciding, Linked, Typed
  <2>2. CASE q.op = "clean"
    <3>1. Handles(s, pane', IF FALSE THEN {q.path} ELSE {})
      BY <1>1, <1>2, <1>4, <2>2, OnCleanHandles
    <3>2. Heard(s, q, FALSE, 0)
      <4>1. q.since \in Nat
        BY <1>1 DEF Questions
      <4>2. Earlier(0, q.since) = 0 /\ 0 <= Clock
        BY <1>6, <4>1 DEF Earlier
      <4> QED
        BY <4>2, NothingKnown DEF Heard
    <3>3. pane' = OnClean(s, q, FALSE, 0) /\ FALSE \in BOOLEAN /\ 0 \in Nat
      BY <1>4, <2>2
    <3>4. s.life = "loading" => pane.life = "loading"
      BY <1>5 DEF Starts
    <3>5. Minds(s, pane')
      BY <1>1, <1>2, <3>4, <1>6, <2>2, <3>2, <3>3, OnCleanMinds
    <3> QED
      BY <3>1, <3>5
  <2> QED
    BY <2>1, <2>2
<1> QED
  BY <1>3, <1>5, <1>6, <1>7, DecidedStep

\* WriteFails
LEMMA WriteFailsHeeds ==
    ASSUME IInv, IInv', EditsInsured, EditsHeeded, WriteFails
    PROVE  Heeds
<1> PICK q \in Asker :
        /\ q.op = "content"
        /\ pane' = SaveFailed([Answered(q) EXCEPT !.replies = Tail(@)], q.why)
        /\ UNCHANGED <<page, disk, count>> /\ Watch
  BY DEF WriteFails
<1> DEFINE s == [Answered(q) EXCEPT !.replies = Tail(pane.replies)]
<1>1. Answered(q).replies = pane.replies
  BY DEF Answered, IInv, Linked, Typed, PaneType
<1>2. q \in pane.waiting /\ pane.replies # <<>>
  BY AnswerAtHead
<1>3. q.why # "check"
  BY <1>2, CleanFields DEF IInv, Linked, Typed, PaneType
<1>4. s \in PaneType
  <2>1. Deciding(s, During(page, disk, {}, {}))
    BY <1>2, <1>3, AnsweredDecides
  <2> QED
    BY <2>1 DEF Deciding, Linked, Typed
<1>5. Handles(pane, s, {})
  BY <1>2, AnsweredHandles
<1>6. Starts(s)
  BY <1>2, TakenAnswer
<1>7. Clock \in Nat /\ Clock' = Clock /\ Clock <= Clock'
  BY ClocksAreNumbers DEF IInv, Clock
<1>8. pane' = SaveFailed(s, q.why)
  BY <1>1
<1> HIDE DEF s
<1>9. Handles(s, pane', {}) /\ Minds(s, pane')
  BY <1>4, <1>8, SaveFailedHandles, SaveFailedMinds
<1> QED
  BY <1>5, <1>6, <1>7, <1>9, DecidedStep

\* What the time is after a step.
LEMMA TornClock ==
    ASSUME IInv, UNCHANGED count \/ \E p, f, opens : Torn(p, f, opens)
    PROVE  Clock \in Nat /\ Clock' \in Nat /\ Clock <= Clock'
<1>1. count \in Counts /\ Clock \in Nat
  BY ClocksAreNumbers DEF IInv, CountsTyped
<1>2. CASE UNCHANGED count
  BY <1>1, <1>2 DEF Clock
<1>3. CASE \E p, f, opens : Torn(p, f, opens)
  <2>1. PICK opens : \/ count' = [count EXCEPT !.opens = opens]
                     \/ count' = [count EXCEPT !.opens = opens, !.writes = @ + 1]
    BY <1>3 DEF Torn
  <2>2. count'.edits = count.edits /\ count'.writes \in {count.writes, count.writes + 1}
    BY <1>1, <2>1 DEF Counts
  <2>3. count.edits \in Nat /\ count.writes \in Nat
    BY <1>1 DEF Counts
  <2> QED
    BY <2>2, <2>3 DEF Clock
<1> QED
  BY <1>2, <1>3
LEMMA RequestClock ==
    ASSUME IInv, Request
    PROVE  Clock' = Clock
<1>1. count \in Counts /\ count' = [count EXCEPT !.requests = @ + 1]
  BY DEF IInv, CountsTyped, Request
<1>2. count'.edits = count.edits /\ count'.writes = count.writes
  BY <1>1 DEF Counts
<1> QED
  BY <1>2 DEF Clock

\* AnswerContent
LEMMA AnswerContentHeeds ==
    ASSUME IInv, IInv', EditsInsured, EditsHeeded, AnswerContent
    PROVE  Heeds
<1> DEFINE r == Head(pane.replies)
           S(q) == [Answered(q) EXCEPT !.replies = Tail(pane.replies)]
<1>1. PICK q \in Asker :
        /\ q.op = "content" /\ page' = page /\ Watch
        /\ pane' \in {SaveFailed(S(q), q.why), OnSaved(S(q), q, r.version)}
        /\ UNCHANGED count \/ \E o : Torn(q.path, Written(disk[q.path], r.text, TRUE), o)
  <2>1. PICK q \in Asker :
        /\ q.op = "content"
        /\ LET s == [Answered(q) EXCEPT !.replies = Tail(@)]
           IN IF ~IsOpen(s, q.path) \/ r.none
              THEN pane' = SaveFailed(s, q.why) /\ UNCHANGED <<disk, count>>
              ELSE pane' = OnSaved(s, q, r.version) /\ Torn(q.path, Written(disk[q.path], r.text, TRUE), count.opens)
        /\ UNCHANGED page /\ Watch
    BY DEF AnswerContent
  <2>2. Answered(q).replies = pane.replies
    BY DEF Answered, IInv, Linked, Typed, PaneType
  <2> QED
    BY <2>1, <2>2
<1> DEFINE s == S(q)
<1>2. q \in pane.waiting /\ pane.replies # <<>> /\ r \in Content
  BY <1>1, AnswerAtHead
<1>3. r.version \in Nat
  BY <1>2 DEF Content
<1>4. q.why # "check" /\ q \in Questions
  BY <1>1, <1>2, CleanFields DEF IInv, Linked, Typed, PaneType
<1>5. Typed(s)
  <2>1. \A p \in Paths : disk[p].past \subseteq disk[p].past
    OBVIOUS
  <2>2. Deciding(s, During(page, disk, {}, {}))
    BY <1>2, <1>4, <2>1, AnsweredDecides
  <2> QED
    BY <2>2 DEF Deciding, Linked
<1>6. Handles(pane, s, {}) /\ Starts(s)
  BY <1>2, AnsweredHandles, TakenAnswer
<1>7. pane' \in {SaveFailed(s, q.why), OnSaved(s, q, r.version)}
  BY <1>1
<1> HIDE DEF s, r
<1>8. Len(pane'.toPage) \in Nat
  BY DEF IInv, Linked, Typed, PaneType
<1>9. Handles(s, pane', {})
  BY <1>1, <1>3, <1>4, <1>5, <1>7, <1>8, OnSavedHandles, SaveFailedHandles DEF Typed
<1>10. Minds(s, pane')
  BY <1>1, <1>3, <1>4, <1>5, <1>7, <1>8, OnSavedMinds, SaveFailedMinds DEF Typed
<1>11. Clock \in Nat /\ Clock' \in Nat /\ Clock <= Clock'
  BY <1>1, TornClock
<1> QED
  BY <1>1, <1>6, <1>9, <1>10, <1>11, DecidedStep

\* A handler of the user's.
LEMMA UserStep ==
    ASSUME IInv, IInv', EditsInsured, EditsHeeded, Watch, page' = page, Clock' = Clock,
           NEW s, Handles(pane, s, {}), Starts(s), Handles(s, pane', {}), Minds(s, pane')
    PROVE  Heeds
<1>1. Clock \in Nat /\ Clock <= Clock
  BY ClocksAreNumbers DEF IInv
<1> QED
  BY <1>1, DecidedStep
LEMMA StartsOf ==
    ASSUME IInv, NEW ask
    PROVE  Starts(pane) /\ Starts([pane EXCEPT !.ask = ask]) /\ Starts([pane EXCEPT !.quit = "waiting"])
<1>1. pane \in PaneType
  BY DEF IInv, Linked, Typed
<1>2. Starts(pane)
  BY DEF Starts
<1>3. Starts([pane EXCEPT !.ask = ask])
  BY <1>1 DEF Starts, PaneType
<1>4. Starts([pane EXCEPT !.quit = "waiting"])
  BY <1>1 DEF Starts, PaneType
<1> QED
  BY <1>2, <1>3, <1>4

\* CloseTab
LEMMA CloseTabHeeds ==
    ASSUME IInv, IInv', EditsInsured, EditsHeeded, NEW p \in Paths, CloseTab(p)
    PROVE  Heeds
<1>1. pane' = RequestClose(pane, p) /\ page' = page /\ Watch /\ Request
  BY DEF CloseTab
<1>2. Handles(pane, pane, {}) /\ Starts(pane) /\ Typed(pane) /\ CountsTyped /\ Calm
  BY AloneStarts, StillHandles, StartsOf, CalmWhileLoading DEF Deciding, Linked, IInv
<1>3. Handles(pane, pane', {})
  BY <1>1, AloneStarts, RequestCloseHandles
<1>4. Minds(pane, pane')
  BY <1>1, <1>2, RequestCloseMinds
<1>5. Clock' = Clock
  BY <1>1, <1>2, RequestClock
<1> QED
  BY <1>1, <1>2, <1>3, <1>4, <1>5, UserStep

\* CloseAll
LEMMA CloseAllHeeds ==
    ASSUME IInv, IInv', EditsInsured, EditsHeeded, CloseAll
    PROVE  Heeds
<1> DEFINE s == [pane EXCEPT !.quit = "waiting"]
<1>1. pane' = Reconcile(s, "drain") /\ page' = page /\ Watch /\ Request
  BY DEF CloseAll
<1>2. Deciding(s, Alone) /\ Starts(s)
  BY AloneStarts, QuitDecides, StartsOf
<1>3. Handles(pane, s, {})
  BY AloneStarts, SmallChangeHandles
<1>4. CountsTyped /\ Calm /\ Clock' = Clock
  BY <1>1, CalmWhileLoading, RequestClock DEF IInv
<1> HIDE DEF s
<1>5. Handles(s, pane', {})
  BY <1>1, <1>2, ReconcileHandles
<1>6. Minds(s, pane')
  <2>1. Typed(s) /\ (s.life = "loading" => pane.life = "loading")
    BY <1>2 DEF Deciding, Linked, Starts
  <2> QED
    BY <1>1, <1>4, <2>1, ReconcileMinds
<1> QED
  BY <1>1, <1>2, <1>3, <1>4, <1>5, <1>6, UserStep

\* SaveAllDirty
LEMMA SaveAllDirtyHeeds ==
    ASSUME IInv, IInv', EditsInsured, EditsHeeded, SaveAllDirty
    PROVE  Heeds
<1>1. pane' = Reconcile(pane, "saveAll") /\ page' = page /\ Watch /\ Request
  BY DEF SaveAllDirty
<1>2. Handles(pane, pane, {}) /\ Starts(pane) /\ Typed(pane) /\ CountsTyped /\ Calm
  BY AloneStarts, StillHandles, StartsOf, CalmWhileLoading DEF Deciding, Linked, IInv
<1>3. Handles(pane, pane', {})
  BY <1>1, AloneStarts, ReconcileHandles
<1>4. Minds(pane, pane')
  BY <1>1, <1>2, ReconcileMinds
<1>5. Clock' = Clock
  BY <1>1, <1>2, RequestClock
<1> QED
  BY <1>1, <1>2, <1>3, <1>4, <1>5, UserStep

\* Cancel
LEMMA CancelHeeds ==
    ASSUME IInv, IInv', EditsInsured, EditsHeeded, Cancel
    PROVE  Heeds
<1>1. pane' = CancelAsk(pane) /\ page' = page /\ Watch /\ count' = count
  BY DEF Cancel
<1>2. Handles(pane, pane', {}) /\ Handles(pane, pane, {}) /\ Starts(pane)
  BY <1>1, AloneStarts, PresentHandles, StillHandles, StartsOf
<1>3. Minds(pane, pane')
  BY <1>1, AloneStarts, PresentMinds
<1>4. Clock' = Clock
  BY <1>1 DEF Clock
<1> QED
  BY <1>1, <1>2, <1>3, <1>4, UserStep

\* Discard
LEMMA DiscardHeeds ==
    ASSUME IInv, IInv', EditsInsured, EditsHeeded, Discard
    PROVE  Heeds
<1> DEFINE t == [pane EXCEPT !.ask = NoAsk]
           p == pane.ask.path
           s == PerformClose(t, p, 0)
           u == Reconcile(s, "drain")
<1>1. /\ pane.ask.kind \in {"close", "drain"}
      /\ pane' = IF pane.ask.kind = "drain" THEN u ELSE s
      /\ page' = page /\ Watch /\ count' = count
  BY DEF Discard
<1>2. Deciding(t, Alone) /\ t \in PaneType
  BY CardIsAnswered DEF Deciding, Linked, Typed
<1>3. p \in Paths
  BY <1>1, AloneStarts, CardFields DEF PaneType
<1>4. Handles(pane, t, {}) /\ Starts(t)
  BY AloneStarts, SmallChangeHandles, StartsOf
<1>5. Clock \in Nat /\ Clock' = Clock /\ CountsTyped /\ Calm
  BY <1>1, ClocksAreNumbers, CalmWhileLoading DEF IInv, Clock
<1> HIDE DEF t, p
<1>6. Deciding(s, Alone) /\ Handles(t, s, {}) /\ s.life = t.life
  BY <1>2, <1>3, <1>5, CloseDecides, CloseHandles
<1>7. Minds(t, s) /\ s.waiting = t.waiting /\ s.quit = t.quit
  <2>1. 0 \in Nat /\ 0 <= Clock /\ ~Edited(pane, Seen, p, 1..0)
    BY <1>5, NothingKnown
  <2> QED
    BY <1>2, <1>3, <2>1, CloseMinds
<1> HIDE DEF s
<1>8. Typed(s) /\ (s.life = "loading" => pane.life = "loading")
  BY <1>4, <1>6 DEF Deciding, Linked, Starts
<1>9. Handles(s, u, {}) /\ Minds(s, u)
  BY <1>5, <1>6, <1>8, ReconcileHandles, ReconcileMinds
<1> HIDE DEF u
<1>10. CASE pane.ask.kind # "drain"
  BY <1>1, <1>4, <1>5, <1>6, <1>7, <1>10, UserStep
<1>11. CASE pane.ask.kind = "drain"
  <2>1. pane' = u
    BY <1>1, <1>11
  <2>2. Fine(s, Alone)
    BY <1>6 DEF Deciding, Fine
  <2>3. Len(t.toPage) \in Nat /\ Len(s.toPage) \in Nat /\ Len(u.toPage) \in Nat
    <3>1. s \in PaneType
      BY <1>6 DEF Deciding, Linked, Typed
    <3>2. Len(pane'.toPage) \in Nat
      BY DEF IInv, Linked, Typed, PaneType
    <3>3. Len(t.toPage) \in Nat /\ Len(s.toPage) \in Nat
      BY <1>2, <3>1 DEF PaneType
    <3> QED
      BY <2>1, <3>2, <3>3
  <2>4. Minds(t, u)
    BY <1>6, <1>7, <1>9, <2>3, MindsInTurn
  <2>5. Handles(t, u, {} \cup {})
    BY <1>6, <1>9, <2>3, HandlesInTurn
  <2>6. Handles(t, u, {})
    BY <2>5
  <2> QED
    BY <1>1, <1>4, <1>5, <2>1, <2>4, <2>6, UserStep
<1> QED
  BY <1>10, <1>11

\* SaveThenClose
LEMMA SaveThenCloseHeeds ==
    ASSUME IInv, IInv', EditsInsured, EditsHeeded, SaveThenClose
    PROVE  Heeds
<1> DEFINE a == pane.ask
           s == [pane EXCEPT !.ask = NoAsk]
           p == s.tabs[a.index].path
<1>1. /\ a.kind \in {"close", "drain"}
      /\ pane' = IF a.index \notin DOMAIN s.tabs \/ ~IsReady(s) THEN SaveFailed(s, a.kind)
                 ELSE Save(s, p, a.kind, a.path, <<>>)
      /\ page' = page /\ Watch /\ count' = count
  BY DEF SaveThenClose
<1>2. Deciding(s, Alone) /\ s \in PaneType /\ Typed(s)
  BY CardIsAnswered DEF Deciding, Linked
<1>3. Handles(pane, s, {}) /\ Starts(s)
  BY AloneStarts, SmallChangeHandles, StartsOf
<1>4. Clock' = Clock
  BY <1>1 DEF Clock
<1> HIDE DEF s
<1>5. Handles(s, SaveFailed(s, a.kind), {}) /\ Minds(s, SaveFailed(s, a.kind))
  BY <1>2, SaveFailedHandles, SaveFailedMinds
<1>6. ASSUME a.index \in DOMAIN s.tabs
      PROVE  Handles(s, Save(s, p, a.kind, a.path, <<>>), {}) /\ Minds(s, Save(s, p, a.kind, a.path, <<>>))
  <2>1. s.tabs[a.index] \in Tab
    BY <1>2, <1>6 DEF PaneType
  <2>2. p \in Paths
    BY <2>1 DEF Tab
  <2>3. "content" \in {"content", "clean"} /\ "content" # "clean"
    OBVIOUS
  <2>4. Handles(s, Ask(s, "content", p, a.kind, a.path, <<>>, Latest), {})
    BY <1>2, <2>2, AskHandles
  <2>5. Minds(s, Ask(s, "content", p, a.kind, a.path, <<>>, Latest))
    BY <1>2, <2>2, <2>3, AskMinds
  <2> QED
    BY <2>4, <2>5 DEF Save
<1> HIDE DEF a, p
<1>7. Handles(s, pane', {}) /\ Minds(s, pane')
  BY <1>1, <1>5, <1>6
<1> QED
  BY <1>1, <1>3, <1>4, <1>7, UserStep

\* TakeDisk
LEMMA TakeDiskHeeds ==
    ASSUME IInv, IInv', EditsInsured, EditsHeeded, TakeDisk
    PROVE  Heeds
<1> DEFINE s == [pane EXCEPT !.ask = NoAsk]
           p == pane.ask.path
<1>1. /\ pane.ask.kind = "conflict" /\ pane' = ReloadFromDisk(s, p, 0)
      /\ page' = page /\ Watch /\ count' = count
  BY DEF TakeDisk
<1>2. Deciding(s, Alone) /\ s \in PaneType
  BY CardIsAnswered DEF Deciding, Linked, Typed
<1>3. p \in Paths
  BY <1>1, AloneStarts, CardFields DEF PaneType
<1>4. Handles(pane, s, {}) /\ Starts(s)
  BY AloneStarts, SmallChangeHandles, StartsOf
<1>5. Clock \in Nat /\ Clock' = Clock /\ FilesTyped
  BY <1>1, ClocksAreNumbers DEF IInv, Clock
<1> HIDE DEF s, p
<1>6. Handles(s, pane', {})
  BY <1>1, <1>2, <1>3, AloneStarts, ResolveHandles
<1>7. Minds(s, pane')
  <2>1. 0 \in Nat /\ 0 <= Clock /\ ~Edited(pane, Seen, p, 1..0)
    BY <1>5, NothingKnown
  <2> QED
    BY <1>1, <1>2, <1>3, <1>5, <2>1, ReloadMinds
<1> QED
  BY <1>1, <1>4, <1>5, <1>6, <1>7, UserStep

\* LateAnswer
LEMMA LateAnswerHeeds ==
    ASSUME IInv, IInv', EditsInsured, EditsHeeded, LateAnswer
    PROVE  Heeds
<1>1. pane' = [pane EXCEPT !.replies = Tail(pane.replies)] /\ pane.replies # <<>> /\ page' = page /\ Watch
      /\ count' = count
  BY DEF LateAnswer
<1>2. Handles(pane, pane', {}) /\ Starts(pane')
  BY <1>1, AnsweredHandles, TakenAnswer
<1>3. pane' \in PaneType' /\ Len(pane'.toPage) \in Nat
  BY DEF IInv, Linked, Typed, PaneType
<1>4. Handles(pane', pane', {}) /\ Minds(pane', pane')
  <2>1. ~(\E i \in (Len(pane'.toPage) + 1)..Len(pane'.toPage) : TRUE) /\ Len(pane'.toPage) <= Len(pane'.toPage)
    BY <1>3
  <2>2. Minds(pane', pane')
    BY <1>3, StillMinds
  <2> QED
    BY <2>1, <2>2 DEF Handles, Carries
<1>5. Clock' = Clock
  BY <1>1 DEF Clock
<1> QED
  BY <1>1, <1>2, <1>4, <1>5, UserStep

\* A step that decides nothing: at most a text is asked for, and a buffer is edited only now
\* and with a post that tells of it.
Appends(q, r) ==
    /\ Len(q) <= Len(r) /\ \A i \in 1..Len(q) : r[i] = q[i]
    /\ \A i \in (Len(q) + 1)..Len(r) : r[i].op = "content"
LEMMA IdleStep ==
    ASSUME IInv, IInv', EditsInsured, EditsHeeded, Watch, Clock' \in Nat, Clock <= Clock',
           Appends(pane.toPage, pane'.toPage), pane'.replies = pane.replies, pane'.quit = pane.quit,
           \A x : IsOpen(pane', x) => IsOpen(pane, x),
           \A q \in pane'.waiting : Drains(q) => q \in pane.waiting,
           \A x \in Paths :
               /\ page'[x] = NoModel <=> page[x] = NoModel
               /\ page'[x].first = page[x].first \/ (page'[x].first > Clock /\ Posted(pane', x)),
           \A i \in DOMAIN pane'.tabs : ~pane'.tabs[i].pinned =>
               /\ ~pane'.tabs[i].dirty
               /\ Posted(pane', pane'.tabs[i].path) \/ ~Edited(pane, Seen, pane'.tabs[i].path, Nat \ {0})
    PROVE  Heeds
<1>1. Shaped(pane') /\ Clock \in Nat /\ \A x \in Paths : page[x].first \in Nat
  BY StepIsShaped, ClocksAreNumbers, ModelFields DEF IInv
<1>2. (\E j \in DOMAIN pane.replies : TRUE) => \A x \in Paths : ~ToRefill(pane, x)
  BY AnswersAfterRestores
<1>3. \A x \in Paths : Overlooked(pane', After, x) =>
          Overlooked(pane, Seen, x) \/ Seen.page[x].first = 0 \/ ~Edited(pane, Seen, x, 1..Seen.now)
  BY OverlookedAfter, WhatIsSeen DEF Overlooked
<1>4. /\ \A i \in (Len(pane.toPage) + 1)..Len(pane'.toPage) :
             /\ pane'.toPage[i].op # "restore"
             /\ Replaces(pane'.toPage[i]) => Safe(pane, Seen, pane'.toPage[i])
      /\ Len(pane.toPage) <= Len(pane'.toPage)
      /\ \A i \in 1..Len(pane.toPage) : pane'.toPage[i] = pane.toPage[i]
  BY DEF Appends, Replaces
<1>5. \A i \in DOMAIN pane'.tabs : ~pane'.tabs[i].pinned =>
           /\ ~pane'.tabs[i].dirty
           /\ \/ Posted(pane', pane'.tabs[i].path)
              \/ /\ ~Edited(pane, Seen, pane'.tabs[i].path, Nat \ {0})
                 /\ After.page[pane'.tabs[i].path].first \in {0, Seen.page[pane'.tabs[i].path].first}
  BY <1>1, WhatIsSeen DEF Shaped
<1>6. \A x \in Paths : page'[x].first \in Nat
  <2>1. page' \in [Paths -> Model']
    BY DEF IInv, PageTyped
  <2>2. \A x \in Paths : page'[x].first \in 0..Clock'
    BY <2>1 DEF Model, Past
  <2> QED
    BY <2>2
<1>7. \A x \in Paths : /\ After.page[x] = NoModel <=> Seen.page[x] = NoModel
                       /\ After.page[x].first \in {0, Seen.page[x].first} \/ After.page[x].first > Seen.now
                       /\ Seen.page[x].first \in Nat /\ After.page[x].first \in Nat
  BY <1>1, <1>6, WhatIsSeen
<1>8. Seen.now \in Nat /\ After.now \in Nat /\ Seen.now <= After.now
  BY <1>1, WhatIsSeen
<1>9. \A i \in DOMAIN pane'.replies : \E j \in DOMAIN pane.replies : pane'.replies[i] = pane.replies[j]
  OBVIOUS
<1>10. Proceeds(pane, Seen, pane', After)
  BY <1>2, <1>3, <1>4, <1>5, <1>7, <1>8, <1>9 DEF Proceeds
<1>11. Begun(pane, pane', After)
  BY DEF Begun, Appends, Drains, Asking
<1> QED
  BY <1>10, <1>11, StepHeeds DEF Heeds, Watch

\* And does not touch the page or the tabs either.
LEMMA RestStep ==
    ASSUME IInv, IInv', EditsInsured, EditsHeeded, Watch, page' = page, Clock' = Clock,
           pane'.toPage = pane.toPage, pane'.waiting = pane.waiting, pane'.replies = pane.replies,
           pane'.quit = pane.quit, pane'.posts = pane.posts, DOMAIN pane'.tabs = DOMAIN pane.tabs,
           \A i \in DOMAIN pane.tabs : /\ pane'.tabs[i].path = pane.tabs[i].path
                                       /\ pane'.tabs[i].dirty = pane.tabs[i].dirty
                                       /\ pane.tabs[i].pinned => pane'.tabs[i].pinned
    PROVE  Heeds
<1>1. Clock \in Nat /\ Clock' \in Nat /\ Clock <= Clock'
  BY ClocksAreNumbers DEF IInv
<1>2. Appends(pane.toPage, pane'.toPage)
  <2>1. Len(pane.toPage) \in Nat
    BY AloneStarts DEF PaneType
  <2> QED
    BY <2>1 DEF Appends
<1>3. \A x : IsOpen(pane', x) <=> IsOpen(pane, x)
  BY DEF IsOpen
<1>4. \A i \in DOMAIN pane'.tabs : ~pane'.tabs[i].pinned =>
          /\ ~pane'.tabs[i].dirty
          /\ Posted(pane', pane'.tabs[i].path) \/ ~Edited(pane, Seen, pane'.tabs[i].path, Nat \ {0})
  BY DEF EditsHeeded, Heeding, Recyclable, Previewed, Posted
<1> QED
  BY <1>1, <1>2, <1>3, <1>4, IdleStep

\* Wedge, Unwedge
LEMMA WedgeHeeds ==
    ASSUME IInv, IInv', EditsInsured, EditsHeeded, Wedge \/ Unwedge
    PROVE  Heeds
<1>1. pane \in PaneType /\ count \in Counts
  BY AloneStarts DEF IInv, CountsTyped
<1>2. page' = page /\ Watch /\ \E life : pane' = [pane EXCEPT !.life = life]
  BY DEF Wedge, Unwedge
<1>3. count' = count \/ count' = [count EXCEPT !.faults = @ + 1]
  BY DEF Wedge, Unwedge, Fault
<1>4. count'.edits = count.edits /\ count'.writes = count.writes
  BY <1>1, <1>3 DEF Counts
<1>5. Clock' = Clock
  BY <1>4 DEF Clock
<1>6. /\ pane'.tabs = pane.tabs /\ pane'.toPage = pane.toPage /\ pane'.posts = pane.posts
      /\ pane'.replies = pane.replies /\ pane'.waiting = pane.waiting /\ pane'.quit = pane.quit
  BY <1>1, <1>2 DEF PaneType
<1> QED
  BY <1>2, <1>5, <1>6, RestStep

\* PinTab
LEMMA PinTabHeeds ==
    ASSUME IInv, IInv', EditsInsured, EditsHeeded, NEW p \in Paths, PinTab(p)
    PROVE  Heeds
<1> DEFINE i == IndexOf(pane, p)
           tab == [pane.tabs[i] EXCEPT !.pinned = TRUE]
           tabs == [pane.tabs EXCEPT ![i] = tab]
<1>1. IsOpen(pane, p) /\ pane' = [pane EXCEPT !.tabs[i].pinned = TRUE] /\ UNCHANGED <<page, disk, count>> /\ Watch
  BY DEF PinTab
<1>2. pane \in PaneType
  BY AloneStarts
<1>3. pane' = [pane EXCEPT !.tabs = tabs]
  BY <1>1
<1> HIDE DEF tabs, tab
<1>4. i \in DOMAIN pane.tabs /\ pane.tabs[i] \in Tab /\ pane.tabs \in Seq(Tab)
  <2>1. i \in DOMAIN pane.tabs
    BY <1>1, <1>2, TabOf
  <2>2. pane.tabs \in Seq(Tab)
    BY <1>2 DEF PaneType
  <2> HIDE DEF i
  <2> QED
    BY <2>1, <2>2
<1> HIDE DEF i
<1>5. DOMAIN tabs = DOMAIN pane.tabs
      /\ \A j \in DOMAIN tabs : /\ tabs[j].path = pane.tabs[j].path /\ tabs[j].dirty = pane.tabs[j].dirty
                                /\ pane.tabs[j].pinned => tabs[j].pinned
  <2>1. tab.path = pane.tabs[i].path /\ tab.dirty = pane.tabs[i].dirty /\ tab.pinned
    BY <1>4 DEF Tab, tab
  <2> QED
    BY <1>4, <2>1 DEF tabs
<1>6. /\ pane'.tabs = tabs /\ pane'.toPage = pane.toPage /\ pane'.posts = pane.posts
      /\ pane'.replies = pane.replies /\ pane'.waiting = pane.waiting /\ pane'.quit = pane.quit
  BY <1>2, <1>3 DEF PaneType
<1>7. Clock' = Clock /\ page' = page /\ Watch
  BY <1>1 DEF Clock
<1> QED
  BY <1>5, <1>6, <1>7, RestStep

\* AgentWrites
LEMMA AgentWritesHeeds ==
    ASSUME IInv, IInv', EditsInsured, EditsHeeded, NEW p \in Paths, AgentWrites(p)
    PROVE  Heeds
<1> DEFINE s == [pane EXCEPT !.unseen = pane.unseen \cup {p}]
<1>1. page' = page /\ Watch /\ pane' \in {pane, s} /\ count' = [count EXCEPT !.writes = @ + 1]
  BY DEF AgentWrites
<1>2. pane \in PaneType /\ count \in Counts
  BY AloneStarts DEF IInv, CountsTyped
<1>3. count'.edits = count.edits /\ count'.writes = count.writes + 1 /\ count.edits \in Nat /\ count.writes \in Nat
  BY <1>1, <1>2 DEF Counts
<1>4. Clock' \in Nat /\ Clock <= Clock'
  BY <1>3 DEF Clock
<1>5. /\ s.tabs = pane.tabs /\ s.toPage = pane.toPage /\ s.posts = pane.posts /\ s.replies = pane.replies
      /\ s.waiting = pane.waiting /\ s.quit = pane.quit /\ s.life = pane.life
      /\ s.needsModelRestore = pane.needsModelRestore /\ s.snapshots = pane.snapshots
  BY <1>2 DEF PaneType
<1> HIDE DEF s
<1>6. /\ pane'.tabs = pane.tabs /\ pane'.toPage = pane.toPage /\ pane'.posts = pane.posts
      /\ pane'.replies = pane.replies /\ pane'.waiting = pane.waiting /\ pane'.quit = pane.quit
      /\ pane'.life = pane.life /\ pane'.needsModelRestore = pane.needsModelRestore
      /\ pane'.snapshots = pane.snapshots /\ Len(pane.toPage) \in Nat
  BY <1>1, <1>2, <1>5 DEF PaneType
<1>7. Handles(pane, pane, {}) /\ Handles(pane, pane', {}) /\ Minds(pane, pane') /\ Starts(pane)
  BY <1>2, <1>6, StillHandles, StillMinds, StartsOf
<1> QED
  BY <1>1, <1>4, <1>7, DecidedStep

\* CheckExternalChanges
LEMMA CheckExternalChangesHeeds ==
    ASSUME IInv, IInv', EditsInsured, EditsHeeded, CheckExternalChanges
    PROVE  Heeds
<1>1. page' = page /\ Watch /\ count' = count
  BY DEF CheckExternalChanges
<1>2. PICK b \in Seq(Command) :
          /\ \A j \in 1..Len(b) : b[j].op = "clean" /\ b[j].id \notin UsedIds(pane)
          /\ pane'.toPage = IF pane.life = "crashed" THEN pane.toPage ELSE pane.toPage \o b
  BY CheckExternalChangesStep
<1>3. /\ pane'.tabs = pane.tabs /\ pane'.replies = pane.replies /\ pane'.posts = pane.posts
      /\ pane'.life = pane.life /\ pane'.needsModelRestore = pane.needsModelRestore
      /\ pane'.snapshots = pane.snapshots /\ pane'.quit = pane.quit
      /\ pane.waiting \subseteq pane'.waiting
      /\ \A q \in pane'.waiting : q \in pane.waiting \/ q.why = "check"
  BY CheckExternalChangesStep
<1>4. \A x : (IsOpen(pane', x) <=> IsOpen(pane, x)) /\ (IsDirty(pane, x) => IsDirty(pane', x))
  BY <1>3 DEF IsOpen, IsDirty, IndexOf
<1>5. pane.toPage \in Seq(Command)
  BY AloneStarts DEF PaneType
<1>6. /\ Len(pane.toPage) <= Len(pane'.toPage)
      /\ \A i \in 1..Len(pane.toPage) : pane'.toPage[i] = pane.toPage[i]
      /\ \A i \in (Len(pane.toPage) + 1)..Len(pane'.toPage) :
             pane'.toPage[i].op = "clean" /\ pane'.toPage[i].id \notin UsedIds(pane)
  <2> DEFINE q == pane.toPage
             r == pane'.toPage
  <2>1. CASE pane.life = "crashed"
    <3>1. r = q /\ Len(q) \in Nat
      BY <1>2, <1>5, <2>1
    <3> QED
      BY <3>1
  <2>2. CASE pane.life # "crashed"
    <3>1. r = q \o b /\ q \in Seq(Command) /\ Len(q) \in Nat /\ Len(b) \in Nat
      BY <1>2, <1>5, <2>2
    <3> HIDE DEF q, r
    <3>2. Len(r) = Len(q) + Len(b) /\ \A i \in 1..Len(q) : r[i] = q[i]
      BY <3>1
    <3>3. ASSUME NEW i \in (Len(q) + 1)..Len(r)
          PROVE  r[i].op = "clean" /\ r[i].id \notin UsedIds(pane)
      <4>1. r[i] = b[i - Len(q)] /\ i - Len(q) \in 1..Len(b)
        BY <3>1, <3>2
      <4> QED
        BY <1>2, <4>1
    <3> QED
      BY <3>1, <3>2, <3>3 DEF q, r
  <2> QED
    BY <2>1, <2>2
<1>7. Handles(pane, pane', {})
  BY <1>3, <1>4, <1>6 DEF Handles, Carries
<1>8. Handles(pane, pane, {}) /\ Starts(pane)
  BY AloneStarts, StillHandles, StartsOf
<1>9. Minds(pane, pane')
  <2>1. \A i \in (Len(pane.toPage) + 1)..Len(pane'.toPage) : ~Replaces(pane'.toPage[i])
    BY <1>6 DEF Replaces
  <2>2. ASSUME NEW i \in (Len(pane.toPage) + 1)..Len(pane'.toPage), NEW q \in pane.waiting
        PROVE  pane'.toPage[i] # Asking(q)
    <3>1. pane'.toPage[i].id # q.id
      BY <1>6, UsedIdsAre
    <3>2. Asking(q).id = q.id
      BY DEF Asking
    <3> QED
      BY <3>1, <3>2
  <2>3. \A q \in pane'.waiting : Drains(q) => q \in pane.waiting
    BY <1>3 DEF Drains
  <2> QED
    BY <1>3, <2>1, <2>2, <2>3 DEF Minds
<1>10. Clock' = Clock
  BY <1>1 DEF Clock
<1> QED
  BY <1>1, <1>7, <1>8, <1>9, <1>10, UserStep

\* A file that is not open has no edit.
LEMMA ClosedUnedited ==
    ASSUME IInv, EditsInsured, NEW p \in Paths, ~IsOpen(pane, p)
    PROVE  ~Edited(pane, Seen, p, Nat \ {0})
<1>1. Least(pane, Stakes, p) = 0 /\ Stakes.page = page /\ Seen.page = page
  BY OnlyOpenFiles, WhatIsSeen DEF Stakes
<1>2. CASE ~Down(pane)
  <2>1. ~Refills(pane, p, Nat \ {0})
    BY <1>1, <1>2 DEF Least
  <2>2. Closes(pane, p) \/ page[p].first = 0
    BY <1>1, <1>2, <2>1 DEF Least
  <2>3. DOMAIN pane.toPage = 1..Len(pane.toPage)
    BY StepIsShaped, AloneStarts DEF PaneType
  <2> QED
    BY <1>1, <2>1, <2>2, <2>3 DEF Edited, MayHold, Refills, Closes, Restoration
<1>3. CASE Down(pane)
  <2>1. page[p] = NoModel /\ \A i \in DOMAIN pane.toPage : pane.toPage[i].op # "restore"
    BY <1>3 DEF IInv, Linked, DownIsEmpty, Down, Now
  <2>2. page[p].first \notin Nat \ {0} /\ ~ToRefill(pane, p)
    BY <2>1 DEF NoModel, ToRefill, Restoration, Is
  <2>3. Shaped(pane)
    BY AloneStarts, PaneIsShaped
  <2> QED
    BY <1>1, <2>2, <2>3, UneditedHeld
<1> QED
  BY <1>2, <1>3

\* A preview is recycled on what the pane was told of it.
LEMMA EvictionIsSafe ==
    ASSUME IInv, EditsHeeded, NEW c, Evicted(pane, c)
    PROVE  Safe(pane, Seen, c)
<1>1. PICK i \in Reusable(pane) : c.path = pane.tabs[i].path /\ c.upto = Told(pane, c.path)
  BY DEF Evicted
<1>2. i \in DOMAIN pane.tabs /\ ~pane.tabs[i].pinned /\ Clock \in Nat
  BY ClocksAreNumbers DEF Reusable, IInv
<1>3. CASE \E k \in DOMAIN pane.posts : pane.posts[k].type = "dirty" /\ pane.posts[k].path = c.path
  <2>1. c.upto = 0
    BY <1>1, <1>3 DEF Told
  <2> QED
    BY <1>2, <2>1, NothingKnown, WhatIsSeen DEF Safe
<1>4. CASE ~\E k \in DOMAIN pane.posts : pane.posts[k].type = "dirty" /\ pane.posts[k].path = c.path
  <2>1. c.upto = Clock
    BY <1>1, <1>4 DEF Told
  <2>2. ~Posted(pane, c.path)
    BY <1>4 DEF Posted, Tells
  <2>3. ~Edited(pane, Seen, c.path, Nat \ {0})
    BY <1>1, <1>2, <2>2 DEF EditsHeeded, Heeding, Recyclable, Previewed
  <2>4. 1..Clock \subseteq Nat \ {0}
    BY <1>2
  <2>5. ~Edited(pane, Seen, c.path, 1..Clock)
    BY <2>3, <2>4, HeldAmong DEF Edited
  <2> QED
    BY <1>2, <2>1, <2>5, WhatIsSeen DEF Safe
<1> QED
  BY <1>3, <1>4

\* OpenFile
LEMMA OpenFileHeeds ==
    ASSUME IInv, IInv', EditsInsured, EditsHeeded, NEW p \in Paths, NEW preview \in BOOLEAN, OpenFile(p, preview)
    PROVE  Heeds
<1>1. ~IsOpen(pane, p) /\ page' = page /\ Watch /\ Torn(p, disk[p], count.opens + 1)
  BY DEF OpenFile
<1>2. Clock \in Nat /\ Clock' \in Nat /\ Clock <= Clock'
  BY <1>1, TornClock
<1>3. ~Edited(pane, Seen, p, Nat \ {0})
  BY <1>1, ClosedUnedited
<1>4. /\ pane'.posts = pane.posts /\ pane'.replies = pane.replies /\ pane'.waiting = pane.waiting
      /\ pane'.quit = pane.quit /\ Len(pane.toPage) <= Len(pane'.toPage)
      /\ \A k \in 1..Len(pane.toPage) : pane'.toPage[k] = pane.toPage[k]
  BY OpensTab
<1>5. \A k \in (Len(pane.toPage) + 1)..Len(pane'.toPage) :
          Is(pane'.toPage[k], "open", p) \/ Evicted(pane, pane'.toPage[k])
  BY OpensTab
<1>6. \A k \in DOMAIN pane'.tabs : \/ pane'.tabs[k].path = p /\ ~pane'.tabs[k].dirty
                                   \/ \E j \in DOMAIN pane.tabs : pane'.tabs[k] = pane.tabs[j]
  BY OpensTab
<1>7. \A k \in (Len(pane.toPage) + 1)..Len(pane'.toPage) :
          /\ pane'.toPage[k].op \in {"open", "close"}
          /\ Replaces(pane'.toPage[k]) => Safe(pane, Seen, pane'.toPage[k])
  BY <1>5, EvictionIsSafe DEF Is, Evicted, Replaces
<1>8. \A k \in DOMAIN pane'.tabs : ~pane'.tabs[k].pinned =>
          /\ ~pane'.tabs[k].dirty
          /\ \/ Posted(pane', pane'.tabs[k].path)
             \/ /\ ~Edited(pane, Seen, pane'.tabs[k].path, Nat \ {0})
                /\ After.page[pane'.tabs[k].path].first \in {0, Seen.page[pane'.tabs[k].path].first}
  <2> SUFFICES ASSUME NEW k \in DOMAIN pane'.tabs, ~pane'.tabs[k].pinned
               PROVE  /\ ~pane'.tabs[k].dirty
                      /\ \/ Posted(pane', pane'.tabs[k].path)
                         \/ ~Edited(pane, Seen, pane'.tabs[k].path, Nat \ {0})
    BY <1>1, WhatIsSeen
  <2>1. CASE pane'.tabs[k].path = p /\ ~pane'.tabs[k].dirty
    BY <1>3, <2>1
  <2>2. CASE \E j \in DOMAIN pane.tabs : pane'.tabs[k] = pane.tabs[j]
    BY <1>4, <2>2 DEF EditsHeeded, Heeding, Recyclable, Previewed, Posted
  <2> QED
    BY <1>6, <2>1, <2>2
<1>9. \A x \in Paths : Overlooked(pane', After, x) =>
          Overlooked(pane, Seen, x) \/ Seen.page[x].first = 0 \/ ~Edited(pane, Seen, x, 1..Seen.now)
  <2> SUFFICES ASSUME NEW x \in Paths, Overlooked(pane', After, x)
               PROVE  Overlooked(pane, Seen, x) \/ page[x].first = 0 \/ ~Edited(pane, Seen, x, 1..Clock)
    BY WhatIsSeen
  <2>1. CASE IsOpen(pane, x)
    BY <1>1, <2>1, OverlookedAfter
  <2>2. CASE ~IsOpen(pane, x)
    <3>1. ~Edited(pane, Seen, x, Nat \ {0}) /\ 1..Clock \subseteq Nat \ {0}
      BY <1>2, <2>2, ClosedUnedited
    <3> QED
      BY <3>1, HeldAmong DEF Edited
  <2> QED
    BY <2>1, <2>2
<1>10. \A x \in Paths : /\ After.page[x] = NoModel <=> Seen.page[x] = NoModel
                        /\ After.page[x].first \in {0, Seen.page[x].first} \/ After.page[x].first > Seen.now
                        /\ Seen.page[x].first \in Nat /\ After.page[x].first \in Nat
  BY <1>1, ModelFields, WhatIsSeen
<1>11. Seen.now \in Nat /\ After.now \in Nat /\ Seen.now <= After.now
  BY <1>2, WhatIsSeen
<1>12. /\ \A i \in DOMAIN pane'.replies : \E j \in DOMAIN pane.replies : pane'.replies[i] = pane.replies[j]
       /\ (\E j \in DOMAIN pane.replies : TRUE) => \A x \in Paths : ~ToRefill(pane, x)
       /\ \A k \in (Len(pane.toPage) + 1)..Len(pane'.toPage) : pane'.toPage[k].op # "restore"
  BY <1>4, <1>7, AnswersAfterRestores
<1>13. Proceeds(pane, Seen, pane', After)
  BY <1>4, <1>7, <1>8, <1>9, <1>10, <1>11, <1>12 DEF Proceeds
<1>14. Begun(pane, pane', After)
  BY <1>4, <1>7 DEF Begun, Drains, Asking
<1> QED
  BY <1>1, <1>4, <1>13, <1>14, StepHeeds DEF Heeds, Watch

\* A queue without its first item.
LEMMA TailOf ==
    ASSUME NEW C, NEW q \in Seq(C), q # <<>>
    PROVE  /\ Head(q) = q[1] /\ 1 \in DOMAIN q /\ q[1] \in C
           /\ \A i \in DOMAIN q : i = 1 \/ (i - 1 \in DOMAIN Tail(q) /\ Tail(q)[i - 1] = q[i])
OBVIOUS

\* What is posted of another file stays so when a post is taken.
LEMMA PostedStill ==
    ASSUME IInv, pane.posts # <<>>, NEW p, Posted(pane, p), NEW t, t.posts = Tail(pane.posts)
    PROVE  Posted(t, p) \/ Tells(Head(pane.posts), p, TRUE)
<1>1. pane.posts \in Seq(Message)
  BY AloneStarts DEF PaneType
<1>2. PICK i \in DOMAIN pane.posts : Tells(pane.posts[i], p, TRUE)
  BY DEF Posted
<1>3. Head(pane.posts) = pane.posts[1]
      /\ (i = 1 \/ (i - 1 \in DOMAIN Tail(pane.posts) /\ Tail(pane.posts)[i - 1] = pane.posts[i]))
  BY <1>1, TailOf
<1> QED
  BY <1>2, <1>3 DEF Posted

\* DeliverPost
LEMMA DeliverPostHeeds ==
    ASSUME IInv, IInv', EditsInsured, EditsHeeded, DeliverPost
    PROVE  Heeds
<1> DEFINE m == Head(pane.posts)
           rest == Tail(pane.posts)
           s == [pane EXCEPT !.posts = rest]
<1>1. /\ pane.posts # <<>> /\ page' = page /\ count' = count /\ Watch
      /\ pane' = CASE m.type = "dirty" -> OnDirtyChanged(s, m.path, m.dirty)
                   [] m.type = "snapshot" -> [s EXCEPT !.snapshots[m.path] = m.text]
                   [] m.type = "save" -> IF IsOpen(s, m.path) THEN Save(s, m.path, "save", m.path, <<>>) ELSE s
  BY DEF DeliverPost
<1>2. pane \in PaneType /\ Typed(pane) /\ TabsDiffer(pane)
  BY AloneStarts DEF Deciding, Linked, Typed
<1>3. m \in Message
  BY <1>1, <1>2, TailOf DEF PaneType
<1>4. rest \in Seq(Message)
  BY <1>1, <1>2 DEF PaneType
<1> HIDE DEF m, rest
<1>5. /\ s \in PaneType /\ s.posts = rest /\ s.tabs = pane.tabs /\ s.toPage = pane.toPage /\ s.waiting = pane.waiting
      /\ s.replies = pane.replies /\ s.quit = pane.quit /\ s.unseen = pane.unseen
  BY <1>2, <1>4 DEF PaneType
<1> HIDE DEF s
<1>6. \A x : IsOpen(s, x) <=> IsOpen(pane, x)
  BY <1>5 DEF IsOpen
<1>7. Typed(s)
  BY <1>2, <1>5, <1>6 DEF Typed, TabsDiffer
<1>8. Clock \in Nat /\ Clock' \in Nat /\ Clock <= Clock'
  BY <1>1, TornClock
<1>9. \A x : Posted(pane, x) => Posted(s, x) \/ Tells(m, x, TRUE)
  BY <1>1, <1>5, PostedStill DEF m, rest
<1>10. Len(pane.toPage) \in Nat /\ Appends(pane.toPage, pane.toPage)
  BY <1>2 DEF PaneType, Appends
<1>11. CASE m.type = "dirty"
  <2> DEFINE p == m.path
             dirty == m.dirty
  <2>1. p \in Paths /\ dirty \in BOOLEAN
    BY <1>3, <1>11 DEF Message
  <2>2. pane' = OnDirtyChanged(s, p, dirty)
    BY <1>1, <1>11
  <2>3. Tells(m, p, dirty) /\ \A x : Tells(m, x, TRUE) => x = p /\ dirty
    BY <1>11, <2>1 DEF Tells
  <2> HIDE DEF p, dirty
  <2>4. CASE ~IsOpen(s, p)
    <3>1. pane' = s
      BY <2>2, <2>4 DEF OnDirtyChanged
    <3>2. ASSUME NEW i \in DOMAIN pane'.tabs, ~pane'.tabs[i].pinned
          PROVE  /\ ~pane'.tabs[i].dirty
                 /\ Posted(pane', pane'.tabs[i].path) \/ ~Edited(pane, Seen, pane'.tabs[i].path, Nat \ {0})
      <4>1. pane'.tabs[i].path # p
        BY <2>4, <3>1 DEF IsOpen
      <4>2. ~pane.tabs[i].dirty /\ Previewed(pane, Seen, pane.tabs[i].path)
        BY <1>5, <3>1, <3>2 DEF EditsHeeded, Heeding, Recyclable
      <4> QED
        BY <1>5, <1>9, <2>3, <3>1, <4>1, <4>2 DEF Previewed
    <3> QED
      BY <1>1, <1>5, <1>6, <1>8, <1>10, <3>1, <3>2, IdleStep
  <2>5. CASE IsOpen(s, p)
    <3> DEFINE i == IndexOf(s, p)
               tab == [path |-> p, dirty |-> dirty, pinned |-> s.tabs[i].pinned \/ dirty]
               tabs == [s.tabs EXCEPT ![i] = tab]
               t == SetDirty(s, p, dirty)
    <3>1. t = [s EXCEPT !.tabs = tabs]
      BY <2>5 DEF SetDirty
    <3>2. i \in DOMAIN s.tabs /\ s.tabs[i].path = p
      BY <1>5, <2>5, TabOf
    <3>3. DOMAIN tabs = DOMAIN s.tabs /\ tabs[i] = tab /\ \A k \in DOMAIN s.tabs \ {i} : tabs[k] = s.tabs[k]
      BY <3>2
    <3>4. tab.path = p /\ tab.dirty = dirty /\ (tab.pinned <=> s.tabs[i].pinned \/ dirty)
      OBVIOUS
    <3> HIDE DEF tab, tabs, i, t
    <3>5. /\ t.tabs = tabs /\ t.toPage = s.toPage /\ t.waiting = s.waiting /\ t.posts = s.posts
          /\ t.replies = s.replies /\ t.quit = s.quit
      BY <1>5, <3>1 DEF PaneType
    <3>6. \E shots : pane' = [t EXCEPT !.snapshots = shots]
      BY <2>2, <2>5 DEF OnDirtyChanged, t
    <3>7. /\ pane'.tabs = tabs /\ pane'.toPage = pane.toPage /\ pane'.waiting = pane.waiting
          /\ pane'.posts = rest /\ pane'.replies = pane.replies /\ pane'.quit = pane.quit
      <4>1. \E shots : pane' = [s EXCEPT !.tabs = tabs, !.snapshots = shots]
        BY <1>5, <3>1, <3>6 DEF PaneType
      <4> QED
        BY <1>5, <4>1 DEF PaneType
    <3>8. \A x : IsOpen(pane', x) => IsOpen(pane, x)
      BY <1>5, <3>2, <3>3, <3>4, <3>7 DEF IsOpen
    <3>9. ASSUME NEW k \in DOMAIN pane'.tabs, ~pane'.tabs[k].pinned
          PROVE  /\ ~pane'.tabs[k].dirty
                 /\ Posted(pane', pane'.tabs[k].path) \/ ~Edited(pane, Seen, pane'.tabs[k].path, Nat \ {0})
      <4>1. k \in DOMAIN pane.tabs /\ pane'.tabs[k].path = pane.tabs[k].path /\ ~pane.tabs[k].pinned
        BY <1>5, <3>2, <3>3, <3>4, <3>7, <3>9
      <4>2. ~pane.tabs[k].dirty /\ Previewed(pane, Seen, pane.tabs[k].path)
        BY <4>1 DEF EditsHeeded, Heeding, Recyclable
      <4>3. ~Tells(m, pane.tabs[k].path, TRUE) /\ ~pane'.tabs[k].dirty
        <5>1. CASE k = i
          BY <2>3, <3>3, <3>4, <3>7, <3>9, <5>1
        <5>2. CASE k # i
          <6>1. pane.tabs[k].path # p
            BY <1>2, <1>5, <3>2, <4>1, <5>2 DEF TabsDiffer
          <6> QED
            BY <1>5, <2>3, <3>3, <3>7, <4>1, <4>2, <5>2, <6>1
        <5> QED
          BY <5>1, <5>2
      <4>4. Posted(pane, pane.tabs[k].path) => Posted(pane', pane'.tabs[k].path)
        BY <1>5, <1>9, <3>7, <4>1, <4>3 DEF Posted
      <4> QED
        BY <4>1, <4>2, <4>3, <4>4 DEF Previewed
    <3> QED
      BY <1>1, <1>8, <1>10, <3>7, <3>8, <3>9, IdleStep
  <2> QED
    BY <2>4, <2>5
<1>12. CASE m.type # "dirty"
  <2>1. \A x : ~Tells(m, x, TRUE)
    BY <1>12 DEF Tells
  <2>2. /\ pane'.tabs = pane.tabs /\ pane'.replies = pane.replies /\ pane'.quit = pane.quit /\ pane'.posts = rest
        /\ Appends(pane.toPage, pane'.toPage) /\ \A q \in pane'.waiting : Drains(q) => q \in pane.waiting
    <3>1. CASE m.type = "snapshot"
      <4>1. \E shots : pane' = [s EXCEPT !.snapshots = shots]
        BY <1>1, <3>1
      <4> QED
        BY <1>5, <1>10, <4>1 DEF PaneType
    <3>2. CASE m.type = "save" /\ ~IsOpen(s, m.path)
      <4>1. pane' = s
        BY <1>1, <3>2
      <4> QED
        BY <1>5, <1>10, <4>1
    <3>3. CASE m.type = "save" /\ IsOpen(s, m.path)
      <4> DEFINE n == FreshId(s)
                 c == [op |-> "content", path |-> m.path, id |-> n]
                 q == Question("content", m.path, n, "save", m.path, <<>>, Latest)
                 b == Send(s, c)
                 waiting == b.waiting \cup {q}
      <4>1. m.path \in Paths /\ n \in Nat
        BY <1>3, <1>7, <3>3, FreshIdIsNew DEF Message, Typed
      <4>2. c \in Command /\ c.op = "content"
        BY <4>1, Commands
      <4>3. pane' = [b EXCEPT !.waiting = waiting]
        BY <1>1, <3>3 DEF Save, Ask
      <4>4. q.op = "content"
        BY DEF Question
      <4>5. \A x \in waiting : x \in b.waiting \/ x.op = "content"
        BY <4>4
      <4> HIDE DEF c, q, b, n, waiting
      <4>6. /\ b \in PaneType /\ b.toPage = IF s.life = "crashed" THEN s.toPage ELSE Append(s.toPage, c)
            /\ b.tabs = s.tabs /\ b.waiting = s.waiting /\ b.replies = s.replies /\ b.posts = s.posts
        BY <1>5, <4>2, SendIsSent DEF b
      <4>7. b.quit = s.quit
        BY <1>5 DEF b, Send, PaneType
      <4>8. /\ pane'.tabs = b.tabs /\ pane'.replies = b.replies /\ pane'.quit = b.quit /\ pane'.posts = b.posts
            /\ pane'.toPage = b.toPage /\ pane'.waiting = waiting
        BY <4>3, <4>6 DEF PaneType
      <4>9. Appends(pane.toPage, pane'.toPage)
        <5>1. CASE s.life = "crashed"
          BY <1>5, <1>10, <4>6, <4>8, <5>1
        <5>2. CASE s.life # "crashed"
          <6>1. pane'.toPage = Append(pane.toPage, c) /\ pane.toPage \in Seq(Command)
            BY <1>2, <1>5, <4>6, <4>8, <5>2 DEF PaneType
          <6>2. /\ Len(pane'.toPage) = Len(pane.toPage) + 1 /\ Len(pane.toPage) \in Nat
                /\ \A i \in 1..Len(pane.toPage) : pane'.toPage[i] = pane.toPage[i]
                /\ \A i \in (Len(pane.toPage) + 1)..Len(pane'.toPage) : pane'.toPage[i] = c
            BY <4>2, <6>1, TwoAreSent
          <6> QED
            BY <4>2, <6>2 DEF Appends
        <5> QED
          BY <5>1, <5>2
      <4> QED
        BY <1>5, <4>5, <4>6, <4>7, <4>8, <4>9 DEF Drains
    <3>4. m.type \in {"snapshot", "save"}
      BY <1>3, <1>12 DEF Message
    <3> QED
      BY <3>1, <3>2, <3>3, <3>4
  <2>3. ASSUME NEW i \in DOMAIN pane'.tabs, ~pane'.tabs[i].pinned
        PROVE  /\ ~pane'.tabs[i].dirty
               /\ Posted(pane', pane'.tabs[i].path) \/ ~Edited(pane, Seen, pane'.tabs[i].path, Nat \ {0})
    <3>1. ~pane.tabs[i].dirty /\ Previewed(pane, Seen, pane.tabs[i].path)
      BY <2>2, <2>3 DEF EditsHeeded, Heeding, Recyclable
    <3>2. Posted(pane, pane.tabs[i].path) => Posted(pane', pane.tabs[i].path)
      BY <1>5, <1>9, <2>1, <2>2 DEF Posted
    <3> QED
      BY <2>2, <3>1, <3>2 DEF Previewed
  <2>4. \A x : IsOpen(pane', x) => IsOpen(pane, x)
    BY <2>2 DEF IsOpen
  <2> QED
    BY <1>1, <1>8, <2>2, <2>3, <2>4, IdleStep
<1> QED
  BY <1>11, <1>12

\* What was posted is posted still when the page posts another message.
LEMMA PostedAppend ==
    ASSUME NEW C, NEW q \in Seq(C), NEW m \in C
    PROVE  /\ \A i \in DOMAIN q : i \in DOMAIN Append(q, m) /\ Append(q, m)[i] = q[i]
           /\ \E i \in DOMAIN Append(q, m) : Append(q, m)[i] = m
<1>1. Len(Append(q, m)) = Len(q) + 1 /\ Append(q, m)[Len(q) + 1] = m /\ Len(q) \in Nat
  OBVIOUS
<1>2. Len(q) + 1 \in DOMAIN Append(q, m)
  BY <1>1
<1> QED
  BY <1>1, <1>2

\* The page posts: an edit that is new is one that the post tells of.
LEMMA PostingHeeds ==
    ASSUME IInv, IInv', EditsInsured, EditsHeeded, Watch, Clock' \in Nat, Clock <= Clock',
           NEW m \in Message, pane' = Post(pane, m), NEW p \in Paths, page[p] # NoModel,
           NEW n, n # NoModel, page' = [page EXCEPT ![p] = n],
           n.first = page[p].first \/ (n.first > Clock /\ Tells(m, p, TRUE))
    PROVE  Heeds
<1>1. pane \in PaneType /\ pane.posts \in Seq(Message) /\ Len(pane.toPage) \in Nat
  BY AloneStarts DEF PaneType
<1>2. /\ pane'.tabs = pane.tabs /\ pane'.toPage = pane.toPage /\ pane'.waiting = pane.waiting
      /\ pane'.replies = pane.replies /\ pane'.quit = pane.quit /\ pane'.posts = Append(pane.posts, m)
  BY <1>1 DEF Post, PaneType
<1>8. LET r == pane'.posts
      IN /\ \A i \in DOMAIN pane.posts : i \in DOMAIN r /\ r[i] = pane.posts[i]
         /\ \E i \in DOMAIN r : r[i] = m
  <2>1. /\ \A i \in DOMAIN pane.posts : i \in DOMAIN Append(pane.posts, m) /\ Append(pane.posts, m)[i] = pane.posts[i]
        /\ \E i \in DOMAIN Append(pane.posts, m) : Append(pane.posts, m)[i] = m
    BY <1>1, PostedAppend
  <2> QED
    BY <1>2, <2>1
<1>3. \A x : Posted(pane, x) => Posted(pane', x)
  BY <1>8 DEF Posted
<1>4. \A x : Tells(m, x, TRUE) => Posted(pane', x)
  BY <1>8 DEF Posted
<1>5. \A x \in Paths : /\ page'[x] = NoModel <=> page[x] = NoModel
                       /\ page'[x].first = page[x].first \/ (page'[x].first > Clock /\ Posted(pane', x))
  <2>1. page \in [Paths -> Model]
    BY DEF IInv, PageTyped
  <2>2. page'[p] = n /\ \A x \in Paths \ {p} : page'[x] = page[x]
    BY <2>1
  <2> QED
    BY <1>4, <2>2
<1>6. \A i \in DOMAIN pane'.tabs : ~pane'.tabs[i].pinned =>
          /\ ~pane'.tabs[i].dirty
          /\ Posted(pane', pane'.tabs[i].path) \/ ~Edited(pane, Seen, pane'.tabs[i].path, Nat \ {0})
  BY <1>2, <1>3 DEF EditsHeeded, Heeding, Recyclable, Previewed
<1>7. Appends(pane.toPage, pane'.toPage) /\ \A x : IsOpen(pane', x) => IsOpen(pane, x)
  BY <1>1, <1>2 DEF Appends, IsOpen
<1> QED
  BY <1>2, <1>5, <1>6, <1>7, IdleStep

\* PressSave
LEMMA PressSaveHeeds ==
    ASSUME IInv, IInv', EditsInsured, EditsHeeded, NEW p \in Paths, PressSave(p)
    PROVE  Heeds
<1> DEFINE m == [type |-> "save", path |-> p]
           n == page[p]
<1>1. /\ page[p] # NoModel /\ Request /\ pane' = Post(pane, m) /\ page' = page /\ Watch
  BY DEF PressSave
<1>2. m \in Message
  BY DEF Message
<1>3. page' = [page EXCEPT ![p] = n]
  BY <1>1 DEF IInv, PageTyped
<1>4. Clock \in Nat /\ Clock' = Clock
  BY <1>1, RequestClock, ClocksAreNumbers DEF IInv
<1>5. Clock' \in Nat /\ Clock <= Clock'
  BY <1>4
<1> HIDE DEF m, n
<1>6. n = page[p]
  BY DEF n
<1> QED
  BY <1>1, <1>2, <1>3, <1>5, <1>6, PostingHeeds

\* SnapshotTimer
LEMMA SnapshotTimerHeeds ==
    ASSUME IInv, IInv', EditsInsured, EditsHeeded, NEW p \in Paths, SnapshotTimer(p)
    PROVE  Heeds
<1> DEFINE m == [type |-> "snapshot", path |-> p, text |-> page[p].text]
           n == [page[p] EXCEPT !.timer = FALSE]
<1>1. /\ page[p].timer /\ pane' = Post(pane, m) /\ page' = [page EXCEPT ![p] = n] /\ Watch
      /\ count' = count
  BY DEF SnapshotTimer
<1>2. page[p] \in Model /\ page[p].text \in Past
  BY DEF IInv, PageTyped, Model
<1>3. m \in Message
  BY <1>2 DEF Message
<1>4. n.first = page[p].first /\ n.version = page[p].version
  BY <1>2 DEF Model
<1>5. page[p] # NoModel /\ n.version >= 1
  <2>1. page[p] # NoModel
    BY <1>1 DEF NoModel
  <2> QED
    BY <1>2, <1>4, <2>1 DEF IInv, PageTyped, Model
<1>6. n # NoModel
  BY <1>5 DEF NoModel
<1>7. Clock \in Nat /\ Clock' \in Nat /\ Clock <= Clock'
  BY <1>1, TornClock
<1> HIDE DEF m, n
<1> QED
  BY <1>1, <1>3, <1>4, <1>5, <1>6, <1>7, PostingHeeds

\* Type
LEMMA TypeHeeds ==
    ASSUME IInv, IInv', EditsInsured, EditsHeeded, NEW p \in Paths, Type(p)
    PROVE  Heeds
<1> DEFINE text == Clock + 1
           first == IF page[p].first = 0 THEN text ELSE page[p].first
           n == [Changed(page[p], text) EXCEPT !.first = IF @ = 0 THEN text ELSE @]
           m == DirtyChanged(p, n)
<1>1. /\ page[p] # NoModel /\ pane' = Post(pane, m) /\ page' = [page EXCEPT ![p] = n] /\ Watch
      /\ count' = [count EXCEPT !.edits = @ + 1]
  BY DEF Type
<1>2. /\ page[p] \in Model /\ Clock \in Nat /\ page[p].version \in Nat /\ page[p].saved \in Nat
      /\ page[p].saved <= page[p].version
  BY ClocksAreNumbers, ModelFields DEF IInv
<1>3. n = [page[p] EXCEPT !.text = text, !.version = page[p].version + 1, !.timer = TRUE, !.first = first]
  BY <1>2 DEF Changed, Model
<1>4. n.version = page[p].version + 1 /\ n.saved = page[p].saved /\ n.first = first
  BY <1>2, <1>3 DEF Model
<1> HIDE DEF n
<1>5. n.version # n.saved /\ n.version # 0
  BY <1>2, <1>4
<1>6. Dirty(n) /\ n # NoModel
  BY <1>5 DEF Dirty, NoModel
<1>7. m \in Message /\ Tells(m, p, TRUE)
  BY <1>6 DEF DirtyChanged, Message, Tells
<1>8. text > Clock
  BY <1>2
<1>9. n.first = page[p].first \/ (n.first > Clock /\ Tells(m, p, TRUE))
  BY <1>4, <1>7, <1>8
<1>10. Clock' \in Nat /\ Clock <= Clock'
  <2>1. count \in Counts
    BY DEF IInv, CountsTyped
  <2>2. count'.edits = count.edits + 1 /\ count'.writes = count.writes /\ count.edits \in Nat /\ count.writes \in Nat
    BY <1>1, <2>1 DEF Counts
  <2> QED
    BY <2>2 DEF Clock
<1> HIDE DEF m, text
<1> QED
  BY <1>1, <1>6, <1>7, <1>9, <1>10, PostingHeeds

-----------------------------------------------------------------------------
(* The renderer dies and comes back.                                           *)

\* A queue that is empty, of a page that is empty: nothing is edited.
LEMMA EmptyHeeds ==
    ASSUME IInv, IInv', EditsHeeded, Watch, Clock' = Clock, pane'.toPage = <<>>, pane'.tabs = pane.tabs,
           pane'.quit = pane.quit, \A x \in Paths : page'[x].first = 0,
           \A i \in DOMAIN pane'.replies : \E j \in DOMAIN pane.replies : pane'.replies[i] = pane.replies[j]
    PROVE  Heeds
<1> DEFINE t == pane'
           w == After
<1>1. Shaped(t)
  BY StepIsShaped
<1>2. w.page = page' /\ w.now = Clock /\ \A j \in DOMAIN pane.replies : pane.replies[j].at <= Clock
  BY WhatIsSeen DEF EditsHeeded, Heeding, Truthful
<1>3. DOMAIN t.toPage = {}
  OBVIOUS
<1> HIDE DEF t, w
<1>4. ASSUME NEW x \in Paths, NEW texts, 0 \notin texts
      PROVE  ~Edited(t, w, x, texts)
  <2>1. w.page[x].first \notin texts /\ ~ToRefill(t, x)
    BY <1>2, <1>3, <1>4 DEF ToRefill, Restoration
  <2> QED
    BY <1>1, <2>1, UneditedHeld
<1>5. \A n : 0 \notin 1..n
  OBVIOUS
<1>6. Spares(t, w)
  BY <1>3 DEF Spares
<1>7. Truthful(t, w)
  BY <1>1, <1>2, <1>4, <1>5 DEF Truthful, Shaped, t
<1>8. Recyclable(t, w)
  <2>1. \A i \in DOMAIN t.tabs : ~t.tabs[i].pinned => ~t.tabs[i].dirty
    BY DEF EditsHeeded, Heeding, Recyclable, t
  <2>2. 0 \notin Nat \ {0}
    OBVIOUS
  <2> QED
    BY <1>1, <1>4, <2>1, <2>2 DEF Recyclable, Previewed, Shaped
<1>9. Walks(t, w)
  <2>1. \A q, n : Unmissed(t, w, q, n)
    BY <1>4, <1>5 DEF Unmissed
  <2> QED
    BY <1>3, <2>1 DEF Walks, Walking
<1>10. Heeding(t, w)
  BY <1>6, <1>7, <1>8, <1>9 DEF Heeding
<1> QED
  BY <1>10, EndsHeeding DEF Heeds, Watch, t, w

\* Crash
LEMMA CrashHeeds ==
    ASSUME IInv, IInv', EditsHeeded, Crash
    PROVE  Heeds
<1>1. /\ pane' = [pane EXCEPT !.life = "crashed", !.toPage = <<>>]
      /\ page' = [p \in Paths |-> NoModel] /\ Fault /\ Watch
  BY DEF Crash
<1>2. pane \in PaneType /\ count \in Counts
  BY AloneStarts DEF IInv, CountsTyped
<1>3. count'.edits = count.edits /\ count'.writes = count.writes
  BY <1>1, <1>2 DEF Fault, Counts
<1>4. Clock' = Clock /\ \A x \in Paths : page'[x].first = 0
  BY <1>1, <1>3 DEF Clock, NoModel
<1>5. /\ pane'.tabs = pane.tabs /\ pane'.toPage = <<>> /\ pane'.replies = pane.replies /\ pane'.quit = pane.quit
  BY <1>1, <1>2 DEF PaneType
<1> QED
  BY <1>1, <1>4, <1>5, EmptyHeeds

\* DidTerminate
LEMMA DidTerminateHeeds ==
    ASSUME IInv, IInv', EditsHeeded, DidTerminate
    PROVE  Heeds
<1>1. /\ pane.life = "crashed" /\ page' = page /\ count' = count /\ Watch
      /\ pane' = [pane EXCEPT !.life = "loading", !.needsModelRestore = TRUE, !.posts = <<>>, !.replies = <<>>]
  BY DEF DidTerminate
<1>2. pane \in PaneType
  BY AloneStarts
<1>3. pane.toPage = <<>> /\ \A x \in Paths : page'[x].first = 0
  BY <1>1 DEF IInv, Linked, DownIsEmpty, Down, Now, NoModel
<1>4. /\ pane'.tabs = pane.tabs /\ pane'.toPage = <<>> /\ pane'.replies = <<>> /\ pane'.quit = pane.quit
  BY <1>1, <1>2, <1>3 DEF PaneType
<1>5. DOMAIN pane'.replies = {} /\ Clock' = Clock
  BY <1>1, <1>4 DEF Clock
<1> QED
  BY <1>1, <1>3, <1>4, <1>5, EmptyHeeds

\* PageReady
LEMMA PageReadyHeeds ==
    ASSUME IInv, IInv', EditsHeeded, PageReady
    PROVE  Heeds
<1> DEFINE t == pane'
           w == After
           q == pane.toPage
           n == Len(q)
<1>1. page' = page /\ count' = count /\ Watch
  BY DEF PageReady
<1>2. /\ t.tabs = pane.tabs /\ t.waiting = pane.waiting /\ t.quit = pane.quit /\ t.replies = <<>>
      /\ \A x \in Paths : page[x] = NoModel
      /\ \A i \in DOMAIN q : q[i].op \in {"open", "set", "close"}
  BY PageReplays
<1>3. PICK b \in Seq(Command) :
          /\ t.toPage = q \o b /\ DOMAIN b = 1..Len(b)
          /\ \A k \in DOMAIN b : b[k].op \in {"open", "restore"}
          /\ \A k \in DOMAIN b : \A p : Is(b[k], "restore", p) => Restorable(pane, p)
  BY PageReplays
<1>4. q \in Seq(Command) /\ pane \in PaneType /\ TabsDiffer(pane)
  BY AloneStarts DEF PaneType, Deciding, Linked, Typed
<1> HIDE DEF q
<1> DEFINE r == q \o b
<1>5. /\ Len(r) = n + Len(b) /\ n \in Nat /\ Len(b) \in Nat /\ DOMAIN r = 1..Len(r) /\ DOMAIN q = 1..n
      /\ \A i \in 1..n : r[i] = q[i]
      /\ \A k \in 1..Len(b) : r[n + k] = b[k]
      /\ \A i \in 1..Len(r) : i \in 1..n \/ \E k \in 1..Len(b) : i = n + k
  BY <1>3, <1>4, BatchQueue
<1> HIDE DEF r, n
<1>6. Shaped(t) /\ Shaped(pane)
  BY StepIsShaped
<1>7. w.page = page /\ w.now = Clock /\ Seen.page = page /\ Seen.now = Clock
  BY <1>1, WhatIsSeen DEF Clock
<1> HIDE DEF t, w
<1>8. t.toPage = r
  BY <1>3 DEF r
\* What was sent is followed by what is restored.
<1>9. ASSUME NEW i \in DOMAIN r
      PROVE  \/ i \in 1..n /\ i \in DOMAIN q /\ r[i] = q[i] /\ r[i].op \in {"open", "set", "close"}
             \/ \E k \in DOMAIN b : r[i] = b[k] /\ r[i].op \in {"open", "restore"}
  <2>1. CASE i \in 1..n
    BY <1>2, <1>5, <2>1
  <2>2. CASE i \notin 1..n
    <3>1. PICK k \in 1..Len(b) : i = n + k
      BY <1>5, <2>2
    <3>2. k \in DOMAIN b /\ r[i] = b[k]
      BY <1>3, <1>5, <3>1
    <3> QED
      BY <1>3, <3>2
  <2> QED
    BY <2>1, <2>2
<1>10. ASSUME NEW x \in Paths, ~IsDirty(pane, x)
       PROVE  ~Edited(t, w, x, Nat \ {0})
  <2>1. ~ToRefill(t, x)
    <3> SUFFICES ASSUME NEW i \in DOMAIN r, Is(r[i], "restore", x)
                 PROVE  FALSE
      BY <1>8 DEF ToRefill, Restoration
    <3>1. PICK k \in DOMAIN b : r[i] = b[k]
      BY <1>9 DEF Is
    <3> QED
      BY <1>3, <1>10, <3>1 DEF Restorable
  <2>2. w.page[x].first \notin Nat \ {0}
    BY <1>2, <1>7 DEF NoModel
  <2> QED
    BY <1>6, <2>1, <2>2, UneditedHeld
<1>11. Spares(t, w)
  <2> SUFFICES ASSUME NEW i \in DOMAIN r, Replaces(r[i])
               PROVE  /\ r[i].upto <= Clock
                      /\ ~MayHold(r, r[i].path, page[r[i].path], i - 1, 1..r[i].upto)
    BY <1>7, <1>8 DEF Spares
  <2>1. i \in 1..n /\ i \in DOMAIN q /\ r[i] = q[i]
    BY <1>9 DEF Replaces
  <2>2. r[i].upto <= Clock /\ ~MayHold(q, r[i].path, page[r[i].path], i - 1, 1..r[i].upto)
    BY <1>7, <2>1 DEF EditsHeeded, Heeding, Spares, q
  <2>3. Len(q) \in Nat /\ Len(r) \in Nat /\ Len(q) <= Len(r) /\ i - 1 \in 0..Len(q) /\ \A k \in 1..Len(q) : r[k] = q[k]
    BY <1>5, <2>1 DEF n
  <2>4. \A k \in 0..Len(q) : MayHold(r, r[i].path, page[r[i].path], k, 1..r[i].upto)
                                => MayHold(q, r[i].path, page[r[i].path], k, 1..r[i].upto)
    BY <2>3, HeldBefore
  <2> QED
    BY <2>2, <2>3, <2>4
<1>12. DOMAIN t.replies = {}
  BY <1>2
<1>13. Truthful(t, w)
  BY <1>12 DEF Truthful
<1>14. Recyclable(t, w)
  <2> SUFFICES ASSUME NEW i \in DOMAIN pane.tabs, ~pane.tabs[i].pinned
               PROVE  ~pane.tabs[i].dirty /\ ~Edited(t, w, pane.tabs[i].path, Nat \ {0})
    BY <1>2 DEF Recyclable, Previewed
  <2>1. ~pane.tabs[i].dirty
    BY DEF EditsHeeded, Heeding, Recyclable
  <2>2. ~IsDirty(pane, pane.tabs[i].path)
    BY <1>4, <2>1, FlagOf DEF TabsDiffer
  <2> QED
    BY <1>6, <1>10, <2>1, <2>2 DEF Shaped
<1>15. Walks(t, w)
  <2>1. ASSUME NEW c \in pane.waiting, Drains(c), NEW i \in DOMAIN r
        PROVE  r[i] # Asking(c)
    <3>1. r[i].op \in {"open", "set", "close", "restore"}
      BY <1>9
    <3>2. Asking(c).op = "clean"
      BY <2>1 DEF Asking, Drains
    <3> QED
      BY <3>1, <3>2
  <2> QED
    BY <1>2, <1>8, <1>12, <2>1 DEF Walks, Walking
<1>16. Heeding(t, w)
  BY <1>11, <1>13, <1>14, <1>15 DEF Heeding
<1> QED
  BY <1>1, <1>2, <1>16, EndsHeeding DEF Heeds, Watch, t, w

\* Nothing happens.
LEMMA StutterHeeds ==
    ASSUME EditsHeeded, UNCHANGED vars
    PROVE  EditsHeeded'
<1>1. pane' = pane /\ page' = page /\ count' = count /\ ghost' = ghost
  BY DEF vars
<1>2. After = Seen
  BY <1>1 DEF After, Seen, Clock
<1> QED
  BY <1>1, <1>2, EndsHeeding DEF EditsHeeded

-----------------------------------------------------------------------------
(* The page runs its first command.                                            *)

\* What there is of a model after a command.
LEMMA ModelThere ==
    ASSUME IInv, NEW c \in Command
    PROVE  /\ PageModel(c) # NoModel <=> c.op = "open" \/ (page[c.path] # NoModel /\ c.op # "close")
           /\ c.op \in {"content", "clean"} => PageModel(c) = page[c.path]
<1> DEFINE p == c.path
           m == page[p]
           n == PageModel(c)
<1>1. p \in Paths /\ c.op \in {"open", "restore", "set", "mark", "close", "content", "clean"}
  BY CommandFields
<1>2. m \in Model /\ m.version \in Nat /\ (m # NoModel => 1 <= m.version)
  BY <1>1, ModelFields DEF IInv, PageTyped
<1>3. n = IF c.op = "open" THEN OpenModel(p, c.text)
          ELSE IF m = NoModel THEN NoModel
          ELSE CASE c.op = "set" -> SetContent(m, c.text)
                 [] c.op = "mark" -> MarkSaved(m, c.version)
                 [] c.op = "restore" -> RestoreUnsaved(m, c.text)
                 [] c.op = "close" -> CloseModel(m)
                 [] OTHER -> m
  BY DEF PageModel
<1>4. NoModel.version = 0
  BY DEF NoModel
<1> HIDE DEF n, m, p
<1>5. CASE c.op = "open" /\ m = NoModel
  <2>1. n = [NoModel EXCEPT !.text = c.text, !.base = c.text, !.version = 1, !.saved = 1]
    BY <1>3, <1>5 DEF OpenModel, m
  <2>2. n.version = 1
    BY <2>1 DEF NoModel
  <2> QED
    BY <1>4, <1>5, <2>2 DEF m, n, p
<1>6. CASE m # NoModel /\ c.op \in {"open", "content", "clean"}
  <2>1. n = m
    BY <1>3, <1>6 DEF OpenModel, m
  <2> QED
    BY <1>6, <2>1 DEF m, n, p
<1>7. CASE m = NoModel /\ c.op # "open"
  BY <1>3, <1>7 DEF m, n, p
<1>8. CASE m # NoModel /\ c.op \in {"set", "mark", "restore"}
  <2>1. n \in {SetContent(m, c.text), MarkSaved(m, c.version), RestoreUnsaved(m, c.text)}
    BY <1>3, <1>8
  <2>2. SetContent(m, c.text).version = m.version + 1
    BY <1>2 DEF SetContent, Model
  <2>3. MarkSaved(m, c.version).version = m.version
    BY <1>2 DEF MarkSaved, Model
  <2>4. RestoreUnsaved(m, c.text).version = m.version + 1
    BY <1>2 DEF RestoreUnsaved, Changed, Model
  <2>5. n.version \in {m.version, m.version + 1}
    BY <2>1, <2>2, <2>3, <2>4
  <2>6. n.version # 0
    BY <1>2, <1>8, <2>5
  <2> QED
    BY <1>4, <1>8, <2>6 DEF m, n, p
<1>9. CASE m # NoModel /\ c.op = "close"
  <2>1. n = NoModel
    BY <1>3, <1>9 DEF CloseModel
  <2> QED
    BY <1>9, <2>1 DEF m, n, p
<1> QED
  BY <1>1, <1>5, <1>6, <1>7, <1>8, <1>9

\* A question is one.
LEMMA AskingOf ==
    ASSUME NEW c \in Command, c.op = "clean", NEW q \in Questions, q.op = "clean", c.id = q.id, c.path = q.path
    PROVE  c = Asking(q)
<1>1. c \in [op : {"content", "clean"}, path : Paths, id : Nat]
  BY DEF Command
<1>2. c = [op |-> c.op, path |-> c.path, id |-> c.id]
  BY <1>1
<1> QED
  BY <1>2 DEF Asking

\* A text is no answer about an edit.
LEMMA ContentIsNotClean ==
    ASSUME NEW c
    PROVE  GetContent(c) \notin Clean
<1>1. "none" \in DOMAIN GetContent(c)
  BY DEF GetContent
<1>2. \A r \in Clean : DOMAIN r = {"id", "path", "at", "clean"}
  BY DEF Clean
<1> QED
  BY <1>1, <1>2

\* PageRuns
LEMMA PageRunsHeeds ==
    ASSUME IInv, IInv', EditsInsured, EditsHeeded,
           NEW op \in {"open", "set", "mark", "restore", "close", "content", "clean"}, PageRuns(op)
    PROVE  Heeds
<1> DEFINE q == pane.toPage
           c == Head(q)
           r == Tail(q)
           n == PageModel(c)
           s == pane
           t == pane'
           v == Seen
           w == After
<1>1. /\ q \in Seq(Command) /\ q # <<>> /\ c.op = op /\ c \in Command /\ c = q[1] /\ c.path \in Paths
      /\ t.tabs = s.tabs /\ t.toPage = r /\ t.waiting = s.waiting /\ t.quit = s.quit
      /\ page'[c.path] = n /\ \A x \in Paths : x # c.path => page'[x] = page[x]
  BY RunsHead
<1>2. /\ t.posts = s.posts \/ \E m : t.posts = Append(s.posts, m)
      /\ op = "content" => t.replies = Append(s.replies, GetContent(c))
      /\ op = "clean" => t.replies = Append(s.replies, IsClean(c))
      /\ op \notin {"content", "clean"} => t.replies = s.replies
  BY RunsHead
<1>3. Watch /\ count' = count
  BY DEF PageRuns
<1>4. /\ Len(q) \in Nat /\ Len(r) = Len(q) - 1 /\ 1 \in DOMAIN q /\ DOMAIN r = 1..Len(r)
      /\ \A i \in DOMAIN r : i \in Nat /\ i + 1 \in DOMAIN q /\ r[i] = q[i + 1]
  BY <1>1, TailOfQueue
<1>5. /\ n.first # 0 => n.first = page[c.path].first \/ (c.op = "restore" /\ n.first = c.text)
      /\ c.op = "close" => n.first = 0
      /\ n # NoModel <=> c.op = "open" \/ (page[c.path] # NoModel /\ c.op # "close")
      /\ c.op \in {"content", "clean"} => n = page[c.path]
  <2>1. page[c.path].first # 0 => Dirty(page[c.path])
    BY <1>1, EditsAreDirty
  <2> QED
    BY <1>1, <2>1, ModelAfter, ModelThere
<1>6. /\ v.page = page /\ v.gone = ghost.misread /\ v.now = Clock
      /\ w.page = page' /\ w.gone = ghost'.misread /\ w.now = Clock
  BY <1>3, WhatIsSeen DEF Clock
<1>7. Shaped(s) /\ Shaped(t) /\ Heeding(s, v) /\ Clock \in Nat
  BY StepIsShaped, ClocksAreNumbers DEF EditsHeeded, IInv
<1> HIDE DEF n, c, v, w
\* What is edited was, and what is open now was, or is.
<1>8. ASSUME NEW x \in Paths, NEW texts, 0 \notin texts
      PROVE  \A k \in 0..Len(r) : MayHold(r, x, page'[x], k, texts) => MayHold(q, x, page[x], k + 1, texts)
  <2>1. IF Is(q[1], "restore", x) THEN page'[x].first \in {0, page[x].first, q[1].text}
        ELSE IF Is(q[1], "close", x) THEN page'[x].first = 0 ELSE page'[x].first \in {0, page[x].first}
    BY <1>1, <1>5 DEF Is
  <2>2. \A k \in 0..(Len(q) - 1) : MayHold(r, x, page'[x], k, texts) => MayHold(q, x, page[x], k + 1, texts)
    BY <1>1, <1>8, <2>1, HeldAfter
  <2> QED
    BY <1>4, <2>2
<1>9. ASSUME NEW x \in Paths, NEW texts, 0 \notin texts, Edited(t, w, x, texts)
      PROVE  Edited(s, v, x, texts)
  <2>1. MayHold(r, x, page'[x], Len(r), texts) /\ Len(r) \in 0..Len(r) /\ Len(r) + 1 = Len(q)
    BY <1>1, <1>4, <1>6, <1>9 DEF Edited
  <2> QED
    BY <1>6, <1>8, <1>9, <2>1 DEF Edited
<1>10. \A k : 0 \notin 1..k
  OBVIOUS
<1>11. ASSUME NEW x \in Paths
       PROVE  \A k \in 0..Len(r) : Exists(r, x, page'[x], k) <=> Exists(q, x, page[x], k + 1)
  <2>1. page'[x] # NoModel <=> Is(q[1], "open", x) \/ (page[x] # NoModel /\ ~Is(q[1], "close", x))
    BY <1>1, <1>5 DEF Is
  <2>2. \A k \in 0..(Len(q) - 1) : Exists(r, x, page'[x], k) <=> Exists(q, x, page[x], k + 1)
    BY <1>1, <2>1, ExistsTail
  <2> QED
    BY <1>4, <2>2
<1>12. ASSUME NEW x \in Paths, Overlooked(t, w, x)
       PROVE  Overlooked(s, v, x)
  <2>1. (IsOpen(t, x) <=> IsOpen(s, x)) /\ (IsDirty(t, x) <=> IsDirty(s, x))
    BY <1>1 DEF IsOpen, IsDirty, IndexOf
  <2>2. x \notin ghost.misread
    BY <1>3, <1>12, <2>1, OverlookedAfter DEF Overlooked, w
  <2> QED
    BY <1>6, <1>12, <2>1, <2>2 DEF Overlooked
<1>13. ASSUME NEW x, ToRefill(t, x)
       PROVE  ToRefill(s, x) /\ op \notin {"content", "clean"}
  <2>1. PICK i \in DOMAIN r : Is(r[i], "restore", x)
    BY <1>1, <1>13 DEF ToRefill, Restoration
  <2>2. i + 1 \in DOMAIN q /\ Is(q[i + 1], "restore", x) /\ 1 \in 1..((i + 1) - 1)
    BY <1>4, <2>1
  <2>3. q[1].op \in {"open", "set", "close", "restore"}
    BY <2>2 DEF EditsInsured, Insuring, RestoresCome, Is
  <2> QED
    BY <1>1, <2>2, <2>3 DEF ToRefill, Restoration
\* What a walk has not missed.
<1>14. ASSUME NEW u, NEW k, Unmissed(s, v, u, k)
       PROVE  Unmissed(t, w, u, k)
  BY <1>9, <1>10, <1>12, <1>14 DEF Unmissed
<1>15. ASSUME NEW u, Later(s, v, u)
       PROVE  Later(t, w, u)
  <2>1. Unmissed(t, w, u, u.since) /\ u.since <= Clock
    BY <1>6, <1>14, <1>15 DEF Later
  <2>2. u.since = 0 \/ \A x \in Paths : ~ToRefill(t, x)
    BY <1>13, <1>15 DEF Later
  <2> QED
    BY <1>6, <2>1, <2>2 DEF Later
<1>16. Spares(t, w)
  <2> SUFFICES ASSUME NEW i \in DOMAIN r, Replaces(r[i])
               PROVE  /\ r[i].upto <= Clock
                      /\ ~MayHold(r, r[i].path, page'[r[i].path], i - 1, 1..r[i].upto)
    BY <1>1, <1>6 DEF Spares
  <2>1. i + 1 \in DOMAIN q /\ r[i] = q[i + 1] /\ i - 1 \in 0..Len(r) /\ (i + 1) - 1 = (i - 1) + 1
    BY <1>4
  <2>2. r[i].upto <= Clock /\ ~MayHold(q, r[i].path, page[r[i].path], (i - 1) + 1, 1..r[i].upto)
    BY <1>6, <1>7, <2>1 DEF Heeding, Spares
  <2>3. r[i].path \in Paths
    BY <1>7, <2>1 DEF Shaped
  <2> QED
    BY <1>8, <1>10, <2>1, <2>2, <2>3
<1>17. \A i \in DOMAIN t.replies :
           \/ \E j \in DOMAIN s.replies : t.replies[i] = s.replies[j]
           \/ op = "content" /\ t.replies[i] = GetContent(c)
           \/ op = "clean" /\ t.replies[i] = IsClean(c)
  <2>1. s.replies \in Seq(Content \cup Clean)
    BY AloneStarts DEF PaneType
  <2> DEFINE a == s.replies
  <2>2. \A e : \A i \in DOMAIN Append(a, e) : (i \in DOMAIN a /\ Append(a, e)[i] = a[i]) \/ Append(a, e)[i] = e
    BY <2>1
  <2> QED
    BY <1>2, <2>2
\* When the page answers, there is nothing to be restored.
<1>18. ASSUME op \in {"content", "clean"}, NEW x \in Paths, NEW texts, page[x].first \notin texts
       PROVE  ~Edited(t, w, x, texts)
  <2>1. page'[x] = page[x] /\ ~ToRefill(t, x)
    BY <1>1, <1>5, <1>13, <1>18
  <2> QED
    BY <1>6, <1>7, <1>18, <2>1, UneditedHeld
<1>19. Truthful(t, w)
  <2> SUFFICES ASSUME NEW i \in DOMAIN t.replies
               PROVE  /\ t.replies[i].at <= Clock
                      /\ t.replies[i] \in Clean /\ t.replies[i].clean =>
                             ~Edited(t, w, t.replies[i].path, 1..t.replies[i].at)
    BY <1>6 DEF Truthful
  <2>1. ASSUME NEW j \in DOMAIN s.replies, t.replies[i] = s.replies[j]
        PROVE  /\ t.replies[i].at <= Clock
               /\ t.replies[i] \in Clean /\ t.replies[i].clean =>
                      ~Edited(t, w, t.replies[i].path, 1..t.replies[i].at)
    BY <1>6, <1>7, <1>9, <1>10, <2>1 DEF Heeding, Truthful, Shaped
  <2>2. ASSUME op = "content", t.replies[i] = GetContent(c)
        PROVE  t.replies[i].at <= Clock /\ t.replies[i] \notin Clean
    <3>1. GetContent(c).at = Clock
      BY DEF GetContent
    <3> QED
      BY <1>7, <2>2, <3>1, ContentIsNotClean
  <2>3. ASSUME op = "clean", t.replies[i] = IsClean(c)
        PROVE  t.replies[i].at <= Clock /\ (t.replies[i].clean => ~Edited(t, w, t.replies[i].path, 1..t.replies[i].at))
    <3>1. IsClean(c).at = Clock /\ IsClean(c).path = c.path /\ (IsClean(c).clean <=> ~Dirty(page[c.path]))
      BY DEF IsClean
    <3>2. IsClean(c).clean => page[c.path].first = 0
      BY <1>1, <3>1, EditsAreDirty
    <3>3. IsClean(c).clean => ~Edited(t, w, c.path, 1..Clock)
      BY <1>1, <1>10, <1>18, <2>3, <3>2
    <3> QED
      BY <1>7, <2>3, <3>1, <3>3
  <2> QED
    BY <1>17, <2>1, <2>2, <2>3
<1>20. Recyclable(t, w)
  <2> SUFFICES ASSUME NEW i \in DOMAIN s.tabs, ~s.tabs[i].pinned
               PROVE  ~s.tabs[i].dirty /\ Previewed(t, w, s.tabs[i].path)
    BY <1>1 DEF Recyclable
  <2>1. ~s.tabs[i].dirty /\ Previewed(s, v, s.tabs[i].path) /\ s.tabs[i].path \in Paths
    BY <1>7 DEF Heeding, Recyclable, Shaped
  <2>2. Posted(s, s.tabs[i].path) => Posted(t, s.tabs[i].path)
    <3>1. s.posts \in Seq(Message)
      BY AloneStarts DEF PaneType
    <3>2. ASSUME NEW m, t.posts = Append(s.posts, m)
          PROVE  \A k \in DOMAIN s.posts : k \in DOMAIN t.posts /\ t.posts[k] = s.posts[k]
      BY <3>1, <3>2
    <3> QED
      BY <1>2, <3>2 DEF Posted
  <2>3. 0 \notin Nat \ {0}
    OBVIOUS
  <2> QED
    BY <1>9, <2>1, <2>2, <2>3 DEF Previewed
<1>21. Walks(t, w)
  <2> SUFFICES ASSUME NEW u \in s.waiting, Drains(u)
               PROVE  Walking(t, w, u)
    BY <1>1 DEF Walks
  <2>1. Walking(s, v, u) /\ u.since \in Nat
    BY <1>7, <2>1 DEF Heeding, Walks, Shaped
  <2>2. ASSUME NEW i \in DOMAIN r, r[i] = Asking(u)
        PROVE  Fresh(t, w, u, i) \/ Later(t, w, u)
    <3>1. i + 1 \in DOMAIN q /\ q[i + 1] = Asking(u) /\ i - 1 \in 0..Len(r) /\ (i + 1) - 1 = (i - 1) + 1
      BY <1>4, <2>2
    <3>2. CASE Later(s, v, u)
      BY <1>15, <3>2
    <3>3. CASE Fresh(s, v, u, i + 1)
      <4>1. \A x \in Paths \ OnWalk(u) : ~Exists(q, x, page[x], (i - 1) + 1)
        BY <1>6, <3>1, <3>3 DEF Fresh
      <4>2. \A x \in Paths \ OnWalk(u) : ~Exists(r, x, page'[x], i - 1)
        BY <1>11, <3>1, <4>1
      <4> QED
        BY <1>1, <1>6, <4>2 DEF Fresh
    <3> QED
      BY <2>1, <3>1, <3>2, <3>3 DEF Walking
  <2>3. ASSUME NEW i \in DOMAIN t.replies, Answers(t.replies[i], u)
        PROVE  Unmissed(t, w, u, Earlier(t.replies[i].at, u.since))
    <3>1. CASE \E j \in DOMAIN s.replies : t.replies[i] = s.replies[j]
      BY <1>14, <2>1, <2>3, <3>1 DEF Walking
    <3>2. CASE op \in {"content", "clean"} /\ t.replies[i] \in {GetContent(c), IsClean(c)}
      <4>1. t.replies[i].at = Clock /\ t.replies[i].id = c.id /\ t.replies[i].path = c.path
        BY <3>2 DEF GetContent, IsClean
      <4>2. c.op = "clean" /\ c = Asking(u)
        <5>1. Same(c, u) /\ Asks(c)
          BY <1>1, <2>3, <3>2, <4>1 DEF Same, Answers, Asks
        <5>2. u \in Questions /\ IdsDiffer(s) /\ u.op = "clean"
          BY <2>1, AloneStarts DEF Deciding, Linked, PaneType, Drains
        <5>3. c.op = "clean"
          BY <1>1, <1>4, <5>1, <5>2 DEF IdsDiffer
        <5> QED
          BY <1>1, <5>1, <5>2, <5>3, AskingOf DEF Same
      <4>3. Fresh(s, v, u, 1) \/ Later(s, v, u)
        BY <1>1, <1>4, <2>1, <4>2 DEF Walking
      <4>4. CASE Later(s, v, u)
        <5>1. Earlier(Clock, u.since) = u.since
          BY <1>6, <1>7, <2>1, <4>4 DEF Later, Earlier
        <5> QED
          BY <1>14, <4>1, <4>4, <5>1 DEF Later
      <4>5. CASE Fresh(s, v, u, 1)
        <5>1. \A x \in Paths \ OnWalk(u) : page[x].first = 0
          BY <1>6, <4>5, ExistsNone DEF Fresh, NoModel
        <5> QED
          BY <1>10, <1>18, <3>2, <5>1 DEF Unmissed
      <4> QED
        BY <4>3, <4>4, <4>5
    <3> QED
      BY <1>17, <3>1, <3>2
  <2> QED
    BY <1>1, <2>2, <2>3 DEF Walking
<1>22. Heeding(t, w)
  BY <1>16, <1>19, <1>20, <1>21 DEF Heeding
<1> QED
  BY <1>1, <1>3, <1>22, EndsHeeding DEF Heeds, Watch, w

-----------------------------------------------------------------------------
(* Every step.                                                                 *)

LEMMA NextHeeds ==
    ASSUME IInv, IInv', EditsInsured, EditsHeeded, Next
    PROVE  Heeds
<1>1. CASE Swift
  BY <1>1, DeliverPostHeeds, AnswerCleanHeeds, AnswerContentHeeds, WriteFailsHeeds,
     LateAnswerHeeds, FallbackHeeds, DidTerminateHeeds DEF Swift, Answer
<1>2. CASE Page
  <2>1. CASE PageRunsHead
    BY <2>1, PageRunsHeeds DEF PageRunsHead
  <2>2. ASSUME NEW p \in Paths, Type(p) \/ SnapshotTimer(p) \/ PressSave(p)
        PROVE  Heeds
    BY <2>2, TypeHeeds, SnapshotTimerHeeds, PressSaveHeeds
  <2> QED
    BY <1>2, <2>1, <2>2 DEF Page
<1>3. CASE User
  <2>1. ASSUME NEW p \in Paths, OpenFile(p, TRUE) \/ OpenFile(p, FALSE) \/ PinTab(p) \/ CloseTab(p)
        PROVE  Heeds
    <3>1. ASSUME OpenFile(p, TRUE)
          PROVE  Heeds
      BY <3>1, OpenFileHeeds
    <3>2. ASSUME OpenFile(p, FALSE)
          PROVE  Heeds
      BY <3>2, OpenFileHeeds
    <3> QED
      BY <2>1, <3>1, <3>2, PinTabHeeds, CloseTabHeeds
  <2> QED
    BY <1>3, <2>1, CloseAllHeeds, SaveAllDirtyHeeds, CheckExternalChangesHeeds, CancelHeeds,
       DiscardHeeds, SaveThenCloseHeeds, TakeDiskHeeds DEF User
<1>4. CASE World
  <2>1. ASSUME NEW p \in Paths, AgentWrites(p)
        PROVE  Heeds
    BY <2>1, AgentWritesHeeds
  <2> QED
    BY <1>4, <2>1, PageReadyHeeds, CrashHeeds, WedgeHeeds DEF World
<1> QED
  BY <1>1, <1>2, <1>3, <1>4 DEF Next

\* The properties see every step.
LEMMA NextWatches ==
    ASSUME Next
    PROVE  Watch
<1>1. CASE Swift
  BY <1>1 DEF Swift, Answer, DeliverPost, AnswerClean, AnswerContent, WriteFails, LateAnswer, Fallback, DidTerminate
<1>2. CASE Page
  BY <1>2 DEF Page, PageRunsHead, PageRuns, Type, SnapshotTimer, PressSave
<1>3. CASE User
  BY <1>3 DEF User, OpenFile, PinTab, CloseTab, CloseAll, SaveAllDirty, CheckExternalChanges, Cancel,
     Discard, SaveThenClose, TakeDisk
<1>4. CASE World
  BY <1>4 DEF World, PageReady, Crash, Wedge, Unwedge, AgentWrites
<1> QED
  BY <1>1, <1>2, <1>3, <1>4 DEF Next

\* A step loses no edit, then, that the decision on it knew of.
LEMMA NothingIsLost ==
    ASSUME IInv, EditsHeeded, Heeds
    PROVE  LosesKnownEdit \subseteq {"slot"}
<1>1. ASSUME pane.toPage # <<>>, Destroys(Head(pane.toPage))
      PROVE  FALSE
  <2> DEFINE q == pane.toPage
             c == q[1]
  <2>1. Head(q) = c /\ 1 \in DOMAIN q
    <3>1. q \in Seq(Command)
      BY AloneStarts DEF PaneType
    <3> QED
      BY <1>1, <3>1, TailOfQueue
  <2>2. Replaces(c) /\ page[c.path].first \in 1..c.upto
    BY <1>1, <2>1 DEF Destroys, Replaces
  <2>3. ~MayHold(q, c.path, page[c.path], 1 - 1, 1..c.upto)
    BY <2>1, <2>2, WhatIsSeen DEF EditsHeeded, Heeding, Spares
  <2>4. NoClose(q, c.path, 1, 1 - 1)
    BY DEF NoClose
  <2> QED
    BY <2>2, <2>3, <2>4 DEF MayHold
<1>2. ASSUME pane'.quit = "yes", NEW p \in Paths, IsOpen(pane', p), p \notin ghost.misread,
             ~Pending("close", p), page[p].first \in 1..pane'.quitSince
      PROVE  FALSE
  <2>1. ~Edited(pane, Seen, p, 1..pane'.quitSince)
    BY <1>2 DEF Heeds, Leaves
  <2>2. NoClose(pane.toPage, p, 1, Len(pane.toPage))
    BY <1>2, ClosesOf DEF Closes
  <2> QED
    BY <1>2, <2>1, <2>2, WhatIsSeen DEF Edited, MayHold
<1> QED
  BY <1>1, <1>2 DEF LosesKnownEdit

\* Nothing is edited yet.
LEMMA NothingHeeded == Init => EditsHeeded /\ NoKnownEditIsLost
<1> SUFFICES ASSUME Init
             PROVE  EditsHeeded /\ NoKnownEditIsLost
  OBVIOUS
<1>1. IInv
  BY InitIsFine
<1>2. Shaped(pane)
  BY <1>1, AloneStarts, PaneIsShaped
<1>3. /\ pane.waiting = {} /\ pane.replies = <<>> /\ ghost.lost = {}
      /\ \A i \in DOMAIN pane.toPage : pane.toPage[i].op = "open"
      /\ \A i \in DOMAIN pane.tabs : ~pane.tabs[i].dirty
  BY DEF Init, NewTab
<1>4. \A p \in Paths : page[p].first = 0
  BY DEF Init, NoModel
<1>5. ASSUME NEW p \in Paths
      PROVE  ~Edited(pane, Seen, p, Nat \ {0})
  <2>1. ~ToRefill(pane, p)
    BY <1>3 DEF ToRefill, Restoration, Is
  <2>2. Seen.page[p].first \notin Nat \ {0}
    BY <1>4, WhatIsSeen
  <2> QED
    BY <1>2, <2>1, <2>2, UneditedHeld
<1>6. Spares(pane, Seen)
  BY <1>3 DEF Spares, Replaces
<1>7. Truthful(pane, Seen) /\ Walks(pane, Seen)
  BY <1>3 DEF Truthful, Walks
<1>8. Recyclable(pane, Seen)
  BY <1>2, <1>3, <1>5 DEF Recyclable, Previewed, Shaped
<1> QED
  BY <1>3, <1>6, <1>7, <1>8 DEF EditsHeeded, Heeding, NoKnownEditIsLost

\* No edit is destroyed that was typed before the page gave the answer, or the user the
\* decision, on which its buffer is closed or replaced or the pane goes away, however the
\* answers, the posts, the closes, the reloads and the deaths of the renderer interleave;
\* except for an edit whose flag a stale dirtyChanged took down during the walk of a close
\* over several tabs, and for the tab that "Save" takes for another (SavedTabLosesNothing).
THEOREM KnownEditsAreKept == Spec => []NoKnownEditIsLost
<1> DEFINE HInv == IInv /\ EditsInsured /\ EditsHeeded /\ NoKnownEditIsLost
<1>1. Init => HInv
  BY InitIsFine, NothingAtStake, NothingHeeded
<1>2. HInv /\ [Next]_vars => HInv'
  <2> SUFFICES ASSUME HInv, [Next]_vars
               PROVE  HInv'
    OBVIOUS
  <2>1. IInv' /\ EditsInsured'
    BY StepInsures
  <2>2. CASE UNCHANGED vars
    <3>1. EditsHeeded'
      BY <2>2, StutterHeeds
    <3>2. NoKnownEditIsLost'
      BY <2>2 DEF NoKnownEditIsLost, vars
    <3> QED
      BY <2>1, <3>1, <3>2
  <2>3. CASE Next
    <3>1. Heeds
      BY <2>1, <2>3, NextHeeds
    <3>2. ghost'.lost = ghost.lost \cup LosesKnownEdit
      <4>1. Watch
        BY <2>3, NextWatches
      <4> QED
        BY <4>1 DEF Watch
    <3>3. NoKnownEditIsLost'
      BY <3>1, <3>2, NothingIsLost DEF NoKnownEditIsLost
    <3> QED
      BY <2>1, <3>1, <3>3 DEF Heeds
  <2> QED
    BY <2>2, <2>3
<1>3. HInv => NoKnownEditIsLost
  OBVIOUS
<1> HIDE DEF HInv
<1> QED
  BY <1>1, <1>2, <1>3, PTL DEF Spec
=============================================================================
