------------------------- MODULE EditorPane_proofs -------------------------
(* Theorems of EditorPane: the files that the pane has open are the models     *)
(* that the page has or is about to have, a buffer that the page calls saved   *)
(* is on disk, and a file that changed under an open tab is noticed; for any   *)
(* files, tabs and bounds.                                                     *)
(*                                                                             *)
(* What the page will hold depends on the commands that are on their way to    *)
(* it, so the invariant is about the queue: which model the page has after     *)
(* its first n commands, and which text of the file that model is based on.    *)
EXTENDS EditorPane, FiniteSetTheorems, WellFoundedInduction, TLAPS

-----------------------------------------------------------------------------
(* The types of the pane, the page and the files.                              *)

\* The texts that there have been.
Past == 0..Clock

Tab == [path : Paths, dirty : BOOLEAN, pinned : BOOLEAN]
Card == {NoAsk} \cup [kind : {"close", "drain", "conflict"}, path : Paths, index : Nat]
Command == [op : {"open", "restore"}, path : Paths, text : Past]
           \cup [op : {"set"}, path : Paths, text : Past, upto : Nat]
           \cup [op : {"mark"}, path : Paths, version : Nat]
           \cup [op : {"close"}, path : Paths, upto : Nat]
           \cup [op : {"content", "clean"}, path : Paths, id : Nat]
Content == [id : Nat, path : Paths, at : Nat, version : Nat, text : Past, none : BOOLEAN]
Clean == [id : Nat, path : Paths, at : Nat, clean : BOOLEAN]
Message == [type : {"dirty"}, path : Paths, dirty : BOOLEAN]
           \cup [type : {"snapshot"}, path : Paths, text : Past]
           \cup [type : {"save"}, path : Paths]
Reasons(op) ==
    IF op = "content" THEN {"save", "close", "drain", "saveAll"}
    ELSE {"check", "close", "drain", "saveAll", "savedForClose", "savedForDrain"}
Questions ==
    {q \in [op : {"content", "clean"}, path : Paths, id : Nat,
            why : Reasons("content") \cup Reasons("clean"), tab : Paths, rest : Seq(Paths), since : Nat] :
        q.why \in Reasons(q.op)}

PaneType ==
    [tabs : Seq(Tab), unseen : SUBSET Paths, snapshots : [Paths -> Past],
     waiting : SUBSET Questions, ask : Card, quit : {"none", "waiting", "yes", "no"}, quitSince : Nat,
     life : {"loading", "up", "wedged", "crashed"}, needsModelRestore : BOOLEAN,
     toPage : Seq(Command), replies : Seq(Content \cup Clean), posts : Seq(Message)]
Model == [text : Past, version : Nat, saved : Nat, base : Past, first : Past, timer : BOOLEAN]
File == [text : Past, mine : BOOLEAN, past : SUBSET Past]
Counts == [edits : Nat, writes : Nat, faults : Nat, opens : Nat, requests : Nat]

TabsDiffer(s) == \A i, j \in DOMAIN s.tabs : s.tabs[i].path = s.tabs[j].path => i = j
Typed(s) ==
    /\ s \in PaneType /\ IsFiniteSet(s.waiting) /\ TabsDiffer(s)
    /\ s.unseen \subseteq {p \in Paths : IsOpen(s, p)}

FilesTyped ==
    /\ disk \in [Paths -> File]
    /\ \A p \in Paths : disk[p].text \in disk[p].past
CountsTyped == count \in Counts /\ count.edits <= MaxEdits /\ Troubles <= MaxTroubles

\* A model's version starts at 1, which is what openModel calls saved.
PageTyped ==
    /\ page \in [Paths -> Model]
    /\ \A p \in Paths : page[p] # NoModel =>
           1 <= page[p].version /\ 1 <= page[p].saved /\ page[p].saved <= page[p].version

-----------------------------------------------------------------------------
(* What the commands on their way make of the page.                            *)

Is(c, op, p) == c.op = op /\ c.path = p
NoClose(q, p, a, b) == \A j \in a..b : ~Is(q[j], "close", p)

\* The page has a model for p after the first n commands of q, given the one it has now.
Exists(q, p, m, n) ==
    \/ \E i \in 1..n : Is(q[i], "open", p) /\ NoClose(q, p, i + 1, n)
    \/ m # NoModel /\ NoClose(q, p, 1, n)

\* Command i of q puts text under the model of p, and no later one replaces it.
Sets(q, p, m, i) ==
    \/ Is(q[i], "open", p) /\ ~Exists(q, p, m, i - 1)
    \/ Is(q[i], "set", p) /\ Exists(q, p, m, i - 1)
KeepsBase(c, p) == \A op \in {"set", "mark", "close"} : ~Is(c, op, p)
Stays(q, p, a) == \A j \in a..Len(q) : KeepsBase(q[j], p)
BaseIs(q, p, m, text) ==
    \/ \E i \in 1..Len(q) : Sets(q, p, m, i) /\ q[i].text = text /\ Stays(q, p, i + 1)
    \/ m # NoModel /\ m.base = text /\ Stays(q, p, 1)

-----------------------------------------------------------------------------
(* The invariant.  It is stated of a record s, because a handler of the pane   *)
(* is a composition of functions from one such record to another, in a world w *)
(* that stays: the page, the files, the paths that were closed under a save,   *)
(* those that a save may be about, and those that need not be noticed.         *)

HasModel(s, w, p) == Exists(s.toPage, p, w.page[p], Len(s.toPage))
Down(s) == s.life \in {"loading", "crashed"}
Rebuilding(s) == s.life = "crashed" \/ (s.life = "loading" /\ s.needsModelRestore)

\* Without a page there are no models, no answers and no posts to come.
DownIsEmpty(s, w) ==
    /\ Down(s) => \A p \in Paths : w.page[p] = NoModel
    /\ s.life = "crashed" => s.toPage = <<>>
    /\ s.life = "loading" =>
           /\ s.replies = <<>> /\ s.posts = <<>>
           /\ \A i \in DOMAIN s.toPage : s.toPage[i].op \in {"open", "set", "close"}

\* A question is told by its id from the others about its file, and is answered in its kind.
Same(c, q) == c.id = q.id /\ c.path = q.path
IdsDiffer(s) ==
    /\ \A q, r \in s.waiting : Same(q, r) => q = r
    /\ \A i \in DOMAIN s.toPage : \A q \in s.waiting :
           Asks(s.toPage[i]) /\ Same(s.toPage[i], q) => s.toPage[i].op = q.op
    /\ \A i \in DOMAIN s.replies : \A q \in s.waiting :
           Answers(s.replies[i], q) => s.replies[i] \in IF q.op = "content" THEN Content ELSE Clean

Follows(s, w) ==
    \A p \in Paths : /\ HasModel(s, w, p) => IsOpen(s, p)
                     /\ IsOpen(s, p) /\ ~Rebuilding(s) => HasModel(s, w, p)

\* The texts that replace a buffer were in the file.
FromDisk(s, w) ==
    \A i \in DOMAIN s.toPage :
        s.toPage[i].op \in {"open", "set"} => s.toPage[i].text \in w.disk[s.toPage[i].path].past

\* Version v of model m, if it still is the version of the buffer, is one of the texts.
Wrote(m, v, texts) ==
    /\ m # NoModel /\ v <= m.version
    /\ v = m.version => m.text \in texts
MarksAreTrue(s, w) ==
    \A i \in DOMAIN s.toPage : s.toPage[i].op = "mark" /\ s.toPage[i].path \notin w.orphans =>
        /\ Wrote(w.page[s.toPage[i].path], s.toPage[i].version, w.disk[s.toPage[i].path].past)
        /\ NoClose(s.toPage, s.toPage[i].path, 1, i - 1)

\* A save that is under way reads, or has read, the buffer that its tab still has.
Trusted(s, w, q) == q.op = "content" /\ q.path \notin w.orphans /\ IsOpen(s, q.path)
WillRead(s, q) ==
    \A i \in DOMAIN s.toPage : Asks(s.toPage[i]) /\ Same(s.toPage[i], q) =>
        NoClose(s.toPage, q.path, i + 1, Len(s.toPage))
HasRead(s, w, q) ==
    s.life # "crashed" =>
        \A i \in DOMAIN s.replies : Answers(s.replies[i], q) /\ ~s.replies[i].none =>
            /\ Wrote(w.page[q.path], s.replies[i].version, {s.replies[i].text})
            /\ NoClose(s.toPage, q.path, 1, Len(s.toPage))
ReadsItsTab(s, w) == \A q \in s.waiting : Trusted(s, w, q) => WillRead(s, q) /\ HasRead(s, w, q)
SavesAreKnown(s, w) ==
    /\ \A q \in s.waiting : q.op = "content" => q.path \in w.known
    /\ \A p \in Paths : IsOpen(s, p) => p \in w.known

Linked(s, w) ==
    /\ Typed(s) /\ DownIsEmpty(s, w) /\ IdsDiffer(s) /\ Follows(s, w)
    /\ FromDisk(s, w) /\ MarksAreTrue(s, w) /\ ReadsItsTab(s, w) /\ SavesAreKnown(s, w)

\* A change of p on disk is noted, or the user or the page is asked about it, or the buffer
\* is based on it or is about to be.
Conflict(s, p) == s.ask.kind = "conflict" /\ s.ask.path = p
Checked(s, p) == \E q \in s.waiting : q.why = "check" /\ q.path = p
UpToDate(s, w, p) ==
    \/ Rebuilding(s) /\ ~HasModel(s, w, p)
    \/ BaseIs(s.toPage, p, w.page[p], w.disk[p].text)
Noticed(s, w, p) ==
    IsOpen(s, p) /\ p \notin s.unseen => Conflict(s, p) \/ Checked(s, p) \/ UpToDate(s, w, p)
AllNoticed(s, w) == \A p \in Paths \ w.excused : Noticed(s, w, p)

Excused(p) == disk[p].mine \/ p \in ghost.torn \/ disk[p].text = ghost.kept[p]
Known == {p \in Paths : IsOpen(pane, p)} \cup ghost.orphans
Now == [page |-> page, disk |-> disk, orphans |-> ghost.orphans, known |-> Known,
        excused |-> {p \in Paths : Excused(p)}]

SavedIsOnDisk ==
    \A p \in Paths \ ghost.orphans : page[p] # NoModel /\ ~Dirty(page[p]) => page[p].text \in disk[p].past

IInv ==
    /\ FilesTyped /\ CountsTyped /\ PageTyped /\ SavedIsOnDisk
    /\ Linked(pane, Now) /\ AllNoticed(pane, Now)

-----------------------------------------------------------------------------
(* Commands.                                                                   *)

\* What each kind of command carries.
LEMMA CommandFields ==
    ASSUME NEW c \in Command
    PROVE  /\ c.path \in Paths
           /\ c.op \in {"open", "restore", "set", "mark", "close", "content", "clean"}
           /\ c.op \in {"open", "restore", "set"} => c.text \in Past
           /\ c.op = "mark" => c.version \in Nat
           /\ Asks(c) => c.id \in Nat
BY DEF Command, Asks

\* The commands that the pane sends are commands.
LEMMA Commands ==
    ASSUME NEW p \in Paths
    PROVE  /\ \A text \in Past : [op |-> "open", path |-> p, text |-> text] \in Command
           /\ \A text \in Past : [op |-> "restore", path |-> p, text |-> text] \in Command
           /\ \A text \in Past, n \in Nat : [op |-> "set", path |-> p, text |-> text, upto |-> n] \in Command
           /\ \A n \in Nat : [op |-> "mark", path |-> p, version |-> n] \in Command
           /\ \A n \in Nat : [op |-> "close", path |-> p, upto |-> n] \in Command
           /\ \A op \in {"content", "clean"}, n \in Nat : [op |-> op, path |-> p, id |-> n] \in Command
BY DEF Command

\* A command is about one path and does one thing.
LEMMA OneKind ==
    ASSUME NEW c, NEW p, NEW op, Is(c, op, p)
    PROVE  \A x, y : Is(c, x, y) <=> x = op /\ y = p
BY DEF Is

-----------------------------------------------------------------------------
(* Queues of commands.                                                         *)

\* A command at the end decides what the page has in the end, and nothing before.
LEMMA ExistsAppend ==
    ASSUME NEW q \in Seq(Command), NEW c \in Command, NEW p, NEW m
    PROVE  /\ \A n \in 0..Len(q) : Exists(Append(q, c), p, m, n) <=> Exists(q, p, m, n)
           /\ Exists(Append(q, c), p, m, Len(q) + 1)
              <=> Is(c, "open", p) \/ (Exists(q, p, m, Len(q)) /\ ~Is(c, "close", p))
<1> DEFINE r == Append(q, c)
           l == Len(q) + 1
<1>1. l \in Nat /\ Len(q) \in Nat /\ r[l] = c /\ \A i \in 1..Len(q) : r[i] = q[i]
  OBVIOUS
<1> HIDE DEF r
<1>2. ASSUME NEW n \in 0..Len(q)
      PROVE  Exists(r, p, m, n) <=> Exists(q, p, m, n)
  <2>1. \A i \in 1..n : i \in 1..Len(q) /\ \A j \in (i + 1)..n : j \in 1..Len(q)
    BY <1>1
  <2> QED
    BY <1>1, <2>1 DEF Exists, NoClose
<1>3. \A i \in 1..Len(q) : NoClose(r, p, i + 1, l) <=> NoClose(q, p, i + 1, Len(q)) /\ ~Is(c, "close", p)
  <2> SUFFICES ASSUME NEW i \in 1..Len(q)
               PROVE  NoClose(r, p, i + 1, l) <=> NoClose(q, p, i + 1, Len(q)) /\ ~Is(c, "close", p)
    OBVIOUS
  <2>1. \A j : j \in (i + 1)..l <=> j \in (i + 1)..Len(q) \/ j = l
    BY <1>1
  <2>2. \A j \in (i + 1)..Len(q) : j \in 1..Len(q)
    BY <1>1
  <2> QED
    BY <1>1, <2>1, <2>2 DEF NoClose
<1>4. NoClose(r, p, 1, l) <=> NoClose(q, p, 1, Len(q)) /\ ~Is(c, "close", p)
  <2>1. \A j : j \in 1..l <=> j \in 1..Len(q) \/ j = l
    BY <1>1
  <2> QED
    BY <1>1, <2>1 DEF NoClose
<1>5. NoClose(r, p, l + 1, l)
  BY <1>1 DEF NoClose
<1>6. \A i : i \in 1..l <=> i \in 1..Len(q) \/ i = l
  BY <1>1
<1>7. Is(c, "open", p) => ~Is(c, "close", p)
  BY DEF Is
<1>8. Exists(r, p, m, l) <=> Is(c, "open", p) \/ (Exists(q, p, m, Len(q)) /\ ~Is(c, "close", p))
  <2>1. Exists(r, p, m, l) <=> \/ \E i \in 1..Len(q) : Is(r[i], "open", p) /\ NoClose(r, p, i + 1, l)
                               \/ Is(c, "open", p)
                               \/ m # NoModel /\ NoClose(r, p, 1, l)
    BY <1>1, <1>5, <1>6 DEF Exists
  <2>2. (\E i \in 1..Len(q) : Is(r[i], "open", p) /\ NoClose(r, p, i + 1, l))
        <=> (\E i \in 1..Len(q) : Is(q[i], "open", p) /\ NoClose(q, p, i + 1, Len(q))) /\ ~Is(c, "close", p)
    BY <1>1, <1>3
  <2> QED
    BY <2>1, <2>2, <1>4, <1>7 DEF Exists
<1> QED
  BY <1>2, <1>8 DEF r

\* The page runs the first command: the rest is to be read from the model it leaves.
LEMMA ExistsTail ==
    ASSUME NEW q \in Seq(Command), q # <<>>, NEW p, NEW m, NEW m2,
           m2 # NoModel <=> Is(q[1], "open", p) \/ (m # NoModel /\ ~Is(q[1], "close", p))
    PROVE  \A n \in 0..(Len(q) - 1) : Exists(Tail(q), p, m2, n) <=> Exists(q, p, m, n + 1)
<1> DEFINE r == Tail(q)
<1>1. Len(q) \in Nat /\ \A i \in 1..(Len(q) - 1) : r[i] = q[i + 1]
  OBVIOUS
<1> HIDE DEF r
<1> SUFFICES ASSUME NEW n \in 0..(Len(q) - 1)
             PROVE  Exists(r, p, m2, n) <=> Exists(q, p, m, n + 1)
  BY DEF r
<1>2. \A i \in 0..n : NoClose(r, p, i + 1, n) <=> NoClose(q, p, i + 2, n + 1)
  <2> SUFFICES ASSUME NEW i \in 0..n
               PROVE  NoClose(r, p, i + 1, n) <=> NoClose(q, p, i + 2, n + 1)
    OBVIOUS
  <2>1. \A j \in (i + 1)..n : j + 1 \in (i + 2)..(n + 1) /\ r[j] = q[j + 1]
    BY <1>1
  <2>2. \A j \in (i + 2)..(n + 1) : j - 1 \in (i + 1)..n /\ q[j] = r[j - 1]
    BY <1>1
  <2> QED
    BY <2>1, <2>2 DEF NoClose
<1>3. NoClose(q, p, 1, n + 1) <=> NoClose(q, p, 2, n + 1) /\ ~Is(q[1], "close", p)
  <2>1. \A j : j \in 1..(n + 1) <=> j \in 2..(n + 1) \/ j = 1
    BY <1>1
  <2> QED
    BY <2>1 DEF NoClose
<1>4. (\E i \in 1..(n + 1) : Is(q[i], "open", p) /\ NoClose(q, p, i + 1, n + 1))
      <=> \/ Is(q[1], "open", p) /\ NoClose(q, p, 2, n + 1)
          \/ \E i \in 1..n : Is(r[i], "open", p) /\ NoClose(r, p, i + 1, n)
  <2>1. \A i \in 1..n : i + 1 \in 1..(n + 1) /\ r[i] = q[i + 1] /\ (i + 1) + 1 = i + 2
    BY <1>1
  <2>2. \A i \in 1..(n + 1) : i = 1 \/ (i - 1 \in 1..n /\ r[i - 1] = q[i] /\ (i - 1) + 1 = i /\ (i - 1) + 2 = i + 1)
    BY <1>1
  <2>3. ASSUME NEW i \in 1..n, Is(r[i], "open", p), NoClose(r, p, i + 1, n)
        PROVE  i + 1 \in 1..(n + 1) /\ Is(q[i + 1], "open", p) /\ NoClose(q, p, (i + 1) + 1, n + 1)
    BY <1>2, <2>1, <2>3
  <2>4. ASSUME NEW i \in 1..(n + 1), Is(q[i], "open", p), NoClose(q, p, i + 1, n + 1), i # 1
        PROVE  i - 1 \in 1..n /\ Is(r[i - 1], "open", p) /\ NoClose(r, p, (i - 1) + 1, n)
    BY <1>2, <2>2, <2>4
  <2> QED
    BY <2>3, <2>4
<1>5. NoClose(r, p, 1, n) <=> NoClose(q, p, 2, n + 1)
  BY <1>2
<1> QED
  BY <1>3, <1>4, <1>5 DEF Exists

\* What a queue says of a shorter one.
LEMMA ExistsNone ==
    ASSUME NEW q, NEW p, NEW m
    PROVE  Exists(q, p, m, 0) <=> m # NoModel
BY DEF Exists, NoClose

\* A command that does not touch the text on which a model is based changes nothing.
LEMMA BaseAppend ==
    ASSUME NEW q \in Seq(Command), NEW c \in Command, NEW p, NEW m, NEW text,
           BaseIs(q, p, m, text), KeepsBase(c, p)
    PROVE  BaseIs(Append(q, c), p, m, text)
<1> DEFINE r == Append(q, c)
           l == Len(q) + 1
<1>1. l \in Nat /\ Len(q) \in Nat /\ Len(r) = l /\ r[l] = c /\ \A i \in 1..Len(q) : r[i] = q[i]
  OBVIOUS
<1>2. \A n \in 0..Len(q) : Exists(r, p, m, n) <=> Exists(q, p, m, n)
  BY ExistsAppend
<1> HIDE DEF r
<1>3. \A a \in 1..l : Stays(q, p, a) => Stays(r, p, a)
  <2> SUFFICES ASSUME NEW a \in 1..l, Stays(q, p, a), NEW j \in a..l
               PROVE  KeepsBase(r[j], p)
    BY <1>1 DEF Stays
  <2>1. j = l \/ (j \in a..Len(q) /\ j \in 1..Len(q))
    BY <1>1
  <2> QED
    BY <1>1, <2>1 DEF Stays
<1>4. \A i \in 1..Len(q) : i - 1 \in 0..Len(q) /\ i + 1 \in 1..l /\ i \in 1..l
  BY <1>1
<1>5. \A i \in 1..Len(q) : Sets(q, p, m, i) => Sets(r, p, m, i)
  BY <1>1, <1>2, <1>4 DEF Sets
<1>6. CASE \E i \in 1..Len(q) : Sets(q, p, m, i) /\ q[i].text = text /\ Stays(q, p, i + 1)
  <2>1. \E i \in 1..l : Sets(r, p, m, i) /\ r[i].text = text /\ Stays(r, p, i + 1)
    BY <1>1, <1>3, <1>4, <1>5, <1>6
  <2> QED
    BY <1>1, <2>1 DEF BaseIs, r
<1>7. CASE m # NoModel /\ m.base = text /\ Stays(q, p, 1)
  <2>1. Stays(r, p, 1)
    BY <1>1, <1>3, <1>7
  <2> QED
    BY <1>7, <2>1 DEF BaseIs, r
<1> QED
  BY <1>6, <1>7 DEF BaseIs

\* The last command that puts a text under the model decides.
LEMMA BaseNew ==
    ASSUME NEW q \in Seq(Command), NEW c \in Command, NEW p, NEW m,
           \/ Is(c, "open", p) /\ ~Exists(q, p, m, Len(q))
           \/ Is(c, "set", p) /\ Exists(q, p, m, Len(q))
    PROVE  BaseIs(Append(q, c), p, m, c.text)
<1> DEFINE r == Append(q, c)
           l == Len(q) + 1
<1>1. l \in Nat /\ Len(q) \in 0..Len(q) /\ Len(r) = l /\ r[l] = c /\ l - 1 = Len(q) /\ l \in 1..l
  OBVIOUS
<1>2. Exists(r, p, m, Len(q)) <=> Exists(q, p, m, Len(q))
  BY <1>1, ExistsAppend
<1> HIDE DEF r
<1>3. Sets(r, p, m, l)
  BY <1>1, <1>2 DEF Sets
<1>4. Stays(r, p, l + 1)
  BY <1>1 DEF Stays
<1>5. BaseIs(r, p, m, c.text)
  BY <1>1, <1>3, <1>4 DEF BaseIs
<1> QED
  BY <1>5 DEF r

\* The page runs the first command.
LEMMA BaseTail ==
    ASSUME NEW q \in Seq(Command), q # <<>>, NEW p, NEW m, NEW m2, NEW text,
           m2 # NoModel <=> Is(q[1], "open", p) \/ (m # NoModel /\ ~Is(q[1], "close", p)),
           Is(q[1], "open", p) /\ m = NoModel => m2.base = q[1].text,
           Is(q[1], "set", p) /\ m # NoModel => m2.base = q[1].text,
           KeepsBase(q[1], p) /\ m # NoModel => m2.base = m.base,
           BaseIs(q, p, m, text)
    PROVE  BaseIs(Tail(q), p, m2, text)
<1> DEFINE r == Tail(q)
<1>1. Len(q) \in Nat /\ Len(q) >= 1 /\ Len(r) = Len(q) - 1 /\ \A i \in 1..(Len(q) - 1) : r[i] = q[i + 1]
  OBVIOUS
<1>2. \A n \in 0..(Len(q) - 1) : Exists(r, p, m2, n) <=> Exists(q, p, m, n + 1)
  BY ExistsTail
<1> HIDE DEF r
<1>3. \A a \in 1..(Len(q) + 1) : Stays(q, p, a + 1) => Stays(r, p, a)
  <2> SUFFICES ASSUME NEW a \in 1..(Len(q) + 1), Stays(q, p, a + 1), NEW j \in a..(Len(q) - 1)
               PROVE  KeepsBase(r[j], p)
    BY <1>1 DEF Stays
  <2>1. j \in 1..(Len(q) - 1) /\ j + 1 \in (a + 1)..Len(q)
    BY <1>1
  <2> QED
    BY <1>1, <2>1 DEF Stays
<1>4. CASE \E i \in 1..Len(q) : Sets(q, p, m, i) /\ q[i].text = text /\ Stays(q, p, i + 1)
  <2> PICK i \in 1..Len(q) : Sets(q, p, m, i) /\ q[i].text = text /\ Stays(q, p, i + 1)
    BY <1>4
  <2>1. CASE i = 1
    <3>1. Exists(q, p, m, i - 1) <=> m # NoModel
      BY <2>1, ExistsNone
    <3>2. m2 # NoModel /\ m2.base = text
      BY <2>1, <3>1 DEF Sets, Is
    <3>3. Stays(r, p, 1)
      BY <1>1, <1>3, <2>1
    <3> QED
      BY <3>2, <3>3 DEF BaseIs, r
  <2>2. CASE i # 1
    <3> DEFINE k == i - 1
    <3>1. k \in 1..(Len(q) - 1) /\ k + 1 = i /\ k - 1 \in 0..(Len(q) - 1) /\ (k - 1) + 1 = i - 1
      BY <1>1, <2>2
    <3>2. r[k] = q[i]
      BY <1>1, <3>1
    <3>3. Exists(r, p, m2, k - 1) <=> Exists(q, p, m, i - 1)
      BY <1>2, <3>1
    <3>4. Sets(r, p, m2, k)
      BY <3>2, <3>3 DEF Sets
    <3>5. Stays(r, p, k + 1)
      <4>1. k + 1 \in 1..(Len(q) + 1) /\ (k + 1) + 1 = i + 1
        BY <1>1, <3>1
      <4> QED
        BY <1>3, <4>1
    <3> HIDE DEF k
    <3>6. BaseIs(r, p, m2, text)
      BY <1>1, <3>1, <3>2, <3>4, <3>5 DEF BaseIs
    <3> QED
      BY <3>6 DEF r
  <2> QED
    BY <2>1, <2>2
<1>5. CASE m # NoModel /\ m.base = text /\ Stays(q, p, 1)
  <2>1. KeepsBase(q[1], p)
    BY <1>1, <1>5 DEF Stays
  <2>2. m2 # NoModel /\ m2.base = text
    BY <1>5, <2>1 DEF KeepsBase
  <2>3. Stays(r, p, 1)
    <3>1. Stays(q, p, 2)
      BY <1>1, <1>5 DEF Stays
    <3> QED
      BY <1>1, <1>3, <3>1
  <2> QED
    BY <2>2, <2>3 DEF BaseIs, r
<1> QED
  BY <1>4, <1>5 DEF BaseIs

-----------------------------------------------------------------------------
(* Ids.                                                                        *)

\* The image of a finite set under a function is finite.
LEMMA FiniteImage ==
    ASSUME NEW S, IsFiniteSet(S), NEW f, DOMAIN f = S
    PROVE  IsFiniteSet({f[x] : x \in S})
<1> DEFINE T == {f[x] : x \in S}
           g == [x \in S |-> f[x]]
<1>1. g \in [S -> T] /\ \A y \in T : \E x \in S : g[x] = y
  OBVIOUS
<1>2. g \in Surjection(S, T)
  BY <1>1 DEF Surjection
<1> HIDE DEF g, T
<1>3. IsFiniteSet(T)
  BY <1>2, FS_Surjection
<1> QED
  BY <1>3 DEF T

\* The items of a queue are finitely many.
LEMMA FiniteQueue ==
    ASSUME NEW S, NEW q \in Seq(S), NEW I, I \subseteq DOMAIN q
    PROVE  IsFiniteSet(I)
<1>1. DOMAIN q = 1..Len(q) /\ Len(q) \in Nat
  OBVIOUS
<1>2. IsFiniteSet(1..Len(q))
  BY <1>1, FS_Interval
<1> QED
  BY <1>1, <1>2, FS_Subset

\* There is an id that no question, command or answer has.
LEMMA FreshIdIsNew ==
    ASSUME NEW s, s \in PaneType, IsFiniteSet(s.waiting)
    PROVE  FreshId(s) \in Nat /\ FreshId(s) \notin UsedIds(s)
<1> DEFINE W == s.waiting
           I == {j \in DOMAIN s.toPage : Asks(s.toPage[j])}
           R == DOMAIN s.replies
           fW == [q \in W |-> q.id]
           fI == [i \in I |-> s.toPage[i].id]
           fR == [i \in R |-> s.replies[i].id]
           A == {fW[q] : q \in W}
           B == {fI[i] : i \in I}
           C == {fR[i] : i \in R}
           U == UsedIds(s)
           c == Cardinality(U)
<1>1. s.toPage \in Seq(Command) /\ s.replies \in Seq(Content \cup Clean)
  BY DEF PaneType
<1>2. IsFiniteSet(I) /\ IsFiniteSet(R)
  BY <1>1, FiniteQueue
<1>3. IsFiniteSet(A)
  BY FiniteImage
<1>4. IsFiniteSet(B)
  BY <1>2, FiniteImage
<1>5. IsFiniteSet(C)
  BY <1>2, FiniteImage
<1>6. U = (A \cup B) \cup C
  BY DEF UsedIds
<1> HIDE DEF A, B, C, U
<1>7. IsFiniteSet(A \cup B)
  BY <1>3, <1>4, FS_Union
<1>8. IsFiniteSet(U)
  BY <1>5, <1>6, <1>7, FS_Union
<1>9. c \in Nat
  BY <1>8, FS_CardinalityType
<1> HIDE DEF c
<1>10. \E n \in 1..(c + 1) : n \notin U
  <2> SUFFICES ASSUME 1..(c + 1) \subseteq U
               PROVE  FALSE
    OBVIOUS
  <2>1. Cardinality(1..(c + 1)) <= Cardinality(U)
    BY <1>8, FS_Subset
  <2>2. Cardinality(1..(c + 1)) = c + 1
    BY <1>9, FS_Interval
  <2> QED
    BY <1>9, <2>1, <2>2 DEF c
<1>11. FreshId(s) = CHOOSE n \in 1..(c + 1) : n \notin U
  BY DEF FreshId, c, U
<1>12. FreshId(s) \in 1..(c + 1) /\ FreshId(s) \notin U
  BY <1>10, <1>11
<1> QED
  BY <1>9, <1>12 DEF U

-----------------------------------------------------------------------------
(* Tabs.                                                                       *)

\* The tab of an open path.
LEMMA TabOf ==
    ASSUME NEW s, s \in PaneType, NEW p, IsOpen(s, p)
    PROVE  /\ IndexOf(s, p) \in DOMAIN s.tabs /\ IndexOf(s, p) \in Nat
           /\ s.tabs[IndexOf(s, p)].path = p /\ p \in Paths
<1>1. s.tabs \in Seq(Tab)
  BY DEF PaneType
<1>2. \E i \in DOMAIN s.tabs : s.tabs[i].path = p
  BY DEF IsOpen
<1>3. IndexOf(s, p) \in DOMAIN s.tabs /\ s.tabs[IndexOf(s, p)].path = p
  BY <1>2 DEF IndexOf
<1>4. s.tabs[IndexOf(s, p)] \in Tab /\ IndexOf(s, p) \in Nat
  BY <1>1, <1>3
<1> QED
  BY <1>3, <1>4 DEF Tab

-----------------------------------------------------------------------------
(* Changes of a pane that do not concern its page.                             *)

Like(s, t) ==
    /\ t.toPage = s.toPage /\ t.waiting = s.waiting /\ t.replies = s.replies /\ t.posts = s.posts
    /\ t.life = s.life /\ t.needsModelRestore = s.needsModelRestore
    /\ \A p : IsOpen(t, p) <=> IsOpen(s, p)

\* A handler is deciding: nothing is unnoticed but what the card it started with is about.
Deciding(s, w) ==
    Linked(s, w) /\ AllNoticed(s, w) /\ \A p \in Paths : Conflict(s, p) => p \in w.excused

\* The invariant does not see them.
LEMMA LikeLinked ==
    ASSUME NEW s, NEW t, NEW w, Linked(s, w), Typed(t), Like(s, t)
    PROVE  Linked(t, w)
<1>1. DownIsEmpty(t, w)
  BY DEF Like, Linked, DownIsEmpty, Down
<1>2. IdsDiffer(t)
  BY DEF Like, Linked, IdsDiffer
<1>3. Follows(t, w)
  BY DEF Like, Linked, Follows, HasModel, Rebuilding
<1>4. FromDisk(t, w) /\ MarksAreTrue(t, w)
  BY DEF Like, Linked, FromDisk, MarksAreTrue
<1>5. ReadsItsTab(t, w)
  BY DEF Like, Linked, ReadsItsTab, Trusted, WillRead, HasRead
<1>6. SavesAreKnown(t, w)
  BY DEF Like, Linked, SavesAreKnown
<1> QED
  BY <1>1, <1>2, <1>3, <1>4, <1>5, <1>6 DEF Linked

\* What is noted as changed stays noted, and who is asked is still asked.
LEMMA LikeNoticed ==
    ASSUME NEW s, NEW t, NEW w, NEW p, Noticed(s, w, p), Like(s, t), p \in s.unseen => p \in t.unseen,
           Conflict(s, p) => Conflict(t, p)
    PROVE  Noticed(t, w, p)
BY DEF Like, Noticed, Checked, UpToDate, Rebuilding, HasModel

\* The handler may go on after such a change, and after one of its card.
LEMMA LikeDecides ==
    ASSUME NEW s, NEW t, NEW w, Deciding(s, w), Typed(t), Like(s, t), s.unseen \subseteq t.unseen
    PROVE  /\ Linked(t, w) /\ AllNoticed(t, w)
           /\ t.ask \in {s.ask, NoAsk} => Deciding(t, w)
<1>1. Linked(t, w)
  BY LikeLinked DEF Deciding
<1>2. AllNoticed(t, w)
  <2> SUFFICES ASSUME NEW p \in Paths \ w.excused
               PROVE  Noticed(t, w, p)
    BY DEF AllNoticed
  <2>1. Noticed(s, w, p) /\ ~Conflict(s, p)
    BY DEF Deciding, AllNoticed
  <2> QED
    BY <2>1, LikeNoticed
<1>3. ASSUME t.ask \in {s.ask, NoAsk}, NEW p \in Paths, Conflict(t, p)
      PROVE  p \in w.excused
  <2>1. ~Conflict(t, p) \/ t.ask = s.ask
    BY <1>3 DEF Conflict, NoAsk
  <2> QED
    BY <1>3, <2>1 DEF Deciding, Conflict
<1> QED
  BY <1>1, <1>2, <1>3 DEF Deciding

\* The flag of a tab.
LEMMA SetDirtyDecides ==
    ASSUME NEW s, NEW w, Deciding(s, w), NEW p, NEW dirty \in BOOLEAN
    PROVE  /\ Deciding(SetDirty(s, p, dirty), w) /\ Like(s, SetDirty(s, p, dirty))
           /\ SetDirty(s, p, dirty).ask = s.ask /\ SetDirty(s, p, dirty).snapshots = s.snapshots
           /\ SetDirty(s, p, dirty).unseen = s.unseen
<1> DEFINE t == SetDirty(s, p, dirty)
           i == IndexOf(s, p)
<1>0. Typed(s) /\ s \in PaneType /\ s.tabs \in Seq(Tab)
  BY DEF Deciding, Linked, Typed, PaneType
<1>1. CASE ~IsOpen(s, p)
  BY <1>1 DEF SetDirty, Like
<1>2. CASE IsOpen(s, p)
  <2>1. i \in DOMAIN s.tabs /\ i \in 1..Len(s.tabs)
    BY <1>0, <1>2, TabOf
  <2> DEFINE tab == [path |-> p, dirty |-> dirty, pinned |-> s.tabs[i].pinned \/ dirty]
             new == [s.tabs EXCEPT ![i] = tab]
  <2>3. tab \in Tab /\ s.tabs[i].path = tab.path
    BY <1>0, <1>2, <2>1, TabOf DEF Tab
  <2>4. t = [s EXCEPT !.tabs = new]
    BY <1>0, <1>2 DEF SetDirty, PaneType
  <2> HIDE DEF i, t, tab
  <2>5. new \in Seq(Tab) /\ DOMAIN new = DOMAIN s.tabs /\ \A j \in DOMAIN new : new[j].path = s.tabs[j].path
    BY <1>0, <2>1, <2>3
  <2> HIDE DEF new
  <2>6. t \in PaneType /\ t.tabs = new /\ t.unseen = s.unseen /\ t.ask = s.ask /\ t.waiting = s.waiting
        /\ t.snapshots = s.snapshots
    BY <1>0, <2>4, <2>5 DEF PaneType
  <2>7. \A x : IsOpen(t, x) <=> IsOpen(s, x)
    BY <2>5, <2>6 DEF IsOpen
  <2>8. Like(s, t)
    BY <1>0, <2>4, <2>7 DEF Like, PaneType
  <2>9. Typed(t)
    BY <1>0, <2>5, <2>6, <2>7 DEF Typed, TabsDiffer
  <2> QED
    BY <2>6, <2>8, <2>9, LikeDecides DEF t
<1> QED
  BY <1>1, <1>2

-----------------------------------------------------------------------------
(* A command is sent, perhaps with a question that waits for its answer.       *)

\* From s to t, command c is sent: a renderer that is dead swallows it, and the tabs follow it.
Sent(s, t, c) ==
    /\ c \in Command
    /\ t.toPage = IF s.life = "crashed" THEN s.toPage ELSE Append(s.toPage, c)
    /\ t.replies = s.replies /\ t.posts = s.posts
    /\ t.life = s.life /\ t.needsModelRestore = s.needsModelRestore
    /\ \A p : IsOpen(t, p) <=> Is(c, "open", p) \/ (IsOpen(s, p) /\ ~Is(c, "close", p))
    /\ s.waiting \subseteq t.waiting
    /\ \A q \in t.waiting \ s.waiting : c = Asking(q)
    /\ \A q, r \in t.waiting \ s.waiting : q = r

\* The command is one that may be sent.
Proper(s, w, c) ==
    /\ s.life = "loading" => c.op \in {"open", "set", "close"}
    /\ Asks(c) => c.id \notin UsedIds(s)
    /\ c.op \in {"open", "set"} => c.text \in w.disk[c.path].past
    /\ c.op = "mark" /\ c.path \notin w.orphans /\ s.life # "crashed" =>
           /\ Wrote(w.page[c.path], c.version, w.disk[c.path].past)
           /\ NoClose(s.toPage, c.path, 1, Len(s.toPage))
    /\ c.op = "open" => /\ c.path \in w.known
                        /\ \A q \in s.waiting : q.op = "content" /\ q.path = c.path => q.path \in w.orphans
    /\ c.op = "content" => IsOpen(s, c.path)

\* The ids in use are those of the questions, of the commands and of the answers.
LEMMA UsedIdsAre ==
    ASSUME NEW s, NEW n, n \notin UsedIds(s)
    PROVE  /\ \A q \in s.waiting : q.id # n
           /\ \A i \in DOMAIN s.toPage : Asks(s.toPage[i]) => s.toPage[i].id # n
           /\ \A i \in DOMAIN s.replies : s.replies[i].id # n
BY DEF UsedIds

\* What the page has in the end.
LEMMA SentModels ==
    ASSUME NEW s, NEW t, NEW w, NEW c, Linked(s, w), Sent(s, t, c), NEW p \in Paths
    PROVE  IF s.life = "crashed" THEN ~HasModel(s, w, p) /\ ~HasModel(t, w, p)
           ELSE HasModel(t, w, p) <=> Is(c, "open", p) \/ (HasModel(s, w, p) /\ ~Is(c, "close", p))
<1>1. s.toPage \in Seq(Command)
  BY DEF Linked, Typed, PaneType
<1>2. CASE s.life = "crashed"
  <2>1. s.toPage = <<>> /\ t.toPage = <<>> /\ w.page[p] = NoModel
    BY <1>2 DEF Linked, DownIsEmpty, Down, Sent
  <2> QED
    BY <1>2, <2>1, ExistsNone DEF HasModel
<1>3. CASE s.life # "crashed"
  <2>1. t.toPage = Append(s.toPage, c) /\ c \in Command
    BY <1>3 DEF Sent
  <2>2. Len(t.toPage) = Len(s.toPage) + 1
    BY <1>1, <2>1
  <2>3. Exists(t.toPage, p, w.page[p], Len(s.toPage) + 1)
        <=> Is(c, "open", p) \/ (Exists(s.toPage, p, w.page[p], Len(s.toPage)) /\ ~Is(c, "close", p))
    <3> DEFINE x == s.toPage
               m == w.page[p]
    <3>1. x \in Seq(Command)
      BY <1>1
    <3> HIDE DEF x, m
    <3>2. Exists(Append(x, c), p, m, Len(x) + 1) <=> Is(c, "open", p) \/ (Exists(x, p, m, Len(x)) /\ ~Is(c, "close", p))
      BY <2>1, <3>1, ExistsAppend
    <3> QED
      BY <2>1, <3>2 DEF x, m
  <2> QED
    BY <1>3, <2>2, <2>3 DEF HasModel
<1> QED
  BY <1>2, <1>3

\* The queue with a command at its end.
LEMMA SentQueue ==
    ASSUME NEW s, NEW t, NEW c, s.toPage \in Seq(Command), Sent(s, t, c), s.life # "crashed"
    PROVE  /\ Len(t.toPage) = Len(s.toPage) + 1 /\ t.toPage[Len(t.toPage)] = c
           /\ DOMAIN s.toPage = 1..Len(s.toPage) /\ DOMAIN t.toPage = 1..Len(t.toPage)
           /\ \A i \in DOMAIN s.toPage : t.toPage[i] = s.toPage[i]
           /\ \A i \in DOMAIN t.toPage : i = Len(t.toPage) \/ i \in DOMAIN s.toPage
           /\ Len(s.toPage) \in Nat
BY DEF Sent

\* Sending a proper command keeps the invariant.
LEMMA SentLinked ==
    ASSUME NEW s, NEW t, NEW w, NEW c, Linked(s, w), Typed(t), Sent(s, t, c), Proper(s, w, c)
    PROVE  Linked(t, w)
<1>0. s.toPage \in Seq(Command) /\ t.toPage \in Seq(Command) /\ t.waiting \subseteq Questions
      /\ s.waiting \subseteq Questions /\ c \in Command
  BY DEF Linked, Typed, PaneType, Sent
<1>1. DownIsEmpty(t, w)
  <2>1. s.life = "crashed" => t.toPage = <<>>
    BY DEF Linked, DownIsEmpty, Sent
  <2>2. s.life = "loading" => \A i \in DOMAIN t.toPage : t.toPage[i].op \in {"open", "set", "close"}
    BY <1>0, SentQueue DEF Linked, DownIsEmpty, Proper
  <2> QED
    BY <2>1, <2>2 DEF Linked, DownIsEmpty, Down, Sent
<1>2. IdsDiffer(t)
  <2> DEFINE New == t.waiting \ s.waiting
  <2>1. \A q \in New : Asks(c) /\ q.id = c.id /\ q.path = c.path /\ q.op = c.op
    BY <1>0 DEF Sent, Asking, Asks, Questions
  <2>2. Asks(c) => /\ \A q \in s.waiting : q.id # c.id
                   /\ \A i \in DOMAIN s.toPage : Asks(s.toPage[i]) => s.toPage[i].id # c.id
                   /\ \A i \in DOMAIN s.replies : s.replies[i].id # c.id
    BY UsedIdsAre DEF Proper
  <2>3. \A q, r \in t.waiting : Same(q, r) => q = r
    <3> SUFFICES ASSUME NEW q \in t.waiting, NEW r \in t.waiting, q.id = r.id, q.path = r.path
                 PROVE  q = r
      BY DEF Same
    <3>1. CASE q \in s.waiting /\ r \in s.waiting
      BY <3>1 DEF Linked, IdsDiffer, Same
    <3>2. CASE q \in New /\ r \in New
      BY <3>2 DEF Sent
    <3> QED
      BY <2>1, <2>2, <3>1, <3>2
  <2>4. \A i \in DOMAIN t.replies : \A q \in t.waiting :
            Answers(t.replies[i], q) => t.replies[i] \in IF q.op = "content" THEN Content ELSE Clean
    <3> SUFFICES ASSUME NEW i \in DOMAIN s.replies, NEW q \in t.waiting, Answers(s.replies[i], q)
                 PROVE  s.replies[i] \in IF q.op = "content" THEN Content ELSE Clean
      BY DEF Sent
    <3>1. q \in s.waiting
      BY <2>1, <2>2 DEF Answers
    <3> QED
      BY <3>1 DEF Linked, IdsDiffer
  <2>5. \A i \in DOMAIN t.toPage : \A q \in t.waiting :
            Asks(t.toPage[i]) /\ Same(t.toPage[i], q) => t.toPage[i].op = q.op
    <3> SUFFICES ASSUME NEW i \in DOMAIN t.toPage, NEW q \in t.waiting, Asks(t.toPage[i]),
                        t.toPage[i].id = q.id, t.toPage[i].path = q.path
                 PROVE  t.toPage[i].op = q.op
      BY DEF Same
    <3>1. CASE i \in DOMAIN s.toPage /\ t.toPage[i] = s.toPage[i]
      <4>1. q \in s.waiting
        BY <2>1, <2>2, <3>1
      <4> QED
        BY <3>1, <4>1 DEF Linked, IdsDiffer, Same
    <3>2. CASE t.toPage[i] = c
      BY <2>1, <2>2, <3>2
    <3>3. s.life = "crashed" => i \in DOMAIN s.toPage /\ t.toPage[i] = s.toPage[i]
      BY DEF Sent
    <3> QED
      BY <1>0, <3>1, <3>2, <3>3, SentQueue
  <2> QED
    BY <2>3, <2>4, <2>5 DEF IdsDiffer
<1>3. Follows(t, w)
  <2> SUFFICES ASSUME NEW p \in Paths
               PROVE  /\ HasModel(t, w, p) => IsOpen(t, p)
                      /\ IsOpen(t, p) /\ ~Rebuilding(t) => HasModel(t, w, p)
    BY DEF Follows
  <2>1. /\ HasModel(s, w, p) => IsOpen(s, p)
        /\ IsOpen(s, p) /\ ~Rebuilding(s) => HasModel(s, w, p)
    BY DEF Linked, Follows
  <2>2. IsOpen(t, p) <=> Is(c, "open", p) \/ (IsOpen(s, p) /\ ~Is(c, "close", p))
    BY DEF Sent
  <2>3. Rebuilding(s) <=> Rebuilding(t)
    BY DEF Rebuilding, Sent
  <2>4. s.life = "crashed" => Rebuilding(s)
    BY DEF Rebuilding
  <2> QED
    BY <2>1, <2>2, <2>3, <2>4, SentModels
<1>4. FromDisk(t, w)
  <2>1. CASE s.life = "crashed"
    BY <2>1 DEF Linked, FromDisk, Sent
  <2>2. CASE s.life # "crashed"
    <3> SUFFICES ASSUME NEW i \in DOMAIN t.toPage, t.toPage[i].op \in {"open", "set"}
                 PROVE  t.toPage[i].text \in w.disk[t.toPage[i].path].past
      BY DEF FromDisk
    <3>1. CASE i \in DOMAIN s.toPage
      BY <1>0, <2>2, <3>1, SentQueue DEF Linked, FromDisk
    <3>2. CASE i = Len(t.toPage)
      BY <1>0, <2>2, <3>2, SentQueue DEF Proper
    <3> QED
      BY <1>0, <2>2, <3>1, <3>2, SentQueue
  <2> QED
    BY <2>1, <2>2
<1>5. s.life # "crashed" =>
          /\ \A p, a, b : b \in 0..Len(s.toPage) /\ a \in Nat /\ a >= 1
                 => (NoClose(t.toPage, p, a, b) <=> NoClose(s.toPage, p, a, b))
          /\ \A p, a : ~Is(c, "close", p) /\ a \in Nat /\ a >= 1 /\ NoClose(s.toPage, p, a, Len(s.toPage))
                 => NoClose(t.toPage, p, a, Len(t.toPage))
  <2> SUFFICES ASSUME s.life # "crashed"
               PROVE  /\ \A p, a, b : b \in 0..Len(s.toPage) /\ a \in Nat /\ a >= 1
                             => (NoClose(t.toPage, p, a, b) <=> NoClose(s.toPage, p, a, b))
                      /\ \A p, a : ~Is(c, "close", p) /\ a \in Nat /\ a >= 1
                                   /\ NoClose(s.toPage, p, a, Len(s.toPage))
                             => NoClose(t.toPage, p, a, Len(t.toPage))
    OBVIOUS
  <2> DEFINE x == s.toPage
             y == t.toPage
  <2>1. /\ Len(y) = Len(x) + 1 /\ y[Len(y)] = c /\ Len(x) \in Nat
        /\ \A i \in 1..Len(x) : y[i] = x[i]
    BY <1>0, SentQueue
  <2> HIDE DEF x, y
  <2>2. ASSUME NEW p, NEW a \in Nat, NEW b \in 0..Len(x), a >= 1
        PROVE  NoClose(y, p, a, b) <=> NoClose(x, p, a, b)
    <3>1. \A j \in a..b : j \in 1..Len(x)
      BY <2>1, <2>2
    <3> QED
      BY <2>1, <3>1 DEF NoClose
  <2>3. ASSUME NEW p, NEW a \in Nat, a >= 1, ~Is(c, "close", p), NoClose(x, p, a, Len(x))
        PROVE  NoClose(y, p, a, Len(y))
    <3>1. \A j \in a..Len(y) : j = Len(y) \/ (j \in a..Len(x) /\ j \in 1..Len(x))
      BY <2>1, <2>3
    <3> QED
      BY <2>1, <2>3, <3>1 DEF NoClose
  <2> QED
    BY <2>2, <2>3 DEF x, y
<1>6. MarksAreTrue(t, w)
  <2>1. CASE s.life = "crashed"
    BY <2>1 DEF Linked, MarksAreTrue, Sent
  <2>2. CASE s.life # "crashed"
    <3> SUFFICES ASSUME NEW i \in DOMAIN t.toPage, t.toPage[i].op = "mark", t.toPage[i].path \notin w.orphans
                 PROVE  /\ Wrote(w.page[t.toPage[i].path], t.toPage[i].version, w.disk[t.toPage[i].path].past)
                        /\ NoClose(t.toPage, t.toPage[i].path, 1, i - 1)
      BY DEF MarksAreTrue
    <3>1. i \in 1..Len(t.toPage) /\ Len(t.toPage) = Len(s.toPage) + 1 /\ Len(s.toPage) \in Nat
      BY <1>0, <2>2, SentQueue
    <3>2. i - 1 \in 0..Len(s.toPage) /\ 1 \in Nat /\ 1 >= 1
      BY <3>1
    <3>3. NoClose(t.toPage, t.toPage[i].path, 1, i - 1) <=> NoClose(s.toPage, t.toPage[i].path, 1, i - 1)
      BY <1>5, <2>2, <3>2
    <3>4. CASE i \in DOMAIN s.toPage
      BY SMTT(30), <1>0, <2>2, <3>3, <3>4, SentQueue DEF Linked, MarksAreTrue
    <3>5. CASE i = Len(t.toPage)
      <4>1. t.toPage[i] = c /\ i - 1 = Len(s.toPage)
        BY <1>0, <2>2, <3>1, <3>5, SentQueue
      <4> QED
        BY <2>2, <3>3, <4>1 DEF Proper
    <3> QED
      BY <1>0, <2>2, <3>4, <3>5, SentQueue
  <2> QED
    BY <2>1, <2>2
<1>7. ReadsItsTab(t, w)
  <2> SUFFICES ASSUME NEW q \in t.waiting, Trusted(t, w, q)
               PROVE  WillRead(t, q) /\ HasRead(t, w, q)
    BY DEF ReadsItsTab
  <2>1. CASE q \in s.waiting
    <3>1. IsOpen(s, q.path) /\ ~Is(c, "close", q.path)
      <4>1. ~Is(c, "open", q.path)
        BY <2>1 DEF Trusted, Proper, Is
      <4> QED
        BY <4>1 DEF Trusted, Sent
    <3>2. Trusted(s, w, q)
      BY <3>1 DEF Trusted
    <3>3. WillRead(s, q) /\ HasRead(s, w, q)
      BY <2>1, <3>2 DEF Linked, ReadsItsTab
    <3>4. CASE s.life = "crashed"
      BY <3>3, <3>4 DEF WillRead, HasRead, Sent
    <3>5. CASE s.life # "crashed"
      <4>1. WillRead(t, q)
        <5> SUFFICES ASSUME NEW i \in DOMAIN t.toPage, Asks(t.toPage[i]), Same(t.toPage[i], q)
                     PROVE  NoClose(t.toPage, q.path, i + 1, Len(t.toPage))
          BY DEF WillRead
        <5>1. i \in Nat /\ i + 1 \in Nat /\ i + 1 >= 1 /\ Len(t.toPage) \in Nat
          BY <1>0
        <5>2. CASE i \in DOMAIN s.toPage
          BY <1>0, <1>5, <3>1, <3>3, <3>5, <5>1, <5>2, SentQueue DEF WillRead
        <5>3. CASE i = Len(t.toPage)
          BY <5>1, <5>3 DEF NoClose
        <5> QED
          BY <1>0, <3>5, <5>2, <5>3, SentQueue
      <4>2. HasRead(t, w, q)
        <5> SUFFICES ASSUME NEW i \in DOMAIN s.replies, Answers(s.replies[i], q), ~s.replies[i].none
                     PROVE  /\ Wrote(w.page[q.path], s.replies[i].version, {s.replies[i].text})
                            /\ NoClose(t.toPage, q.path, 1, Len(t.toPage))
          BY DEF HasRead, Sent
        <5>1. /\ Wrote(w.page[q.path], s.replies[i].version, {s.replies[i].text})
              /\ NoClose(s.toPage, q.path, 1, Len(s.toPage))
          BY <3>3, <3>5 DEF HasRead
        <5>2. NoClose(t.toPage, q.path, 1, Len(t.toPage))
          BY <1>5, <3>1, <3>5, <5>1
        <5> QED
          BY <5>1, <5>2
      <4> QED
        BY <4>1, <4>2
    <3> QED
      BY <3>4, <3>5
  <2>2. CASE q \notin s.waiting
    <3>1. Asks(c) /\ q.id = c.id /\ q.path = c.path
      BY <1>0, <2>2 DEF Sent, Asking, Asks, Questions
    <3>2. /\ \A i \in DOMAIN s.toPage : Asks(s.toPage[i]) => s.toPage[i].id # q.id
          /\ \A i \in DOMAIN s.replies : s.replies[i].id # q.id
      BY <3>1, UsedIdsAre DEF Proper
    <3>3. HasRead(t, w, q)
      BY <3>2 DEF HasRead, Answers, Sent
    <3>4. CASE s.life = "crashed"
      BY <3>2, <3>3, <3>4 DEF WillRead, Same, Sent
    <3>5. CASE s.life # "crashed"
      <4>1. \A i \in DOMAIN t.toPage : Asks(t.toPage[i]) /\ Same(t.toPage[i], q) => i = Len(t.toPage)
        BY <1>0, <3>2, <3>5, SentQueue DEF Same
      <4>2. NoClose(t.toPage, q.path, Len(t.toPage) + 1, Len(t.toPage))
        BY <1>0, <3>5, SentQueue DEF NoClose
      <4> QED
        BY <3>3, <4>1, <4>2 DEF WillRead
    <3> QED
      BY <3>4, <3>5
  <2> QED
    BY <2>1, <2>2
<1>8. SavesAreKnown(t, w)
  <2>1. \A p \in Paths : IsOpen(t, p) => p \in w.known
    BY DEF Linked, SavesAreKnown, Sent, Proper, Is
  <2>2. \A q \in t.waiting : q.op = "content" => q.path \in w.known
    <3> SUFFICES ASSUME NEW q \in t.waiting, q.op = "content"
                 PROVE  q.path \in w.known
      OBVIOUS
    <3>1. CASE q \in s.waiting
      BY <3>1 DEF Linked, SavesAreKnown
    <3>2. CASE q \notin s.waiting
      <4>1. c.op = "content" /\ c.path = q.path /\ q.path \in Paths
        BY <1>0, <3>2 DEF Sent, Asking, Questions
      <4> QED
        BY <4>1 DEF Linked, SavesAreKnown, Proper
    <3> QED
      BY <3>1, <3>2
  <2> QED
    BY <2>1, <2>2 DEF SavesAreKnown
<1> QED
  BY <1>1, <1>2, <1>3, <1>4, <1>6, <1>7, <1>8 DEF Linked

\* A change on disk stays noticed when a command is sent that leaves the text alone.
LEMMA SentNoticed ==
    ASSUME NEW s, NEW t, NEW w, NEW c, Linked(s, w), Sent(s, t, c), NEW p \in Paths,
           Noticed(s, w, p), p \in s.unseen => p \in t.unseen, Conflict(s, p) => Conflict(t, p),
           \A op \in {"open", "set", "mark"} : ~Is(c, op, p)
    PROVE  Noticed(t, w, p)
<1>1. s.toPage \in Seq(Command) /\ c \in Command
  BY DEF Linked, Typed, PaneType, Sent
<1> SUFFICES ASSUME IsOpen(t, p), p \notin t.unseen
             PROVE  Conflict(t, p) \/ Checked(t, p) \/ UpToDate(t, w, p)
  BY DEF Noticed
<1>2. ~Is(c, "close", p) /\ IsOpen(s, p) /\ KeepsBase(c, p)
  BY DEF Sent, KeepsBase
<1>3. Conflict(s, p) \/ Checked(s, p) \/ UpToDate(s, w, p)
  BY <1>2 DEF Noticed
<1>4. CASE Checked(s, p)
  BY <1>4 DEF Checked, Sent
<1>5. CASE Rebuilding(s) /\ ~HasModel(s, w, p)
  <2>1. ~HasModel(t, w, p)
    BY <1>5, SentModels
  <2> QED
    BY <1>5, <2>1 DEF UpToDate, Rebuilding, Sent
<1>6. CASE BaseIs(s.toPage, p, w.page[p], w.disk[p].text)
  <2> DEFINE x == s.toPage
             m == w.page[p]
             text == w.disk[p].text
  <2>1. x \in Seq(Command) /\ BaseIs(x, p, m, text)
    BY <1>1, <1>6
  <2>2. t.toPage = x \/ t.toPage = Append(x, c)
    BY DEF Sent
  <2> HIDE DEF x, m, text
  <2>3. BaseIs(Append(x, c), p, m, text)
    BY <1>1, <1>2, <2>1, BaseAppend
  <2>4. BaseIs(t.toPage, p, m, text)
    BY <2>1, <2>2, <2>3
  <2> QED
    BY <2>4 DEF UpToDate, m, text
<1> QED
  BY <1>3, <1>4, <1>5, <1>6 DEF UpToDate

\* A buffer that is opened or set is based on the text that it gets.
LEMMA SentUpToDate ==
    ASSUME NEW s, NEW t, NEW w, NEW c, Linked(s, w), Sent(s, t, c), NEW p \in Paths, IsOpen(t, p),
           Is(c, "set", p) \/ (Is(c, "open", p) /\ ~IsOpen(s, p)), c.text = w.disk[p].text
    PROVE  UpToDate(t, w, p)
<1>1. s.toPage \in Seq(Command) /\ c \in Command
  BY DEF Linked, Typed, PaneType, Sent
<1>2. Rebuilding(t) <=> Rebuilding(s)
  BY DEF Rebuilding, Sent
<1>3. HasModel(s, w, p) => IsOpen(s, p)
  BY DEF Linked, Follows
<1>4. CASE s.life = "crashed"
  <2>1. ~HasModel(t, w, p)
    BY <1>4, SentModels
  <2> QED
    BY <1>2, <1>4, <2>1 DEF UpToDate, Rebuilding
<1>5. CASE s.life # "crashed" /\ Is(c, "set", p) /\ ~HasModel(s, w, p)
  <2>1. IsOpen(s, p)
    BY <1>5 DEF Sent, Is
  <2>2. Rebuilding(t)
    BY <1>2, <1>5, <2>1 DEF Linked, Follows
  <2>3. ~HasModel(t, w, p)
    BY <1>5, SentModels DEF Is
  <2> QED
    BY <2>2, <2>3 DEF UpToDate
<1>6. CASE s.life # "crashed" /\ (Is(c, "set", p) => HasModel(s, w, p))
  <2> DEFINE x == s.toPage
             m == w.page[p]
  <2>1. x \in Seq(Command) /\ t.toPage = Append(x, c)
    BY <1>1, <1>6 DEF Sent
  <2>2. \/ Is(c, "open", p) /\ ~Exists(x, p, m, Len(x))
        \/ Is(c, "set", p) /\ Exists(x, p, m, Len(x))
    BY <1>3, <1>6 DEF HasModel
  <2> HIDE DEF x, m
  <2>3. BaseIs(Append(x, c), p, m, c.text)
    BY <1>1, <2>1, <2>2, BaseNew
  <2>4. BaseIs(t.toPage, p, m, w.disk[p].text)
    BY <2>1, <2>3
  <2> QED
    BY <2>4 DEF UpToDate, m
<1> QED
  BY <1>4, <1>5, <1>6

\* A handler that sends a proper command may go on after it.
LEMMA SentDecides ==
    ASSUME NEW s, NEW t, NEW w, NEW c, Deciding(s, w), Typed(t), Sent(s, t, c), Proper(s, w, c),
           \A p \in s.unseen : IsOpen(t, p) => p \in t.unseen,
           c.op \in {"open", "set"} => c.text = w.disk[c.path].text,
           c.op = "open" => ~IsOpen(s, c.path),
           c.op = "mark" => c.path \in w.excused
    PROVE  /\ Linked(t, w) /\ AllNoticed(t, w)
           /\ t.ask \in {s.ask, NoAsk} => Deciding(t, w)
<1>1. Linked(t, w)
  BY SentLinked DEF Deciding
<1>2. AllNoticed(t, w)
  <2> SUFFICES ASSUME NEW p \in Paths \ w.excused, IsOpen(t, p)
               PROVE  Noticed(t, w, p)
    BY DEF AllNoticed, Noticed
  <2>1. Noticed(s, w, p) /\ ~Conflict(s, p) /\ Linked(s, w)
    BY DEF Deciding, AllNoticed
  <2>2. CASE Is(c, "set", p) \/ Is(c, "open", p)
    <3>1. UpToDate(t, w, p)
      BY <2>1, <2>2, SentUpToDate DEF Is
    <3> QED
      BY <3>1 DEF Noticed
  <2>3. CASE ~Is(c, "set", p) /\ ~Is(c, "open", p)
    <3>1. ~Is(c, "mark", p)
      BY DEF Is
    <3> QED
      BY <2>1, <2>3, <3>1, SentNoticed
  <2> QED
    BY <2>2, <2>3
<1>3. ASSUME t.ask \in {s.ask, NoAsk}, NEW p \in Paths, Conflict(t, p)
      PROVE  p \in w.excused
  <2>1. ~Conflict(t, p) \/ t.ask = s.ask
    BY <1>3 DEF Conflict, NoAsk
  <2> QED
    BY <1>3, <2>1 DEF Deciding, Conflict
<1> QED
  BY <1>1, <1>2, <1>3 DEF Deciding

-----------------------------------------------------------------------------
(* What the handlers of the pane are made of.                                  *)

Fine(t, w) == Linked(t, w) /\ AllNoticed(t, w)
SameCard(s, t) == t.ask = s.ask /\ t.life = s.life /\ t.unseen = s.unseen

\* The card and the answer to who closes the pane do not concern the page.
LEMMA CardDecides ==
    ASSUME NEW s, NEW t, NEW w, Deciding(s, w), t \in PaneType, t.tabs = s.tabs, t.unseen = s.unseen,
           t.toPage = s.toPage, t.waiting = s.waiting, t.replies = s.replies, t.posts = s.posts,
           t.life = s.life, t.needsModelRestore = s.needsModelRestore
    PROVE  Fine(t, w) /\ (t.ask \in {s.ask, NoAsk} => Deciding(t, w))
<1>1. \A p : IsOpen(t, p) <=> IsOpen(s, p)
  BY DEF IsOpen
<1>2. Typed(t)
  BY <1>1 DEF Deciding, Linked, Typed, TabsDiffer
<1>3. Like(s, t)
  BY <1>1 DEF Like
<1> QED
  BY <1>2, <1>3, LikeDecides DEF Fine

\* The card goes, and who closes the pane is told.
LEMMA CancelAskDecides ==
    ASSUME NEW s, NEW w, Deciding(s, w)
    PROVE  /\ Deciding(CancelAsk(s), w) /\ CancelAsk(s) \in PaneType
           /\ CancelAsk(s).life = s.life /\ CancelAsk(s).unseen = s.unseen /\ CancelAsk(s).tabs = s.tabs
<1> DEFINE quit == IF s.ask.kind = "drain" THEN "no" ELSE s.quit
           t == CancelAsk(s)
<1>1. s \in PaneType
  BY DEF Deciding, Linked, Typed
<1>2. quit \in {"none", "waiting", "yes", "no"} /\ NoAsk \in Card
  BY <1>1 DEF PaneType, Card
<1>3. t = [s EXCEPT !.ask = NoAsk, !.quit = quit]
  BY <1>1 DEF CancelAsk, PaneType
<1> HIDE DEF quit, t
<1>4. t \in PaneType
  BY <1>1, <1>2, <1>3 DEF PaneType
<1>5. /\ t.tabs = s.tabs /\ t.unseen = s.unseen /\ t.toPage = s.toPage /\ t.waiting = s.waiting
      /\ t.replies = s.replies /\ t.posts = s.posts /\ t.life = s.life
      /\ t.needsModelRestore = s.needsModelRestore /\ t.ask = NoAsk
  BY <1>1, <1>3 DEF PaneType
<1>6. Deciding(t, w)
  BY <1>4, <1>5, CardDecides
<1> QED
  BY <1>4, <1>5, <1>6 DEF t

\* A card is presented.
LEMMA PresentIsFine ==
    ASSUME NEW s, NEW w, Deciding(s, w), NEW kind \in {"close", "drain", "conflict"}, NEW p \in Paths
    PROVE  /\ Fine(Present(s, kind, p), w) /\ Present(s, kind, p).unseen = s.unseen
           /\ Present(s, kind, p).ask.kind = kind /\ Present(s, kind, p).ask.path = p
<1> DEFINE r == CancelAsk(s)
           card == [kind |-> kind, path |-> p, index |-> IF IsOpen(s, p) THEN IndexOf(s, p) ELSE 0]
           t == Present(s, kind, p)
<1>1. s \in PaneType
  BY DEF Deciding, Linked, Typed
<1>2. Deciding(r, w) /\ r \in PaneType /\ r.unseen = s.unseen
  BY CancelAskDecides
<1>3. card \in Card /\ card.kind = kind /\ card.path = p
  BY <1>1, TabOf DEF Card
<1>4. t = [r EXCEPT !.ask = card]
  BY DEF Present
<1> HIDE DEF r, card, t
<1>6. t \in PaneType
  BY <1>2, <1>3, <1>4 DEF PaneType
<1>7. /\ t.tabs = r.tabs /\ t.unseen = r.unseen /\ t.toPage = r.toPage /\ t.waiting = r.waiting
      /\ t.replies = r.replies /\ t.posts = r.posts /\ t.life = r.life
      /\ t.needsModelRestore = r.needsModelRestore /\ t.ask = card
  BY <1>2, <1>4 DEF PaneType
<1>8. Fine(t, w)
  BY <1>2, <1>6, <1>7, CardDecides
<1> QED
  BY <1>2, <1>3, <1>7, <1>8 DEF t

\* Who closes the pane is told.
LEMMA QuitDecides ==
    ASSUME NEW s, NEW t, NEW w, Deciding(s, w), NEW quit \in {"none", "waiting", "yes", "no"}, NEW n \in Nat,
           t = [s EXCEPT !.quit = quit] \/ t = [s EXCEPT !.quitSince = n]
    PROVE  Deciding(t, w) /\ SameCard(s, t) /\ t.tabs = s.tabs
<1>1. s \in PaneType
  BY DEF Deciding, Linked, Typed
<1>2. t \in PaneType
  BY SMTT(30), <1>1 DEF PaneType
<1>3. /\ t.tabs = s.tabs /\ t.unseen = s.unseen /\ t.toPage = s.toPage /\ t.waiting = s.waiting
      /\ t.replies = s.replies /\ t.posts = s.posts /\ t.life = s.life
      /\ t.needsModelRestore = s.needsModelRestore /\ t.ask = s.ask
  BY <1>1 DEF PaneType
<1> QED
  BY <1>2, <1>3, CardDecides DEF SameCard

\* A command alone.
LEMMA SendIsSent ==
    ASSUME NEW s, s \in PaneType, NEW c \in Command
    PROVE  /\ Send(s, c) \in PaneType
           /\ Send(s, c).toPage = IF s.life = "crashed" THEN s.toPage ELSE Append(s.toPage, c)
           /\ Send(s, c).tabs = s.tabs /\ Send(s, c).unseen = s.unseen /\ Send(s, c).snapshots = s.snapshots
           /\ Send(s, c).waiting = s.waiting /\ Send(s, c).ask = s.ask /\ Send(s, c).life = s.life
           /\ Send(s, c).replies = s.replies /\ Send(s, c).posts = s.posts
           /\ Send(s, c).needsModelRestore = s.needsModelRestore
<1>1. CASE s.life = "crashed"
  BY <1>1 DEF Send
<1>2. CASE s.life # "crashed"
  <2> DEFINE queue == Append(s.toPage, c)
             t == Send(s, c)
  <2>1. queue \in Seq(Command)
    BY DEF PaneType
  <2>2. t = [s EXCEPT !.toPage = queue]
    BY <1>2 DEF Send, PaneType
  <2> HIDE DEF queue, t
  <2>3. t \in PaneType /\ t.toPage = queue
    BY <2>1, <2>2 DEF PaneType
  <2>4. /\ t.tabs = s.tabs /\ t.unseen = s.unseen /\ t.snapshots = s.snapshots
        /\ t.waiting = s.waiting /\ t.ask = s.ask /\ t.life = s.life
        /\ t.replies = s.replies /\ t.posts = s.posts /\ t.needsModelRestore = s.needsModelRestore
    BY <2>2 DEF PaneType
  <2> QED
    BY <1>2, <2>3, <2>4 DEF t, queue
<1> QED
  BY <1>1, <1>2

\* A question is asked.
LEMMA AskDecides ==
    ASSUME NEW s, NEW w, Deciding(s, w), s.life # "loading", NEW op \in {"content", "clean"}, NEW p \in Paths,
           NEW why \in Reasons(op), NEW tab \in Paths, NEW rest \in Seq(Paths), NEW since \in Nat,
           op = "content" => IsOpen(s, p)
    PROVE  /\ Deciding(Ask(s, op, p, why, tab, rest, since), w)
           /\ SameCard(s, Ask(s, op, p, why, tab, rest, since))
<1> DEFINE id == FreshId(s)
           c == [op |-> op, path |-> p, id |-> id]
           q == Question(op, p, id, why, tab, rest, since)
           r == Send(s, c)
           t == Ask(s, op, p, why, tab, rest, since)
<1>1. s \in PaneType /\ Typed(s) /\ IsFiniteSet(s.waiting) /\ s.waiting \subseteq Questions
  BY DEF Deciding, Linked, Typed, PaneType
<1>2. id \in Nat /\ id \notin UsedIds(s)
  BY <1>1, FreshIdIsNew
<1>3. c \in Command /\ c.op = op /\ c.path = p /\ c.id = id
  BY <1>2, Commands
<1>4. q \in Questions
  BY <1>2 DEF Question, Questions, Reasons
<1>5. Asking(q) = c
  BY DEF Asking, Question
<1>6. r \in PaneType /\ r.waiting = s.waiting
  BY <1>1, <1>3, SendIsSent
<1>7. t = [r EXCEPT !.waiting = s.waiting \cup {q}]
  BY <1>6 DEF Ask
<1>8. /\ r.toPage = IF s.life = "crashed" THEN s.toPage ELSE Append(s.toPage, c)
      /\ r.tabs = s.tabs /\ r.unseen = s.unseen /\ r.ask = s.ask /\ r.life = s.life
      /\ r.replies = s.replies /\ r.posts = s.posts /\ r.needsModelRestore = s.needsModelRestore
  BY <1>1, <1>3, SendIsSent
<1> HIDE DEF r, t, q, c, id
<1>9. t \in PaneType /\ t.waiting = s.waiting \cup {q}
  BY <1>1, <1>4, <1>6, <1>7 DEF PaneType
<1>10. /\ t.toPage = r.toPage /\ t.tabs = r.tabs /\ t.unseen = r.unseen /\ t.ask = r.ask /\ t.life = r.life
       /\ t.replies = r.replies /\ t.posts = r.posts /\ t.needsModelRestore = r.needsModelRestore
  BY <1>6, <1>7 DEF PaneType
<1>11. \A x : IsOpen(t, x) <=> IsOpen(s, x)
  BY <1>8, <1>10 DEF IsOpen
<1>12. IsFiniteSet(t.waiting)
  BY <1>1, <1>9, FS_AddElement
<1>13. Typed(t)
  BY <1>1, <1>8, <1>9, <1>10, <1>11, <1>12 DEF Typed, TabsDiffer
<1>14. Sent(s, t, c)
  <2>1. \A x : ~Is(c, "open", x) /\ ~Is(c, "close", x)
    BY <1>3 DEF Is
  <2> QED
    BY <1>3, <1>5, <1>8, <1>9, <1>10, <1>11, <2>1 DEF Sent
<1>15. Proper(s, w, c)
  BY <1>2, <1>3 DEF Proper, Asks
<1>16. SameCard(s, t)
  BY <1>8, <1>10 DEF SameCard
<1>17. Deciding(t, w)
  BY <1>3, <1>13, <1>14, <1>15, <1>16, SentDecides DEF SameCard
<1> QED
  BY <1>16, <1>17 DEF t

\* A tab less.
LEMMA TabRemoved ==
    ASSUME NEW s, s \in PaneType, TabsDiffer(s), NEW i \in DOMAIN s.tabs
    PROVE  LET new == RemoveAt(s.tabs, i)
           IN /\ new \in Seq(Tab)
              /\ \A j, k \in DOMAIN new : new[j].path = new[k].path => j = k
              /\ \A x : (\E j \in DOMAIN new : new[j].path = x)
                        <=> (\E j \in DOMAIN s.tabs : s.tabs[j].path = x) /\ x # s.tabs[i].path
              /\ \A k \in DOMAIN s.tabs : k # i => \E j \in DOMAIN new : new[j] = s.tabs[k]
<1> DEFINE old == s.tabs
           new == RemoveAt(old, i)
           l == Len(old)
<1>1. old \in Seq(Tab) /\ l \in Nat /\ DOMAIN old = 1..l /\ i \in 1..l
  BY DEF PaneType
<1>2. \A j, k \in 1..l : old[j].path = old[k].path => j = k
  BY <1>1 DEF TabsDiffer
<1> HIDE DEF old
<1> DEFINE before == SubSeq(old, 1, i - 1)
           after == SubSeq(old, i + 1, l)
<1>3. before \in Seq(Tab) /\ after \in Seq(Tab)
  BY <1>1
<1>4. Len(before) = i - 1 /\ Len(after) = l - i
  BY <1>1
<1>5. /\ \A j \in 1..(i - 1) : before[j] = old[j]
      /\ \A j \in 1..(l - i) : after[j] = old[i + j]
  BY <1>1
<1>6. new = before \o after
  BY DEF RemoveAt, l
<1> HIDE DEF before, after
<1> HIDE DEF new, l
<1>7. new \in Seq(Tab) /\ Len(new) = l - 1 /\ DOMAIN new = 1..(l - 1)
  <2>1. new \in Seq(Tab)
    BY <1>3, <1>6
  <2>2. Len(new) = Len(before) + Len(after)
    BY <1>3, <1>6
  <2>3. Len(new) = l - 1
    BY <1>1, <1>4, <2>2
  <2> QED
    BY <2>1, <2>3
<1>8. \A j \in 1..(l - 1) : new[j] = IF j < i THEN old[j] ELSE old[j + 1]
  <2> SUFFICES ASSUME NEW j \in 1..(l - 1)
               PROVE  new[j] = IF j < i THEN old[j] ELSE old[j + 1]
    OBVIOUS
  <2>1. new[j] = IF j <= i - 1 THEN before[j] ELSE after[j - (i - 1)]
    BY SMTT(30), <1>1, <1>3, <1>4, <1>6
  <2>2. CASE j < i
    BY <1>1, <1>5, <2>1, <2>2
  <2>3. CASE ~(j < i)
    <3> DEFINE k == j - (i - 1)
    <3>1. k \in 1..(l - i) /\ i + k = j + 1 /\ ~(j <= i - 1)
      BY <1>1, <2>3
    <3>2. new[j] = after[k]
      BY <2>1, <3>1
    <3> HIDE DEF k
    <3>3. after[k] = old[i + k]
      BY <1>5, <3>1
    <3> QED
      BY <2>3, <3>1, <3>2, <3>3
  <2> QED
    BY <2>2, <2>3
<1>9. \A j, k \in DOMAIN new : new[j].path = new[k].path => j = k
  <2> SUFFICES ASSUME NEW j \in 1..(l - 1), NEW k \in 1..(l - 1), new[j].path = new[k].path
               PROVE  j = k
    BY <1>7
  <2> DEFINE a == IF j < i THEN j ELSE j + 1
             b == IF k < i THEN k ELSE k + 1
  <2>1. a \in 1..l /\ b \in 1..l /\ old[a].path = old[b].path
    BY <1>1, <1>8
  <2>2. a = b
    BY <1>2, <2>1
  <2> QED
    BY <1>1, <2>2
<1>10. ASSUME NEW x
       PROVE  (\E j \in DOMAIN new : new[j].path = x) <=> (\E j \in 1..l : old[j].path = x) /\ x # old[i].path
  <2>1. ASSUME NEW j \in 1..(l - 1), new[j].path = x
        PROVE  (\E k \in 1..l : old[k].path = x) /\ x # old[i].path
    <3> DEFINE a == IF j < i THEN j ELSE j + 1
    <3>1. a \in 1..l /\ a # i /\ old[a].path = x
      BY <1>1, <1>8, <2>1
    <3> QED
      BY <1>1, <1>2, <3>1
  <2>2. ASSUME NEW j \in 1..l, old[j].path = x, x # old[i].path
        PROVE  \E k \in 1..(l - 1) : new[k].path = x
    <3> DEFINE a == IF j < i THEN j ELSE j - 1
    <3>1. a \in 1..(l - 1) /\ new[a].path = x
      BY <1>1, <1>8, <2>2
    <3> QED
      BY <3>1
  <2> QED
    BY <1>7, <2>1, <2>2
<1>11. ASSUME NEW k \in 1..l, k # i
       PROVE  \E j \in DOMAIN new : new[j] = old[k]
  <2> DEFINE j == IF k < i THEN k ELSE k - 1
  <2>1. j \in 1..(l - 1) /\ new[j] = old[k]
    BY <1>1, <1>8, <1>11
  <2> QED
    BY <1>7, <2>1
<1> QED
  BY <1>1, <1>7, <1>9, <1>10, <1>11 DEF old, new, l

\* The text that every file holds at first is one.
LEMMA ZeroIsText == CountsTyped => 0 \in Past /\ Past \subseteq Nat
BY DEF CountsTyped, Counts, Clock, Past

\* A tab is closed, and the page is told.
LEMMA CloseDecides ==
    ASSUME NEW s, NEW w, Deciding(s, w), NEW p \in Paths, NEW upto \in Nat, CountsTyped
    PROVE  /\ Deciding(PerformClose(s, p, upto), w)
           /\ PerformClose(s, p, upto).life = s.life /\ PerformClose(s, p, upto).ask = s.ask
           /\ PerformClose(s, p, upto).waiting = s.waiting /\ PerformClose(s, p, upto).replies = s.replies
           /\ PerformClose(s, p, upto).posts = s.posts
           /\ PerformClose(s, p, upto).needsModelRestore = s.needsModelRestore
           /\ PerformClose(s, p, upto).unseen = IF IsOpen(s, p) THEN s.unseen \ {p} ELSE s.unseen
           /\ \A x : IsOpen(PerformClose(s, p, upto), x) <=> IsOpen(s, x) /\ x # p
           /\ ~IsOpen(s, p) => PerformClose(s, p, upto) = s
           /\ IsOpen(s, p) =>
                  /\ s.life = "crashed" => PerformClose(s, p, upto).toPage = s.toPage
                  /\ s.life # "crashed" =>
                        \E gone : /\ gone = [op |-> "close", path |-> p, upto |-> upto]
                                  /\ PerformClose(s, p, upto).toPage = Append(s.toPage, gone)
<1> DEFINE c == [op |-> "close", path |-> p, upto |-> upto]
           new == RemoveAt(s.tabs, IndexOf(s, p))
           r == [s EXCEPT !.tabs = new]
           u == Send(r, c)
           shots == [u.snapshots EXCEPT ![p] = 0]
           t == PerformClose(s, p, upto)
<1>1. s \in PaneType /\ Typed(s) /\ TabsDiffer(s) /\ IsFiniteSet(s.waiting)
      /\ s.unseen \subseteq {x \in Paths : IsOpen(s, x)}
  BY DEF Deciding, Linked, Typed
<1>2. CASE ~IsOpen(s, p)
  BY <1>2 DEF PerformClose
<1>3. CASE IsOpen(s, p)
  <2>1. c \in Command /\ c.op = "close" /\ c.path = p
    BY Commands
  <2>2. /\ new \in Seq(Tab)
        /\ \A j, k \in DOMAIN new : new[j].path = new[k].path => j = k
        /\ \A x : (\E j \in DOMAIN new : new[j].path = x)
                  <=> (\E j \in DOMAIN s.tabs : s.tabs[j].path = x) /\ x # p
    <3> DEFINE i == IndexOf(s, p)
    <3>1. i \in DOMAIN s.tabs /\ s.tabs[i].path = p
      BY <1>1, <1>3, TabOf
    <3> HIDE DEF i
    <3>2. LET rest == RemoveAt(s.tabs, i)
          IN /\ rest \in Seq(Tab)
             /\ \A j, k \in DOMAIN rest : rest[j].path = rest[k].path => j = k
             /\ \A x : (\E j \in DOMAIN rest : rest[j].path = x)
                       <=> (\E j \in DOMAIN s.tabs : s.tabs[j].path = x) /\ x # s.tabs[i].path
      BY <1>1, <3>1, TabRemoved
    <3> QED
      BY <3>1, <3>2 DEF i
  <2> HIDE DEF new, c
  <2>3. r \in PaneType
    BY <1>1, <2>2 DEF PaneType
  <2>4. /\ r.tabs = new /\ r.unseen = s.unseen /\ r.snapshots = s.snapshots
        /\ r.waiting = s.waiting /\ r.ask = s.ask /\ r.life = s.life /\ r.toPage = s.toPage
        /\ r.replies = s.replies /\ r.posts = s.posts /\ r.needsModelRestore = s.needsModelRestore
    BY <1>1 DEF PaneType
  <2> HIDE DEF r
  <2>5. /\ u \in PaneType
        /\ u.toPage = IF r.life = "crashed" THEN r.toPage ELSE Append(r.toPage, c)
        /\ u.tabs = r.tabs /\ u.unseen = r.unseen /\ u.snapshots = r.snapshots
        /\ u.waiting = r.waiting /\ u.ask = r.ask /\ u.life = r.life
        /\ u.replies = r.replies /\ u.posts = r.posts /\ u.needsModelRestore = r.needsModelRestore
    BY <2>1, <2>3, SendIsSent
  <2>6. t = [u EXCEPT !.unseen = r.unseen \ {p}, !.snapshots = shots]
    BY <1>3, <2>5 DEF PerformClose, DiscardResources, PaneType, r, new, c
  <2>7. shots \in [Paths -> Past]
    BY <2>5, ZeroIsText DEF PaneType
  <2> HIDE DEF u, shots, t
  <2>8. t \in PaneType
    BY <2>3, <2>5, <2>6, <2>7 DEF PaneType
  <2>9. /\ t.toPage = u.toPage /\ t.tabs = u.tabs /\ t.unseen = r.unseen \ {p} /\ t.waiting = u.waiting
        /\ t.ask = u.ask /\ t.life = u.life
        /\ t.replies = u.replies /\ t.posts = u.posts /\ t.needsModelRestore = u.needsModelRestore
    BY <2>5, <2>6 DEF PaneType
  <2>10. \A x : IsOpen(t, x) <=> IsOpen(s, x) /\ x # p
    <3>1. t.tabs = new
      BY <2>4, <2>5, <2>9
    <3> QED
      BY <2>2, <3>1 DEF IsOpen
  <2>11. Typed(t)
    BY <1>1, <2>2, <2>4, <2>5, <2>8, <2>9, <2>10 DEF Typed, TabsDiffer
  <2>12. \A x : ~Is(c, "open", x) /\ (Is(c, "close", x) <=> x = p)
    BY <2>1 DEF Is
  <2>13. Sent(s, t, c)
    BY <2>1, <2>4, <2>5, <2>9, <2>10, <2>12 DEF Sent
  <2>14. Proper(s, w, c)
    BY <2>1 DEF Proper, Asks
  <2>15. Deciding(t, w)
    BY <2>1, <2>4, <2>5, <2>9, <2>10, <2>11, <2>13, <2>14, SentDecides
  <2> QED
    <3>1. t.toPage = IF s.life = "crashed" THEN s.toPage ELSE Append(s.toPage, c)
      BY <2>4, <2>5, <2>9
    <3>2. c = [op |-> "close", path |-> p, upto |-> upto]
      BY DEF c
    <3>3. /\ s.life = "crashed" => t.toPage = s.toPage
          /\ s.life # "crashed" =>
                \E gone : /\ gone = [op |-> "close", path |-> p, upto |-> upto]
                          /\ t.toPage = Append(s.toPage, gone)
      BY <3>1, <3>2
    <3> QED
      BY <1>3, <2>4, <2>5, <2>9, <2>10, <2>15, <3>3 DEF t
<1> QED
  BY <1>2, <1>3

\* A buffer is replaced by what is on disk: then it is up to date.
LEMMA ReloadDecides ==
    ASSUME NEW s, NEW w, Deciding(s, w), NEW p \in Paths, NEW upto \in Nat, w.disk = disk, FilesTyped
    PROVE  /\ Deciding(ReloadFromDisk(s, p, upto), w) /\ SameCard(s, ReloadFromDisk(s, p, upto))
           /\ Noticed(ReloadFromDisk(s, p, upto), w, p)
<1> DEFINE c == [op |-> "set", path |-> p, text |-> disk[p].text, upto |-> upto]
           t == ReloadFromDisk(s, p, upto)
<1>1. s \in PaneType /\ Typed(s)
  BY DEF Deciding, Linked, Typed
<1>2. CASE ~IsOpen(s, p)
  BY <1>2 DEF ReloadFromDisk, SameCard, Noticed
<1>3. CASE IsOpen(s, p)
  <2>1. disk[p].text \in Past /\ disk[p].text \in disk[p].past
    BY DEF FilesTyped, File
  <2>2. c \in Command /\ c.op = "set" /\ c.path = p /\ c.text = disk[p].text
    BY <2>1, Commands
  <2>3. t = Send(s, c)
    BY <1>3 DEF ReloadFromDisk
  <2> HIDE DEF c, t
  <2>4. /\ t \in PaneType
        /\ t.toPage = IF s.life = "crashed" THEN s.toPage ELSE Append(s.toPage, c)
        /\ t.tabs = s.tabs /\ t.unseen = s.unseen /\ t.snapshots = s.snapshots
        /\ t.waiting = s.waiting /\ t.ask = s.ask /\ t.life = s.life
        /\ t.replies = s.replies /\ t.posts = s.posts /\ t.needsModelRestore = s.needsModelRestore
    BY <1>1, <2>2, <2>3, SendIsSent
  <2>5. \A x : IsOpen(t, x) <=> IsOpen(s, x)
    BY <2>4 DEF IsOpen
  <2>6. Typed(t)
    BY <1>1, <2>4, <2>5 DEF Typed, TabsDiffer
  <2>7. \A x : ~Is(c, "open", x) /\ ~Is(c, "close", x)
    BY <2>2 DEF Is
  <2>8. Sent(s, t, c)
    BY <2>2, <2>4, <2>5, <2>7 DEF Sent
  <2>9. Proper(s, w, c)
    BY <2>1, <2>2 DEF Proper, Asks
  <2>10. Deciding(t, w)
    BY <2>2, <2>4, <2>6, <2>8, <2>9, SentDecides
  <2>11. UpToDate(t, w, p)
    BY <1>3, <2>2, <2>5, <2>8, SentUpToDate DEF Deciding, Is
  <2> QED
    BY <2>4, <2>10, <2>11 DEF SameCard, Noticed, t
<1> QED
  BY <1>2, <1>3

\* A set of numbers has a least one.
LEMMA LeastOf ==
    ASSUME NEW T, T \subseteq Nat, T # {}
    PROVE  \E x \in T : \A y \in T : x <= y
<1> DEFINE R == OpToRel(<, Nat)
<1>1. IsWellFoundedOn(R, Nat)
  BY NatLessThanWellFounded
<1>2. R = {ss \in Nat \X Nat : ss[1] < ss[2]}
  BY DEF OpToRel
<1> HIDE DEF R
<1>3. PICK x \in T : \A y \in T : ~(<<y, x>> \in R)
  BY <1>1, WFMin
<1>4. ASSUME NEW y \in T
      PROVE  x <= y
  <2>1. x \in Nat /\ y \in Nat /\ ~(<<y, x>> \in R)
    BY <1>3
  <2>2. ~(y < x)
    BY <1>2, <2>1
  <2> QED
    BY <2>1, <2>2
<1> QED
  BY <1>4

\* A serial walk goes on with an open path, and those before it are closed.
LEMMA NextOpenIsOpen ==
    ASSUME NEW s, NEW paths \in Seq(Paths), ~WalkEnds(s, paths)
    PROVE  /\ NextOpen(s, paths) \in DOMAIN paths /\ paths[NextOpen(s, paths)] \in Paths
           /\ IsOpen(s, paths[NextOpen(s, paths)]) /\ Rest(paths, NextOpen(s, paths)) \in Seq(Paths)
           /\ \A j \in 1..(NextOpen(s, paths) - 1) : ~IsOpen(s, paths[j])
<1> DEFINE T == {i \in DOMAIN paths : IsOpen(s, paths[i])}
           i == NextOpen(s, paths)
<1>1. T # {} /\ T \subseteq Nat /\ DOMAIN paths = 1..Len(paths) /\ Len(paths) \in Nat
  BY DEF WalkEnds
<1>2. PICK x \in T : \A y \in T : x <= y
  BY <1>1, LeastOf
<1>3. x \in DOMAIN paths /\ IsOpen(s, paths[x])
  BY <1>2
<1>4. \A j \in 1..(x - 1) : ~IsOpen(s, paths[j])
  <2> SUFFICES ASSUME NEW j \in 1..(x - 1), IsOpen(s, paths[j])
               PROVE  FALSE
    OBVIOUS
  <2>1. j \in T /\ j < x
    BY <1>1, <1>3
  <2> QED
    BY <1>1, <1>2, <2>1
<1>5. i \in DOMAIN paths /\ IsOpen(s, paths[i]) /\ \A j \in 1..(i - 1) : ~IsOpen(s, paths[j])
  BY <1>3, <1>4 DEF NextOpen
<1> HIDE DEF i
<1>6. paths[i] \in Paths /\ i + 1 \in 1..(Len(paths) + 1)
  BY <1>1, <1>5
<1>7. Rest(paths, i) \in Seq(Paths)
  BY <1>1, <1>6 DEF Rest
<1> QED
  BY <1>5, <1>6, <1>7 DEF i

-----------------------------------------------------------------------------
(* The numbers of a finite set in order.                                       *)

Rank(I, i) == Cardinality({j \in I : j <= i})

\* Each has a rank of its own.
LEMMA Ranks ==
    ASSUME NEW I, I \subseteq Nat, IsFiniteSet(I)
    PROVE  /\ Cardinality(I) \in Nat
           /\ \A i \in I : Rank(I, i) \in 1..Cardinality(I)
           /\ \A i, j \in I : i < j => Rank(I, i) < Rank(I, j)
<1> DEFINE upto(i) == {j \in I : j <= i}
<1>1. Cardinality(I) \in Nat
  BY FS_CardinalityType
<1>2. \A i : upto(i) \subseteq I /\ IsFiniteSet(upto(i)) /\ Cardinality(upto(i)) \in Nat
             /\ Cardinality(upto(i)) <= Cardinality(I)
  BY FS_Subset, FS_CardinalityType
<1>3. \A i \in I : Cardinality(upto(i)) # 0
  <2> SUFFICES ASSUME NEW i \in I
               PROVE  Cardinality(upto(i)) # 0
    OBVIOUS
  <2>1. upto(i) # {}
    OBVIOUS
  <2> HIDE DEF upto
  <2> QED
    BY <1>2, <2>1, FS_EmptySet
<1>4. \A i, j \in I : i < j => Cardinality(upto(i)) < Cardinality(upto(j))
  <2> SUFFICES ASSUME NEW i \in I, NEW j \in I, i < j
               PROVE  Cardinality(upto(i)) < Cardinality(upto(j))
    OBVIOUS
  <2>1. i \in Nat /\ j \in Nat /\ ~(j <= i) /\ j <= j
    OBVIOUS
  <2>2. \A k \in I : k <= i => k <= j
    <3> SUFFICES ASSUME NEW k \in I, k <= i
                 PROVE  k <= j
      OBVIOUS
    <3>1. k \in Nat
      OBVIOUS
    <3> QED
      BY <2>1, <3>1
  <2>3. upto(i) \subseteq upto(j) /\ j \in upto(j) /\ j \notin upto(i)
    BY <2>1, <2>2
  <2> HIDE DEF upto
  <2>4. Cardinality(upto(i)) <= Cardinality(upto(j)) /\ Cardinality(upto(i)) # Cardinality(upto(j))
    BY <1>2, <2>3, FS_Subset
  <2> QED
    BY <1>2, <2>4
<1> QED
  BY <1>1, <1>2, <1>3, <1>4 DEF Rank

\* The sequence has each of them once.
LEMMA InOrderHasAll ==
    ASSUME NEW I, I \subseteq Nat, IsFiniteSet(I)
    PROVE  /\ Cardinality(I) \in Nat /\ DOMAIN InOrder(I) = 1..Cardinality(I)
           /\ InOrder(I) \in Seq(I) /\ Len(InOrder(I)) = Cardinality(I)
           /\ \A i \in I : \E k \in DOMAIN InOrder(I) : InOrder(I)[k] = i
           /\ \A k, l \in DOMAIN InOrder(I) : InOrder(I)[k] = InOrder(I)[l] => k = l
           /\ \A k, l \in DOMAIN InOrder(I) : k < l => InOrder(I)[k] < InOrder(I)[l]
<1> DEFINE n == Cardinality(I)
           rank == [i \in I |-> Rank(I, i)]
           T == {rank[i] : i \in I}
<1>1. n \in Nat /\ rank \in [I -> 1..n]
  BY Ranks
<1>2. \A i, j \in I : rank[i] = rank[j] => i = j
  <2> SUFFICES ASSUME NEW i \in I, NEW j \in I, i # j
               PROVE  Rank(I, i) # Rank(I, j)
    OBVIOUS
  <2>1. i \in Nat /\ j \in Nat
    OBVIOUS
  <2>2. i < j \/ j < i
    BY <2>1
  <2>3. Rank(I, i) \in Nat /\ Rank(I, j) \in Nat
    BY <1>1
  <2>4. Rank(I, i) < Rank(I, j) \/ Rank(I, j) < Rank(I, i)
    BY <2>2, Ranks
  <2> QED
    BY <2>3, <2>4
<1>3. Cardinality(T) = n
  <2>1. rank \in Surjection(I, T)
    <3>1. rank \in [I -> T] /\ \A y \in T : \E x \in I : rank[x] = y
      OBVIOUS
    <3> QED
      BY <3>1 DEF Surjection
  <2>2. rank \in Injection(I, T)
    <3>1. rank \in [I -> T]
      OBVIOUS
    <3> QED
      BY <1>2, <3>1 DEF Injection, IsInjective
  <2> HIDE DEF T, rank
  <2>3. rank \in Bijection(I, T)
    BY <2>1, <2>2 DEF Bijection
  <2> QED
    BY <2>3, FS_Bijection DEF ExistsBijection
<1>4. T \subseteq 1..n
  BY <1>1
<1>5. T = 1..n
  <2> HIDE DEF T, n
  <2>1. IsFiniteSet(1..n) /\ Cardinality(1..n) = n
    BY <1>1, FS_Interval
  <2> QED
    BY <1>3, <1>4, <2>1, FS_Subset
<1>6. \A k \in 1..n : \E i \in I : Rank(I, i) = k
  BY <1>5
<1>7. InOrder(I) = [k \in 1..n |-> CHOOSE i \in I : Rank(I, i) = k]
  BY DEF InOrder, Rank
<1>8. \A k \in 1..n : InOrder(I)[k] \in I /\ Rank(I, InOrder(I)[k]) = k
  BY <1>6, <1>7
<1>9. InOrder(I) \in Seq(I) /\ Len(InOrder(I)) = n /\ DOMAIN InOrder(I) = 1..n
  <2>1. InOrder(I) \in [1..n -> I]
    BY <1>7, <1>8
  <2> HIDE DEF n
  <2> QED
    BY <1>1, <1>7, <2>1
<1>10. \A i \in I : InOrder(I)[Rank(I, i)] = i
  <2> SUFFICES ASSUME NEW i \in I
               PROVE  InOrder(I)[Rank(I, i)] = i
    OBVIOUS
  <2>1. Rank(I, i) \in 1..n
    BY Ranks
  <2>2. InOrder(I)[Rank(I, i)] \in I /\ Rank(I, InOrder(I)[Rank(I, i)]) = Rank(I, i)
    BY <1>8, <2>1
  <2> QED
    BY <1>2, <2>2
<1>11. \A i \in I : Rank(I, i) \in 1..n
  BY Ranks
<1>12. \A k, l \in 1..n : k < l => InOrder(I)[k] < InOrder(I)[l]
  <2> SUFFICES ASSUME NEW k \in 1..n, NEW l \in 1..n, k < l, ~(InOrder(I)[k] < InOrder(I)[l])
               PROVE  FALSE
    OBVIOUS
  <2> DEFINE x == InOrder(I)[k]
             y == InOrder(I)[l]
  <2>1. x \in I /\ y \in I /\ Rank(I, x) = k /\ Rank(I, y) = l
    BY <1>8
  <2>2. x \in Nat /\ y \in Nat /\ ~(x < y)
    BY <2>1
  <2> HIDE DEF x, y
  <2>3. x # y
    BY <1>1, <2>1
  <2>4. y < x
    BY <2>2, <2>3
  <2>5. Rank(I, y) < Rank(I, x)
    BY <2>1, <2>4, Ranks
  <2> QED
    BY <1>1, <2>1, <2>5
<1> HIDE DEF n
<1> QED
  BY <1>1, <1>8, <1>9, <1>10, <1>11, <1>12 DEF n

-----------------------------------------------------------------------------
(* The handlers.  Each ends in a state that keeps the invariant.               *)

\* The paths of the tabs, and of the edited ones.
LEMMA PathsOfTabs ==
    ASSUME NEW s, s \in PaneType
    PROVE  /\ OpenPaths(s) \in Seq(Paths) /\ DirtyPaths(s) \in Seq(Paths)
           /\ DirtyPaths(s) # <<>> => Head(DirtyPaths(s)) \in Paths
<1> DEFINE l == Len(s.tabs)
           order == InOrder(DirtyTabs(s))
<1>1. s.tabs \in Seq(Tab) /\ l \in Nat /\ DOMAIN s.tabs = 1..l
  BY DEF PaneType
<1>2. \A i \in DOMAIN s.tabs : s.tabs[i].path \in Paths
  <2> SUFFICES ASSUME NEW i \in DOMAIN s.tabs
               PROVE  s.tabs[i].path \in Paths
    OBVIOUS
  <2>1. s.tabs[i] \in Tab
    BY <1>1
  <2> QED
    BY <2>1 DEF Tab
<1>3. OpenPaths(s) \in Seq(Paths)
  <2>1. OpenPaths(s) \in [1..l -> Paths]
    BY <1>1, <1>2 DEF OpenPaths
  <2> HIDE DEF l
  <2> QED
    BY <1>1, <2>1
<1>4. DirtyTabs(s) \subseteq DOMAIN s.tabs /\ DirtyTabs(s) \subseteq Nat /\ IsFiniteSet(DirtyTabs(s))
  <2>1. DirtyTabs(s) \subseteq DOMAIN s.tabs
    BY DEF DirtyTabs
  <2> QED
    BY <1>1, <2>1, FiniteQueue
<1>5. order \in Seq(DirtyTabs(s)) /\ Len(order) \in Nat /\ DOMAIN order = 1..Len(order)
  BY <1>4, InOrderHasAll
<1>6. \A k \in DOMAIN order : s.tabs[order[k]].path \in Paths
  BY <1>2, <1>4, <1>5
<1>7. DirtyPaths(s) = [k \in DOMAIN order |-> s.tabs[order[k]].path]
  BY DEF DirtyPaths
<1> HIDE DEF order
<1>8. DirtyPaths(s) \in [1..Len(order) -> Paths]
  BY <1>5, <1>6, <1>7
<1>9. DirtyPaths(s) \in Seq(Paths)
  BY <1>5, <1>8
<1> QED
  BY <1>3, <1>9

\* requestCloseTab, once it is known whether there is something to lose.
LEMMA CloseOrPromptIsFine ==
    ASSUME NEW s, NEW w, Deciding(s, w), NEW p \in Paths, NEW dirty \in BOOLEAN, NEW known \in Nat,
           CountsTyped
    PROVE  Fine(CloseOrPrompt(s, p, dirty, known), w)
<1>0. Fine(s, w)
  BY DEF Deciding, Fine
<1>1. CASE ~IsOpen(s, p)
  BY <1>0, <1>1 DEF CloseOrPrompt
<1>2. CASE IsOpen(s, p) /\ dirty
  <2>1. CloseOrPrompt(s, p, dirty, known) = Present(s, "close", p)
    BY <1>2 DEF CloseOrPrompt
  <2> QED
    BY <2>1, PresentIsFine
<1>3. CASE IsOpen(s, p) /\ ~dirty
  <2>1. CloseOrPrompt(s, p, dirty, known) = PerformClose(s, p, known)
    BY <1>3 DEF CloseOrPrompt
  <2>2. Deciding(PerformClose(s, p, known), w)
    BY CloseDecides
  <2> QED
    BY <2>1, <2>2 DEF Deciding, Fine
<1> QED
  BY <1>1, <1>2, <1>3

\* The clock and its end are numbers.
LEMMA ClocksAreNumbers == CountsTyped => Clock \in Nat /\ Latest \in Nat
BY BoundsAssumption DEF CountsTyped, Counts, Clock, Latest

\* requestCloseTab
LEMMA RequestCloseIsFine ==
    ASSUME NEW s, NEW w, Deciding(s, w), NEW p \in Paths, CountsTyped
    PROVE  Fine(RequestClose(s, p), w)
<1>1. CASE IsReady(s)
  <2>1. "close" \in Reasons("clean") /\ <<>> \in Seq(Paths) /\ s.life # "loading" /\ Latest \in Nat
    BY <1>1, ClocksAreNumbers DEF IsReady, Reasons
  <2>2. Deciding(Ask(s, "clean", p, "close", p, <<>>, Latest), w)
    BY <2>1, AskDecides
  <2> QED
    BY <1>1, <2>2 DEF RequestClose, Deciding, Fine
<1>2. CASE ~IsReady(s)
  <2> DEFINE dirty == IsDirty(s, p)
  <2>1. dirty \in BOOLEAN
    <3>1. CASE ~IsOpen(s, p)
      BY <3>1 DEF IsDirty
    <3>2. CASE IsOpen(s, p)
      <4>1. s \in PaneType /\ IndexOf(s, p) \in DOMAIN s.tabs
        BY <3>2, TabOf DEF Deciding, Linked, Typed
      <4>2. s.tabs[IndexOf(s, p)] \in Tab
        BY <4>1 DEF PaneType
      <4> QED
        BY <3>2, <4>2 DEF IsDirty, Tab
    <3> QED
      BY <3>1, <3>2
  <2>2. RequestClose(s, p) = CloseOrPrompt(s, p, dirty, Clock)
    BY <1>2 DEF RequestClose
  <2> HIDE DEF dirty
  <2> QED
    BY <2>1, <2>2, CloseOrPromptIsFine, ClocksAreNumbers
<1> QED
  BY <1>1, <1>2

\* saveTabsSerially
LEMMA SaveSeriallyIsFine ==
    ASSUME NEW s, NEW w, Deciding(s, w), NEW paths \in Seq(Paths), CountsTyped
    PROVE  Fine(SaveSerially(s, paths), w)
<1>1. CASE WalkEnds(s, paths) \/ ~IsReady(s)
  BY <1>1 DEF SaveSerially, Deciding, Fine
<1>2. CASE ~WalkEnds(s, paths) /\ IsReady(s)
  <2> DEFINE i == NextOpen(s, paths)
  <2>1. paths[i] \in Paths /\ IsOpen(s, paths[i]) /\ Rest(paths, i) \in Seq(Paths)
    BY <1>2, NextOpenIsOpen
  <2>2. SaveSerially(s, paths) = Ask(s, "content", paths[i], "saveAll", paths[i], Rest(paths, i), Latest)
    BY <1>2 DEF SaveSerially, Save
  <2> HIDE DEF i
  <2>3. Deciding(SaveSerially(s, paths), w)
    BY <1>2, <2>1, <2>2, AskDecides, ClocksAreNumbers DEF IsReady, Reasons
  <2> QED
    BY <2>3 DEF Deciding, Fine
<1> QED
  BY <1>1, <1>2

\* Who waits for the pane to close is told that a save failed.
LEMMA SaveFailedIsFine ==
    ASSUME NEW s, NEW w, Deciding(s, w), NEW why
    PROVE  Fine(SaveFailed(s, why), w)
<1> DEFINE quit == IF why = "drain" THEN "no" ELSE s.quit
<1>1. quit \in {"none", "waiting", "yes", "no"}
  BY DEF Deciding, Linked, Typed, PaneType
<1>2. SaveFailed(s, why) = [s EXCEPT !.quit = quit]
  BY DEF SaveFailed
<1> HIDE DEF quit
<1> QED
  BY <1>1, <1>2, QuitDecides DEF Deciding, Fine

\* What a walk over the tabs does when every flag is in line.
LEMMA ReconciledIsFine ==
    ASSUME NEW s, NEW w, Deciding(s, w), NEW why \in {"drain", "saveAll"}, NEW since \in Nat, CountsTyped
    PROVE  Fine(Reconciled(s, why, since), w)
<1>1. s \in PaneType
  BY DEF Deciding, Linked, Typed
<1>2. CASE why = "saveAll"
  <2>1. Reconciled(s, why, since) = SaveSerially(s, DirtyPaths(s))
    BY <1>2 DEF Reconciled
  <2> QED
    BY <1>1, <2>1, PathsOfTabs, SaveSeriallyIsFine
<1>3. CASE why = "drain"
  <2> DEFINE r == [s EXCEPT !.quitSince = since]
             t == Reconciled(s, why, since)
  <2>1. Deciding(r, w) /\ SameCard(s, r) /\ r.tabs = s.tabs
    BY QuitDecides
  <2>2. CASE DirtyPaths(s) = <<>>
    <3>1. t = [r EXCEPT !.quit = "yes"]
      BY <1>1, <1>3, <2>2 DEF Reconciled, DrainReconciled, PaneType
    <3> HIDE DEF r, t
    <3>2. Deciding(t, w)
      BY <2>1, <3>1, QuitDecides
    <3> QED
      BY <3>2 DEF t, Deciding, Fine
  <2>3. CASE DirtyPaths(s) # <<>>
    <3> DEFINE p == Head(DirtyPaths(s))
    <3>1. p \in Paths
      BY <1>1, <2>3, PathsOfTabs
    <3> DEFINE card == [kind |-> "drain", path |-> p, index |-> IF IsOpen(s, p) THEN IndexOf(s, p) ELSE 0]
    <3> DEFINE quit == IF s.ask.kind = "drain" THEN "no" ELSE s.quit
    <3>2. Present(s, "drain", p) = [s EXCEPT !.ask = card, !.quit = quit]
      BY <1>1 DEF Present, CancelAsk, PaneType
    <3>3. Present(r, "drain", p) = [r EXCEPT !.ask = card, !.quit = quit]
      BY <1>1 DEF Present, CancelAsk, PaneType, IsOpen, IndexOf
    <3>4. t = [Present(s, "drain", p) EXCEPT !.quitSince = since]
      BY <1>3, <2>3 DEF Reconciled, DrainReconciled
    <3> HIDE DEF p, card, t, quit
    <3>5. t = Present(r, "drain", p)
      BY <1>1, <3>2, <3>3, <3>4 DEF PaneType
    <3> HIDE DEF r
    <3>6. Fine(t, w)
      BY <2>1, <3>1, <3>5, PresentIsFine
    <3> QED
      BY <3>6 DEF t
  <2> QED
    BY <2>2, <2>3
<1> QED
  BY <1>2, <1>3

\* reconcileDirtyFlags
LEMMA ReconcileRestIsFine ==
    ASSUME NEW s, NEW w, Deciding(s, w), NEW paths \in Seq(Paths), NEW why \in {"drain", "saveAll"},
           NEW since \in Nat, CountsTyped
    PROVE  Fine(ReconcileRest(s, paths, why, since), w)
<1>1. CASE WalkEnds(s, paths) \/ ~IsReady(s)
  BY <1>1, ReconciledIsFine DEF ReconcileRest
<1>2. CASE ~WalkEnds(s, paths) /\ IsReady(s)
  <2> DEFINE i == NextOpen(s, paths)
  <2>1. paths[i] \in Paths /\ Rest(paths, i) \in Seq(Paths)
    BY <1>2, NextOpenIsOpen
  <2>2. ReconcileRest(s, paths, why, since) = Ask(s, "clean", paths[i], why, paths[i], Rest(paths, i), since)
    BY <1>2 DEF ReconcileRest
  <2> HIDE DEF i
  <2>3. Deciding(ReconcileRest(s, paths, why, since), w)
    BY <1>2, <2>1, <2>2, AskDecides DEF IsReady, Reasons
  <2> QED
    BY <2>3 DEF Deciding, Fine
<1> QED
  BY <1>1, <1>2

\* reconcileDirtyFlags, from the first tab.
LEMMA ReconcileIsFine ==
    ASSUME NEW s, NEW w, Deciding(s, w), NEW why \in {"drain", "saveAll"}, CountsTyped
    PROVE  Fine(Reconcile(s, why), w)
<1>1. OpenPaths(s) \in Seq(Paths)
  BY PathsOfTabs DEF Deciding, Linked, Typed
<1> QED
  BY <1>1, ReconcileRestIsFine, ClocksAreNumbers DEF Reconcile

\* resolveExternalChange, after which the change is noticed.
LEMMA ResolveIsFine ==
    ASSUME NEW s, NEW w, Deciding(s, w), NEW p \in Paths, NEW clean \in BOOLEAN, NEW known \in Nat,
           w.disk = disk, FilesTyped
    PROVE  /\ Fine(ResolveExternalChange(s, p, clean, known), w)
           /\ Noticed(ResolveExternalChange(s, p, clean, known), w, p)
<1> DEFINE t == ResolveExternalChange(s, p, clean, known)
<1>1. CASE clean
  <2>1. t = ReloadFromDisk(s, p, known)
    BY <1>1 DEF ResolveExternalChange
  <2> HIDE DEF t
  <2>2. Deciding(t, w) /\ Noticed(t, w, p)
    BY <2>1, ReloadDecides
  <2> QED
    BY <2>2 DEF Deciding, Fine, t
<1>2. CASE ~clean /\ s.ask.kind = "conflict"
  <2> DEFINE unseen == IF IsOpen(s, p) THEN s.unseen \cup {p} ELSE s.unseen
  <2>1. s \in PaneType /\ Typed(s)
    BY DEF Deciding, Linked, Typed
  <2>2. t = [s EXCEPT !.unseen = unseen]
    BY <1>2 DEF ResolveExternalChange
  <2>3. unseen \subseteq {x \in Paths : IsOpen(s, x)} /\ s.unseen \subseteq unseen /\ (IsOpen(s, p) => p \in unseen)
    BY <2>1 DEF Typed
  <2> HIDE DEF t, unseen
  <2>4. t \in PaneType /\ t.unseen = unseen
    BY <2>1, <2>2, <2>3 DEF PaneType
  <2>5. /\ t.tabs = s.tabs /\ t.toPage = s.toPage /\ t.waiting = s.waiting
        /\ t.replies = s.replies /\ t.posts = s.posts /\ t.life = s.life
        /\ t.needsModelRestore = s.needsModelRestore
    BY <2>1, <2>2 DEF PaneType
  <2>6. \A x : IsOpen(t, x) <=> IsOpen(s, x)
    BY <2>5 DEF IsOpen
  <2>7. Typed(t)
    BY <2>1, <2>3, <2>4, <2>5, <2>6 DEF Typed, TabsDiffer
  <2>8. Like(s, t)
    BY <2>5, <2>6 DEF Like
  <2>9. Fine(t, w)
    BY <2>3, <2>4, <2>7, <2>8, LikeDecides DEF Fine
  <2>10. Noticed(t, w, p)
    BY <2>3, <2>4, <2>6 DEF Noticed
  <2> QED
    BY <2>9, <2>10 DEF t
<1>3. CASE ~clean /\ s.ask.kind # "conflict"
  <2>1. t = Present(s, "conflict", p)
    BY <1>3 DEF ResolveExternalChange
  <2> HIDE DEF t
  <2>2. Fine(t, w) /\ t.ask.kind = "conflict" /\ t.ask.path = p
    BY <2>1, PresentIsFine
  <2> QED
    BY <2>2 DEF Noticed, Conflict, t
<1> QED
  BY <1>1, <1>2, <1>3

\* What a question whether a buffer is saved is for.
LEMMA CleanFields ==
    ASSUME NEW q \in Questions
    PROVE  /\ q.path \in Paths /\ q.tab \in Paths /\ q.rest \in Seq(Paths) /\ q.since \in Nat /\ q.id \in Nat
           /\ q.op = "clean" => q.why \in {"check", "close", "drain", "saveAll", "savedForClose", "savedForDrain"}
           /\ q.op = "content" => q.why \in {"save", "close", "drain", "saveAll"}
BY DEF Questions, Reasons

\* The completion of requestIsClean.
LEMMA OnCleanIsFine ==
    ASSUME NEW s, NEW w, Deciding(s, w), NEW q \in Questions, q.op = "clean", NEW clean \in BOOLEAN,
           NEW known \in Nat, w.disk = disk, FilesTyped, CountsTyped
    PROVE  /\ Fine(OnClean(s, q, clean, known), w)
           /\ q.why = "check" => Noticed(OnClean(s, q, clean, known), w, q.path)
<1> DEFINE t == OnClean(s, q, clean, known)
           r == SetDirty(s, q.path, ~clean)
           told == Knows(q, known)
<1>0. Fine(s, w) /\ q.path \in Paths /\ q.tab \in Paths /\ q.rest \in Seq(Paths) /\ q.since \in Nat
         /\ told \in Nat
  BY CleanFields DEF Deciding, Fine, Knows
<1>1. Deciding(r, w)
  BY SetDirtyDecides
<1>2. CASE q.why = "check"
  <2>1. t = ResolveExternalChange(s, q.path, clean, known)
    BY <1>2 DEF OnClean
  <2> QED
    BY <1>0, <2>1, ResolveIsFine
<1>3. CASE q.why = "close"
  <2>1. t = CloseOrPrompt(r, q.path, ~clean, known)
    BY <1>3 DEF OnClean
  <2> HIDE DEF r, t
  <2>2. Fine(t, w)
    BY <1>0, <1>1, <2>1, CloseOrPromptIsFine
  <2> QED
    BY <1>3, <2>2 DEF t
<1>4. CASE q.why \in {"drain", "saveAll"}
  <2> DEFINE since == IF known < q.since THEN known ELSE q.since
  <2>1. t = ReconcileRest(r, q.rest, q.why, since)
    BY <1>4 DEF OnClean
  <2>2. since \in Nat
    BY <1>0
  <2> HIDE DEF r, t, since
  <2>3. Fine(t, w)
    BY <1>0, <1>1, <1>4, <2>1, <2>2, ReconcileRestIsFine
  <2> QED
    BY <1>4, <2>3 DEF t
<1>5. CASE q.why = "savedForClose"
  <2>1. t = IF clean THEN PerformClose(s, q.tab, told) ELSE IF IsOpen(s, q.tab) THEN RequestClose(s, q.tab) ELSE s
    BY <1>5 DEF OnClean
  <2> HIDE DEF t
  <2>2. Deciding(PerformClose(s, q.tab, told), w) /\ Fine(RequestClose(s, q.tab), w)
    BY <1>0, CloseDecides, RequestCloseIsFine
  <2>3. Fine(t, w)
    BY <1>0, <2>1, <2>2 DEF Deciding, Fine
  <2> QED
    BY <1>5, <2>3 DEF t
<1>6. CASE q.why = "savedForDrain"
  <2> DEFINE u == IF clean THEN PerformClose(s, q.tab, told) ELSE s
  <2>1. t = Reconcile(u, "drain")
    BY <1>6 DEF OnClean
  <2>2. Deciding(u, w)
    BY <1>0, CloseDecides
  <2> HIDE DEF t, u
  <2>3. Fine(t, w)
    BY <2>1, <2>2, ReconcileIsFine
  <2> QED
    BY <1>6, <2>3 DEF t
<1> QED
  BY <1>2, <1>3, <1>4, <1>5, <1>6, CleanFields

\* The completion of requestContent, once the bytes are on disk.
LEMMA OnSavedIsFine ==
    ASSUME NEW s, NEW w, Deciding(s, w), s.life # "loading", NEW q \in Questions, q.op = "content",
           NEW version \in Nat, q.path \in w.excused, CountsTyped,
           q.path \notin w.orphans /\ s.life # "crashed" =>
               /\ Wrote(w.page[q.path], version, w.disk[q.path].past)
               /\ NoClose(s.toPage, q.path, 1, Len(s.toPage))
    PROVE  Fine(OnSaved(s, q, version), w)
<1> DEFINE p == q.path
           c == [op |-> "mark", path |-> p, version |-> version]
           unseen == s.unseen \ {p}
           u == [s EXCEPT !.unseen = unseen]
           t == Send(u, c)
           v == OnSaved(s, q, version)
<1>0. s \in PaneType /\ Typed(s)
  BY DEF Deciding, Linked, Typed
<1>1. p \in Paths /\ q.tab \in Paths /\ q.rest \in Seq(Paths) /\ q.why \in {"save", "close", "drain", "saveAll"}
  BY CleanFields
<1>2. c \in Command /\ c.op = "mark" /\ c.path = p /\ c.version = version
  BY <1>1, Commands
<1>3. u \in PaneType
  BY <1>0 DEF PaneType
<1>4. /\ u.tabs = s.tabs /\ u.unseen = unseen /\ u.toPage = s.toPage /\ u.waiting = s.waiting
      /\ u.replies = s.replies /\ u.posts = s.posts /\ u.life = s.life /\ u.ask = s.ask
      /\ u.needsModelRestore = s.needsModelRestore
  BY <1>0 DEF PaneType
<1>5. v = CASE q.why = "close" -> Ask(t, "clean", p, "savedForClose", q.tab, <<>>, Latest)
            [] q.why = "drain" -> Ask(t, "clean", p, "savedForDrain", q.tab, <<>>, Latest)
            [] q.why = "saveAll" -> SaveSerially(t, q.rest)
            [] OTHER -> t
  BY DEF OnSaved
<1>6. Deciding(u, w)
  <2>1. \A x : IsOpen(u, x) <=> IsOpen(s, x)
    BY <1>4 DEF IsOpen
  <2>2. Typed(u)
    BY <1>0, <1>3, <1>4, <2>1 DEF Typed, TabsDiffer
  <2>3. Like(s, u)
    BY <1>4, <2>1 DEF Like
  <2>4. Linked(u, w)
    BY <2>2, <2>3, LikeLinked DEF Deciding
  <2>5. \A x \in Paths : Conflict(s, x) <=> Conflict(u, x)
    BY <1>4 DEF Conflict
  <2>6. ASSUME NEW x \in Paths \ w.excused
        PROVE  Noticed(u, w, x)
    <3>1. Noticed(s, w, x) /\ (x \in s.unseen => x \in u.unseen)
      BY <1>4 DEF Deciding, AllNoticed
    <3> QED
      BY <2>3, <2>5, <3>1, LikeNoticed
  <2> QED
    BY <2>4, <2>5, <2>6 DEF Deciding, AllNoticed
<1> HIDE DEF p, c, unseen, u, v
<1>7. /\ t \in PaneType
      /\ t.toPage = IF u.life = "crashed" THEN u.toPage ELSE Append(u.toPage, c)
      /\ t.tabs = u.tabs /\ t.unseen = u.unseen
      /\ t.waiting = u.waiting /\ t.ask = u.ask /\ t.life = u.life
      /\ t.replies = u.replies /\ t.posts = u.posts /\ t.needsModelRestore = u.needsModelRestore
  BY <1>2, <1>3, SendIsSent
<1> HIDE DEF t
<1>8. \A x : IsOpen(t, x) <=> IsOpen(u, x)
  BY <1>7 DEF IsOpen
<1>9. Typed(t)
  BY <1>6, <1>7, <1>8 DEF Deciding, Linked, Typed, TabsDiffer
<1>10. Sent(u, t, c)
  <2>1. \A x : ~Is(c, "open", x) /\ ~Is(c, "close", x)
    BY <1>2 DEF Is
  <2> QED
    BY <1>2, <1>7, <1>8, <2>1 DEF Sent
<1>11. Proper(u, w, c)
  BY <1>2, <1>4 DEF Proper, Asks, p
<1>12. Deciding(t, w) /\ t.life # "loading"
  BY <1>2, <1>4, <1>6, <1>7, <1>9, <1>10, <1>11, SentDecides DEF p
<1>13. Latest \in Nat /\ <<>> \in Seq(Paths) /\ {"savedForClose", "savedForDrain"} \subseteq Reasons("clean")
  BY ClocksAreNumbers DEF Reasons
<1>14. /\ Deciding(Ask(t, "clean", p, "savedForClose", q.tab, <<>>, Latest), w)
       /\ Deciding(Ask(t, "clean", p, "savedForDrain", q.tab, <<>>, Latest), w)
  BY <1>1, <1>12, <1>13, AskDecides
<1>15. Fine(SaveSerially(t, q.rest), w)
  BY <1>1, <1>12, SaveSeriallyIsFine
<1>16. Fine(v, w)
  BY <1>1, <1>5, <1>12, <1>14, <1>15 DEF Deciding, Fine
<1> QED
  BY <1>16 DEF v

-----------------------------------------------------------------------------
(* A step from one state to the next.                                          *)

\* The world in which a handler runs: what it does to a page and to files is done; a file
\* that changes, or whose card may go, is excused, as are those of a set.
During(pg, files, open, set) ==
    [page |-> pg, disk |-> files, orphans |-> ghost.orphans, known |-> Known \cup open,
     excused |-> {p \in Paths : \/ Excused(p) \/ Conflict(pane, p)
                                \/ files[p] # disk[p] \/ p \in set}]

\* As time goes by there are more texts.
LEMMA TypesGrow ==
    ASSUME Clock \in Nat, Clock' \in Nat, Clock <= Clock'
    PROVE  /\ PaneType \subseteq PaneType' /\ Content \subseteq Content'
           /\ Model \subseteq Model' /\ File \subseteq File' /\ Past \subseteq Past'
<1>1. Past \subseteq Past'
  BY DEF Past
<1>2. Content \subseteq Content' /\ Model \subseteq Model' /\ File \subseteq File'
  BY <1>1 DEF Content, Model, File
<1>3. Command \subseteq Command' /\ Message \subseteq Message'
  BY <1>1 DEF Command, Message
<1>4. \A A, B : A \subseteq B => Seq(A) \subseteq Seq(B)
  OBVIOUS
<1>5. /\ Seq(Command) \subseteq Seq(Command') /\ Seq(Message) \subseteq Seq(Message')
      /\ Seq(Content \cup Clean) \subseteq Seq(Content' \cup Clean)
  BY <1>2, <1>3, <1>4
<1>6. [Paths -> Past] \subseteq [Paths -> Past']
  BY <1>1
<1>7. PaneType \subseteq PaneType'
  BY <1>5, <1>6 DEF PaneType
<1> QED
  BY <1>1, <1>2, <1>7

\* The handler's world, seen from the state that it leaves.
LEMMA EndOfStep ==
    ASSUME Watch, Clock \in Nat, Clock' \in Nat, Clock <= Clock',
           NEW open, NEW set, Fine(pane', During(page', disk', open, set)),
           \A p \in open : IsOpen(pane', p),
           \A p \in set : Noticed(pane', During(page', disk', open, set), p)
    PROVE  Linked(pane, Now)' /\ AllNoticed(pane, Now)'
<1> DEFINE w == During(page', disk', open, set)
           v == Now'
<1>1. /\ w.page = page' /\ w.disk = disk' /\ w.orphans = ghost.orphans /\ w.known = Known \cup open
      /\ v.page = page' /\ v.disk = disk' /\ v.orphans = ghost'.orphans
      /\ v.known = {p \in Paths : IsOpen(pane', p)} \cup ghost'.orphans
      /\ v.excused = {p \in Paths : Excused(p)'}
  BY DEF During, Now, Known
<1>2. w.excused = {p \in Paths : Excused(p) \/ Conflict(pane, p) \/ disk'[p] # disk[p] \/ p \in set}
  BY DEF During
<1>3. /\ ghost'.orphans = ghost.orphans \cup
             {p \in Paths : /\ IsOpen(pane, p) /\ ~IsOpen(pane', p)
                            /\ \E q \in pane'.waiting : q.op = "content" /\ q.path = p}
      /\ ghost'.torn = {p \in Paths : /\ IsOpen(pane', p) /\ p \notin pane'.unseen /\ ~disk'[p].mine
                                      /\ p \in ghost.torn \/ disk'[p] # disk[p]}
      /\ ghost'.kept = [p \in Paths |-> IF pane.ask.kind = "conflict" /\ pane.ask.path = p /\ pane'.ask # pane.ask
                                        THEN disk[p].text ELSE ghost.kept[p]]
  BY DEF Watch
<1> HIDE DEF w, v
<1>4. Linked(pane', w) /\ AllNoticed(pane', w)
  BY DEF Fine, w
<1>5. Linked(pane, Now)'
  <2>0. Typed(pane') /\ IdsDiffer(pane')
    BY <1>4 DEF Linked
  <2>1. Typed(pane)' /\ IdsDiffer(pane)'
    BY <2>0, TypesGrow DEF Typed, IdsDiffer
  <2>2. DownIsEmpty(pane', v) /\ Follows(pane', v) /\ FromDisk(pane', v)
    BY <1>1, <1>4 DEF Linked, DownIsEmpty, Follows, FromDisk, HasModel
  <2>3. MarksAreTrue(pane', v)
    BY <1>1, <1>3, <1>4 DEF Linked, MarksAreTrue
  <2>4. ReadsItsTab(pane', v)
    BY <1>1, <1>3, <1>4 DEF Linked, ReadsItsTab, Trusted, HasRead
  <2>5. SavesAreKnown(pane', v)
    <3>1. \A p \in Paths : IsOpen(pane', p) => p \in v.known
      BY <1>1
    <3>2. ASSUME NEW q \in pane'.waiting, q.op = "content"
          PROVE  q.path \in v.known
      <4>1. q.path \in w.known /\ q.path \in Paths
        <5>1. q \in Questions
          BY <2>0 DEF Typed, PaneType
        <5> QED
          BY <1>4, <3>2, <5>1, CleanFields DEF Linked, SavesAreKnown
      <4>2. IsOpen(pane, q.path) \/ q.path \in ghost.orphans \/ q.path \in open
        BY <1>1, <4>1 DEF Known
      <4> QED
        BY <1>1, <1>3, <3>2, <4>1, <4>2
    <3> QED
      BY <3>1, <3>2 DEF SavesAreKnown
  <2> QED
    BY <2>1, <2>2, <2>3, <2>4, <2>5 DEF Linked, v
<1>6. AllNoticed(pane', v)
  <2> SUFFICES ASSUME NEW p \in Paths, ~(Excused(p)'), IsOpen(pane', p), p \notin pane'.unseen
               PROVE  Noticed(pane', v, p)
    BY <1>1 DEF AllNoticed, Noticed
  <2>1. ~disk'[p].mine /\ p \notin ghost'.torn /\ disk'[p].text # ghost'.kept[p]
    BY DEF Excused
  <2>2. disk'[p] = disk[p] /\ p \notin ghost.torn
    BY <1>3, <2>1
  <2>3. CASE Conflict(pane, p)
    <3>1. pane'.ask = pane.ask
      BY <1>3, <2>1, <2>2, <2>3 DEF Conflict
    <3> QED
      BY <2>3, <3>1 DEF Noticed, Conflict
  <2>4. CASE ~Conflict(pane, p)
    <3>1. ghost'.kept[p] = ghost.kept[p]
      BY <1>3, <2>4 DEF Conflict
    <3>2. ~Excused(p)
      BY <2>1, <2>2, <3>1 DEF Excused
    <3>3. Noticed(pane', w, p)
      BY <1>2, <1>4, <2>2, <2>4, <3>2 DEF AllNoticed, w
    <3> QED
      BY <1>1, <3>3 DEF Noticed, UpToDate, HasModel
  <2> QED
    BY <2>3, <2>4
<1> QED
  BY <1>5, <1>6 DEF v

\* The same, when nothing is opened and nothing else is excused.
LEMMA EndOfPlainStep ==
    ASSUME Watch, Clock \in Nat, Clock' \in Nat, Clock <= Clock',
           Fine(pane', During(page', disk', {}, {}))
    PROVE  Linked(pane, Now)' /\ AllNoticed(pane, Now)'
BY EndOfStep

\* The handler's world, seen from the state in which it starts.
LEMMA StartOfStep ==
    ASSUME IInv, NEW files, \A p \in Paths : disk[p].past \subseteq files[p].past, NEW open, NEW set
    PROVE  Deciding(pane, During(page, files, open, set))
<1> DEFINE w == During(page, files, open, set)
           v == Now
<1>1. /\ w.page = page /\ w.disk = files /\ w.orphans = ghost.orphans /\ w.known = Known \cup open
      /\ v.page = page /\ v.disk = disk /\ v.orphans = ghost.orphans /\ v.known = Known
      /\ v.excused = {p \in Paths : Excused(p)}
      /\ w.excused = {p \in Paths : Excused(p) \/ Conflict(pane, p) \/ files[p] # disk[p] \/ p \in set}
  BY DEF During, Now
<1>2. Linked(pane, v) /\ AllNoticed(pane, v)
  BY DEF IInv
<1> HIDE DEF w, v
<1>3. Linked(pane, w)
  <2>1. Typed(pane) /\ IdsDiffer(pane)
    BY <1>2 DEF Linked
  <2>2. DownIsEmpty(pane, w) /\ Follows(pane, w)
    BY <1>1, <1>2 DEF Linked, DownIsEmpty, Follows, HasModel
  <2>3. \A i \in DOMAIN pane.toPage : pane.toPage[i].path \in Paths
    <3> SUFFICES ASSUME NEW i \in DOMAIN pane.toPage
                 PROVE  pane.toPage[i].path \in Paths
      OBVIOUS
    <3>1. pane.toPage[i] \in Command
      BY <2>1 DEF Typed, PaneType
    <3> QED
      BY <3>1, CommandFields
  <2>4. FromDisk(pane, w)
    BY <1>1, <1>2, <2>3 DEF Linked, FromDisk
  <2>5. MarksAreTrue(pane, w)
    BY <1>1, <1>2, <2>3 DEF Linked, MarksAreTrue, Wrote
  <2>6. ReadsItsTab(pane, w)
    BY <1>1, <1>2 DEF Linked, ReadsItsTab, Trusted, HasRead
  <2>7. SavesAreKnown(pane, w)
    BY <1>1, <1>2 DEF Linked, SavesAreKnown
  <2> QED
    BY <2>1, <2>2, <2>4, <2>5, <2>6, <2>7 DEF Linked
<1>4. AllNoticed(pane, w)
  <2> SUFFICES ASSUME NEW p \in Paths \ w.excused
               PROVE  Noticed(pane, w, p)
    BY DEF AllNoticed
  <2>1. Noticed(pane, v, p) /\ files[p] = disk[p]
    BY <1>1, <1>2 DEF AllNoticed
  <2> QED
    BY <1>1, <2>1 DEF Noticed, UpToDate, HasModel
<1>5. Deciding(pane, w)
  BY <1>1, <1>3, <1>4 DEF Deciding
<1> QED
  BY <1>5 DEF w

\* The page and the files stay as they are, and nothing is typed or written.
LEMMA WorldStays ==
    ASSUME IInv, Watch, UNCHANGED <<page, disk>>, count' \in Counts, count'.edits = count.edits,
           count'.writes = count.writes, Troubles' <= MaxTroubles
    PROVE  FilesTyped' /\ CountsTyped' /\ PageTyped' /\ SavedIsOnDisk'
<1>1. FilesTyped' /\ CountsTyped' /\ PageTyped'
  <2>0. FilesTyped /\ CountsTyped /\ PageTyped /\ page' = page /\ disk' = disk
    BY DEF IInv
  <2>1. CountsTyped'
    BY <2>0 DEF CountsTyped
  <2>2. Clock' = Clock
    BY DEF Clock
  <2>3. Past' = Past
    BY <2>2 DEF Past
  <2>4. File' = File /\ Model' = Model
    BY <2>3 DEF File, Model
  <2>5. FilesTyped'
    BY <2>0, <2>4 DEF FilesTyped
  <2>6. PageTyped'
    BY <2>0, <2>4 DEF PageTyped
  <2> QED
    BY <2>1, <2>5, <2>6
<1>2. ghost.orphans \subseteq ghost'.orphans
  BY DEF Watch
<1>3. SavedIsOnDisk'
  BY <1>2 DEF IInv, SavedIsOnDisk
<1> QED
  BY <1>1, <1>3

\* A step of the pane alone.
LEMMA PaneStep ==
    ASSUME IInv, Watch, UNCHANGED <<page, disk>>, count' \in Counts, count'.edits = count.edits,
           count'.writes = count.writes, Troubles' <= MaxTroubles,
           NEW set, Fine(pane', During(page, disk, {}, set)),
           \A p \in set : Noticed(pane', During(page, disk, {}, set), p)
    PROVE  IInv'
<1>0. Clock \in Nat /\ Clock' \in Nat /\ Clock <= Clock'
  BY DEF IInv, CountsTyped, Counts, Clock
<1>1. Linked(pane, Now)' /\ AllNoticed(pane, Now)'
  <2>1. Fine(pane', During(page', disk', {}, set))
    OBVIOUS
  <2>2. \A p \in set : Noticed(pane', During(page', disk', {}, set), p)
    OBVIOUS
  <2> QED
    BY <1>0, <2>1, <2>2, EndOfStep
<1>2. FilesTyped' /\ CountsTyped' /\ PageTyped' /\ SavedIsOnDisk'
  BY WorldStays
<1> QED
  BY <1>1, <1>2 DEF IInv

\* The user asks for something, or not.
LEMMA RequestCounts ==
    ASSUME CountsTyped, Request \/ UNCHANGED count
    PROVE  /\ count' \in Counts /\ count'.edits = count.edits /\ count'.writes = count.writes
           /\ Troubles' <= MaxTroubles
<1>1. count \in Counts /\ Troubles <= MaxTroubles
  BY DEF CountsTyped
<1>2. /\ count' \in Counts /\ count'.edits = count.edits /\ count'.writes = count.writes
      /\ count'.faults = count.faults
  <2>1. CASE Request
    <3> DEFINE n == count.requests + 1
    <3>1. n \in Nat /\ count' = [count EXCEPT !.requests = n]
      BY <1>1, <2>1 DEF Request, Counts
    <3> HIDE DEF n
    <3> QED
      BY <1>1, <3>1 DEF Counts
  <2>2. CASE UNCHANGED count
    BY <1>1, <2>2
  <2> QED
    BY <2>1, <2>2
<1> QED
  BY <1>1, <1>2 DEF Troubles

\* A question fewer waits, or an answer fewer is under way; a change that only an answer would
\* have told of is excused.
LEMMA LessWaits ==
    ASSUME NEW s, NEW t, NEW w, Deciding(s, w), t \in PaneType, t.tabs = s.tabs, t.unseen = s.unseen,
           t.toPage = s.toPage, t.posts = s.posts, t.ask = s.ask, t.life = s.life,
           t.needsModelRestore = s.needsModelRestore, t.waiting \subseteq s.waiting,
           t.replies = s.replies \/ (s.replies # <<>> /\ t.replies = Tail(s.replies)),
           \A q \in s.waiting \ t.waiting : q.why = "check" => q.path \in w.excused
    PROVE  Deciding(t, w)
<1>1. \A x : IsOpen(t, x) <=> IsOpen(s, x)
  BY DEF IsOpen
<1>2. Typed(t)
  <2>1. IsFiniteSet(t.waiting)
    BY FS_Subset DEF Deciding, Linked, Typed
  <2> QED
    BY <1>1, <2>1 DEF Deciding, Linked, Typed, TabsDiffer
<1>3. \A i \in DOMAIN t.replies : \E j \in DOMAIN s.replies : t.replies[i] = s.replies[j]
  <2>1. s.replies \in Seq(Content \cup Clean)
    BY DEF Deciding, Linked, Typed, PaneType
  <2>2. CASE s.replies # <<>> /\ t.replies = Tail(s.replies)
    <3> SUFFICES ASSUME NEW i \in DOMAIN t.replies
                 PROVE  \E j \in DOMAIN s.replies : t.replies[i] = s.replies[j]
      OBVIOUS
    <3>1. i + 1 \in DOMAIN s.replies /\ t.replies[i] = s.replies[i + 1]
      BY <2>1, <2>2
    <3> QED
      BY <3>1
  <2> QED
    BY <2>2
<1>4. DownIsEmpty(t, w)
  <2>1. s.life = "loading" => t.replies = <<>>
    BY DEF Deciding, Linked, DownIsEmpty
  <2> QED
    BY <2>1 DEF Deciding, Linked, DownIsEmpty, Down
<1>5. IdsDiffer(t)
  <2>1. IdsDiffer(s)
    BY DEF Deciding, Linked
  <2>2. \A q, r \in t.waiting : Same(q, r) => q = r
    BY <2>1 DEF IdsDiffer
  <2>3. \A i \in DOMAIN t.toPage : \A q \in t.waiting :
            Asks(t.toPage[i]) /\ Same(t.toPage[i], q) => t.toPage[i].op = q.op
    BY <2>1 DEF IdsDiffer
  <2>4. \A i \in DOMAIN t.replies : \A q \in t.waiting :
            Answers(t.replies[i], q) => t.replies[i] \in IF q.op = "content" THEN Content ELSE Clean
    BY <1>3, <2>1 DEF IdsDiffer
  <2> QED
    BY <2>2, <2>3, <2>4 DEF IdsDiffer
<1>6. Follows(t, w)
  BY <1>1 DEF Deciding, Linked, Follows, HasModel, Rebuilding
<1>7. FromDisk(t, w) /\ MarksAreTrue(t, w)
  BY DEF Deciding, Linked, FromDisk, MarksAreTrue
<1>8. ReadsItsTab(t, w)
  <2> SUFFICES ASSUME NEW q \in t.waiting, Trusted(t, w, q)
               PROVE  WillRead(t, q) /\ HasRead(t, w, q)
    BY DEF ReadsItsTab
  <2>1. Trusted(s, w, q)
    BY <1>1 DEF Trusted
  <2>2. WillRead(s, q) /\ HasRead(s, w, q)
    BY <2>1 DEF Deciding, Linked, ReadsItsTab
  <2>3. HasRead(t, w, q)
    BY <1>3, <2>2 DEF HasRead
  <2> QED
    BY <2>2, <2>3 DEF WillRead
<1>9. SavesAreKnown(t, w)
  BY <1>1 DEF Deciding, Linked, SavesAreKnown
<1>10. Linked(t, w)
  BY <1>2, <1>4, <1>5, <1>6, <1>7, <1>8, <1>9 DEF Linked
<1>11. AllNoticed(t, w)
  <2> SUFFICES ASSUME NEW p \in Paths \ w.excused
               PROVE  Noticed(t, w, p)
    BY DEF AllNoticed
  <2>1. Noticed(s, w, p)
    BY DEF Deciding, AllNoticed
  <2>2. Checked(s, p) => Checked(t, p)
    BY DEF Checked
  <2> QED
    BY <1>1, <2>1, <2>2 DEF Noticed, Conflict, UpToDate, Rebuilding, HasModel
<1> QED
  BY <1>10, <1>11 DEF Deciding, Conflict

-----------------------------------------------------------------------------
(* Answers.                                                                    *)

\* A question is answered, by the page or for it.
LEMMA AnsweredDecides ==
    ASSUME IInv, NEW q \in pane.waiting, NEW t, NEW files, \A p \in Paths : disk[p].past \subseteq files[p].past,
           NEW set, q.why = "check" => q.path \in set,
           \/ t = Answered(q)
           \/ pane.replies # <<>> /\ t = [Answered(q) EXCEPT !.replies = Tail(pane.replies)]
    PROVE  /\ Deciding(t, During(page, files, {}, set)) /\ t.life = pane.life /\ t.toPage = pane.toPage
           /\ q \in Questions
<1> DEFINE w == During(page, files, {}, set)
           waiting == pane.waiting \ {q}
           r == Answered(q)
<1>1. Deciding(pane, w)
  BY StartOfStep
<1>2. pane \in PaneType /\ q \in Questions
  BY <1>1 DEF Deciding, Linked, Typed, PaneType
<1>3. r = [pane EXCEPT !.waiting = waiting]
  BY <1>2 DEF Answered, PaneType
<1> HIDE DEF r
<1>4. r \in PaneType /\ r.waiting = waiting
  BY <1>2, <1>3 DEF PaneType
<1>5. /\ r.tabs = pane.tabs /\ r.unseen = pane.unseen /\ r.toPage = pane.toPage /\ r.posts = pane.posts
      /\ r.ask = pane.ask /\ r.life = pane.life /\ r.needsModelRestore = pane.needsModelRestore
      /\ r.replies = pane.replies
  BY <1>2, <1>3 DEF PaneType
<1>6. /\ t \in PaneType /\ t.waiting = waiting
      /\ t.tabs = pane.tabs /\ t.unseen = pane.unseen /\ t.toPage = pane.toPage /\ t.posts = pane.posts
      /\ t.ask = pane.ask /\ t.life = pane.life /\ t.needsModelRestore = pane.needsModelRestore
      /\ t.replies = pane.replies \/ (pane.replies # <<>> /\ t.replies = Tail(pane.replies))
  <2>1. CASE t = r
    BY <1>4, <1>5, <2>1
  <2>2. CASE pane.replies # <<>> /\ t = [r EXCEPT !.replies = Tail(pane.replies)]
    <3> DEFINE rest == Tail(pane.replies)
    <3>1. rest \in Seq(Content \cup Clean)
      BY <1>2, <2>2 DEF PaneType
    <3> HIDE DEF rest
    <3>2. t = [r EXCEPT !.replies = rest]
      BY <2>2 DEF rest
    <3>3. t \in PaneType /\ t.replies = rest
      BY <1>4, <3>1, <3>2 DEF PaneType
    <3>4. /\ t.tabs = r.tabs /\ t.unseen = r.unseen /\ t.toPage = r.toPage /\ t.posts = r.posts
          /\ t.ask = r.ask /\ t.life = r.life /\ t.needsModelRestore = r.needsModelRestore
          /\ t.waiting = r.waiting
      BY <1>4, <3>2 DEF PaneType
    <3> QED
      BY <1>4, <1>5, <2>2, <3>3, <3>4 DEF rest
  <2> QED
    BY <2>1, <2>2 DEF r
<1>7. \A x \in pane.waiting \ t.waiting : x.why = "check" => x.path \in w.excused
  <2>1. \A x \in pane.waiting \ t.waiting : x = q
    BY <1>6
  <2>2. q.path \in set => q.path \in w.excused
    BY <1>2, CleanFields DEF During
  <2> QED
    BY <2>1, <2>2
<1>8. t.waiting \subseteq pane.waiting
  BY <1>6
<1> HIDE DEF w, waiting
<1>9. Deciding(t, w)
  BY <1>1, <1>6, <1>7, <1>8, LessWaits
<1> QED
  BY <1>2, <1>6, <1>9 DEF w

\* What the answer at the head says.
LEMMA AnswerAtHead ==
    ASSUME IInv, NEW q \in Asker
    PROVE  /\ q \in pane.waiting /\ pane.replies # <<>> /\ pane.life # "loading"
           /\ Head(pane.replies) \in IF q.op = "content" THEN Content ELSE Clean
           /\ Trusted(pane, Now, q) /\ pane.life # "crashed" /\ ~Head(pane.replies).none =>
                  /\ Wrote(page[q.path], Head(pane.replies).version, {Head(pane.replies).text})
                  /\ NoClose(pane.toPage, q.path, 1, Len(pane.toPage))
<1>1. q \in pane.waiting /\ pane.replies # <<>> /\ Answers(Head(pane.replies), q)
  BY DEF Asker
<1>2. Linked(pane, Now) /\ pane.replies \in Seq(Content \cup Clean)
  BY DEF IInv, Linked, Typed, PaneType
<1>3. 1 \in DOMAIN pane.replies /\ Head(pane.replies) = pane.replies[1]
  BY <1>1, <1>2
<1>4. pane.life # "loading"
  BY <1>1, <1>2 DEF Linked, DownIsEmpty
<1>5. Head(pane.replies) \in IF q.op = "content" THEN Content ELSE Clean
  BY <1>1, <1>2, <1>3 DEF Linked, IdsDiffer
<1>6. ASSUME Trusted(pane, Now, q), pane.life # "crashed", ~Head(pane.replies).none
      PROVE  /\ Wrote(page[q.path], Head(pane.replies).version, {Head(pane.replies).text})
             /\ NoClose(pane.toPage, q.path, 1, Len(pane.toPage))
  <2>1. HasRead(pane, Now, q) /\ Now.page = page
    BY <1>1, <1>2, <1>6 DEF Linked, ReadsItsTab, Now
  <2> QED
    BY <1>1, <1>3, <1>6, <2>1 DEF HasRead
<1> QED
  BY <1>1, <1>4, <1>5, <1>6

\* AnswerClean
LEMMA AnswerCleanStep ==
    ASSUME IInv, AnswerClean
    PROVE  IInv'
<1> PICK q \in Asker :
        /\ q.op = "clean"
        /\ LET r == Head(pane.replies)
           IN pane' = OnClean([Answered(q) EXCEPT !.replies = Tail(@)], q, r.clean, r.at)
        /\ UNCHANGED <<page, disk, count>> /\ Watch
  BY DEF AnswerClean
<1> DEFINE r == Head(pane.replies)
           set == IF q.why = "check" THEN {q.path} ELSE {}
           w == During(page, disk, {}, set)
           s == [Answered(q) EXCEPT !.replies = Tail(pane.replies)]
<1>1. q \in pane.waiting /\ pane.replies # <<>> /\ r \in Clean
  BY AnswerAtHead
<1>2. Answered(q).replies = pane.replies
  BY DEF Answered, IInv, Linked, Typed, PaneType
<1>3. pane' = OnClean(s, q, r.clean, r.at)
  BY <1>2
<1>4. r.clean \in BOOLEAN /\ r.at \in Nat
  BY <1>1 DEF Clean
<1>5. Deciding(s, w) /\ q \in Questions
  BY <1>1, AnsweredDecides
<1>6. w.disk = disk /\ FilesTyped /\ CountsTyped
  BY DEF During, IInv
<1> HIDE DEF r, s, w
<1>7. Fine(pane', w) /\ (q.why = "check" => Noticed(pane', w, q.path))
  BY <1>3, <1>4, <1>5, <1>6, OnCleanIsFine
<1>8. \A p \in set : Noticed(pane', w, p)
  BY <1>7
<1> HIDE DEF set
<1>9. count' \in Counts /\ count'.edits = count.edits /\ count'.writes = count.writes /\ Troubles' <= MaxTroubles
  BY <1>6, RequestCounts
<1> QED
  BY <1>7, <1>8, <1>9, PaneStep DEF w

\* A save fails.
LEMMA SaveFailedStep ==
    ASSUME IInv, NEW q \in pane.waiting, q.op = "content", NEW t,
           \/ t = Answered(q)
           \/ pane.replies # <<>> /\ t = [Answered(q) EXCEPT !.replies = Tail(pane.replies)],
           pane' = SaveFailed(t, q.why), UNCHANGED <<page, disk, count>>, Watch
    PROVE  IInv'
<1> DEFINE w == During(page, disk, {}, {})
<1>1. q.why # "check"
  BY CleanFields DEF IInv, Linked, Typed, PaneType
<1>2. Deciding(t, w)
  BY <1>1, AnsweredDecides
<1>3. Fine(pane', w)
  BY <1>2, SaveFailedIsFine
<1>4. count' \in Counts /\ count'.edits = count.edits /\ count'.writes = count.writes /\ Troubles' <= MaxTroubles
  BY RequestCounts DEF IInv
<1> QED
  BY <1>3, <1>4, PaneStep

\* WriteFails
LEMMA WriteFailsStep ==
    ASSUME IInv, WriteFails
    PROVE  IInv'
<1> PICK q \in Asker :
        /\ q.op = "content"
        /\ pane' = SaveFailed([Answered(q) EXCEPT !.replies = Tail(@)], q.why)
        /\ UNCHANGED <<page, disk, count>> /\ Watch
  BY DEF WriteFails
<1>1. Answered(q).replies = pane.replies
  BY DEF Answered, IInv, Linked, Typed, PaneType
<1> QED
  BY <1>1, AnswerAtHead, SaveFailedStep

\* LateAnswer
LEMMA LateAnswerStep ==
    ASSUME IInv, LateAnswer
    PROVE  IInv'
<1> DEFINE w == During(page, disk, {}, {})
           rest == Tail(pane.replies)
<1>1. Deciding(pane, w) /\ pane \in PaneType
  BY StartOfStep DEF IInv, Linked, Typed
<1>2. pane' = [pane EXCEPT !.replies = rest] /\ pane.replies # <<>> /\ UNCHANGED <<page, disk, count>> /\ Watch
  BY DEF LateAnswer
<1>3. rest \in Seq(Content \cup Clean)
  BY <1>1, <1>2 DEF PaneType
<1> HIDE DEF w, rest
<1>4. pane' \in PaneType /\ pane'.replies = rest
  BY <1>1, <1>2, <1>3 DEF PaneType
<1>5. /\ pane'.tabs = pane.tabs /\ pane'.unseen = pane.unseen /\ pane'.toPage = pane.toPage
      /\ pane'.posts = pane.posts /\ pane'.ask = pane.ask /\ pane'.life = pane.life
      /\ pane'.needsModelRestore = pane.needsModelRestore /\ pane'.waiting = pane.waiting
  BY <1>1, <1>2 DEF PaneType
<1>6. Deciding(pane', w)
  BY <1>1, <1>2, <1>4, <1>5, LessWaits DEF rest
<1>7. count' \in Counts /\ count'.edits = count.edits /\ count'.writes = count.writes /\ Troubles' <= MaxTroubles
  BY <1>2, RequestCounts DEF IInv
<1> QED
  BY <1>2, <1>6, <1>7, PaneStep DEF w, Deciding, Fine

\* Fallback
LEMMA FallbackStep ==
    ASSUME IInv, Fallback
    PROVE  IInv'
<1> PICK q \in pane.waiting :
        /\ pane' = IF q.op = "clean" THEN OnClean(Answered(q), q, FALSE, 0) ELSE SaveFailed(Answered(q), q.why)
        /\ UNCHANGED <<page, disk, count>> /\ Watch
  BY DEF Fallback
<1> DEFINE set == IF q.why = "check" THEN {q.path} ELSE {}
           w == During(page, disk, {}, set)
           s == Answered(q)
<1>1. Deciding(s, w) /\ q \in Questions
  BY AnsweredDecides
<1>2. q.op \in {"content", "clean"}
  BY <1>1 DEF Questions
<1>3. CASE q.op = "content"
  BY <1>3, SaveFailedStep
<1>4. CASE q.op = "clean"
  <2>1. pane' = OnClean(s, q, FALSE, 0)
    BY <1>4
  <2>2. w.disk = disk /\ FilesTyped /\ CountsTyped
    BY DEF During, IInv
  <2> HIDE DEF s, w
  <2>3. Fine(pane', w) /\ (q.why = "check" => Noticed(pane', w, q.path))
    BY <1>1, <1>4, <2>1, <2>2, OnCleanIsFine
  <2>4. \A p \in set : Noticed(pane', w, p)
    BY <2>3
  <2> HIDE DEF set
  <2>5. count' \in Counts /\ count'.edits = count.edits /\ count'.writes = count.writes /\ Troubles' <= MaxTroubles
    BY <2>2, RequestCounts
  <2> QED
    BY <2>3, <2>4, <2>5, PaneStep DEF w
<1> QED
  BY <1>2, <1>3, <1>4

-----------------------------------------------------------------------------
(* Steps that write a file.                                                    *)

\* A file is written, and perhaps an agent writes it after that.
LEMMA FileIsWritten ==
    ASSUME IInv, NEW p \in Paths, NEW f \in File, NEW opens \in Nat, Torn(p, f, opens),
           f.text \in f.past, disk[p].past \subseteq f.past
    PROVE  /\ FilesTyped' /\ CountsTyped'
           /\ Clock \in Nat /\ Clock' \in Nat /\ Clock <= Clock'
           /\ \A x \in Paths : disk[x].past \subseteq disk'[x].past
           /\ \A x \in Paths \ {p} : disk'[x] = disk[x]
           /\ f.past \subseteq disk'[p].past
           /\ disk'[p] = f \/ disk'[p] # disk[p]
<1>1. FilesTyped /\ CountsTyped
  BY DEF IInv
<1>2. count \in Counts /\ count.edits <= MaxEdits /\ Troubles <= MaxTroubles /\ disk \in [Paths -> File]
  BY <1>1 DEF CountsTyped, FilesTyped
<1>3. Clock \in Nat
  BY <1>2 DEF Counts, Clock
<1>4. PICK g, n : /\ disk' = [disk EXCEPT ![p] = g]
                  /\ count' = [count EXCEPT !.opens = opens, !.writes = n]
                  /\ \/ g = f /\ n = count.writes
                     \/ g = Written(f, Clock + 1, FALSE) /\ n = count.writes + 1 /\ Troubles < MaxTroubles
  <2>1. CASE disk' = [disk EXCEPT ![p] = f] /\ count' = [count EXCEPT !.opens = opens]
    <3>1. count' = [count EXCEPT !.opens = opens, !.writes = count.writes]
      BY <1>2, <2>1 DEF Counts
    <3> QED
      BY <2>1, <3>1
  <2>2. CASE /\ Troubles < MaxTroubles
             /\ disk' = [disk EXCEPT ![p] = Written(f, Clock + 1, FALSE)]
             /\ count' = [count EXCEPT !.opens = opens, !.writes = @ + 1]
    BY <2>2
  <2> QED
    BY <2>1, <2>2 DEF Torn
<1>5. n \in Nat /\ count.writes <= n /\ n + count.faults <= MaxTroubles
  <2>1. count.writes \in Nat /\ count.faults \in Nat /\ MaxTroubles \in Nat
    BY <1>2, BoundsAssumption DEF Counts
  <2>2. n = count.writes \/ (n = count.writes + 1 /\ Troubles < MaxTroubles)
    BY <1>4
  <2> QED
    BY <1>2, <2>1, <2>2 DEF Troubles
<1>6. /\ count' \in Counts /\ count'.edits = count.edits /\ count'.writes = n /\ count'.faults = count.faults
  BY <1>2, <1>4, <1>5 DEF Counts
<1>7. Clock' = count.edits + n /\ Clock' \in Nat /\ Clock <= Clock'
  BY <1>2, <1>5, <1>6 DEF Counts, Clock
<1>8. CountsTyped'
  <2>1. Troubles' = n + count.faults
    BY <1>6 DEF Troubles
  <2> QED
    BY <1>2, <1>5, <1>6, <2>1 DEF CountsTyped
<1>9. Past \subseteq Past' /\ File \subseteq File'
  BY <1>3, <1>7, TypesGrow
<1>10. g \in File' /\ g.text \in g.past /\ f.past \subseteq g.past
  <2>1. CASE g = f
    BY <1>9, <2>1
  <2>2. CASE g = Written(f, Clock + 1, FALSE) /\ n = count.writes + 1
    <3>1. Clock' = Clock + 1
      BY <1>2, <1>7, <2>2 DEF Counts, Clock
    <3>2. Clock + 1 \in Past'
      BY <1>3, <3>1 DEF Past
    <3>3. f.past \cup {Clock + 1} \subseteq Past'
      BY <1>9, <3>2 DEF File
    <3> QED
      BY <2>2, <3>2, <3>3 DEF Written, File
  <2> QED
    BY <1>4, <2>1, <2>2
<1>11. disk' \in [Paths -> File'] /\ disk'[p] = g /\ \A x \in Paths \ {p} : disk'[x] = disk[x]
  BY <1>2, <1>4, <1>9, <1>10
<1>12. FilesTyped'
  <2>1. \A x \in Paths : disk'[x].text \in disk'[x].past
    BY <1>1, <1>10, <1>11 DEF FilesTyped
  <2> QED
    BY <1>11, <2>1 DEF FilesTyped
<1>13. g = f \/ g # disk[p]
  <2>1. disk[p].text \in Past
    BY <1>2 DEF File
  <2>2. disk[p].text # Clock + 1
    BY <1>3, <2>1 DEF Past
  <2>3. Written(f, Clock + 1, FALSE).text = Clock + 1
    BY DEF Written
  <2> QED
    BY <1>4, <2>2, <2>3
<1>14. \A x \in Paths : disk[x].past \subseteq disk'[x].past
  BY <1>10, <1>11
<1> QED
  BY <1>3, <1>7, <1>8, <1>10, <1>11, <1>12, <1>13, <1>14

\* The page stays while files grow.
LEMMA PageStays ==
    ASSUME IInv, Watch, page' = page, Clock \in Nat, Clock' \in Nat, Clock <= Clock',
           \A x \in Paths : disk[x].past \subseteq disk'[x].past
    PROVE  PageTyped' /\ SavedIsOnDisk'
<1>1. PageTyped'
  <2>1. Model \subseteq Model'
    BY TypesGrow
  <2> QED
    BY <2>1 DEF IInv, PageTyped
<1>2. ghost.orphans \subseteq ghost'.orphans
  BY DEF Watch
<1>3. SavedIsOnDisk'
  BY <1>2 DEF IInv, SavedIsOnDisk
<1> QED
  BY <1>1, <1>3

\* AnswerContent
LEMMA AnswerContentStep ==
    ASSUME IInv, AnswerContent
    PROVE  IInv'
<1> DEFINE r == Head(pane.replies)
           S(q) == [Answered(q) EXCEPT !.replies = Tail(pane.replies)]
<1>1. PICK q \in Asker :
        /\ q.op = "content"
        /\ IF ~IsOpen(S(q), q.path) \/ r.none
           THEN pane' = SaveFailed(S(q), q.why) /\ UNCHANGED <<disk, count>>
           ELSE pane' = OnSaved(S(q), q, r.version) /\ Torn(q.path, Written(disk[q.path], r.text, TRUE), count.opens)
        /\ UNCHANGED page /\ Watch
  <2>1. PICK q \in Asker :
        /\ q.op = "content"
        /\ LET s == [Answered(q) EXCEPT !.replies = Tail(@)]
           IN IF ~IsOpen(s, q.path) \/ r.none
              THEN pane' = SaveFailed(s, q.why) /\ UNCHANGED <<disk, count>>
              ELSE pane' = OnSaved(s, q, r.version) /\ Torn(q.path, Written(disk[q.path], r.text, TRUE), count.opens)
        /\ UNCHANGED page /\ Watch
    BY DEF AnswerContent
  <2>2. Answered(q).replies = pane.replies
    BY DEF Answered, IInv, Linked, Typed, PaneType
  <2> QED
    BY <2>1, <2>2
<1> DEFINE s == S(q)
           p == q.path
           w == During(page, disk', {}, {})
<1>2. /\ q \in pane.waiting /\ pane.replies # <<>> /\ pane.life # "loading" /\ r \in Content
      /\ Trusted(pane, Now, q) /\ pane.life # "crashed" /\ ~r.none =>
             /\ Wrote(page[p], r.version, {r.text})
             /\ NoClose(pane.toPage, p, 1, Len(pane.toPage))
  BY <1>1, AnswerAtHead
<1>3. CASE ~IsOpen(s, p) \/ r.none
  <2>1. pane' = SaveFailed(s, q.why) /\ UNCHANGED <<page, disk, count>> /\ Watch
    BY <1>1, <1>3
  <2> QED
    BY <1>1, <1>2, <2>1, SaveFailedStep
<1>4. CASE IsOpen(s, p) /\ ~r.none
  <2> DEFINE f == Written(disk[p], r.text, TRUE)
  <2>1. pane' = OnSaved(s, q, r.version) /\ Torn(p, f, count.opens) /\ page' = page /\ Watch
    BY <1>1, <1>4
  <2>2. q.why # "check" /\ p \in Paths /\ q \in Questions /\ pane \in PaneType
    BY <1>1, <1>2, CleanFields DEF IInv, Linked, Typed, PaneType
  <2>3. count.opens \in Nat /\ r.text \in Past /\ r.version \in Nat
    BY <1>2 DEF IInv, CountsTyped, Counts, Content
  <2>4. f \in File /\ f.text \in f.past /\ disk[p].past \subseteq f.past /\ f.mine /\ r.text \in f.past
    BY <2>2, <2>3 DEF IInv, FilesTyped, File, Written
  <2> HIDE DEF f, r
  <2>5. /\ FilesTyped' /\ CountsTyped'
        /\ Clock \in Nat /\ Clock' \in Nat /\ Clock <= Clock'
        /\ \A x \in Paths : disk[x].past \subseteq disk'[x].past
        /\ f.past \subseteq disk'[p].past
        /\ disk'[p] = f \/ disk'[p] # disk[p]
    BY <2>1, <2>2, <2>3, <2>4, FileIsWritten
  <2>6. Deciding(s, w) /\ s.life = pane.life /\ s.toPage = pane.toPage
    BY <1>2, <2>2, <2>5, AnsweredDecides
  <2>7. p \in w.excused
    <3>1. disk'[p] = disk[p] => Excused(p)
      BY <2>4, <2>5 DEF Excused
    <3> QED
      BY <2>2, <3>1 DEF During
  <2>8. ASSUME p \notin w.orphans, s.life # "crashed"
        PROVE  Wrote(w.page[p], r.version, w.disk[p].past) /\ NoClose(s.toPage, p, 1, Len(s.toPage))
    <3>1. IsOpen(pane, p)
      BY <1>4, <2>2 DEF Answered, PaneType, IsOpen
    <3>2. Trusted(pane, Now, q)
      BY <1>1, <2>8, <3>1 DEF Trusted, Now, During
    <3>3. Wrote(page[p], r.version, {r.text}) /\ NoClose(pane.toPage, p, 1, Len(pane.toPage))
      BY <1>2, <1>4, <2>6, <2>8, <3>2
    <3>4. w.page = page /\ w.disk = disk'
      BY DEF During
    <3> QED
      BY <2>4, <2>5, <2>6, <3>3, <3>4 DEF Wrote
  <2> HIDE DEF s, w
  <2>9. Fine(pane', w)
    <3>1. CountsTyped /\ s.life # "loading"
      BY <1>2, <2>6 DEF IInv
    <3> QED
      BY <1>1, <2>1, <2>2, <2>3, <2>6, <2>7, <2>8, <3>1, OnSavedIsFine
  <2>10. Fine(pane', During(page', disk', {}, {}))
    BY <2>1, <2>9 DEF w
  <2>11. Linked(pane, Now)' /\ AllNoticed(pane, Now)'
    BY <2>1, <2>5, <2>10, EndOfStep
  <2>12. PageTyped' /\ SavedIsOnDisk'
    BY <2>1, <2>5, PageStays
  <2> QED
    BY <2>5, <2>11, <2>12 DEF IInv
<1> QED
  BY <1>3, <1>4

-----------------------------------------------------------------------------
(* Steps of the pane that only it can see.                                     *)

Alone == During(page, disk, {}, {})

\* Where they start.
LEMMA AloneStarts ==
    ASSUME IInv
    PROVE  /\ Deciding(pane, Alone) /\ pane \in PaneType /\ Alone.disk = disk
           /\ CountsTyped /\ FilesTyped
<1>1. Deciding(pane, Alone)
  BY StartOfStep DEF Alone
<1> QED
  BY <1>1 DEF IInv, Linked, Typed, Alone, During

\* Where they end.
LEMMA AloneEnds ==
    ASSUME IInv, Watch, UNCHANGED <<page, disk>>, Request \/ UNCHANGED count, Fine(pane', Alone)
    PROVE  IInv'
<1>1. count' \in Counts /\ count'.edits = count.edits /\ count'.writes = count.writes /\ Troubles' <= MaxTroubles
  BY RequestCounts DEF IInv
<1> QED
  BY <1>1, PaneStep DEF Alone

\* What the page posts does not concern its models.
LEMMA PostsDecide ==
    ASSUME NEW s, NEW t, NEW w, Deciding(s, w), s.life # "loading", NEW posts \in Seq(Message),
           t = [s EXCEPT !.posts = posts]
    PROVE  /\ Deciding(t, w) /\ SameCard(s, t) /\ t.tabs = s.tabs /\ t.posts = posts
           /\ t \in PaneType
<1>1. s \in PaneType /\ Typed(s)
  BY DEF Deciding, Linked, Typed
<1>2. t \in PaneType /\ t.posts = posts
  BY <1>1 DEF PaneType
<1>3. /\ t.tabs = s.tabs /\ t.unseen = s.unseen /\ t.toPage = s.toPage /\ t.waiting = s.waiting
      /\ t.replies = s.replies /\ t.ask = s.ask /\ t.life = s.life
      /\ t.needsModelRestore = s.needsModelRestore
  BY <1>1 DEF PaneType
<1>4. \A x : IsOpen(t, x) <=> IsOpen(s, x)
  BY <1>3 DEF IsOpen
<1>5. Typed(t)
  BY <1>1, <1>2, <1>3, <1>4 DEF Typed, TabsDiffer
<1>6. DownIsEmpty(t, w)
  BY <1>3 DEF Deciding, Linked, DownIsEmpty, Down
<1>7. IdsDiffer(t)
  BY <1>3 DEF Deciding, Linked, IdsDiffer
<1>8. Follows(t, w)
  BY <1>3, <1>4 DEF Deciding, Linked, Follows, HasModel, Rebuilding
<1>9. FromDisk(t, w) /\ MarksAreTrue(t, w)
  BY <1>3 DEF Deciding, Linked, FromDisk, MarksAreTrue
<1>10. ReadsItsTab(t, w) /\ SavesAreKnown(t, w)
  BY <1>3, <1>4 DEF Deciding, Linked, ReadsItsTab, Trusted, WillRead, HasRead, SavesAreKnown
<1>11. Linked(t, w)
  BY <1>5, <1>6, <1>7, <1>8, <1>9, <1>10 DEF Linked
<1>12. AllNoticed(t, w)
  BY <1>3, <1>4 DEF Deciding, AllNoticed, Noticed, Conflict, Checked, UpToDate, Rebuilding, HasModel
<1> QED
  BY <1>2, <1>3, <1>11, <1>12 DEF Deciding, Conflict, SameCard

\* What a post carries.
LEMMA MessageFields ==
    ASSUME NEW m \in Message
    PROVE  /\ m.path \in Paths /\ m.type \in {"dirty", "snapshot", "save"}
           /\ m.type = "dirty" => m.dirty \in BOOLEAN
           /\ m.type = "snapshot" => m.text \in Past
BY DEF Message

\* A post about the flag of a tab: the snapshot of a clean buffer is dropped.
LEMMA DirtyChangedIsFine ==
    ASSUME NEW s, NEW w, Deciding(s, w), NEW p \in Paths, NEW dirty \in BOOLEAN, CountsTyped
    PROVE  Fine(OnDirtyChanged(s, p, dirty), w)
<1> DEFINE t == OnDirtyChanged(s, p, dirty)
           u == SetDirty(s, p, dirty)
<1>1. CASE ~IsOpen(s, p)
  BY <1>1 DEF OnDirtyChanged, Deciding, Fine
<1>2. CASE IsOpen(s, p)
  <2>1. Deciding(u, w)
    BY SetDirtyDecides
  <2>2. t = [u EXCEPT !.snapshots[p] = IF dirty THEN @ ELSE 0]
    BY <1>2 DEF OnDirtyChanged
  <2> HIDE DEF u, t
  <2>3. u \in PaneType /\ 0 \in Past
    BY <2>1, ZeroIsText DEF Deciding, Linked, Typed
  <2> DEFINE snapshots == [u.snapshots EXCEPT ![p] = IF dirty THEN @ ELSE 0]
  <2>4. t = [u EXCEPT !.snapshots = snapshots] /\ snapshots \in [Paths -> Past]
    BY <2>2, <2>3 DEF PaneType
  <2> HIDE DEF snapshots
  <2>5. t \in PaneType
    BY <2>3, <2>4 DEF PaneType
  <2>6. /\ t.tabs = u.tabs /\ t.unseen = u.unseen /\ t.toPage = u.toPage /\ t.waiting = u.waiting
        /\ t.replies = u.replies /\ t.posts = u.posts /\ t.life = u.life
        /\ t.needsModelRestore = u.needsModelRestore
    BY <2>3, <2>4 DEF PaneType
  <2>7. Fine(t, w)
    BY <2>1, <2>5, <2>6, CardDecides
  <2> QED
    BY <2>7 DEF t
<1> QED
  BY <1>1, <1>2

\* DeliverPost
LEMMA DeliverPostStep ==
    ASSUME IInv, DeliverPost
    PROVE  IInv'
<1> DEFINE m == Head(pane.posts)
           rest == Tail(pane.posts)
           s == [pane EXCEPT !.posts = rest]
<1>1. /\ pane.life # "loading" /\ pane.posts # <<>>
      /\ pane' = CASE m.type = "dirty" -> OnDirtyChanged(s, m.path, m.dirty)
                   [] m.type = "snapshot" -> [s EXCEPT !.snapshots[m.path] = m.text]
                   [] m.type = "save" -> IF IsOpen(s, m.path) THEN Save(s, m.path, "save", m.path, <<>>)
                                         ELSE s
      /\ UNCHANGED <<page, disk, count>> /\ Watch
  BY DEF DeliverPost
<1>2. Deciding(pane, Alone) /\ pane \in PaneType /\ CountsTyped
  BY AloneStarts
<1>3. rest \in Seq(Message) /\ m \in Message
  BY <1>1, <1>2 DEF PaneType
<1> HIDE DEF m, rest
<1>4. Deciding(s, Alone) /\ s \in PaneType /\ s.life # "loading"
  BY <1>1, <1>2, <1>3, PostsDecide DEF SameCard
<1> HIDE DEF s
<1>5. CASE m.type = "dirty"
  <2>1. pane' = OnDirtyChanged(s, m.path, m.dirty)
    BY <1>1, <1>5
  <2> QED
    BY <1>1, <1>2, <1>3, <1>4, <1>5, <2>1, MessageFields, DirtyChangedIsFine, AloneEnds
<1>6. CASE m.type = "snapshot"
  <2> DEFINE snapshots == [s.snapshots EXCEPT ![m.path] = m.text]
  <2>1. pane' = [s EXCEPT !.snapshots[m.path] = m.text]
    BY <1>1, <1>6
  <2>2. m.path \in Paths /\ m.text \in Past
    BY <1>3, <1>6, MessageFields
  <2>3. pane' = [s EXCEPT !.snapshots = snapshots] /\ snapshots \in [Paths -> Past]
    BY <1>4, <2>1, <2>2 DEF PaneType
  <2> HIDE DEF snapshots
  <2>4. pane' \in PaneType
    BY <1>4, <2>3 DEF PaneType
  <2>5. /\ pane'.tabs = s.tabs /\ pane'.unseen = s.unseen /\ pane'.toPage = s.toPage
        /\ pane'.waiting = s.waiting /\ pane'.replies = s.replies /\ pane'.posts = s.posts
        /\ pane'.life = s.life /\ pane'.needsModelRestore = s.needsModelRestore
    BY <1>4, <2>3 DEF PaneType
  <2>6. Fine(pane', Alone)
    BY <1>4, <2>4, <2>5, CardDecides
  <2> QED
    BY <1>1, <2>6, AloneEnds
<1>7. CASE m.type = "save"
  <2>1. pane' = IF IsOpen(s, m.path) THEN Save(s, m.path, "save", m.path, <<>>) ELSE s
    BY <1>1, <1>7
  <2>2. m.path \in Paths /\ <<>> \in Seq(Paths) /\ Latest \in Nat /\ "save" \in Reasons("content")
    BY <1>2, <1>3, MessageFields, ClocksAreNumbers DEF Reasons
  <2>3. IsOpen(s, m.path) => Deciding(Save(s, m.path, "save", m.path, <<>>), Alone)
    BY <1>4, <2>2, AskDecides DEF Save
  <2>4. Fine(pane', Alone)
    BY <1>4, <2>1, <2>3 DEF Deciding, Fine
  <2> QED
    BY <1>1, <2>4, AloneEnds
<1> QED
  BY <1>3, <1>5, <1>6, <1>7, MessageFields

\* PinTab
LEMMA PinTabStep ==
    ASSUME IInv, NEW p \in Paths, PinTab(p)
    PROVE  IInv'
<1> DEFINE i == IndexOf(pane, p)
           tab == [pane.tabs[i] EXCEPT !.pinned = TRUE]
           tabs == [pane.tabs EXCEPT ![i] = tab]
<1>1. IsOpen(pane, p) /\ pane' = [pane EXCEPT !.tabs[i].pinned = TRUE] /\ UNCHANGED <<page, disk, count>> /\ Watch
  BY DEF PinTab
<1>2. Deciding(pane, Alone) /\ pane \in PaneType
  BY AloneStarts
<1>3. pane' = [pane EXCEPT !.tabs = tabs]
  BY <1>1
<1> HIDE DEF tabs, tab
<1>4. i \in DOMAIN pane.tabs /\ pane.tabs[i] \in Tab /\ pane.tabs \in Seq(Tab)
  <2>1. i \in DOMAIN pane.tabs
    BY <1>1, <1>2, TabOf
  <2>2. pane.tabs \in Seq(Tab)
    BY <1>2 DEF PaneType
  <2> HIDE DEF i
  <2> QED
    BY <2>1, <2>2
<1> HIDE DEF i
<1> USE DEF tabs, tab
<1>5. tab \in Tab /\ tab.path = pane.tabs[i].path
  BY <1>4 DEF Tab
<1> HIDE DEF tab
<1>6. tabs \in Seq(Tab) /\ DOMAIN tabs = DOMAIN pane.tabs
  BY <1>4, <1>5
<1>7. \A j \in DOMAIN tabs : tabs[j].path = pane.tabs[j].path
  BY <1>4, <1>5
<1> HIDE DEF tabs
<1>8. pane' \in PaneType /\ pane'.tabs = tabs
  BY <1>2, <1>3, <1>6 DEF PaneType
<1>9. /\ pane'.unseen = pane.unseen /\ pane'.toPage = pane.toPage /\ pane'.waiting = pane.waiting
      /\ pane'.replies = pane.replies /\ pane'.posts = pane.posts /\ pane'.life = pane.life
      /\ pane'.needsModelRestore = pane.needsModelRestore /\ pane'.ask = pane.ask
  BY <1>2, <1>3 DEF PaneType
<1>10. \A x : IsOpen(pane', x) <=> IsOpen(pane, x)
  BY <1>6, <1>7, <1>8 DEF IsOpen
<1>11. Like(pane, pane')
  BY <1>9, <1>10 DEF Like
<1>12. Typed(pane')
  BY <1>2, <1>6, <1>7, <1>8, <1>9, <1>10 DEF Deciding, Linked, Typed, TabsDiffer
<1>13. Fine(pane', Alone)
  BY <1>2, <1>9, <1>11, <1>12, LikeDecides DEF Fine
<1> QED
  BY <1>1, <1>13, AloneEnds

\* CloseTab
LEMMA CloseTabStep ==
    ASSUME IInv, NEW p \in Paths, CloseTab(p)
    PROVE  IInv'
<1>1. pane' = RequestClose(pane, p) /\ Request /\ UNCHANGED <<page, disk>> /\ Watch
  BY DEF CloseTab
<1> QED
  BY <1>1, AloneStarts, RequestCloseIsFine, AloneEnds

\* CloseAll
LEMMA CloseAllStep ==
    ASSUME IInv, CloseAll
    PROVE  IInv'
<1> DEFINE s == [pane EXCEPT !.quit = "waiting"]
<1>1. pane' = Reconcile(s, "drain") /\ Request /\ UNCHANGED <<page, disk>> /\ Watch
  BY DEF CloseAll
<1>2. Deciding(s, Alone)
  BY AloneStarts, QuitDecides
<1> HIDE DEF s
<1>3. Fine(pane', Alone)
  BY <1>1, <1>2, AloneStarts, ReconcileIsFine
<1> QED
  BY <1>1, <1>3, AloneEnds

\* SaveAllDirty
LEMMA SaveAllDirtyStep ==
    ASSUME IInv, SaveAllDirty
    PROVE  IInv'
<1>1. pane' = Reconcile(pane, "saveAll") /\ Request /\ UNCHANGED <<page, disk>> /\ Watch
  BY DEF SaveAllDirty
<1> QED
  BY <1>1, AloneStarts, ReconcileIsFine, AloneEnds

\* Cancel
LEMMA CancelStep ==
    ASSUME IInv, Cancel
    PROVE  IInv'
<1>1. pane' = CancelAsk(pane) /\ UNCHANGED <<page, disk, count>> /\ Watch
  BY DEF Cancel
<1>2. Fine(pane', Alone)
  BY <1>1, AloneStarts, CancelAskDecides DEF Deciding, Fine
<1> QED
  BY <1>1, <1>2, AloneEnds

\* The card is answered.
LEMMA CardIsAnswered ==
    ASSUME IInv
    PROVE  LET s == [pane EXCEPT !.ask = NoAsk]
           IN Deciding(s, Alone) /\ s \in PaneType /\ s.tabs = pane.tabs /\ s.life = pane.life
<1> DEFINE s == [pane EXCEPT !.ask = NoAsk]
<1>1. Deciding(pane, Alone) /\ pane \in PaneType
  BY AloneStarts
<1>2. NoAsk \in Card
  BY DEF Card
<1>3. s \in PaneType /\ s.ask = NoAsk
  BY <1>1, <1>2 DEF PaneType
<1>4. /\ s.tabs = pane.tabs /\ s.unseen = pane.unseen /\ s.toPage = pane.toPage
      /\ s.waiting = pane.waiting /\ s.replies = pane.replies /\ s.posts = pane.posts
      /\ s.life = pane.life /\ s.needsModelRestore = pane.needsModelRestore
  BY <1>1 DEF PaneType
<1> HIDE DEF s
<1>5. Deciding(s, Alone)
  BY <1>1, <1>3, <1>4, CardDecides
<1> QED
  BY <1>3, <1>4, <1>5 DEF s

\* What a card asks about.
LEMMA CardFields ==
    ASSUME NEW a \in Card, a.kind \in {"close", "drain", "conflict"}
    PROVE  a.path \in Paths /\ a.index \in Nat
<1>1. NoAsk.kind = "none"
  BY DEF NoAsk
<1> QED
  BY <1>1 DEF Card

\* Discard
LEMMA DiscardStep ==
    ASSUME IInv, Discard
    PROVE  IInv'
<1> DEFINE t == [pane EXCEPT !.ask = NoAsk]
           p == pane.ask.path
           s == PerformClose(t, p, 0)
<1>1. /\ pane.ask.kind \in {"close", "drain"}
      /\ pane' = IF pane.ask.kind = "drain" THEN Reconcile(s, "drain") ELSE s
      /\ UNCHANGED <<page, disk, count>> /\ Watch
  BY DEF Discard
<1>2. Deciding(t, Alone)
  BY CardIsAnswered
<1>3. p \in Paths
  BY <1>1, AloneStarts, CardFields DEF PaneType
<1> HIDE DEF t, p
<1>4. Deciding(s, Alone)
  BY <1>2, <1>3, AloneStarts, CloseDecides
<1> HIDE DEF s
<1>5. Fine(Reconcile(s, "drain"), Alone) /\ Fine(s, Alone)
  BY <1>4, AloneStarts, ReconcileIsFine DEF Deciding, Fine
<1> QED
  BY <1>1, <1>5, AloneEnds

\* SaveThenClose
LEMMA SaveThenCloseStep ==
    ASSUME IInv, SaveThenClose
    PROVE  IInv'
<1> DEFINE a == pane.ask
           s == [pane EXCEPT !.ask = NoAsk]
           p == s.tabs[a.index].path
<1>1. /\ a.kind \in {"close", "drain"}
      /\ pane' = IF a.index \notin DOMAIN s.tabs \/ ~IsReady(s) THEN SaveFailed(s, a.kind)
                 ELSE Save(s, p, a.kind, a.path, <<>>)
      /\ UNCHANGED <<page, disk, count>> /\ Watch
  BY DEF SaveThenClose
<1>2. Deciding(s, Alone) /\ s \in PaneType
  BY CardIsAnswered
<1>3. a.path \in Paths
  BY <1>1, AloneStarts, CardFields DEF PaneType
<1>4. Fine(SaveFailed(s, a.kind), Alone)
  BY <1>2, SaveFailedIsFine
<1>5. ASSUME a.index \in DOMAIN s.tabs, IsReady(s)
      PROVE  Fine(Save(s, p, a.kind, a.path, <<>>), Alone)
  <2> HIDE DEF s
  <2>1. s.tabs[a.index] \in Tab
    BY <1>2, <1>5 DEF PaneType
  <2>2. p \in Paths /\ IsOpen(s, p)
    BY <1>5, <2>1 DEF Tab, IsOpen
  <2>3. <<>> \in Seq(Paths) /\ Latest \in Nat /\ a.kind \in Reasons("content") /\ s.life # "loading"
    BY <1>1, <1>5, AloneStarts, ClocksAreNumbers DEF Reasons, IsReady
  <2> HIDE DEF a, p
  <2>4. Deciding(Save(s, p, a.kind, a.path, <<>>), Alone)
    BY <1>2, <1>3, <2>2, <2>3, AskDecides DEF Save
  <2> QED
    BY <2>4 DEF Deciding, Fine
<1> HIDE DEF s, a, p
<1>6. Fine(pane', Alone)
  BY <1>1, <1>4, <1>5
<1> QED
  BY <1>1, <1>6, AloneEnds

\* TakeDisk
LEMMA TakeDiskStep ==
    ASSUME IInv, TakeDisk
    PROVE  IInv'
<1> DEFINE s == [pane EXCEPT !.ask = NoAsk]
           p == pane.ask.path
<1>1. /\ pane.ask.kind = "conflict" /\ pane' = ReloadFromDisk(s, p, 0)
      /\ UNCHANGED <<page, disk, count>> /\ Watch
  BY DEF TakeDisk
<1>2. Deciding(s, Alone)
  BY CardIsAnswered
<1>3. p \in Paths
  BY <1>1, AloneStarts, CardFields DEF PaneType
<1> HIDE DEF s, p
<1>4. Fine(pane', Alone)
  BY <1>1, <1>2, <1>3, AloneStarts, ReloadDecides DEF Deciding, Fine
<1> QED
  BY <1>1, <1>4, AloneEnds

-----------------------------------------------------------------------------
(* Steps of the world.                                                         *)

\* A fault is counted.
LEMMA FaultCounts ==
    ASSUME CountsTyped, Fault \/ UNCHANGED count
    PROVE  /\ count' \in Counts /\ count'.edits = count.edits /\ count'.writes = count.writes
           /\ Troubles' <= MaxTroubles /\ CountsTyped'
<1>1. count \in Counts /\ Troubles <= MaxTroubles /\ MaxTroubles \in Nat
  BY BoundsAssumption DEF CountsTyped
<1>2. CASE Fault
  <2> DEFINE n == count.faults + 1
  <2>1. n \in Nat /\ count' = [count EXCEPT !.faults = n] /\ Troubles < MaxTroubles
    BY <1>1, <1>2 DEF Fault, Counts
  <2>2. n = count.faults + 1
    OBVIOUS
  <2> HIDE DEF n
  <2>3. /\ count' \in Counts /\ count'.edits = count.edits /\ count'.writes = count.writes
        /\ count'.faults = n
    BY <1>1, <2>1 DEF Counts
  <2>4. Troubles' <= MaxTroubles
    BY <1>1, <2>1, <2>2, <2>3 DEF Troubles, Counts
  <2> QED
    BY <2>3, <2>4 DEF CountsTyped
<1>3. CASE UNCHANGED count
  BY <1>1, <1>3 DEF CountsTyped, Troubles
<1> QED
  BY <1>2, <1>3

\* The renderer hangs, or does so no more.
LEMMA WedgeStep ==
    ASSUME IInv, Wedge \/ Unwedge
    PROVE  IInv'
<1>1. PICK life \in {"up", "wedged"} : pane' = [pane EXCEPT !.life = life]
  BY DEF Wedge, Unwedge
<1>2. /\ pane.life \in {"up", "wedged"} /\ (Fault \/ UNCHANGED count)
      /\ UNCHANGED <<page, disk>> /\ Watch
  BY DEF Wedge, Unwedge
<1>3. Deciding(pane, Alone) /\ pane \in PaneType /\ CountsTyped
  BY AloneStarts
<1>4. pane' \in PaneType /\ pane'.life = life
  BY <1>1, <1>3 DEF PaneType
<1>5. /\ pane'.tabs = pane.tabs /\ pane'.unseen = pane.unseen /\ pane'.toPage = pane.toPage
      /\ pane'.waiting = pane.waiting /\ pane'.replies = pane.replies /\ pane'.posts = pane.posts
      /\ pane'.ask = pane.ask /\ pane'.needsModelRestore = pane.needsModelRestore
  BY <1>1, <1>3 DEF PaneType
<1>6. \A x : IsOpen(pane', x) <=> IsOpen(pane, x)
  BY <1>5 DEF IsOpen
<1>7. Typed(pane')
  BY <1>3, <1>4, <1>5, <1>6 DEF Deciding, Linked, Typed, TabsDiffer
<1>8. DownIsEmpty(pane', Alone)
  BY <1>4 DEF DownIsEmpty, Down
<1>9. IdsDiffer(pane')
  BY <1>3, <1>5 DEF Deciding, Linked, IdsDiffer
<1>10. Follows(pane', Alone)
  BY <1>2, <1>3, <1>4, <1>5, <1>6 DEF Deciding, Linked, Follows, HasModel, Rebuilding
<1>11. FromDisk(pane', Alone) /\ MarksAreTrue(pane', Alone)
  BY <1>3, <1>5 DEF Deciding, Linked, FromDisk, MarksAreTrue
<1>12. ReadsItsTab(pane', Alone) /\ SavesAreKnown(pane', Alone)
  BY <1>2, <1>3, <1>4, <1>5, <1>6 DEF Deciding, Linked, ReadsItsTab, Trusted, WillRead, HasRead, SavesAreKnown
<1>13. Linked(pane', Alone)
  BY <1>7, <1>8, <1>9, <1>10, <1>11, <1>12 DEF Linked
<1>14. AllNoticed(pane', Alone)
  BY <1>2, <1>3, <1>4, <1>5, <1>6 DEF Deciding, AllNoticed, Noticed, Conflict, Checked, UpToDate, Rebuilding, HasModel
<1>15. count' \in Counts /\ count'.edits = count.edits /\ count'.writes = count.writes /\ Troubles' <= MaxTroubles
  BY <1>2, <1>3, FaultCounts
<1> QED
  BY <1>2, <1>13, <1>14, <1>15, PaneStep DEF Alone, Fine

\* What is left when the page is gone: no command, and the models are to be rebuilt.
LEMMA GoneIsFine ==
    ASSUME NEW s, NEW t, NEW w, NEW v, Linked(s, w), t \in PaneType, Rebuilding(t),
           t.life \in {"crashed", "loading"}, t.toPage = <<>>, t.tabs = s.tabs, t.unseen = s.unseen,
           t.waiting = s.waiting, t.replies \in {s.replies, <<>>},
           t.life = "loading" => t.replies = <<>> /\ t.posts = <<>>,
           \A p \in Paths : v.page[p] = NoModel, v.known = w.known
    PROVE  Fine(t, v)
<1>1. \A x : IsOpen(t, x) <=> IsOpen(s, x)
  BY DEF IsOpen
<1>2. Len(t.toPage) = 0 /\ DOMAIN t.toPage = {}
  OBVIOUS
<1>3. Typed(t)
  BY <1>1 DEF Linked, Typed, TabsDiffer
<1>4. DownIsEmpty(t, v)
  BY <1>2 DEF DownIsEmpty
<1>5. IdsDiffer(t)
  <2>1. \A q, r \in t.waiting : Same(q, r) => q = r
    BY DEF Linked, IdsDiffer
  <2>2. \A i \in DOMAIN t.replies : \A q \in t.waiting :
           Answers(t.replies[i], q) => t.replies[i] \in IF q.op = "content" THEN Content ELSE Clean
    <3>1. CASE t.replies = <<>>
      BY <3>1
    <3>2. CASE t.replies = s.replies
      BY <3>2 DEF Linked, IdsDiffer
    <3> QED
      BY <3>1, <3>2
  <2> QED
    BY <1>2, <2>1, <2>2 DEF IdsDiffer
<1>6. \A p \in Paths : ~HasModel(t, v, p)
  BY <1>2, ExistsNone DEF HasModel
<1>7. Follows(t, v)
  BY <1>6 DEF Follows
<1>8. FromDisk(t, v) /\ MarksAreTrue(t, v)
  BY <1>2 DEF FromDisk, MarksAreTrue
<1>9. ReadsItsTab(t, v)
  <2>1. t.life = "crashed" \/ DOMAIN t.replies = {}
    OBVIOUS
  <2> QED
    BY <1>2, <2>1 DEF ReadsItsTab, WillRead, HasRead
<1>10. SavesAreKnown(t, v)
  BY <1>1 DEF Linked, SavesAreKnown
<1>11. AllNoticed(t, v)
  BY <1>6 DEF AllNoticed, Noticed, UpToDate
<1> QED
  BY <1>3, <1>4, <1>5, <1>7, <1>8, <1>9, <1>10, <1>11 DEF Linked, Fine

\* DidTerminate
LEMMA DidTerminateStep ==
    ASSUME IInv, DidTerminate
    PROVE  IInv'
<1>1. /\ pane.life = "crashed"
      /\ pane' = [pane EXCEPT !.life = "loading", !.needsModelRestore = TRUE, !.posts = <<>>, !.replies = <<>>]
      /\ UNCHANGED <<page, disk, count>> /\ Watch
  BY DEF DidTerminate
<1>2. Linked(pane, Alone) /\ pane \in PaneType
  BY AloneStarts DEF Deciding
<1>3. <<>> \in Seq(Message) /\ <<>> \in Seq(Content \cup Clean)
  OBVIOUS
<1>4. /\ pane' \in PaneType /\ pane'.life = "loading" /\ pane'.needsModelRestore
      /\ pane'.posts = <<>> /\ pane'.replies = <<>>
  BY <1>1, <1>2, <1>3 DEF PaneType
<1>5. /\ pane'.tabs = pane.tabs /\ pane'.unseen = pane.unseen /\ pane'.toPage = pane.toPage
      /\ pane'.waiting = pane.waiting
  BY <1>1, <1>2 DEF PaneType
<1>6. pane.toPage = <<>> /\ \A p \in Paths : Alone.page[p] = NoModel
  BY <1>1, <1>2 DEF Linked, DownIsEmpty, Down
<1>7. Fine(pane', Alone)
  BY <1>2, <1>4, <1>5, <1>6, GoneIsFine DEF Rebuilding
<1> QED
  BY <1>1, <1>7, AloneEnds

\* Crash
LEMMA CrashStep ==
    ASSUME IInv, Crash
    PROVE  IInv'
<1> DEFINE w == During(page', disk', {}, {})
<1>1. /\ pane' = [pane EXCEPT !.life = "crashed", !.toPage = <<>>] /\ Fault
      /\ page' = [p \in Paths |-> NoModel] /\ disk' = disk /\ Watch
  BY DEF Crash
<1>2. Linked(pane, Alone) /\ pane \in PaneType /\ CountsTyped /\ FilesTyped
  BY AloneStarts DEF Deciding
<1>3. <<>> \in Seq(Command)
  OBVIOUS
<1>4. pane' \in PaneType /\ pane'.life = "crashed" /\ pane'.toPage = <<>>
  BY <1>1, <1>2, <1>3 DEF PaneType
<1>5. /\ pane'.tabs = pane.tabs /\ pane'.unseen = pane.unseen
      /\ pane'.waiting = pane.waiting /\ pane'.replies = pane.replies
  BY <1>1, <1>2 DEF PaneType
<1>6. w.known = Alone.known /\ \A p \in Paths : w.page[p] = NoModel
  BY <1>1 DEF During, Alone
<1>7. Fine(pane', w)
  BY <1>2, <1>4, <1>5, <1>6, GoneIsFine DEF Rebuilding
<1>8. CountsTyped' /\ count'.edits = count.edits /\ count'.writes = count.writes
  BY <1>1, <1>2, FaultCounts
<1>9. Clock' = Clock /\ Clock \in Nat
  BY <1>2, <1>8, ClocksAreNumbers DEF Clock
<1>10. Linked(pane, Now)' /\ AllNoticed(pane, Now)'
  BY <1>1, <1>7, <1>9, EndOfStep
<1>11. FilesTyped'
  <2>1. File' = File
    BY <1>9 DEF File, Past
  <2> QED
    BY <1>1, <1>2, <2>1 DEF FilesTyped
<1>12. PageTyped' /\ SavedIsOnDisk'
  <2>1. 0 \in Past'
    BY <1>9 DEF Past
  <2>2. NoModel \in Model'
    BY <2>1 DEF NoModel, Model
  <2> QED
    BY <1>1, <2>2 DEF PageTyped, SavedIsOnDisk
<1> QED
  BY <1>8, <1>10, <1>11, <1>12 DEF IInv

\* AgentWrites
LEMMA AgentWritesStep ==
    ASSUME IInv, NEW p \in Paths, AgentWrites(p)
    PROVE  IInv'
<1> DEFINE w == During(page', disk', {}, {})
           f == disk[p]
           unseen == pane.unseen \cup {p}
<1>1. /\ Troubles < MaxTroubles /\ disk' = [disk EXCEPT ![p] = Written(f, Clock + 1, FALSE)]
      /\ pane' = IF IsOpen(pane, p) THEN [pane EXCEPT !.unseen = unseen] ELSE pane
      /\ count' = [count EXCEPT !.writes = @ + 1] /\ page' = page /\ Watch
  <2>1. disk \in [Paths -> File]
    BY DEF IInv, FilesTyped
  <2> QED
    BY <2>1 DEF AgentWrites
<1>2. f \in File /\ f.text \in f.past /\ count.opens \in Nat
  BY DEF IInv, FilesTyped, CountsTyped, Counts
<1>3. Torn(p, f, count.opens)
  <2>1. count' = [count EXCEPT !.opens = count.opens, !.writes = @ + 1]
    BY <1>1 DEF IInv, CountsTyped, Counts
  <2> QED
    BY <1>1, <2>1 DEF Torn
<1> HIDE DEF f
<1>4. /\ FilesTyped' /\ CountsTyped' /\ Clock \in Nat /\ Clock' \in Nat /\ Clock <= Clock'
      /\ \A x \in Paths : disk[x].past \subseteq disk'[x].past
  BY <1>2, <1>3, FileIsWritten DEF f
<1>5. Deciding(pane, During(page, disk', {}, {})) /\ pane \in PaneType
  BY <1>4, StartOfStep, AloneStarts
<1>6. Deciding(pane, w)
  BY <1>1, <1>5
<1> HIDE DEF w
<1>7. ASSUME ~IsOpen(pane, p)
      PROVE  Fine(pane', w)
  BY <1>1, <1>6, <1>7 DEF Deciding, Fine
<1>8. ASSUME IsOpen(pane, p)
      PROVE  Fine(pane', w)
  <2>1. pane' = [pane EXCEPT !.unseen = unseen]
    BY <1>1, <1>8
  <2>2. unseen \subseteq Paths /\ pane.unseen \subseteq unseen
    BY <1>5 DEF PaneType
  <2>3. \A x \in unseen : x \in pane.unseen \/ x = p
    OBVIOUS
  <2> HIDE DEF unseen
  <2>4. pane' \in PaneType /\ pane'.unseen = unseen
    BY <1>5, <2>1, <2>2 DEF PaneType
  <2>5. /\ pane'.tabs = pane.tabs /\ pane'.toPage = pane.toPage /\ pane'.waiting = pane.waiting
        /\ pane'.replies = pane.replies /\ pane'.posts = pane.posts /\ pane'.life = pane.life
        /\ pane'.needsModelRestore = pane.needsModelRestore /\ pane'.ask = pane.ask
    BY <1>5, <2>1 DEF PaneType
  <2>6. \A x : IsOpen(pane', x) <=> IsOpen(pane, x)
    BY <2>5 DEF IsOpen
  <2>7. Like(pane, pane')
    BY <2>5, <2>6 DEF Like
  <2>8. Typed(pane')
    BY <1>5, <1>8, <2>2, <2>3, <2>4, <2>5, <2>6 DEF Deciding, Linked, Typed, TabsDiffer
  <2> QED
    BY <1>6, <2>2, <2>4, <2>7, <2>8, LikeDecides DEF Fine
<1>9. Linked(pane, Now)' /\ AllNoticed(pane, Now)'
  <2>1. Fine(pane', During(page', disk', {}, {}))
    BY <1>7, <1>8 DEF w
  <2>2. Watch
    BY <1>1
  <2> QED
    BY <1>4, <2>1, <2>2, EndOfStep
<1>10. PageTyped' /\ SavedIsOnDisk'
  BY <1>1, <1>4, PageStays
<1> QED
  BY <1>4, <1>9, <1>10 DEF IInv

-----------------------------------------------------------------------------
(* Steps of the page alone.                                                    *)

\* A model goes on from m to n: what was read from m, if it is still the buffer, is read from n.
Lasts(m, n) ==
    m # NoModel => n # NoModel /\ m.version <= n.version /\ (n.version = m.version => n.text = m.text)
GoesOn(m, n) ==
    /\ m # NoModel <=> n # NoModel
    /\ Lasts(m, n) /\ (m # NoModel => n.base = m.base)

\* What was read.
LEMMA WroteGoesOn ==
    ASSUME NEW m, NEW n, Lasts(m, n), m.version \in Nat, n.version \in Nat, NEW v \in Nat, NEW texts,
           Wrote(m, v, texts)
    PROVE  Wrote(n, v, texts)
<1>1. m # NoModel /\ n # NoModel /\ v <= m.version /\ m.version <= n.version
  BY DEF Lasts, Wrote
<1>2. v <= n.version
  BY <1>1
<1>3. ASSUME v = n.version
      PROVE  n.text \in texts
  <2>1. v = m.version /\ n.version = m.version
    BY <1>1, <1>3
  <2> QED
    BY <1>1, <2>1 DEF Lasts, Wrote
<1> QED
  BY <1>1, <1>2, <1>3 DEF Wrote

\* The invariant, when models go on.
LEMMA ModelsGoOn ==
    ASSUME NEW s, NEW w, NEW v, Deciding(s, w), v.disk = w.disk, v.orphans = w.orphans, v.known = w.known,
           v.excused = w.excused,
           \A p \in Paths : /\ GoesOn(w.page[p], v.page[p])
                            /\ w.page[p].version \in Nat /\ v.page[p].version \in Nat
    PROVE  Deciding(s, v)
<1>1. Typed(s) /\ s \in PaneType
  BY DEF Deciding, Linked, Typed
<1>2. \A p \in Paths : w.page[p] # NoModel <=> v.page[p] # NoModel
  BY DEF GoesOn
<1>3. \A p \in Paths : \A n : Exists(s.toPage, p, w.page[p], n) <=> Exists(s.toPage, p, v.page[p], n)
  BY <1>2 DEF Exists
<1>4. \A i \in DOMAIN s.toPage : s.toPage[i] \in Command /\ s.toPage[i].path \in Paths
  <2> SUFFICES ASSUME NEW i \in DOMAIN s.toPage
               PROVE  s.toPage[i] \in Command /\ s.toPage[i].path \in Paths
    OBVIOUS
  <2>1. s.toPage[i] \in Command
    BY <1>1 DEF PaneType
  <2> QED
    BY <2>1, CommandFields
<1>5. DownIsEmpty(s, v)
  BY <1>2 DEF Deciding, Linked, DownIsEmpty
<1>6. Follows(s, v)
  BY <1>3 DEF Deciding, Linked, Follows, HasModel
<1>7. FromDisk(s, v)
  BY DEF Deciding, Linked, FromDisk
<1>8. MarksAreTrue(s, v)
  <2> SUFFICES ASSUME NEW i \in DOMAIN s.toPage, s.toPage[i].op = "mark", s.toPage[i].path \notin w.orphans
               PROVE  /\ Wrote(v.page[s.toPage[i].path], s.toPage[i].version, v.disk[s.toPage[i].path].past)
                      /\ NoClose(s.toPage, s.toPage[i].path, 1, i - 1)
    BY DEF MarksAreTrue
  <2>1. /\ Wrote(w.page[s.toPage[i].path], s.toPage[i].version, v.disk[s.toPage[i].path].past)
        /\ NoClose(s.toPage, s.toPage[i].path, 1, i - 1)
    BY DEF Deciding, Linked, MarksAreTrue
  <2>2. s.toPage[i].path \in Paths /\ s.toPage[i].version \in Nat
    BY <1>4, CommandFields
  <2> QED
    BY <2>1, <2>2, WroteGoesOn DEF GoesOn
<1>9. ReadsItsTab(s, v)
  <2> SUFFICES ASSUME NEW q \in s.waiting, Trusted(s, v, q)
               PROVE  WillRead(s, q) /\ HasRead(s, v, q)
    BY DEF ReadsItsTab
  <2>1. Trusted(s, w, q)
    BY DEF Trusted
  <2>2. WillRead(s, q) /\ HasRead(s, w, q)
    BY <2>1 DEF Deciding, Linked, ReadsItsTab
  <2>3. q.path \in Paths
    BY <1>1, CleanFields DEF PaneType
  <2>4. ASSUME s.life # "crashed", NEW i \in DOMAIN s.replies, Answers(s.replies[i], q), ~s.replies[i].none
        PROVE  /\ Wrote(v.page[q.path], s.replies[i].version, {s.replies[i].text})
               /\ NoClose(s.toPage, q.path, 1, Len(s.toPage))
    <3>1. s.replies[i] \in Content
      BY <2>1, <2>4 DEF Trusted, Deciding, Linked, IdsDiffer
    <3>2. s.replies[i].version \in Nat
      BY <3>1 DEF Content
    <3>3. /\ Wrote(w.page[q.path], s.replies[i].version, {s.replies[i].text})
          /\ NoClose(s.toPage, q.path, 1, Len(s.toPage))
      BY <2>2, <2>4 DEF HasRead
    <3> QED
      BY <2>3, <3>2, <3>3, WroteGoesOn DEF GoesOn
  <2>5. HasRead(s, v, q)
    BY <2>4 DEF HasRead
  <2> QED
    BY <2>2, <2>5
<1>10. SavesAreKnown(s, v)
  BY DEF Deciding, Linked, SavesAreKnown
<1>11. Linked(s, v)
  BY <1>1, <1>5, <1>6, <1>7, <1>8, <1>9, <1>10 DEF Deciding, Linked
<1>12. AllNoticed(s, v)
  <2> SUFFICES ASSUME NEW p \in Paths \ v.excused
               PROVE  Noticed(s, v, p)
    BY DEF AllNoticed
  <2>1. Noticed(s, w, p)
    BY DEF Deciding, AllNoticed
  <2>2. HasModel(s, w, p) <=> HasModel(s, v, p)
    BY <1>3 DEF HasModel
  <2>3. \A i : Sets(s.toPage, p, w.page[p], i) <=> Sets(s.toPage, p, v.page[p], i)
    BY <1>3 DEF Sets
  <2>4. w.page[p] # NoModel => v.page[p] # NoModel /\ v.page[p].base = w.page[p].base
    BY DEF GoesOn
  <2>5. BaseIs(s.toPage, p, w.page[p], w.disk[p].text) => BaseIs(s.toPage, p, v.page[p], w.disk[p].text)
    BY <2>3, <2>4 DEF BaseIs
  <2> QED
    BY <2>1, <2>2, <2>5 DEF Noticed, UpToDate
<1> QED
  BY <1>11, <1>12 DEF Deciding

\* A model of the page goes on, and the page posts a message.
LEMMA PageStep ==
    ASSUME IInv, Watch, pane.life = "up", disk' = disk, NEW m \in Message, pane' = Post(pane, m),
           NEW p \in Paths, NEW n \in Model', page' = [page EXCEPT ![p] = n], page[p] # NoModel,
           GoesOn(page[p], n), n.saved = page[p].saved, n.version = n.saved => n.version = page[p].version,
           CountsTyped', Clock' \in Nat, Clock <= Clock'
    PROVE  IInv'
<1> DEFINE w == During(page', disk', {}, {})
           posts == Append(pane.posts, m)
<1>1. Deciding(pane, Alone) /\ pane \in PaneType /\ CountsTyped /\ FilesTyped
  BY AloneStarts
<1>2. Clock \in Nat
  BY <1>1, ClocksAreNumbers
<1>3. PaneType \subseteq PaneType' /\ Model \subseteq Model' /\ File \subseteq File' /\ Past \subseteq Past'
  BY <1>2, TypesGrow
<1>4. page \in [Paths -> Model] /\ PageTyped
  BY DEF IInv, PageTyped
<1>5. page' \in [Paths -> Model'] /\ page'[p] = n /\ \A x \in Paths \ {p} : page'[x] = page[x]
  BY <1>3, <1>4
<1>6. \A x \in Paths : /\ GoesOn(page[x], page'[x])
                       /\ page[x].version \in Nat /\ page'[x].version \in Nat
  <2>1. \A x \in Paths : page[x].version \in Nat /\ page'[x].version \in Nat
    BY <1>4, <1>5 DEF Model
  <2>2. \A x \in Paths : GoesOn(page[x], page[x])
    BY <2>1 DEF GoesOn, Lasts
  <2> QED
    BY <1>5, <2>1, <2>2
<1>7. Deciding(pane, w)
  <2>1. /\ w.page = page' /\ Alone.page = page /\ w.disk = Alone.disk /\ w.orphans = Alone.orphans
        /\ w.known = Alone.known /\ w.excused = Alone.excused
    BY DEF During, Alone
  <2> HIDE DEF w
  <2> QED
    BY ZenonT(30), <1>1, <1>6, <2>1, ModelsGoOn
<1>8. Fine(pane', w)
  <2>1. pane' = [pane EXCEPT !.posts = posts] /\ posts \in Seq(Message) /\ pane.life # "loading"
    BY <1>1 DEF Post, PaneType
  <2> HIDE DEF posts, w
  <2> QED
    BY <1>7, <2>1, PostsDecide DEF Deciding, Fine
<1>9. Linked(pane, Now)' /\ AllNoticed(pane, Now)'
  <2>1. Fine(pane', During(page', disk', {}, {}))
    BY <1>8
  <2> QED
    BY <1>2, <2>1, EndOfPlainStep
<1>10. FilesTyped'
  BY <1>1, <1>3 DEF FilesTyped
<1>11. 1 <= page[p].version /\ 1 <= page[p].saved /\ page[p].saved <= page[p].version /\ page[p] \in Model
  BY <1>4 DEF PageTyped
<1>12. n.version \in Nat /\ n.saved \in Nat /\ page[p].version <= n.version /\ n # NoModel
  <2>1. n.version \in Nat /\ n.saved \in Nat
    BY <1>5, <1>6, <1>11 DEF Model
  <2> QED
    BY <2>1 DEF GoesOn, Lasts
<1>13. 1 <= n.version /\ 1 <= n.saved /\ n.saved <= n.version
  <2>1. page[p].version \in Nat /\ page[p].saved \in Nat
    BY <1>11 DEF Model
  <2> QED
    BY <1>11, <1>12, <2>1
<1>14. PageTyped'
  <2>1. \A x \in Paths : page'[x] # NoModel =>
            1 <= page'[x].version /\ 1 <= page'[x].saved /\ page'[x].saved <= page'[x].version
    BY <1>4, <1>5, <1>13 DEF PageTyped
  <2> QED
    BY <1>5, <2>1 DEF PageTyped
<1>15. SavedIsOnDisk'
  <2>1. ghost.orphans \subseteq ghost'.orphans
    BY DEF Watch
  <2>2. ASSUME p \notin ghost.orphans, ~Dirty(n)
        PROVE  n.text \in disk[p].past
    <3>1. n.version = page[p].version /\ ~Dirty(page[p]) /\ n.text = page[p].text
      BY <2>2 DEF Dirty, GoesOn, Lasts
    <3> QED
      BY <2>2, <3>1 DEF IInv, SavedIsOnDisk
  <2> QED
    BY <1>5, <2>1, <2>2 DEF IInv, SavedIsOnDisk
<1> QED
  BY <1>9, <1>10, <1>14, <1>15 DEF IInv

\* Type
LEMMA TypeStep ==
    ASSUME IInv, NEW p \in Paths, Type(p)
    PROVE  IInv'
<1> DEFINE text == Clock + 1
           m == page[p]
           first == IF m.first = 0 THEN text ELSE m.first
           n == [m EXCEPT !.text = text, !.version = m.version + 1, !.timer = TRUE, !.first = first]
           edits == count.edits + 1
<1>1. /\ pane.life = "up" /\ m # NoModel /\ count.edits < MaxEdits /\ disk' = disk /\ Watch
      /\ page' = [page EXCEPT ![p] = [Changed(m, text) EXCEPT !.first = IF @ = 0 THEN text ELSE @]]
      /\ pane' = Post(pane, DirtyChanged(p, [Changed(m, text) EXCEPT !.first = IF @ = 0 THEN text ELSE @]))
      /\ count' = [count EXCEPT !.edits = @ + 1]
  BY DEF Type
<1>2. CountsTyped /\ count \in Counts /\ MaxEdits \in Nat /\ Clock \in Nat
  BY BoundsAssumption, ClocksAreNumbers DEF IInv, CountsTyped
<1>3. m \in Model /\ m.version \in Nat /\ 1 <= m.saved /\ m.saved <= m.version /\ m.saved \in Nat
  BY <1>1 DEF IInv, PageTyped, Model
<1>4. count' = [count EXCEPT !.edits = edits] /\ edits \in Nat /\ edits <= MaxEdits
  BY <1>1, <1>2 DEF Counts
<1>5. /\ count' \in Counts /\ count'.edits = edits /\ count'.writes = count.writes
      /\ count'.faults = count.faults
  BY <1>2, <1>4 DEF Counts
<1>6. CountsTyped' /\ Clock' = Clock + 1
  <2>1. Clock' = Clock + 1
    BY <1>2, <1>5 DEF Clock, Counts
  <2> QED
    BY <1>2, <1>4, <1>5, <2>1 DEF CountsTyped, Troubles
<1>7. [Changed(m, text) EXCEPT !.first = IF @ = 0 THEN text ELSE @] = n
  BY <1>3 DEF Changed, Model
<1>8. n \in Model' /\ n.version = m.version + 1 /\ n.saved = m.saved /\ n.base = m.base
  <2>1. text \in Past' /\ m \in Model'
    <3>1. text \in Past'
      BY <1>2, <1>6 DEF Past
    <3>2. Model \subseteq Model'
      BY <1>2, <1>6, TypesGrow
    <3> QED
      BY <1>3, <3>1, <3>2
  <2>2. first \in Past'
    BY <2>1 DEF Model
  <2> DEFINE version == m.version + 1
  <2>3. version \in Nat
    BY <1>3
  <2> HIDE DEF text, first, version, m
  <2>4. [m EXCEPT !.text = text, !.version = version, !.timer = TRUE, !.first = first] \in Model'
    BY <2>1, <2>2, <2>3 DEF Model
  <2>5. n = [m EXCEPT !.text = text, !.version = version, !.timer = TRUE, !.first = first]
    BY DEF version
  <2>6. n.version = version /\ n.saved = m.saved /\ n.base = m.base
    BY <1>3, <2>5 DEF Model
  <2> HIDE DEF n
  <2> QED
    BY <2>4, <2>5, <2>6 DEF version
<1>9. GoesOn(m, n) /\ n.version # n.saved
  <2>1. n.version # 0 /\ n.version # m.version /\ m.version <= n.version /\ n.version # n.saved
    BY <1>3, <1>8
  <2> HIDE DEF n
  <2>2. n # NoModel
    BY <2>1 DEF NoModel
  <2> QED
    BY <1>1, <1>8, <2>1, <2>2 DEF GoesOn, Lasts
<1>10. DirtyChanged(p, n) \in Message
  BY DEF DirtyChanged, Dirty, Message
<1>11. page' = [page EXCEPT ![p] = n] /\ pane' = Post(pane, DirtyChanged(p, n))
  BY <1>1, <1>7
<1>12. Clock' \in Nat /\ Clock <= Clock'
  BY <1>2, <1>6
<1> HIDE DEF n
<1> QED
  BY <1>1, <1>6, <1>8, <1>9, <1>10, <1>11, <1>12, PageStep

\* SnapshotTimer
LEMMA SnapshotTimerStep ==
    ASSUME IInv, NEW p \in Paths, SnapshotTimer(p)
    PROVE  IInv'
<1> DEFINE m == page[p]
           n == [m EXCEPT !.timer = FALSE]
           post == [type |-> "snapshot", path |-> p, text |-> m.text]
<1>1. /\ pane.life = "up" /\ m.timer /\ disk' = disk /\ count' = count /\ Watch
      /\ page' = [page EXCEPT ![p].timer = FALSE] /\ pane' = Post(pane, post)
  BY DEF SnapshotTimer
<1>2. m # NoModel
  BY <1>1 DEF NoModel
<1>3. CountsTyped' /\ Clock' = Clock /\ Clock \in Nat
  BY <1>1, ClocksAreNumbers DEF IInv, CountsTyped, Clock, Troubles
<1>4. page \in [Paths -> Model] /\ m \in Model /\ m.version \in Nat /\ 1 <= m.version
  BY <1>2 DEF IInv, PageTyped, Model
<1>5. page' = [page EXCEPT ![p] = n]
  BY <1>1, <1>4
<1>6. n \in Model /\ n.version = m.version /\ n.saved = m.saved /\ n.base = m.base /\ n.text = m.text
  BY <1>4 DEF Model
<1>7. n \in Model'
  BY <1>3, <1>6, TypesGrow
<1>8. post \in Message
  BY <1>4 DEF Model, Message
<1> HIDE DEF n, post
<1>9. GoesOn(m, n)
  <2>1. n # NoModel
    BY <1>4, <1>6 DEF NoModel
  <2> QED
    BY <1>2, <1>4, <1>6, <2>1 DEF GoesOn, Lasts
<1>10. Clock' \in Nat /\ Clock <= Clock'
  BY <1>3
<1> QED
  BY <1>1, <1>2, <1>3, <1>5, <1>6, <1>7, <1>8, <1>9, <1>10, PageStep

\* PressSave
LEMMA PressSaveStep ==
    ASSUME IInv, NEW p \in Paths, PressSave(p)
    PROVE  IInv'
<1> DEFINE m == [type |-> "save", path |-> p]
           posts == Append(pane.posts, m)
<1>1. /\ pane.life = "up" /\ Request /\ pane' = Post(pane, m) /\ UNCHANGED <<page, disk>> /\ Watch
  BY DEF PressSave
<1>2. Deciding(pane, Alone) /\ pane \in PaneType
  BY AloneStarts
<1>3. m \in Message
  BY DEF Message
<1>4. posts \in Seq(Message) /\ pane' = [pane EXCEPT !.posts = posts]
  BY <1>1, <1>2, <1>3 DEF Post, PaneType
<1> HIDE DEF posts
<1>5. Fine(pane', Alone)
  BY <1>1, <1>2, <1>4, PostsDecide DEF Deciding, Fine
<1> QED
  BY <1>1, <1>5, AloneEnds

-----------------------------------------------------------------------------
(* The page runs its first command.                                            *)

\* What a command makes of the model of its file.
LEMMA ModelRuns ==
    ASSUME FilesTyped, CountsTyped, PageTyped, SavedIsOnDisk, NEW c \in Command,
           c.op \in {"open", "set"} => c.text \in disk[c.path].past,
           c.op = "mark" /\ c.path \notin ghost.orphans =>
               Wrote(page[c.path], c.version, disk[c.path].past)
    PROVE  LET m == page[c.path]
               n == PageModel(c)
           IN /\ m \in Model /\ n \in Model
              /\ n # NoModel <=> c.op = "open" \/ (m # NoModel /\ c.op # "close")
              /\ (c.op = "open" /\ m = NoModel) \/ (c.op = "set" /\ m # NoModel) => n.base = c.text
              /\ c.op \notin {"set", "mark", "close"} /\ m # NoModel => n.base = m.base
              /\ m # NoModel /\ c.op # "close" =>
                     m.version <= n.version /\ (n.version = m.version => n.text = m.text)
              /\ n # NoModel => 1 <= n.version /\ 1 <= n.saved /\ n.saved <= n.version
              /\ c.path \notin ghost.orphans /\ n # NoModel /\ ~Dirty(n) => n.text \in disk[c.path].past
              /\ c.op \in {"content", "clean"} => n = m
<1> DEFINE p == c.path
           m == page[p]
           n == PageModel(c)
           Sound(x) == /\ x \in Model /\ x # NoModel
                       /\ 1 <= x.version /\ 1 <= x.saved /\ x.saved <= x.version
           True(x) == p \notin ghost.orphans /\ ~Dirty(x) => x.text \in disk[p].past
           Result == /\ m \in Model /\ n \in Model
                     /\ n # NoModel <=> c.op = "open" \/ (m # NoModel /\ c.op # "close")
                     /\ (c.op = "open" /\ m = NoModel) \/ (c.op = "set" /\ m # NoModel) => n.base = c.text
                     /\ c.op \notin {"set", "mark", "close"} /\ m # NoModel => n.base = m.base
                     /\ m # NoModel /\ c.op # "close" =>
                            m.version <= n.version /\ (n.version = m.version => n.text = m.text)
                     /\ n # NoModel => 1 <= n.version /\ 1 <= n.saved /\ n.saved <= n.version
                     /\ p \notin ghost.orphans /\ n # NoModel /\ ~Dirty(n) => n.text \in disk[p].past
                     /\ c.op \in {"content", "clean"} => n = m
<1>1. /\ p \in Paths /\ c.op \in {"open", "restore", "set", "mark", "close", "content", "clean"}
      /\ c.op \in {"open", "restore", "set"} => c.text \in Past
      /\ c.op = "mark" => c.version \in Nat
  BY CommandFields
<1>2. m \in Model /\ m.version \in Nat /\ m.saved \in Nat /\ m.text \in Past
  BY <1>1 DEF PageTyped, Model
<1>3. m # NoModel => Sound(m) /\ True(m)
  BY <1>1, <1>2 DEF PageTyped, SavedIsOnDisk
<1>4. 0 \in Past
  BY ZeroIsText
<1>5. NoModel \in Model
  BY <1>4 DEF NoModel, Model
<1>6. n = IF c.op = "open" THEN OpenModel(p, c.text)
          ELSE IF m = NoModel THEN NoModel
          ELSE CASE c.op = "set" -> SetContent(m, c.text)
                 [] c.op = "mark" -> MarkSaved(m, c.version)
                 [] c.op = "restore" -> RestoreUnsaved(m, c.text)
                 [] c.op = "close" -> CloseModel(m)
                 [] OTHER -> m
  BY DEF PageModel
<1> HIDE DEF n
<1>7. CASE c.op = "open" /\ m = NoModel
  <2>1. n = [NoModel EXCEPT !.text = c.text, !.base = c.text, !.version = 1, !.saved = 1]
    BY <1>6, <1>7 DEF OpenModel
  <2>2. n = [text |-> c.text, version |-> 1, saved |-> 1, base |-> c.text, first |-> 0, timer |-> FALSE]
    BY <2>1 DEF NoModel
  <2>3. n \in Model /\ n.version = 1 /\ n.saved = 1 /\ n.text = c.text /\ n.base = c.text
    BY <1>1, <1>4, <1>7, <2>2 DEF Model
  <2>4. n # NoModel
    BY <2>3 DEF NoModel
  <2> HIDE DEF m, p
  <2>5. Result
    BY <1>2, <1>7, <2>3, <2>4 DEF p
  <2> QED
    BY <2>5 DEF m, p, n
<1>8. CASE c.op # "open" /\ m = NoModel
  <2>1. n = NoModel
    BY <1>6, <1>8
  <2>2. Result
    BY <1>2, <1>5, <1>8, <2>1
  <2> QED
    BY <2>2 DEF n
<1>9. CASE m # NoModel /\ c.op \in {"open", "content", "clean"}
  <2>1. n = m
    BY <1>6, <1>9 DEF OpenModel
  <2> HIDE DEF m, p
  <2>2. Result
    BY <1>2, <1>3, <1>9, <2>1
  <2> QED
    BY <2>2 DEF m, p, n
<1>10. CASE m # NoModel /\ c.op = "set"
  <2> DEFINE version == m.version + 1
  <2>1. version \in Nat /\ 1 <= version /\ m.version <= version /\ version # m.version
    BY <1>2
  <2>2. n = [m EXCEPT !.text = c.text, !.base = c.text, !.version = version, !.saved = version,
                      !.first = 0, !.timer = FALSE]
    BY <1>2, <1>6, <1>10 DEF SetContent, Model
  <2> HIDE DEF version, m
  <2>3. n \in Model /\ n.version = version /\ n.saved = version /\ n.text = c.text /\ n.base = c.text
    BY <1>1, <1>2, <1>4, <1>10, <2>1, <2>2 DEF Model
  <2>4. n # NoModel
    BY <2>1, <2>3 DEF NoModel
  <2> HIDE DEF p
  <2>5. version <= version
    BY <2>1
  <2>6. Result
    BY <1>2, <1>10, <2>1, <2>3, <2>4, <2>5 DEF p
  <2> QED
    BY <2>6 DEF m, p, n
<1>11. CASE m # NoModel /\ c.op = "restore"
  <2> DEFINE version == m.version + 1
  <2>1. version \in Nat /\ 1 <= version /\ m.version <= version /\ version # m.version
    BY <1>2
  <2>2. m.saved <= version /\ m.saved # version /\ 1 <= m.saved
    BY <1>2, <1>3, <1>11
  <2>3. n = [m EXCEPT !.text = c.text, !.version = version, !.timer = TRUE, !.first = c.text]
    BY <1>2, <1>6, <1>11 DEF RestoreUnsaved, Changed, Model
  <2> HIDE DEF version, m
  <2>4. n \in Model /\ n.version = version /\ n.saved = m.saved /\ n.base = m.base
    BY <1>1, <1>2, <1>11, <2>1, <2>3 DEF Model
  <2>5. n # NoModel
    BY <2>1, <2>4 DEF NoModel
  <2>6. Dirty(n)
    BY <2>2, <2>4 DEF Dirty
  <2> HIDE DEF p
  <2>7. Result
    BY <1>2, <1>11, <2>1, <2>2, <2>4, <2>5, <2>6
  <2> QED
    BY <2>7 DEF m, p, n
<1>12. CASE m # NoModel /\ c.op = "mark"
  <2>1. n = MarkSaved(m, c.version)
    BY <1>6, <1>12
  <2>2. CASE c.version # m.version
    <3>1. n = m
      BY <2>1, <2>2 DEF MarkSaved
    <3> HIDE DEF m, p
    <3>2. Result
      BY <1>2, <1>3, <1>12, <3>1
    <3> QED
      BY <3>2 DEF m, p, n
  <2>3. CASE c.version = m.version
    <3>1. n = [m EXCEPT !.saved = c.version, !.base = m.text, !.first = 0]
      BY <2>1, <2>3 DEF MarkSaved
    <3>2. p \notin ghost.orphans => m.text \in disk[p].past
      BY <1>12, <2>3 DEF Wrote
    <3> HIDE DEF m
    <3>3. n \in Model /\ n.version = m.version /\ n.saved = m.version /\ n.text = m.text
      BY <1>1, <1>2, <1>4, <1>12, <2>3, <3>1 DEF Model
    <3>4. 1 <= m.version /\ m.version <= m.version
      BY <1>2, <1>3, <1>12
    <3>5. n # NoModel
      BY <3>3, <3>4 DEF NoModel
    <3> HIDE DEF p
    <3>6. Result
      BY <1>2, <1>12, <3>2, <3>3, <3>4, <3>5
    <3> QED
      BY <3>6 DEF m, p, n
  <2> QED
    BY <2>2, <2>3
<1>13. CASE m # NoModel /\ c.op = "close"
  <2>1. n = NoModel
    BY <1>6, <1>13 DEF CloseModel
  <2>2. Result
    BY <1>2, <1>5, <1>13, <2>1
  <2> QED
    BY <2>2 DEF n
<1> QED
  BY <1>1, <1>7, <1>8, <1>9, <1>10, <1>11, <1>12, <1>13

\* The first command of the queue is run: s becomes t, and the world w becomes v.
Runs(s, t, w, v) ==
    LET c == s.toPage[1]
    IN /\ s.life = "up" /\ s.toPage # <<>> /\ t \in PaneType /\ t.toPage = Tail(s.toPage)
       /\ t.tabs = s.tabs /\ t.unseen = s.unseen /\ t.waiting = s.waiting /\ t.ask = s.ask
       /\ t.life = s.life /\ t.needsModelRestore = s.needsModelRestore
       /\ v.disk = w.disk /\ v.orphans = w.orphans /\ v.known = w.known /\ v.excused = w.excused
       /\ \A p \in Paths :
             LET m == w.page[p]
                 n == v.page[p]
             IN /\ m.version \in Nat /\ n.version \in Nat
                /\ n # NoModel <=> Is(c, "open", p) \/ (m # NoModel /\ ~Is(c, "close", p))
                /\ (Is(c, "open", p) /\ m = NoModel) \/ (Is(c, "set", p) /\ m # NoModel) => n.base = c.text
                /\ KeepsBase(c, p) /\ m # NoModel => n.base = m.base
                /\ ~Is(c, "close", p) => Lasts(m, n)

\* The new answer, if there is one, is that of the command.
Replies(s, t, w) ==
    LET c == s.toPage[1]
    IN \A i \in DOMAIN t.replies :
          \/ \E j \in DOMAIN s.replies : t.replies[i] = s.replies[j]
          \/ /\ c.op = "clean" /\ t.replies[i] \in Clean /\ Same(t.replies[i], c)
          \/ /\ c.op = "content" /\ t.replies[i] \in Content /\ Same(t.replies[i], c)
             /\ ~t.replies[i].none => Wrote(w.page[c.path], t.replies[i].version, {t.replies[i].text})

\* The queue without its first command.
LEMMA TailOfQueue ==
    ASSUME NEW q \in Seq(Command), q # <<>>
    PROVE  LET r == Tail(q)
           IN /\ Len(q) \in Nat /\ 1 <= Len(q) /\ r \in Seq(Command) /\ Len(r) = Len(q) - 1
              /\ 1 \in DOMAIN q /\ Head(q) = q[1] /\ q[1] \in Command
              /\ \A i \in DOMAIN r : i \in Nat /\ i + 1 \in DOMAIN q /\ r[i] = q[i + 1]
              /\ \A p, a, b : a \in Nat /\ b \in Nat /\ b <= Len(r) /\ 1 <= a =>
                    (NoClose(r, p, a, b) <=> NoClose(q, p, a + 1, b + 1))
<1> DEFINE r == Tail(q)
<1>1. /\ Len(q) \in Nat /\ 1 <= Len(q) /\ r \in Seq(Command) /\ Len(r) = Len(q) - 1
      /\ 1 \in DOMAIN q /\ Head(q) = q[1] /\ q[1] \in Command
  OBVIOUS
<1>2. \A i \in 1..Len(r) : i \in Nat /\ i + 1 \in 1..Len(q) /\ r[i] = q[i + 1]
  OBVIOUS
<1>3. DOMAIN r = 1..Len(r) /\ DOMAIN q = 1..Len(q)
  BY <1>1
<1> HIDE DEF r
<1>4. ASSUME NEW p, NEW a \in Nat, NEW b \in Nat, b <= Len(r), 1 <= a
      PROVE  NoClose(r, p, a, b) <=> NoClose(q, p, a + 1, b + 1)
  <2>1. \A j \in a..b : j \in 1..Len(r) /\ j + 1 \in (a + 1)..(b + 1) /\ r[j] = q[j + 1]
    BY <1>1, <1>2, <1>4
  <2>2. \A j \in (a + 1)..(b + 1) : j - 1 \in a..b /\ j - 1 \in 1..Len(r) /\ (j - 1) + 1 = j
    BY <1>1, <1>4
  <2>3. \A j \in (a + 1)..(b + 1) : q[j] = r[j - 1]
    BY <2>2, <1>2
  <2> QED
    BY <2>1, <2>2, <2>3 DEF NoClose
<1> QED
  BY <1>1, <1>2, <1>3, <1>4 DEF r

\* Then the invariant holds of t in v, if it does of s in w.
LEMMA RunsIsFine ==
    ASSUME NEW s, NEW t, NEW w, NEW v, Deciding(s, w), Runs(s, t, w, v), Replies(s, t, w)
    PROVE  Fine(t, v)
<1> DEFINE q == s.toPage
           r == t.toPage
           c == q[1]
           l == Len(r)
<1>1. Typed(s) /\ s \in PaneType /\ q \in Seq(Command) /\ q # <<>> /\ r = Tail(q)
  BY DEF Deciding, Linked, Typed, PaneType, Runs
<1>2. /\ Len(q) \in Nat /\ 1 <= Len(q) /\ r \in Seq(Command) /\ l = Len(q) - 1
      /\ 1 \in DOMAIN q /\ c \in Command
      /\ \A i \in DOMAIN r : i \in Nat /\ i + 1 \in DOMAIN q /\ r[i] = q[i + 1]
      /\ \A p, a, b : a \in Nat /\ b \in Nat /\ b <= l /\ 1 <= a =>
            (NoClose(r, p, a, b) <=> NoClose(q, p, a + 1, b + 1))
  BY <1>1, TailOfQueue
<1>3. l \in Nat /\ l + 1 = Len(q) /\ DOMAIN r = 1..l /\ DOMAIN q = 1..Len(q)
  BY <1>1, <1>2
<1>4. /\ t \in PaneType /\ s.life = "up" /\ t.life = "up" /\ t.waiting = s.waiting /\ t.tabs = s.tabs
      /\ t.unseen = s.unseen /\ t.ask = s.ask
      /\ v.disk = w.disk /\ v.orphans = w.orphans /\ v.known = w.known /\ v.excused = w.excused
  BY DEF Runs
<1>5. ASSUME NEW p \in Paths
      PROVE  LET m == w.page[p]
                 n == v.page[p]
             IN /\ m.version \in Nat /\ n.version \in Nat
                /\ n # NoModel <=> Is(c, "open", p) \/ (m # NoModel /\ ~Is(c, "close", p))
                /\ (Is(c, "open", p) /\ m = NoModel) \/ (Is(c, "set", p) /\ m # NoModel) => n.base = c.text
                /\ KeepsBase(c, p) /\ m # NoModel => n.base = m.base
                /\ ~Is(c, "close", p) => Lasts(m, n)
  BY DEF Runs
<1>6. \A x : IsOpen(t, x) <=> IsOpen(s, x)
  BY <1>4 DEF IsOpen
<1> HIDE DEF q, r, c, l
<1>7. \A p : NoClose(q, p, 1, Len(q)) => ~Is(c, "close", p) /\ NoClose(r, p, 1, l)
  <2> SUFFICES ASSUME NEW p, NoClose(q, p, 1, Len(q))
               PROVE  ~Is(c, "close", p) /\ NoClose(r, p, 1, l)
    OBVIOUS
  <2>1. ~Is(c, "close", p)
    BY <1>2, <1>3 DEF NoClose, c
  <2>2. NoClose(q, p, 1 + 1, l + 1)
    BY <1>2, <1>3 DEF NoClose
  <2> QED
    BY <1>2, <1>3, <2>1, <2>2
<1>8. Typed(t)
  BY <1>1, <1>4, <1>6 DEF Typed, TabsDiffer
<1>9. DownIsEmpty(t, v)
  BY <1>4 DEF DownIsEmpty, Down
<1>10. IdsDiffer(t)
  <2>1. IdsDiffer(s)
    BY DEF Deciding, Linked
  <2>2. \A x, y \in t.waiting : Same(x, y) => x = y
    BY <1>4, <2>1 DEF IdsDiffer
  <2>3. ASSUME NEW i \in DOMAIN t.toPage, NEW x \in t.waiting, Asks(t.toPage[i]), Same(t.toPage[i], x)
        PROVE  t.toPage[i].op = x.op
    <3>1. i + 1 \in DOMAIN s.toPage /\ t.toPage[i] = s.toPage[i + 1]
      BY <1>2 DEF q, r
    <3> QED
      BY <1>4, <2>1, <2>3, <3>1 DEF IdsDiffer
  <2>4. ASSUME NEW i \in DOMAIN t.replies, NEW x \in t.waiting, Answers(t.replies[i], x)
        PROVE  t.replies[i] \in IF x.op = "content" THEN Content ELSE Clean
    <3>1. CASE \E j \in DOMAIN s.replies : t.replies[i] = s.replies[j]
      BY <1>4, <2>1, <2>4, <3>1 DEF IdsDiffer
    <3>2. CASE c.op \in {"clean", "content"} /\ Same(t.replies[i], c)
               /\ t.replies[i] \in IF c.op = "content" THEN Content ELSE Clean
      <4>1. Same(c, x) /\ Asks(c)
        BY <2>4, <3>2 DEF Same, Answers, Asks
      <4>2. c.op = x.op
        BY <1>2, <1>4, <2>1, <4>1 DEF IdsDiffer, c, q
      <4> QED
        BY <3>2, <4>2
    <3> QED
      BY <3>1, <3>2 DEF Replies, c, q
  <2> QED
    BY <2>2, <2>3, <2>4 DEF IdsDiffer
<1>11. ASSUME NEW p \in Paths
       PROVE  HasModel(t, v, p) <=> HasModel(s, w, p)
  <2> DEFINE m == w.page[p]
             n == v.page[p]
  <2>1. n # NoModel <=> Is(q[1], "open", p) \/ (m # NoModel /\ ~Is(q[1], "close", p))
    BY <1>5 DEF c
  <2> HIDE DEF m, n
  <2>2. \A k \in 0..(Len(q) - 1) : Exists(Tail(q), p, n, k) <=> Exists(q, p, m, k + 1)
    BY <1>1, <2>1, ExistsTail DEF q
  <2>3. l \in 0..(Len(q) - 1)
    BY <1>2, <1>3
  <2>4. Exists(r, p, n, l) <=> Exists(q, p, m, Len(q))
    <3>1. Exists(Tail(q), p, n, l) <=> Exists(q, p, m, l + 1)
      BY <2>2, <2>3
    <3> QED
      BY <1>1, <1>3, <3>1 DEF q, r
  <2> QED
    BY <2>4 DEF HasModel, q, r, l, m, n
<1>12. Follows(t, v)
  BY <1>4, <1>6, <1>11 DEF Deciding, Linked, Follows, Rebuilding
<1>13. FromDisk(t, v)
  BY <1>2, <1>4 DEF Deciding, Linked, FromDisk, q, r
<1>14. MarksAreTrue(t, v)
  <2> SUFFICES ASSUME NEW i \in DOMAIN r, r[i].op = "mark", r[i].path \notin w.orphans
               PROVE  /\ Wrote(v.page[r[i].path], r[i].version, w.disk[r[i].path].past)
                      /\ NoClose(r, r[i].path, 1, i - 1)
    BY <1>4 DEF MarksAreTrue, r
  <2> DEFINE p == r[i].path
  <2>1. i \in Nat /\ i + 1 \in DOMAIN q /\ r[i] = q[i + 1] /\ i <= l /\ 1 <= i
    BY <1>2, <1>3
  <2>2. r[i] \in Command
    BY <1>2
  <2>3. p \in Paths /\ r[i].version \in Nat
    BY <2>2, CommandFields
  <2>4. Wrote(w.page[p], r[i].version, w.disk[p].past) /\ NoClose(q, p, 1, (i + 1) - 1)
    BY <2>1 DEF Deciding, Linked, MarksAreTrue, q
  <2> HIDE DEF p
  <2>5. ~Is(c, "close", p)
    <3>1. 1 \in 1..((i + 1) - 1)
      BY <2>1
    <3> QED
      BY <2>4, <3>1 DEF NoClose, c
  <2>6. NoClose(r, p, 1, i - 1)
    <3>1. NoClose(q, p, 1 + 1, (i - 1) + 1)
      <4>1. \A j \in (1 + 1)..((i - 1) + 1) : j \in 1..((i + 1) - 1)
        BY <2>1
      <4> QED
        BY <2>4, <4>1 DEF NoClose
    <3>2. i - 1 \in Nat /\ i - 1 <= l
      BY <1>3, <2>1
    <3> QED
      BY SMTT(30), <1>2, <3>1, <3>2
  <2>7. Wrote(v.page[p], r[i].version, w.disk[p].past)
    BY <1>5, <2>3, <2>4, <2>5, WroteGoesOn
  <2> QED
    BY <2>6, <2>7 DEF p
<1>15. ReadsItsTab(t, v)
  <2> SUFFICES ASSUME NEW x \in t.waiting, Trusted(t, v, x)
               PROVE  WillRead(t, x) /\ HasRead(t, v, x)
    BY DEF ReadsItsTab
  <2> DEFINE p == x.path
  <2>1. x \in s.waiting /\ Trusted(s, w, x)
    BY <1>4, <1>6 DEF Trusted
  <2>2. WillRead(s, x) /\ HasRead(s, w, x)
    BY <2>1 DEF Deciding, Linked, ReadsItsTab
  <2>3. p \in Paths
    BY <1>1, <2>1, CleanFields DEF PaneType
  <2>4. WillRead(t, x)
    <3> SUFFICES ASSUME NEW i \in DOMAIN r, Asks(r[i]), Same(r[i], x)
                 PROVE  NoClose(r, p, i + 1, l)
      BY DEF WillRead, r, l
    <3>1. i \in Nat /\ i + 1 \in DOMAIN q /\ r[i] = q[i + 1]
      BY <1>2
    <3>2. NoClose(q, p, (i + 1) + 1, l + 1)
      BY <1>3, <2>2, <3>1 DEF WillRead, q
    <3>3. i + 1 \in Nat /\ 1 <= i + 1 /\ l <= l
      BY <1>3, <3>1
    <3> HIDE DEF p
    <3> QED
      BY <1>2, <1>3, <3>2, <3>3
  <2>5. ASSUME NEW i \in DOMAIN t.replies, Answers(t.replies[i], x), ~t.replies[i].none
        PROVE  /\ Wrote(v.page[p], t.replies[i].version, {t.replies[i].text})
               /\ NoClose(r, p, 1, l)
    <3>1. t.replies[i] \in Content /\ t.replies[i].version \in Nat
      <4>1. t.replies[i] \in Content
        BY <1>10, <2>5, <2>1 DEF IdsDiffer, Trusted
      <4> QED
        BY <4>1 DEF Content
    <3>2. CASE \E j \in DOMAIN s.replies : t.replies[i] = s.replies[j]
      <4>1. /\ Wrote(w.page[p], t.replies[i].version, {t.replies[i].text})
            /\ NoClose(q, p, 1, Len(q))
        BY <1>4, <2>2, <2>5, <3>2 DEF HasRead, q
      <4> HIDE DEF p
      <4>2. ~Is(c, "close", p) /\ NoClose(r, p, 1, l)
        BY <1>7, <4>1
      <4> QED
        BY <1>5, <2>3, <3>1, <4>1, <4>2, WroteGoesOn
    <3>3. CASE c.op = "clean" /\ t.replies[i] \in Clean /\ Same(t.replies[i], c)
      <4>1. Same(c, x) /\ Asks(c)
        BY <2>5, <3>3 DEF Same, Answers, Asks
      <4>2. c.op = x.op
        BY <1>2, <2>1, <4>1 DEF Deciding, Linked, IdsDiffer, c, q
      <4> QED
        BY <2>1, <3>3, <4>2 DEF Trusted
    <3>4. CASE /\ c.op = "content" /\ Same(t.replies[i], c)
               /\ Wrote(w.page[c.path], t.replies[i].version, {t.replies[i].text})
      <4>1. Same(c, x) /\ Asks(c) /\ c.path = p
        BY <2>5, <3>4 DEF Same, Answers, Asks
      <4>2. NoClose(q, p, 1 + 1, l + 1)
        BY <1>2, <1>3, <2>2, <4>1 DEF WillRead, c, q
      <4>3. NoClose(r, p, 1, l)
        <5> HIDE DEF p
        <5>1. l <= l
          BY <1>3
        <5> QED
          BY <1>2, <1>3, <4>2, <5>1
      <4>4. ~Is(c, "close", p)
        BY <3>4 DEF Is
      <4> HIDE DEF p
      <4>5. Wrote(w.page[p], t.replies[i].version, {t.replies[i].text})
        BY <3>4, <4>1
      <4> QED
        BY <1>5, <2>3, <3>1, <4>3, <4>4, <4>5, WroteGoesOn
    <3> QED
      BY <2>5, <3>2, <3>3, <3>4 DEF Replies, c, q
  <2>6. HasRead(t, v, x)
    BY <2>5 DEF HasRead, r, l
  <2> QED
    BY <2>4, <2>6
<1>16. SavesAreKnown(t, v)
  BY <1>4, <1>6 DEF Deciding, Linked, SavesAreKnown
<1>17. AllNoticed(t, v)
  <2> SUFFICES ASSUME NEW p \in Paths \ w.excused
               PROVE  Noticed(t, v, p)
    BY <1>4 DEF AllNoticed
  <2>1. Noticed(s, w, p)
    BY DEF Deciding, AllNoticed
  <2>2. ASSUME BaseIs(q, p, w.page[p], w.disk[p].text)
        PROVE  BaseIs(r, p, v.page[p], w.disk[p].text)
    <3> DEFINE m == w.page[p]
               n == v.page[p]
               text == w.disk[p].text
    <3>1. /\ n # NoModel <=> Is(q[1], "open", p) \/ (m # NoModel /\ ~Is(q[1], "close", p))
          /\ Is(q[1], "open", p) /\ m = NoModel => n.base = q[1].text
          /\ Is(q[1], "set", p) /\ m # NoModel => n.base = q[1].text
          /\ KeepsBase(q[1], p) /\ m # NoModel => n.base = m.base
      BY <1>5 DEF c
    <3>2. BaseIs(q, p, m, text)
      BY <2>2
    <3> HIDE DEF m, n, text
    <3>3. q \in Seq(Command) /\ q # <<>> /\ r = Tail(q)
      BY <1>1 DEF q, r
    <3>4. BaseIs(Tail(q), p, n, text)
      BY <3>1, <3>2, <3>3, BaseTail
    <3> QED
      BY <3>3, <3>4 DEF n, text
  <2>3. ~Rebuilding(s)
    BY <1>4 DEF Rebuilding
  <2> QED
    BY <1>4, <1>6, <2>1, <2>2, <2>3 DEF Noticed, Conflict, Checked, UpToDate, q, r
<1>18. Linked(t, v)
  BY <1>8, <1>9, <1>10, <1>12, <1>13, <1>14, <1>15, <1>16 DEF Linked
<1> QED
  BY <1>17, <1>18 DEF Fine

\* PageRuns
LEMMA PageRunsStep ==
    ASSUME IInv, NEW op \in {"open", "set", "mark", "restore", "close", "content", "clean"}, PageRuns(op)
    PROVE  IInv'
<1> DEFINE c == Head(pane.toPage)
           p == c.path
           s == [pane EXCEPT !.toPage = Tail(pane.toPage)]
           m == page[p]
           n == PageModel(c)
           w == During(page', disk', {}, {})
<1>1. /\ pane.life = "up" /\ pane.toPage # <<>> /\ c.op = op
      /\ page' = [page EXCEPT ![p] = n]
      /\ pane' = CASE op = "content" -> [s EXCEPT !.replies = Append(@, GetContent(c))]
                   [] op = "clean" -> [s EXCEPT !.replies = Append(@, IsClean(c))]
                   [] OTHER -> IF Posts(c) THEN Post(s, DirtyChanged(p, n)) ELSE s
      /\ disk' = disk /\ count' = count /\ Watch
  BY DEF PageRuns
<1>2. Deciding(pane, Alone) /\ pane \in PaneType /\ CountsTyped /\ FilesTyped
  BY AloneStarts
<1>3. PageTyped /\ SavedIsOnDisk /\ page \in [Paths -> Model]
  BY DEF IInv, PageTyped
<1>4. pane.toPage \in Seq(Command) /\ c \in Command /\ c = pane.toPage[1] /\ 1 \in DOMAIN pane.toPage
  <2>1. pane.toPage \in Seq(Command)
    BY <1>2 DEF PaneType
  <2> QED
    BY <1>1, <2>1, TailOfQueue
<1> HIDE DEF c
<1>5. p \in Paths /\ (Asks(c) => c.id \in Nat)
  BY <1>4, CommandFields
<1>6. /\ c.op \in {"open", "set"} => c.text \in disk[c.path].past
      /\ c.op = "mark" /\ c.path \notin ghost.orphans => Wrote(page[c.path], c.version, disk[c.path].past)
  BY <1>2, <1>4 DEF Deciding, Linked, FromDisk, MarksAreTrue, Alone, During
<1>7. /\ m \in Model /\ n \in Model
      /\ n # NoModel <=> c.op = "open" \/ (m # NoModel /\ c.op # "close")
      /\ (c.op = "open" /\ m = NoModel) \/ (c.op = "set" /\ m # NoModel) => n.base = c.text
      /\ c.op \notin {"set", "mark", "close"} /\ m # NoModel => n.base = m.base
      /\ m # NoModel /\ c.op # "close" =>
             m.version <= n.version /\ (n.version = m.version => n.text = m.text)
      /\ n # NoModel => 1 <= n.version /\ 1 <= n.saved /\ n.saved <= n.version
      /\ p \notin ghost.orphans /\ n # NoModel /\ ~Dirty(n) => n.text \in disk[p].past
      /\ c.op \in {"content", "clean"} => n = m
  BY <1>2, <1>3, <1>4, <1>6, ModelRuns
<1> HIDE DEF n
<1>8. page' \in [Paths -> Model] /\ page'[p] = n /\ \A x \in Paths \ {p} : page'[x] = page[x]
  BY <1>1, <1>3, <1>5, <1>7
<1>9. Clock \in Nat /\ Clock' = Clock
  BY <1>1, <1>2, ClocksAreNumbers DEF Clock
<1>10. DirtyChanged(p, n) \in Message
  BY <1>5 DEF DirtyChanged, Dirty, Message
<1>11. m.version \in Nat /\ m.text \in Past /\ n.version \in Nat
  BY <1>7 DEF Model
<1>12. ASSUME NEW replies \in Seq(Content \cup Clean), NEW posts \in Seq(Message),
              pane' = [pane EXCEPT !.toPage = Tail(pane.toPage), !.replies = replies, !.posts = posts],
              \A i \in DOMAIN replies :
                 \/ \E j \in DOMAIN pane.replies : replies[i] = pane.replies[j]
                 \/ /\ c.op = "clean" /\ replies[i] \in Clean /\ Same(replies[i], c)
                 \/ /\ c.op = "content" /\ replies[i] \in Content /\ Same(replies[i], c)
                    /\ ~replies[i].none => Wrote(m, replies[i].version, {replies[i].text})
       PROVE  IInv'
  <2>1. /\ pane' \in PaneType /\ pane'.toPage = Tail(pane.toPage) /\ pane'.replies = replies
        /\ pane'.tabs = pane.tabs /\ pane'.unseen = pane.unseen /\ pane'.waiting = pane.waiting
        /\ pane'.ask = pane.ask /\ pane'.life = pane.life /\ pane'.needsModelRestore = pane.needsModelRestore
    <3> DEFINE left == Tail(pane.toPage)
    <3>1. pane \in PaneType /\ left \in Seq(Command)
      BY <1>1, <1>2, <1>4
    <3> HIDE DEF left
    <3>2. pane' = [pane EXCEPT !.toPage = left, !.replies = replies, !.posts = posts]
      BY <1>12 DEF left
    <3>3. pane' \in PaneType /\ pane'.toPage = left /\ pane'.replies = replies
      BY <3>1, <3>2 DEF PaneType
    <3>4. /\ pane'.tabs = pane.tabs /\ pane'.unseen = pane.unseen /\ pane'.waiting = pane.waiting
          /\ pane'.ask = pane.ask /\ pane'.life = pane.life /\ pane'.needsModelRestore = pane.needsModelRestore
      BY <3>1, <3>2 DEF PaneType
    <3> QED
      BY <3>3, <3>4 DEF left
  <2>2. /\ w.disk = Alone.disk /\ w.orphans = Alone.orphans /\ w.known = Alone.known
        /\ w.excused = Alone.excused /\ w.page = page' /\ Alone.page = page
    BY <1>1 DEF During, Alone
  <2>3. ASSUME NEW x \in Paths
        PROVE  LET k == page[x]
                   l == page'[x]
               IN /\ k.version \in Nat /\ l.version \in Nat
                  /\ l # NoModel <=> Is(c, "open", x) \/ (k # NoModel /\ ~Is(c, "close", x))
                  /\ (Is(c, "open", x) /\ k = NoModel) \/ (Is(c, "set", x) /\ k # NoModel) => l.base = c.text
                  /\ KeepsBase(c, x) /\ k # NoModel => l.base = k.base
                  /\ ~Is(c, "close", x) => Lasts(k, l)
    <3>1. CASE x = p
      <4>1. page'[x] = n /\ page[x] = m
        BY <1>8, <3>1
      <4>2. KeepsBase(c, x) <=> c.op \notin {"set", "mark", "close"}
        BY <3>1 DEF KeepsBase, Is
      <4>3. \A y : Is(c, y, x) <=> c.op = y
        BY <3>1 DEF Is
      <4> HIDE DEF m
      <4> QED
        BY <1>7, <1>11, <4>1, <4>2, <4>3 DEF Lasts
    <3>2. CASE x # p
      <4>1. page'[x] = page[x] /\ page[x].version \in Nat
        BY <1>3, <1>8, <3>2 DEF Model
      <4>2. \A y : ~Is(c, y, x)
        BY <3>2 DEF Is
      <4> QED
        BY <4>1, <4>2 DEF Lasts
    <3> QED
      BY <3>1, <3>2
  <2>4. Runs(pane, pane', Alone, w)
    <3> DEFINE Becomes(x) ==
                 LET k == Alone.page[x]
                     l == w.page[x]
                 IN /\ k.version \in Nat /\ l.version \in Nat
                    /\ l # NoModel <=> Is(c, "open", x) \/ (k # NoModel /\ ~Is(c, "close", x))
                    /\ (Is(c, "open", x) /\ k = NoModel) \/ (Is(c, "set", x) /\ k # NoModel) => l.base = c.text
                    /\ KeepsBase(c, x) /\ k # NoModel => l.base = k.base
                    /\ ~Is(c, "close", x) => Lasts(k, l)
    <3> HIDE DEF w
    <3>1. \A x \in Paths : Becomes(x)
      BY <2>2, <2>3
    <3>2. /\ pane.life = "up" /\ pane.toPage # <<>> /\ c = pane.toPage[1]
      BY <1>1, <1>4
    <3> HIDE DEF p
    <3> QED
      BY <2>1, <2>2, <3>1, <3>2 DEF Runs
  <2>5. Replies(pane, pane', Alone)
    BY ZenonT(30), <1>4, <1>12, <2>1, <2>2 DEF Replies
  <2>6. Fine(pane', During(page', disk', {}, {}))
    <3> HIDE DEF w
    <3>1. Fine(pane', w)
      BY <1>2, <2>4, <2>5, RunsIsFine
    <3> QED
      BY <3>1 DEF w
  <2>7. Watch /\ Clock' \in Nat /\ Clock <= Clock'
    BY <1>1, <1>9
  <2>8. Linked(pane, Now)' /\ AllNoticed(pane, Now)'
    BY <1>9, <2>6, <2>7, EndOfPlainStep
  <2>9. FilesTyped' /\ CountsTyped'
    <3>1. File' = File
      BY <1>9 DEF File, Past
    <3>2. FilesTyped'
      BY <1>1, <1>2, <3>1 DEF FilesTyped
    <3>3. CountsTyped'
      BY <1>1, <1>2 DEF CountsTyped, Troubles
    <3> QED
      BY <3>2, <3>3
  <2>10. PageTyped'
    <3>1. Model' = Model
      BY <1>9 DEF Model, Past
    <3>2. \A x \in Paths : page'[x] # NoModel =>
             1 <= page'[x].version /\ 1 <= page'[x].saved /\ page'[x].saved <= page'[x].version
      BY <1>3, <1>7, <1>8 DEF PageTyped
    <3> QED
      BY <1>8, <3>1, <3>2 DEF PageTyped
  <2>11. SavedIsOnDisk'
    <3>1. ghost.orphans \subseteq ghost'.orphans
      BY <1>1 DEF Watch
    <3>2. \A x \in Paths \ ghost.orphans : page'[x] # NoModel /\ ~Dirty(page'[x]) => page'[x].text \in disk[x].past
      BY <1>3, <1>7, <1>8 DEF SavedIsOnDisk
    <3> QED
      BY <1>1, <3>1, <3>2 DEF SavedIsOnDisk
  <2> QED
    BY <2>8, <2>9, <2>10, <2>11 DEF IInv
<1> DEFINE rest == Tail(pane.toPage)
<1>13. pane.replies \in Seq(Content \cup Clean) /\ pane.posts \in Seq(Message)
  BY <1>2 DEF PaneType
<1>14. s.replies = pane.replies /\ s.posts = pane.posts
  BY <1>2 DEF PaneType
<1>15. ASSUME NEW r \in Content \cup Clean, pane' = [s EXCEPT !.replies = Append(@, r)],
              \/ c.op = "clean" /\ r \in Clean /\ Same(r, c)
              \/ /\ c.op = "content" /\ r \in Content /\ Same(r, c)
                 /\ ~r.none => Wrote(m, r.version, {r.text})
       PROVE  IInv'
  <2> DEFINE new == Append(pane.replies, r)
  <2>1. new \in Seq(Content \cup Clean)
    BY <1>13, <1>15
  <2>2. \A i \in DOMAIN new : new[i] = r \/ \E j \in DOMAIN pane.replies : new[i] = pane.replies[j]
    BY <1>13
  <2>3. pane' = [s EXCEPT !.replies = new]
    BY <1>14, <1>15
  <2> HIDE DEF new, m
  <2>4. pane' = [pane EXCEPT !.toPage = rest, !.replies = new, !.posts = pane.posts]
    <3> HIDE DEF rest
    <3>1. s = [pane EXCEPT !.toPage = rest]
      BY DEF rest
    <3> HIDE DEF s
    <3> QED
      BY <1>2, <2>3, <3>1 DEF PaneType
  <2>5. \A i \in DOMAIN new :
           \/ \E j \in DOMAIN pane.replies : new[i] = pane.replies[j]
           \/ c.op = "clean" /\ new[i] \in Clean /\ Same(new[i], c)
           \/ /\ c.op = "content" /\ new[i] \in Content /\ Same(new[i], c)
              /\ ~new[i].none => Wrote(m, new[i].version, {new[i].text})
    BY <1>15, <2>2
  <2> QED
    BY <1>12, <1>13, <2>1, <2>4, <2>5 DEF m
<1>16. CASE c.op = "content"
  <2> DEFINE r == GetContent(c)
             none == m = NoModel
  <2>1. Asks(c) /\ c.id \in Nat /\ none \in BOOLEAN
    BY <1>5, <1>16 DEF Asks
  <2>2. r = [id |-> c.id, path |-> p, at |-> Clock, version |-> m.version, text |-> m.text, none |-> none]
    BY DEF GetContent
  <2> HIDE DEF r, none
  <2>9. r \in Content
    <3> HIDE DEF m, p
    <3> QED
      BY <1>5, <1>9, <1>11, <2>1, <2>2 DEF Content
  <2>10. r.id = c.id /\ r.path = p /\ r.version = m.version /\ r.text = m.text /\ r.none = none
    BY <2>2
  <2>3. /\ r.id = c.id /\ r.path = p /\ r.version = m.version /\ r.text = m.text /\ (r.none <=> m = NoModel)
        /\ r \in Content
    BY <2>9, <2>10 DEF none
  <2>4. Same(r, c)
    BY <2>3 DEF Same
  <2>5. pane' = [s EXCEPT !.replies = Append(@, r)]
    BY <1>1, <1>16 DEF r
  <2>6. ~r.none => Wrote(m, r.version, {r.text})
    BY <1>11, <2>3 DEF Wrote
  <2> HIDE DEF r, s, m
  <2> QED
    BY <1>15, <1>16, <2>3, <2>4, <2>5, <2>6
<1>17. CASE c.op = "clean"
  <2> DEFINE r == IsClean(c)
  <2>1. Asks(c) /\ c.id \in Nat
    BY <1>5, <1>17 DEF Asks
  <2>2. r = [id |-> c.id, path |-> p, at |-> Clock, clean |-> ~Dirty(m)]
    BY DEF IsClean
  <2>3. r.id = c.id /\ r.path = p /\ r \in Clean
    BY <1>5, <1>9, <2>1, <2>2 DEF Clean, Dirty
  <2>4. Same(r, c)
    BY <2>3 DEF Same
  <2>5. pane' = [s EXCEPT !.replies = Append(@, r)]
    BY <1>1, <1>17
  <2> HIDE DEF r, s, m
  <2> QED
    BY <1>15, <1>17, <2>3, <2>4, <2>5
<1>18. CASE c.op \notin {"content", "clean"}
  <2>1. pane' = IF Posts(c) THEN Post(s, DirtyChanged(p, n)) ELSE s
    BY <1>1, <1>18
  <2> DEFINE posts == IF Posts(c) THEN Append(pane.posts, DirtyChanged(p, n)) ELSE pane.posts
  <2>2. posts \in Seq(Message)
    BY <1>10, <1>13
  <2>3. pane' = [pane EXCEPT !.toPage = rest, !.replies = pane.replies, !.posts = posts]
    <3> HIDE DEF rest
    <3>1. s = [pane EXCEPT !.toPage = rest]
      BY DEF rest
    <3> HIDE DEF s
    <3>2. s = [s EXCEPT !.posts = pane.posts]
      BY <1>2, <3>1 DEF PaneType
    <3>3. pane' = [s EXCEPT !.posts = posts]
      BY <1>14, <2>1, <3>2 DEF Post
    <3> HIDE DEF posts
    <3> QED
      BY <1>2, <3>1, <3>3 DEF PaneType
  <2> HIDE DEF posts
  <2> QED
    BY <1>12, <1>13, <2>2, <2>3
<1> QED
  BY <1>16, <1>17, <1>18

-----------------------------------------------------------------------------
(* Commands sent together.                                                     *)

\* No command of b closes a model or replaces its text.
Gentle(b) == \A j \in 1..Len(b) : b[j].op \notin {"set", "mark", "close"}

\* A queue and what is sent after it.
LEMMA BatchQueue ==
    ASSUME NEW q \in Seq(Command), NEW b \in Seq(Command)
    PROVE  LET r == q \o b
           IN /\ r \in Seq(Command) /\ Len(r) = Len(q) + Len(b) /\ Len(q) \in Nat /\ Len(b) \in Nat
              /\ DOMAIN r = 1..Len(r) /\ DOMAIN q = 1..Len(q) /\ DOMAIN b = 1..Len(b)
              /\ \A i \in 1..Len(q) : r[i] = q[i]
              /\ \A j \in 1..Len(b) : r[Len(q) + j] = b[j]
              /\ \A i \in 1..Len(r) : i \in 1..Len(q) \/ \E j \in 1..Len(b) : i = Len(q) + j
<1> DEFINE r == q \o b
<1>1. r \in Seq(Command) /\ Len(r) = Len(q) + Len(b) /\ Len(q) \in Nat /\ Len(b) \in Nat
  OBVIOUS
<1>2. DOMAIN r = 1..Len(r) /\ DOMAIN q = 1..Len(q) /\ DOMAIN b = 1..Len(b)
  BY <1>1
<1>3. \A i \in 1..Len(q) : r[i] = q[i]
  OBVIOUS
<1>4. \A j \in 1..Len(b) : r[Len(q) + j] = b[j]
  OBVIOUS
<1>5. ASSUME NEW i \in 1..Len(r), i \notin 1..Len(q)
      PROVE  \E j \in 1..Len(b) : i = Len(q) + j
  <2>1. i - Len(q) \in 1..Len(b) /\ i = Len(q) + (i - Len(q))
    BY <1>1, <1>5
  <2> QED
    BY <2>1
<1> QED
  BY <1>1, <1>2, <1>3, <1>4, <1>5

\* What is gentle closes nothing.
LEMMA NoCloseBatch ==
    ASSUME NEW q \in Seq(Command), NEW b \in Seq(Command), Gentle(b), NEW p, NEW a \in Nat, 1 <= a,
           NEW j \in 0..Len(b)
    PROVE  /\ NoClose(q \o b, p, a, Len(q) + j) <=> NoClose(q, p, a, Len(q))
           /\ \A n \in 0..Len(q) : NoClose(q \o b, p, a, n) <=> NoClose(q, p, a, n)
<1> DEFINE r == q \o b
           l == Len(q)
<1>1. /\ Len(r) = l + Len(b) /\ l \in Nat /\ Len(b) \in Nat
      /\ \A i \in 1..l : r[i] = q[i]
      /\ \A k \in 1..Len(b) : r[l + k] = b[k]
      /\ \A i \in 1..Len(r) : i \in 1..l \/ \E k \in 1..Len(b) : i = l + k
  BY BatchQueue
<1> HIDE DEF r, l
<1>2. \A i \in a..(l + j) : i \in 1..Len(r)
  BY <1>1
<1>3. \A i \in a..l : i \in 1..l /\ i \in a..(l + j)
  BY <1>1
<1>4. ASSUME NoClose(q, p, a, l), NEW i \in a..(l + j)
      PROVE  ~Is(r[i], "close", p)
  <2>1. CASE i \in 1..l
    <3>1. i \in a..l
      BY <1>1, <2>1
    <3> QED
      BY <1>1, <1>4, <2>1, <3>1 DEF NoClose
  <2>2. CASE i \notin 1..l
    <3>1. PICK k \in 1..Len(b) : i = l + k
      BY <1>1, <1>2, <2>2
    <3>2. r[i] = b[k] /\ b[k].op # "close"
      BY <1>1, <3>1 DEF Gentle
    <3> QED
      BY <3>2 DEF Is
  <2> QED
    BY <2>1, <2>2
<1>5. NoClose(r, p, a, l + j) => NoClose(q, p, a, l)
  BY <1>1, <1>3 DEF NoClose
<1>6. NoClose(r, p, a, l + j) <=> NoClose(q, p, a, l)
  BY <1>4, <1>5 DEF NoClose
<1>7. ASSUME NEW n \in 0..l
      PROVE  NoClose(r, p, a, n) <=> NoClose(q, p, a, n)
  <2>1. \A i \in a..n : i \in 1..l
    BY <1>1
  <2> QED
    BY <1>1, <2>1 DEF NoClose
<1> QED
  BY <1>6, <1>7 DEF r, l

\* The models that there will be.
LEMMA ExistsBatch ==
    ASSUME NEW q \in Seq(Command), NEW b \in Seq(Command), Gentle(b), NEW p, NEW m
    PROVE  /\ \A n \in 0..Len(q) : Exists(q \o b, p, m, n) <=> Exists(q, p, m, n)
           /\ \A j \in 0..Len(b) : Exists(q \o b, p, m, Len(q) + j)
                 <=> Exists(q, p, m, Len(q)) \/ \E k \in 1..j : Is(b[k], "open", p)
<1> DEFINE r == q \o b
           l == Len(q)
<1>1. /\ Len(r) = l + Len(b) /\ l \in Nat /\ Len(b) \in Nat
      /\ \A i \in 1..l : r[i] = q[i]
      /\ \A k \in 1..Len(b) : r[l + k] = b[k]
      /\ \A i \in 1..Len(r) : i \in 1..l \/ \E k \in 1..Len(b) : i = l + k
  BY BatchQueue
<1>2. \A a \in Nat, j \in 0..Len(b) : 1 <= a => (NoClose(r, p, a, l + j) <=> NoClose(q, p, a, l))
  BY NoCloseBatch
<1>3. \A a \in Nat, n \in 0..l : 1 <= a => (NoClose(r, p, a, n) <=> NoClose(q, p, a, n))
  <2>1. 0 \in 0..Len(b)
    BY <1>1
  <2> QED
    BY <2>1, NoCloseBatch
<1> HIDE DEF r, l
<1>4. ASSUME NEW n \in 0..l
      PROVE  Exists(r, p, m, n) <=> Exists(q, p, m, n)
  <2>1. \A i \in 1..n : i \in 1..l /\ i + 1 \in Nat /\ 1 <= i + 1
    BY <1>1
  <2> QED
    BY <1>1, <1>3, <2>1 DEF Exists
<1>5. ASSUME NEW j \in 0..Len(b)
      PROVE  Exists(r, p, m, l + j) <=> Exists(q, p, m, l) \/ \E k \in 1..j : Is(b[k], "open", p)
  <2>1. \A i \in 1..l : i \in 1..(l + j) /\ i + 1 \in Nat /\ 1 <= i + 1
    BY <1>1
  <2>2. \A k \in 1..j : l + k \in 1..(l + j) /\ (l + k) + 1 \in Nat /\ 1 <= (l + k) + 1 /\ k \in 1..Len(b)
    BY <1>1
  <2>3. \A k \in 1..j : NoClose(r, p, (l + k) + 1, l + j)
    <3> SUFFICES ASSUME NEW k \in 1..j
                 PROVE  NoClose(r, p, (l + k) + 1, l + j)
      OBVIOUS
    <3>1. NoClose(q, p, (l + k) + 1, l)
      BY <1>1 DEF NoClose
    <3> QED
      BY <1>2, <2>2, <3>1
  <2>4. \A i \in 1..(l + j) : i \in 1..l \/ \E k \in 1..j : i = l + k
    <3> SUFFICES ASSUME NEW i \in 1..(l + j), i \notin 1..l
                 PROVE  \E k \in 1..j : i = l + k
      OBVIOUS
    <3>1. i - l \in 1..j /\ i = l + (i - l)
      BY <1>1
    <3> QED
      BY <3>1
  <2>5. (\E i \in 1..(l + j) : Is(r[i], "open", p) /\ NoClose(r, p, i + 1, l + j))
        <=> \/ \E i \in 1..l : Is(q[i], "open", p) /\ NoClose(q, p, i + 1, l)
            \/ \E k \in 1..j : Is(b[k], "open", p)
    <3>1. \A i \in 1..l : (Is(r[i], "open", p) /\ NoClose(r, p, i + 1, l + j))
                          <=> (Is(q[i], "open", p) /\ NoClose(q, p, i + 1, l))
      BY <1>1, <1>2, <2>1
    <3>2. \A k \in 1..j : (Is(r[l + k], "open", p) /\ NoClose(r, p, (l + k) + 1, l + j)) <=> Is(b[k], "open", p)
      BY <1>1, <2>2, <2>3
    <3>3. ASSUME NEW i \in 1..(l + j), Is(r[i], "open", p), NoClose(r, p, i + 1, l + j)
          PROVE  \/ \E i_1 \in 1..l : Is(q[i_1], "open", p) /\ NoClose(q, p, i_1 + 1, l)
                 \/ \E k \in 1..j : Is(b[k], "open", p)
      BY <2>4, <3>1, <3>2, <3>3
    <3> QED
      BY <2>1, <2>2, <3>1, <3>2, <3>3
  <2>6. NoClose(r, p, 1, l + j) <=> NoClose(q, p, 1, l)
    BY <1>2
  <2> QED
    BY <2>5, <2>6 DEF Exists
<1> QED
  BY <1>4, <1>5 DEF r, l

\* What a model is based on, it stays based on.
LEMMA BaseBatch ==
    ASSUME NEW q \in Seq(Command), NEW b \in Seq(Command), Gentle(b), NEW p, NEW m, NEW text
    PROVE  /\ BaseIs(q, p, m, text) => BaseIs(q \o b, p, m, text)
           /\ \A k \in 1..Len(b) :
                 /\ ~Exists(q, p, m, Len(q)) /\ Is(b[k], "open", p) /\ b[k].text = text
                 /\ \A j \in 1..(k - 1) : ~Is(b[j], "open", p)
                 => BaseIs(q \o b, p, m, text)
<1> DEFINE r == q \o b
           l == Len(q)
<1>1. /\ Len(r) = l + Len(b) /\ l \in Nat /\ Len(b) \in Nat
      /\ \A i \in 1..l : r[i] = q[i]
      /\ \A k \in 1..Len(b) : r[l + k] = b[k]
      /\ \A i \in 1..Len(r) : i \in 1..l \/ \E k \in 1..Len(b) : i = l + k
  BY BatchQueue
<1>2. /\ \A n \in 0..l : Exists(r, p, m, n) <=> Exists(q, p, m, n)
      /\ \A j \in 0..Len(b) : Exists(r, p, m, l + j)
            <=> Exists(q, p, m, l) \/ \E k \in 1..j : Is(b[k], "open", p)
  BY ExistsBatch
<1> HIDE DEF r, l
<1>3. \A k \in 1..Len(b) : KeepsBase(b[k], p)
  BY DEF Gentle, KeepsBase, Is
<1>4. ASSUME NEW a \in Nat, 1 <= a, \A i \in a..l : KeepsBase(q[i], p)
      PROVE  Stays(r, p, a)
  <2> SUFFICES ASSUME NEW i \in a..Len(r)
               PROVE  KeepsBase(r[i], p)
    BY DEF Stays
  <2>1. i \in 1..Len(r)
    BY <1>1, <1>4
  <2>2. CASE i \in 1..l
    <3>1. i \in a..l
      BY <1>1, <2>2
    <3> QED
      BY <1>1, <1>4, <2>2, <3>1
  <2>3. CASE i \notin 1..l
    BY <1>1, <1>3, <2>1, <2>3
  <2> QED
    BY <2>2, <2>3
<1>5. ASSUME BaseIs(q, p, m, text)
      PROVE  BaseIs(r, p, m, text)
  <2>1. CASE \E i \in 1..Len(q) : Sets(q, p, m, i) /\ q[i].text = text /\ Stays(q, p, i + 1)
    <3> PICK i \in 1..l : Sets(q, p, m, i) /\ q[i].text = text /\ Stays(q, p, i + 1)
      BY <2>1 DEF l
    <3>1. i - 1 \in 0..l /\ i \in 1..Len(r) /\ i + 1 \in Nat /\ 1 <= i + 1 /\ r[i] = q[i]
      BY <1>1
    <3>2. Sets(r, p, m, i)
      BY <1>2, <3>1 DEF Sets
    <3>3. Stays(r, p, i + 1)
      BY <1>4, <3>1 DEF Stays, l
    <3> QED
      BY <3>1, <3>2, <3>3 DEF BaseIs
  <2>2. CASE m # NoModel /\ m.base = text /\ Stays(q, p, 1)
    <3>1. Stays(r, p, 1)
      BY SMTT(30), <1>4, <2>2 DEF Stays, l
    <3> QED
      BY <2>2, <3>1 DEF BaseIs
  <2> QED
    BY <1>5, <2>1, <2>2 DEF BaseIs
<1>6. ASSUME NEW k \in 1..Len(b), ~Exists(q, p, m, l), Is(b[k], "open", p), b[k].text = text,
             \A j \in 1..(k - 1) : ~Is(b[j], "open", p)
      PROVE  BaseIs(r, p, m, text)
  <2> DEFINE i == l + k
  <2>1. k - 1 \in 0..Len(b) /\ i \in 1..Len(r) /\ i - 1 = l + (k - 1) /\ i + 1 \in Nat /\ 1 <= i + 1 /\ r[i] = b[k]
    BY <1>1
  <2>2. \A j \in (i + 1)..l : FALSE
    BY <1>1
  <2> HIDE DEF i
  <2>3. ~Exists(r, p, m, i - 1)
    BY <1>2, <1>6, <2>1
  <2>4. Sets(r, p, m, i)
    BY <1>6, <2>1, <2>3 DEF Sets
  <2>5. Stays(r, p, i + 1)
    BY <1>4, <2>1, <2>2
  <2> QED
    BY <1>6, <2>1, <2>4, <2>5 DEF BaseIs
<1> QED
  BY <1>5, <1>6 DEF r, l

\* Questions that are asked together, about all the files that are noted as changed.
LEMMA AskedTogether ==
    ASSUME NEW s, NEW t, NEW w, Deciding(s, w), s.life # "loading", t \in PaneType,
           t.tabs = s.tabs, t.replies = s.replies, t.posts = s.posts, t.ask = s.ask, t.life = s.life,
           t.needsModelRestore = s.needsModelRestore, t.unseen = {},
           NEW new, new \subseteq Questions, IsFiniteSet(new), t.waiting = s.waiting \cup new,
           \A x \in new : x.op = "clean" /\ x.id \notin UsedIds(s),
           \A x, y \in new : Same(x, y) => x = y,
           \A p \in s.unseen : \E x \in new : x.why = "check" /\ x.path = p,
           NEW b \in Seq(Command), \A j \in 1..Len(b) : \E x \in new : b[j] = Asking(x),
           t.toPage = IF s.life = "crashed" THEN s.toPage ELSE s.toPage \o b
    PROVE  Fine(t, w)
<1> DEFINE q == s.toPage
           r == t.toPage
<1>1. Typed(s) /\ s \in PaneType /\ q \in Seq(Command)
  BY DEF Deciding, Linked, Typed, PaneType
<1>2. \A j \in 1..Len(b) : b[j].op = "clean" /\ \E x \in new : b[j].path = x.path /\ b[j].id = x.id
  <2>1. \A x : Asking(x).op = x.op /\ Asking(x).path = x.path /\ Asking(x).id = x.id
    BY DEF Asking
  <2> QED
    BY <2>1
<1>3. Gentle(b)
  BY <1>2 DEF Gentle
<1>4. \A x : IsOpen(t, x) <=> IsOpen(s, x)
  BY DEF IsOpen
<1>5. /\ Len(q) \in Nat /\ Len(r) \in Nat /\ DOMAIN q = 1..Len(q) /\ DOMAIN r = 1..Len(r)
      /\ \A i \in DOMAIN q : i \in DOMAIN r /\ r[i] = q[i]
      /\ \A i \in DOMAIN r : i \in DOMAIN q \/ \E j \in 1..Len(b) : r[i] = b[j]
  <2>1. CASE s.life = "crashed"
    BY <1>1, <2>1
  <2>2. CASE s.life # "crashed"
    <3> DEFINE u == q \o b
    <3>1. /\ Len(u) = Len(q) + Len(b) /\ Len(q) \in Nat /\ Len(b) \in Nat
          /\ DOMAIN u = 1..Len(u) /\ DOMAIN q = 1..Len(q)
          /\ \A i \in 1..Len(q) : u[i] = q[i]
          /\ \A j \in 1..Len(b) : u[Len(q) + j] = b[j]
          /\ \A i \in 1..Len(u) : i \in 1..Len(q) \/ \E j \in 1..Len(b) : i = Len(q) + j
      BY <1>1, BatchQueue
    <3>2. r = u
      BY <2>2
    <3> HIDE DEF u, q, r
    <3>3. \A i \in 1..Len(q) : i \in 1..Len(u)
      BY <3>1
    <3>4. Len(u) \in Nat
      BY <3>1
    <3>5. ASSUME NEW i \in 1..Len(u), i \notin 1..Len(q)
          PROVE  \E j \in 1..Len(b) : u[i] = b[j]
      <4>1. PICK j \in 1..Len(b) : i = Len(q) + j
        BY <3>1, <3>5
      <4>2. u[i] = b[j]
        BY <3>1, <4>1
      <4> QED
        BY <4>2
    <3>6. DOMAIN q = 1..Len(q) /\ DOMAIN u = 1..Len(u) /\ Len(q) \in Nat /\ \A i \in 1..Len(q) : u[i] = q[i]
      BY <3>1
    <3>7. \A i \in DOMAIN q : i \in DOMAIN u /\ u[i] = q[i]
      BY <3>3, <3>6
    <3>8. \A i \in DOMAIN u : i \in DOMAIN q \/ \E j \in 1..Len(b) : u[i] = b[j]
      BY <3>5, <3>6
    <3> QED
      BY <3>2, <3>4, <3>6, <3>7, <3>8
  <2> QED
    BY <2>1, <2>2
<1>6. ASSUME NEW p, NEW a \in Nat, 1 <= a, NoClose(q, p, a, Len(q))
      PROVE  NoClose(r, p, a, Len(r))
  <2> SUFFICES ASSUME NEW i \in a..Len(r)
               PROVE  ~Is(r[i], "close", p)
    BY DEF NoClose
  <2>1. i \in DOMAIN r
    BY <1>5, <1>6
  <2>2. CASE i \in DOMAIN q
    <3>1. i \in a..Len(q) /\ r[i] = q[i]
      BY <1>5, <1>6, <2>2
    <3> QED
      BY <1>6, <3>1 DEF NoClose
  <2>3. CASE i \notin DOMAIN q
    BY <1>2, <1>5, <2>1, <2>3 DEF Is
  <2> QED
    BY <2>2, <2>3
<1>7. ASSUME NEW p \in Paths
      PROVE  /\ HasModel(t, w, p) <=> HasModel(s, w, p)
             /\ \A text : BaseIs(q, p, w.page[p], text) => BaseIs(r, p, w.page[p], text)
  <2>1. CASE s.life = "crashed"
    BY <2>1 DEF HasModel
  <2>2. CASE s.life # "crashed"
    <3> DEFINE m == w.page[p]
    <3>1. r = q \o b
      BY <2>2
    <3> HIDE DEF m, r, q
    <3>2. Len(b) \in 0..Len(b) /\ Len(r) = Len(q) + Len(b)
      BY <1>1, <3>1
    <3>3. Exists(r, p, m, Len(q) + Len(b)) <=> Exists(q, p, m, Len(q)) \/ \E k \in 1..Len(b) : Is(b[k], "open", p)
      BY ZenonT(30), <1>1, <1>3, <3>1, <3>2, ExistsBatch
    <3>4. \A k \in 1..Len(b) : ~Is(b[k], "open", p)
      BY <1>2 DEF Is
    <3>5. \A text : BaseIs(q, p, m, text) => BaseIs(r, p, m, text)
      BY <1>1, <1>3, <3>1, BaseBatch
    <3> QED
      BY <3>2, <3>3, <3>4, <3>5 DEF HasModel, q, r, m
  <2> QED
    BY <2>1, <2>2
<1>8. /\ \A x \in s.waiting, y \in new : x.id # y.id
      /\ \A i \in DOMAIN s.toPage : Asks(s.toPage[i]) => \A y \in new : s.toPage[i].id # y.id
      /\ \A i \in DOMAIN s.replies : \A y \in new : s.replies[i].id # y.id
  BY UsedIdsAre
<1> HIDE DEF q, r
<1>9. Typed(t)
  <2>1. IsFiniteSet(s.waiting) /\ TabsDiffer(s)
    BY <1>1 DEF Typed
  <2>2. IsFiniteSet(s.waiting \cup new)
    BY <2>1, FS_Union
  <2>3. IsFiniteSet(t.waiting)
    BY <2>2
  <2>4. TabsDiffer(t)
    BY <2>1 DEF TabsDiffer
  <2>5. t.unseen \subseteq {p \in Paths : IsOpen(t, p)}
    OBVIOUS
  <2> QED
    BY <2>3, <2>4, <2>5 DEF Typed
<1>10. DownIsEmpty(t, w)
  BY DEF Deciding, Linked, DownIsEmpty, Down
<1>11. IdsDiffer(t)
  <2>1. IdsDiffer(s)
    BY DEF Deciding, Linked
  <2>2. ASSUME NEW x \in t.waiting, NEW y \in t.waiting, Same(x, y)
        PROVE  x = y
    <3>1. x.id = y.id
      BY <2>2 DEF Same
    <3> QED
      BY <1>8, <2>1, <2>2, <3>1 DEF IdsDiffer
  <2>3. ASSUME NEW i \in DOMAIN r, NEW x \in t.waiting, Asks(r[i]), Same(r[i], x)
        PROVE  r[i].op = x.op
    <3>1. r[i].id = x.id
      BY <2>3 DEF Same
    <3>2. CASE i \in DOMAIN q
      BY <1>5, <1>8, <2>1, <2>3, <3>1, <3>2 DEF IdsDiffer, q
    <3>3. CASE i \notin DOMAIN q
      <4>1. PICK j \in 1..Len(b) : r[i] = b[j]
        BY <1>5, <3>3
      <4>2. r[i].op = "clean" /\ \E y \in new : r[i].id = y.id
        BY <1>2, <4>1
      <4>4. PICK y \in new : r[i].id = y.id
        BY <4>2
      <4>5. x \notin s.waiting
        <5>1. x.id = y.id
          BY <3>1, <4>4
        <5>2. \A z \in s.waiting : z.id # y.id
          BY <1>8
        <5> QED
          BY <5>1, <5>2
      <4>6. x \in s.waiting \cup new
        BY <2>3
      <4>3. x \in new /\ x.op = "clean"
        BY <4>5, <4>6
      <4> QED
        BY <4>2, <4>3
    <3> QED
      BY <3>2, <3>3
  <2>4. ASSUME NEW i \in DOMAIN t.replies, NEW x \in t.waiting, Answers(t.replies[i], x)
        PROVE  t.replies[i] \in IF x.op = "content" THEN Content ELSE Clean
    <3>1. x \in s.waiting
      BY <1>8, <2>4 DEF Answers
    <3> QED
      BY <2>1, <2>4, <3>1 DEF IdsDiffer
  <2> QED
    BY <2>2, <2>3, <2>4 DEF IdsDiffer, r
<1>12. Follows(t, w)
  BY <1>4, <1>7 DEF Deciding, Linked, Follows, Rebuilding
<1>13. FromDisk(t, w)
  <2> SUFFICES ASSUME NEW i \in DOMAIN r, r[i].op \in {"open", "set"}
               PROVE  r[i].text \in w.disk[r[i].path].past
    BY DEF FromDisk, r
  <2>1. i \in DOMAIN q /\ r[i] = q[i]
    BY <1>2, <1>5
  <2> QED
    BY <2>1 DEF Deciding, Linked, FromDisk, q
<1>14. MarksAreTrue(t, w)
  <2> SUFFICES ASSUME NEW i \in DOMAIN r, r[i].op = "mark", r[i].path \notin w.orphans
               PROVE  /\ Wrote(w.page[r[i].path], r[i].version, w.disk[r[i].path].past)
                      /\ NoClose(r, r[i].path, 1, i - 1)
    BY DEF MarksAreTrue, r
  <2>1. i \in DOMAIN q /\ r[i] = q[i]
    BY <1>2, <1>5
  <2>2. Wrote(w.page[r[i].path], r[i].version, w.disk[r[i].path].past) /\ NoClose(q, r[i].path, 1, i - 1)
    BY <2>1 DEF Deciding, Linked, MarksAreTrue, q
  <2>3. \A j \in 1..(i - 1) : j \in DOMAIN q
    BY <1>5, <2>1
  <2> QED
    BY <1>5, <2>2, <2>3 DEF NoClose
<1>15. ReadsItsTab(t, w)
  <2> SUFFICES ASSUME NEW x \in t.waiting, Trusted(t, w, x)
               PROVE  WillRead(t, x) /\ HasRead(t, w, x)
    BY DEF ReadsItsTab
  <2>1. x \in s.waiting /\ Trusted(s, w, x)
    BY <1>4 DEF Trusted
  <2>2. WillRead(s, x) /\ HasRead(s, w, x)
    BY <2>1 DEF Deciding, Linked, ReadsItsTab
  <2>3. WillRead(t, x)
    <3> SUFFICES ASSUME NEW i \in DOMAIN r, Asks(r[i]), Same(r[i], x)
                 PROVE  NoClose(r, x.path, i + 1, Len(r))
      BY DEF WillRead, r
    <3>1. i \in DOMAIN q
      <4>1. ASSUME NEW j \in 1..Len(b), r[i] = b[j]
            PROVE  FALSE
        BY <1>2, <1>8, <2>1, <4>1 DEF Same
      <4> QED
        BY <1>5, <4>1
    <3>2. NoClose(q, x.path, i + 1, Len(q)) /\ i + 1 \in Nat /\ 1 <= i + 1
      BY <1>5, <2>2, <3>1 DEF WillRead, q
    <3> QED
      BY <1>6, <3>2
  <2>4. HasRead(t, w, x)
    <3> SUFFICES ASSUME t.life # "crashed", NEW i \in DOMAIN t.replies, Answers(t.replies[i], x), ~t.replies[i].none
                 PROVE  /\ Wrote(w.page[x.path], t.replies[i].version, {t.replies[i].text})
                        /\ NoClose(r, x.path, 1, Len(r))
      BY DEF HasRead, r
    <3>1. /\ Wrote(w.page[x.path], t.replies[i].version, {t.replies[i].text})
          /\ NoClose(q, x.path, 1, Len(q))
      BY <2>2 DEF HasRead, q
    <3>2. NoClose(r, x.path, 1, Len(r))
      BY <1>6, <3>1
    <3> QED
      BY <3>1, <3>2
  <2> QED
    BY <2>3, <2>4
<1>16. SavesAreKnown(t, w)
  BY <1>4 DEF Deciding, Linked, SavesAreKnown
<1>17. AllNoticed(t, w)
  <2> SUFFICES ASSUME NEW p \in Paths \ w.excused, IsOpen(t, p)
               PROVE  Conflict(t, p) \/ Checked(t, p) \/ UpToDate(t, w, p)
    BY DEF AllNoticed, Noticed
  <2>1. p \in s.unseen => Checked(t, p)
    BY DEF Checked
  <2>2. Noticed(s, w, p) /\ IsOpen(s, p)
    BY <1>4 DEF Deciding, AllNoticed
  <2>3. Checked(s, p) => Checked(t, p)
    BY DEF Checked
  <2>4. UpToDate(s, w, p) => UpToDate(t, w, p)
    BY <1>7 DEF UpToDate, Rebuilding, q, r
  <2> QED
    BY <2>1, <2>2, <2>3, <2>4 DEF Noticed, Conflict
<1>18. Linked(t, w)
  BY <1>9, <1>10, <1>11, <1>12, <1>13, <1>14, <1>15, <1>16 DEF Linked
<1> QED
  BY <1>17, <1>18 DEF Fine

\* CheckExternalChanges
LEMMA CheckExternalChangesStep ==
    ASSUME IInv, CheckExternalChanges
    PROVE  /\ IInv'
           /\ /\ pane'.tabs = pane.tabs /\ pane'.replies = pane.replies /\ pane'.posts = pane.posts
              /\ pane'.life = pane.life /\ pane'.needsModelRestore = pane.needsModelRestore
              /\ pane'.snapshots = pane.snapshots /\ pane'.quit = pane.quit
              /\ pane.waiting \subseteq pane'.waiting
              /\ \A q \in pane'.waiting : q \in pane.waiting \/ q.why = "check"
           /\ \E b \in Seq(Command) :
                  /\ \A j \in 1..Len(b) : b[j].op = "clean" /\ b[j].id \notin UsedIds(pane)
                  /\ pane'.toPage = IF pane.life = "crashed" THEN pane.toPage ELSE pane.toPage \o b
<1> DEFINE I == {i \in DOMAIN pane.tabs : pane.tabs[i].path \in pane.unseen}
           changed == InOrder(I)
           n == FreshId(pane)
           asked == [k \in DOMAIN changed |->
                       LET p == pane.tabs[changed[k]].path
                       IN Question("clean", p, n, "check", p, <<>>, Latest)]
           b == [k \in DOMAIN asked |-> Asking(asked[k])]
           new == Range(asked)
           waiting == pane.waiting \cup new
           toPage == IF pane.life = "crashed" THEN pane.toPage ELSE pane.toPage \o b
<1>1. /\ pane.life # "loading" /\ UNCHANGED <<page, disk, count>> /\ Watch
      /\ pane' = [SendAll(pane, b) EXCEPT !.waiting = @ \cup new, !.unseen = {}]
  BY DEF CheckExternalChanges, IsReady
<1>2. Deciding(pane, Alone) /\ pane \in PaneType /\ CountsTyped /\ Typed(pane)
  BY AloneStarts DEF Deciding, Linked
<1>3. pane.tabs \in Seq(Tab) /\ pane.toPage \in Seq(Command)
  BY <1>2 DEF PaneType
<1>4. I \subseteq Nat /\ IsFiniteSet(I)
  <2>1. IsFiniteSet(I)
    BY <1>3, FiniteQueue
  <2>2. DOMAIN pane.tabs \subseteq Nat
    BY <1>3
  <2> QED
    BY <2>1, <2>2
<1>5. /\ Cardinality(I) \in Nat /\ DOMAIN changed = 1..Cardinality(I) /\ changed \in Seq(I)
      /\ \A i \in I : \E k \in DOMAIN changed : changed[k] = i
  BY <1>4, InOrderHasAll
<1>6. n \in Nat /\ n \notin UsedIds(pane) /\ Latest \in Nat
  BY <1>2, FreshIdIsNew, ClocksAreNumbers DEF Typed
<1> HIDE DEF changed, n
<1>7. ASSUME NEW k \in DOMAIN changed
      PROVE  /\ changed[k] \in I /\ pane.tabs[changed[k]].path \in Paths
             /\ asked[k] = Question("clean", pane.tabs[changed[k]].path, n, "check",
                                    pane.tabs[changed[k]].path, <<>>, Latest)
  <2>1. changed[k] \in I
    BY <1>5
  <2>2. pane.tabs[changed[k]] \in Tab
    BY <1>3, <2>1
  <2> QED
    BY <2>1, <2>2 DEF Tab
<1>8. DOMAIN asked = DOMAIN changed /\ DOMAIN b = 1..Cardinality(I)
  BY <1>5
<1>9. new = {asked[k] : k \in DOMAIN changed}
  BY <1>8 DEF Range
<1>10. \A p \in Paths : /\ Question("clean", p, n, "check", p, <<>>, Latest) \in Questions
                        /\ Asking(Question("clean", p, n, "check", p, <<>>, Latest)) \in Command
  <2> SUFFICES ASSUME NEW p \in Paths
               PROVE  /\ Question("clean", p, n, "check", p, <<>>, Latest) \in Questions
                      /\ Asking(Question("clean", p, n, "check", p, <<>>, Latest)) \in Command
    OBVIOUS
  <2>1. <<>> \in Seq(Paths) /\ "check" \in Reasons("clean")
    BY DEF Reasons
  <2>2. Question("clean", p, n, "check", p, <<>>, Latest) \in Questions
    BY <1>6, <2>1 DEF Question, Questions
  <2>3. Asking(Question("clean", p, n, "check", p, <<>>, Latest)) = [op |-> "clean", path |-> p, id |-> n]
    BY DEF Asking, Question
  <2> QED
    BY <1>6, <2>2, <2>3, Commands
<1>11. \A k \in DOMAIN changed : b[k] = Asking(asked[k]) /\ b[k] \in Command
  BY <1>7, <1>8, <1>10
<1>12. b \in Seq(Command) /\ Len(b) = Cardinality(I)
  <2> DEFINE m == Cardinality(I)
  <2>1. m \in Nat /\ DOMAIN b = 1..m /\ \A k \in 1..m : b[k] \in Command
    BY <1>5, <1>8, <1>11
  <2>2. b = [k \in DOMAIN b |-> b[k]]
    OBVIOUS
  <2> HIDE DEF b, m
  <2>3. b \in [1..m -> Command]
    BY <2>1, <2>2
  <2> QED
    BY <2>1, <2>3 DEF m
<1>13. \A x \in new : \E p \in Paths : x = Question("clean", p, n, "check", p, <<>>, Latest)
  BY <1>7, <1>9
<1>14. IsFiniteSet(new)
  <2> DEFINE T == DOMAIN changed
  <2>1. IsFiniteSet(T)
    <3>1. Cardinality(I) \in Int /\ 1 \in Int /\ T = 1..Cardinality(I)
      BY <1>5
    <3> QED
      BY <3>1, FS_Interval
  <2>2. new = {asked[k] : k \in T} /\ DOMAIN asked = T
    BY <1>8, <1>9
  <2> HIDE DEF T, asked, new
  <2>3. IsFiniteSet({asked[k] : k \in T})
    BY <2>1, <2>2, FiniteImage
  <2> QED
    BY <2>2, <2>3
<1>15. \A j \in 1..Len(b) : \E x \in new : b[j] = Asking(x)
  BY <1>5, <1>9, <1>11, <1>12
<1>16. ASSUME NEW p \in pane.unseen
       PROVE  \E x \in new : x.why = "check" /\ x.path = p
  <2>1. IsOpen(pane, p)
    BY <1>2 DEF Typed
  <2>2. PICK i \in DOMAIN pane.tabs : pane.tabs[i].path = p
    BY <2>1 DEF IsOpen
  <2>3. i \in I
    BY <2>2
  <2>4. PICK k \in DOMAIN changed : changed[k] = i
    BY <1>5, <2>3
  <2>5. asked[k] \in new /\ asked[k] = Question("clean", p, n, "check", p, <<>>, Latest)
    BY <1>7, <1>9, <2>2, <2>4
  <2> QED
    BY <2>5 DEF Question
<1> HIDE DEF asked, b, new, I
<1>17. new \subseteq Questions /\ \A x \in new : x.op = "clean" /\ x.id \notin UsedIds(pane)
  BY <1>6, <1>10, <1>13 DEF Question
<1>18. ASSUME NEW x \in new, NEW y \in new, Same(x, y)
       PROVE  x = y
  BY <1>13, <1>18 DEF Same, Question
<1>19. toPage \in Seq(Command) /\ waiting \subseteq Questions
  <2>1. pane.toPage \o b \in Seq(Command)
    BY <1>3, <1>12
  <2>2. pane.waiting \subseteq Questions
    BY <1>2 DEF PaneType
  <2> QED
    BY <1>3, <1>17, <2>1, <2>2
<1>20. pane' = [pane EXCEPT !.toPage = toPage, !.waiting = waiting, !.unseen = {}]
  <2>1. CASE pane.life = "crashed"
    <3>1. pane' = [pane EXCEPT !.waiting = waiting, !.unseen = {}]
      BY <1>1, <2>1 DEF SendAll
    <3> HIDE DEF waiting
    <3> QED
      BY <1>2, <2>1, <3>1 DEF PaneType
  <2>2. CASE pane.life # "crashed"
    <3> DEFINE all == pane.toPage \o b
               s == [pane EXCEPT !.toPage = all]
    <3>1. SendAll(pane, b) = s /\ toPage = all
      BY <2>2 DEF SendAll
    <3>2. pane' = [s EXCEPT !.waiting = s.waiting \cup new, !.unseen = {}]
      BY <1>1, <3>1
    <3> HIDE DEF all, toPage
    <3>3. s.waiting = pane.waiting
      BY <1>2 DEF PaneType
    <3>4. pane' = [s EXCEPT !.waiting = waiting, !.unseen = {}]
      BY <3>2, <3>3
    <3> HIDE DEF waiting
    <3> QED
      BY <1>2, <3>1, <3>4 DEF PaneType
  <2> QED
    BY <2>1, <2>2
<1>21. toPage = IF pane.life = "crashed" THEN pane.toPage ELSE pane.toPage \o b
  OBVIOUS
<1>22. waiting = pane.waiting \cup new
  OBVIOUS
<1> HIDE DEF toPage, waiting
<1>23. pane' \in PaneType /\ pane'.toPage = toPage /\ pane'.waiting = waiting /\ pane'.unseen = {}
  BY <1>2, <1>19, <1>20 DEF PaneType
<1>24. /\ pane'.tabs = pane.tabs /\ pane'.replies = pane.replies /\ pane'.posts = pane.posts
       /\ pane'.ask = pane.ask /\ pane'.life = pane.life /\ pane'.needsModelRestore = pane.needsModelRestore
       /\ pane'.snapshots = pane.snapshots /\ pane'.quit = pane.quit
  BY <1>2, <1>20 DEF PaneType
<1>25. /\ pane'.waiting = pane.waiting \cup new
       /\ pane'.toPage = IF pane.life = "crashed" THEN pane.toPage ELSE pane.toPage \o b
  BY <1>21, <1>22, <1>23
<1>26. /\ Deciding(pane, Alone) /\ pane.life # "loading" /\ pane' \in PaneType /\ pane'.unseen = {}
       /\ b \in Seq(Command) /\ IsFiniteSet(new) /\ new \subseteq Questions
  BY <1>1, <1>2, <1>12, <1>14, <1>17, <1>23
<1>27. Fine(pane', Alone)
  BY <1>15, <1>16, <1>17, <1>18, <1>24, <1>25, <1>26, AskedTogether
<1>28. \A j \in 1..Len(b) : b[j].op = "clean" /\ b[j].id \notin UsedIds(pane)
  <2>1. \A x : Asking(x).op = x.op /\ Asking(x).id = x.id
    BY DEF Asking
  <2> QED
    BY <1>15, <1>17, <2>1
<1>29. IInv'
  BY <1>1, <1>27, AloneEnds
<1>30. \A x \in new : x.why = "check"
  BY <1>13 DEF Question
<1>31. pane.waiting \subseteq pane'.waiting /\ \A q \in pane'.waiting : q \in pane.waiting \/ q.why = "check"
  BY <1>25, <1>30
<1> QED
  BY <1>24, <1>25, <1>26, <1>28, <1>29, <1>31


-----------------------------------------------------------------------------
(* The page is ready: it is told what it has lost.                             *)

\* The page has what the pane has open once it has run b.
LEMMA RebuiltIsFine ==
    ASSUME NEW s, NEW t, NEW w, Deciding(s, w), s.life = "loading", t \in PaneType, t.life = "up",
           t.tabs = s.tabs, t.unseen = s.unseen, t.waiting = s.waiting, t.replies = s.replies, t.ask = s.ask,
           NEW b \in Seq(Command), t.toPage = s.toPage \o b,
           \A j \in 1..Len(b) : b[j].op \in {"open", "restore"},
           \A j \in 1..Len(b) : b[j].op = "open" =>
               /\ IsOpen(s, b[j].path) /\ b[j].text = w.disk[b[j].path].text
               /\ b[j].text \in w.disk[b[j].path].past,
           s.needsModelRestore => \A p \in Paths : IsOpen(s, p) => \E j \in 1..Len(b) : Is(b[j], "open", p)
    PROVE  Fine(t, w)
<1> DEFINE q == s.toPage
           r == t.toPage
<1>1. Linked(s, w) /\ Typed(s) /\ s \in PaneType /\ q \in Seq(Command)
  BY DEF Deciding, Linked, Typed, PaneType
<1>2. Gentle(b)
  BY DEF Gentle
<1>3. \A x : IsOpen(t, x) <=> IsOpen(s, x)
  BY DEF IsOpen
<1>4. /\ Len(r) = Len(q) + Len(b) /\ Len(q) \in Nat /\ Len(b) \in Nat
      /\ DOMAIN r = 1..Len(r) /\ DOMAIN q = 1..Len(q)
      /\ \A i \in 1..Len(q) : r[i] = q[i]
      /\ \A j \in 1..Len(b) : r[Len(q) + j] = b[j]
      /\ \A i \in 1..Len(r) : i \in 1..Len(q) \/ \E j \in 1..Len(b) : i = Len(q) + j
  BY <1>1, BatchQueue
<1>5. /\ \A i \in DOMAIN q : q[i].op \in {"open", "set", "close"}
      /\ s.replies = <<>>
  BY <1>1 DEF Linked, DownIsEmpty
<1> HIDE DEF q, r
<1>6. ASSUME NEW i \in DOMAIN r
      PROVE  \/ i \in DOMAIN q /\ r[i] = q[i]
             \/ \E j \in 1..Len(b) : r[i] = b[j]
  <2>1. CASE i \in 1..Len(q)
    BY <1>4, <2>1
  <2>2. CASE i \notin 1..Len(q)
    <3>1. PICK j \in 1..Len(b) : i = Len(q) + j
      BY <1>4, <1>6, <2>2
    <3>2. r[i] = b[j]
      BY <1>4, <3>1
    <3> QED
      BY <3>2
  <2> QED
    BY <2>1, <2>2
<1>7. \A i \in DOMAIN r : r[i].op \in {"open", "set", "close", "restore"}
  BY <1>5, <1>6
<1>8. ASSUME NEW p \in Paths
      PROVE  HasModel(t, w, p) <=> HasModel(s, w, p) \/ \E k \in 1..Len(b) : Is(b[k], "open", p)
  <2> DEFINE m == w.page[p]
  <2>1. r = q \o b
    BY DEF q, r
  <2> HIDE DEF m
  <2>2. Len(b) \in 0..Len(b) /\ Len(r) = Len(q) + Len(b)
    BY <1>4
  <2>3. Exists(r, p, m, Len(q) + Len(b)) <=> Exists(q, p, m, Len(q)) \/ \E k \in 1..Len(b) : Is(b[k], "open", p)
    BY ZenonT(30), <1>1, <1>2, <2>1, <2>2, ExistsBatch
  <2> QED
    BY <2>2, <2>3 DEF HasModel, q, r, m
<1>9. Typed(t)
  <2>1. IsFiniteSet(s.waiting) /\ TabsDiffer(s) /\ s.unseen \subseteq {p \in Paths : IsOpen(s, p)}
    BY <1>1 DEF Typed
  <2> QED
    BY <1>3, <2>1 DEF Typed, TabsDiffer
<1>10. DownIsEmpty(t, w)
  BY DEF DownIsEmpty, Down
<1>11. IdsDiffer(t)
  <2>1. \A x, y \in s.waiting : Same(x, y) => x = y
    BY <1>1 DEF Linked, IdsDiffer
  <2>2. \A i \in DOMAIN t.toPage : ~Asks(t.toPage[i])
    BY <1>7 DEF Asks, r
  <2>3. DOMAIN t.replies = {}
    BY <1>5
  <2> QED
    BY <2>1, <2>2, <2>3 DEF IdsDiffer
<1>12. Follows(t, w)
  <2> SUFFICES ASSUME NEW p \in Paths
               PROVE  HasModel(t, w, p) <=> IsOpen(s, p)
    BY <1>3 DEF Follows
  <2>1. /\ HasModel(s, w, p) => IsOpen(s, p)
        /\ IsOpen(s, p) /\ ~Rebuilding(s) => HasModel(s, w, p)
    BY <1>1 DEF Linked, Follows
  <2>2. ASSUME NEW k \in 1..Len(b), Is(b[k], "open", p)
        PROVE  IsOpen(s, p)
    BY <2>2 DEF Is
  <2>3. Rebuilding(s) => s.needsModelRestore
    BY DEF Rebuilding
  <2> QED
    BY <1>8, <2>1, <2>2, <2>3
<1>13. FromDisk(t, w)
  <2> SUFFICES ASSUME NEW i \in DOMAIN r, r[i].op \in {"open", "set"}
               PROVE  r[i].text \in w.disk[r[i].path].past
    BY DEF FromDisk, r
  <2>1. CASE i \in DOMAIN q /\ r[i] = q[i]
    BY <1>1, <2>1 DEF Linked, FromDisk, q
  <2>2. ASSUME NEW j \in 1..Len(b), r[i] = b[j]
        PROVE  r[i].text \in w.disk[r[i].path].past
    <3>1. b[j].op = "open"
      BY <2>2
    <3> QED
      BY <2>2, <3>1
  <2> QED
    BY <1>6, <2>1, <2>2
<1>14. MarksAreTrue(t, w)
  BY <1>7 DEF MarksAreTrue, r
<1>15. ReadsItsTab(t, w)
  <2>1. \A i \in DOMAIN t.toPage : ~Asks(t.toPage[i])
    BY <1>7 DEF Asks, r
  <2>2. DOMAIN t.replies = {}
    BY <1>5
  <2> QED
    BY <2>1, <2>2 DEF ReadsItsTab, WillRead, HasRead
<1>16. SavesAreKnown(t, w)
  BY <1>1, <1>3 DEF Linked, SavesAreKnown
<1>17. AllNoticed(t, w)
  <2> SUFFICES ASSUME NEW p \in Paths \ w.excused, IsOpen(t, p), p \notin s.unseen
               PROVE  Conflict(t, p) \/ Checked(t, p) \/ UpToDate(t, w, p)
    BY DEF AllNoticed, Noticed
  <2> DEFINE m == w.page[p]
             text == w.disk[p].text
  <2>1. Conflict(s, p) \/ Checked(s, p) \/ UpToDate(s, w, p)
    BY <1>3 DEF Deciding, AllNoticed, Noticed
  <2>2. r = q \o b
    BY DEF q, r
  <2>3. ASSUME BaseIs(q, p, m, text)
        PROVE  UpToDate(t, w, p)
    <3> HIDE DEF m, text
    <3>1. BaseIs(r, p, m, text)
      BY <1>1, <1>2, <2>2, <2>3, BaseBatch
    <3> QED
      BY <3>1 DEF UpToDate, r, m, text
  <2>4. ASSUME Rebuilding(s), ~HasModel(s, w, p)
        PROVE  UpToDate(t, w, p)
    <3> DEFINE K == {k \in 1..Len(b) : Is(b[k], "open", p)}
    <3>1. s.needsModelRestore /\ IsOpen(s, p)
      BY <1>3, <2>4 DEF Rebuilding
    <3>2. K # {} /\ K \subseteq Nat
      BY <3>1
    <3>3. PICK k \in K : \A j \in K : k <= j
      BY <3>2, LeastOf
    <3>4. k \in 1..Len(b) /\ Is(b[k], "open", p) /\ b[k].text = text
      BY <3>3 DEF Is
    <3>5. ASSUME NEW j \in 1..(k - 1)
          PROVE  ~Is(b[j], "open", p)
      <4>1. j \in 1..Len(b) /\ j \in Nat /\ ~(k <= j)
        BY <1>4, <3>4
      <4> QED
        BY <3>3, <4>1
    <3>6. ~Exists(q, p, m, Len(q))
      BY <2>4 DEF HasModel, q
    <3> HIDE DEF m, text, K
    <3>7. BaseIs(r, p, m, text)
      BY <1>1, <1>2, <2>2, <3>4, <3>5, <3>6, BaseBatch
    <3> QED
      BY <3>7 DEF UpToDate, r, m, text
  <2> QED
    BY <2>1, <2>3, <2>4 DEF UpToDate, Conflict, Checked, q
<1>18. Linked(t, w)
  BY <1>9, <1>10, <1>11, <1>12, <1>13, <1>14, <1>15, <1>16 DEF Linked
<1> QED
  BY <1>17, <1>18 DEF Fine

\* Which tab a step of the restore is about.
LEMMA StepOf ==
    ASSUME NEW i \in Nat
    PROVE  /\ (2 * i) \div 2 = i /\ (2 * i) % 2 = 0
           /\ (2 * i + 1) \div 2 = i /\ (2 * i + 1) % 2 = 1
OBVIOUS

\* The steps of the restore.
LEMMA RestoresAre ==
    ASSUME NEW s, s \in PaneType
    PROVE  /\ Restores(s) \subseteq Nat /\ IsFiniteSet(Restores(s))
           /\ \A n \in Restores(s) :
                 \E i \in DOMAIN s.tabs : n \div 2 = i /\ (n % 2 = 0 \/ n % 2 = 1)
           /\ \A i \in DOMAIN s.tabs : 2 * i \in Restores(s)
           /\ \A n \in Restores(s) : \E i \in DOMAIN s.tabs :
                 n = 2 * i \/ (n = 2 * i + 1 /\ s.tabs[i].dirty /\ s.snapshots[s.tabs[i].path] # 0)
           /\ \A i \in DOMAIN s.tabs :
                 s.tabs[i].dirty /\ s.snapshots[s.tabs[i].path] # 0 => 2 * i + 1 \in Restores(s)
<1> DEFINE D == DOMAIN s.tabs
           J == {j \in DirtyTabs(s) : s.snapshots[s.tabs[j].path] # 0}
           f == [i \in D |-> 2 * i]
           g == [i \in J |-> 2 * i + 1]
<1>1. s.tabs \in Seq(Tab)
  BY DEF PaneType
<1>2. D \subseteq Nat /\ J \subseteq D
  BY <1>1 DEF DirtyTabs
<1>3. IsFiniteSet(D) /\ IsFiniteSet(J)
  BY <1>1, <1>2, FiniteQueue
<1> HIDE DEF J, D
<1>4. Restores(s) = {2 * i : i \in D} \cup {2 * i + 1 : i \in J}
  BY DEF Restores, D, J
<1>5. IsFiniteSet({2 * i : i \in D})
  <2>1. DOMAIN f = D /\ {2 * i : i \in D} = {f[i] : i \in D}
    OBVIOUS
  <2> HIDE DEF f
  <2>2. IsFiniteSet({f[i] : i \in D})
    BY <1>3, <2>1, FiniteImage
  <2> QED
    BY <2>1, <2>2
<1>6. IsFiniteSet({2 * i + 1 : i \in J})
  <2>1. DOMAIN g = J /\ {2 * i + 1 : i \in J} = {g[i] : i \in J}
    OBVIOUS
  <2> HIDE DEF g
  <2>2. IsFiniteSet({g[i] : i \in J})
    BY <1>3, <2>1, FiniteImage
  <2> QED
    BY <2>1, <2>2
<1>7. IsFiniteSet(Restores(s))
  <2> DEFINE A == {2 * i : i \in D}
             B == {2 * i + 1 : i \in J}
  <2>1. Restores(s) = A \cup B /\ IsFiniteSet(A) /\ IsFiniteSet(B)
    BY <1>4, <1>5, <1>6
  <2> HIDE DEF A, B
  <2>2. IsFiniteSet(A \cup B)
    BY <2>1, FS_Union
  <2> QED
    BY <2>1, <2>2
<1>8. Restores(s) \subseteq Nat
  <2> SUFFICES ASSUME NEW n \in Restores(s)
               PROVE  n \in Nat
    OBVIOUS
  <2>1. \A i \in D : i \in Nat /\ 2 * i \in Nat
    BY <1>2
  <2>2. \A i \in J : i \in Nat /\ 2 * i + 1 \in Nat
    BY <1>2
  <2> QED
    BY <1>4, <2>1, <2>2
<1>9. ASSUME NEW n \in Restores(s)
      PROVE  \E i \in D : n \div 2 = i /\ (n % 2 = 0 \/ n % 2 = 1)
  <2>1. CASE n \in {2 * i : i \in D}
    <3>1. PICK i \in D : n = 2 * i
      BY <2>1
    <3> QED
      BY <1>2, <3>1, StepOf
  <2>2. CASE n \in {2 * i + 1 : i \in J}
    <3>1. PICK i \in J : n = 2 * i + 1
      BY <2>2
    <3> QED
      BY <1>2, <3>1, StepOf
  <2> QED
    BY <1>4, <2>1, <2>2
<1>10. \A i \in D : 2 * i \in Restores(s)
  BY <1>4
<1>11. J = {i \in D : s.tabs[i].dirty /\ s.snapshots[s.tabs[i].path] # 0}
  BY DEF J, D, DirtyTabs
<1>12. \A i \in D : s.tabs[i].dirty /\ s.snapshots[s.tabs[i].path] # 0 => 2 * i + 1 \in Restores(s)
  BY <1>4, <1>11
<1>13. \A n \in Restores(s) : \E i \in D :
           n = 2 * i \/ (n = 2 * i + 1 /\ s.tabs[i].dirty /\ s.snapshots[s.tabs[i].path] # 0)
  BY <1>4, <1>11
<1> QED
  BY <1>7, <1>8, <1>9, <1>10, <1>12, <1>13 DEF D

\* PageReady
LEMMA PageReadyStep ==
    ASSUME IInv, PageReady
    PROVE  IInv'
<1> DEFINE s == [pane EXCEPT !.life = "up", !.needsModelRestore = FALSE]
           I == Restores(s)
           steps == InOrder(I)
           all == [k \in DOMAIN steps |-> Restoring(s, steps[k])]
           b == IF pane.needsModelRestore THEN all ELSE <<>>
           queue == pane.toPage \o b
           no == FALSE
<1>1. /\ pane.life = "loading" /\ UNCHANGED <<page, disk, count>> /\ Watch
      /\ pane' = IF pane.needsModelRestore THEN Restored(s) ELSE s
  BY DEF PageReady
<1>2. Deciding(pane, Alone) /\ pane \in PaneType /\ FilesTyped /\ CountsTyped /\ Alone.disk = disk
  BY AloneStarts
<1>3. pane.toPage \in Seq(Command) /\ pane.tabs \in Seq(Tab) /\ pane.snapshots \in [Paths -> Past]
  BY <1>2 DEF PaneType
<1>4. no \in BOOLEAN
  OBVIOUS
<1>5. s = [pane EXCEPT !.life = "up", !.needsModelRestore = no]
  OBVIOUS
<1> HIDE DEF s, no
<1>6. s \in PaneType /\ s.life = "up"
  BY <1>2, <1>4, <1>5 DEF PaneType
<1>7. /\ s.tabs = pane.tabs /\ s.unseen = pane.unseen /\ s.waiting = pane.waiting
      /\ s.replies = pane.replies /\ s.ask = pane.ask /\ s.toPage = pane.toPage
      /\ s.snapshots = pane.snapshots
  BY <1>2, <1>5 DEF PaneType
<1>8. /\ I \subseteq Nat /\ IsFiniteSet(I)
      /\ \A n \in I : \E i \in DOMAIN s.tabs : n \div 2 = i /\ (n % 2 = 0 \/ n % 2 = 1)
      /\ \A i \in DOMAIN s.tabs : 2 * i \in I
  BY <1>6, RestoresAre
<1> HIDE DEF I
<1>9. /\ Cardinality(I) \in Nat /\ DOMAIN steps = 1..Cardinality(I)
      /\ steps \in Seq(I) /\ \A i \in I : \E k \in DOMAIN steps : steps[k] = i
  BY <1>8, InOrderHasAll
<1> HIDE DEF steps
<1>10. ASSUME NEW i \in DOMAIN pane.tabs
       PROVE  /\ pane.tabs[i].path \in Paths /\ IsOpen(pane, pane.tabs[i].path)
              /\ disk[pane.tabs[i].path].text \in Past
              /\ disk[pane.tabs[i].path].text \in disk[pane.tabs[i].path].past
              /\ pane.snapshots[pane.tabs[i].path] \in Past
  <2>1. pane.tabs[i] \in Tab
    BY <1>3
  <2>2. pane.tabs[i].path \in Paths
    BY <2>1 DEF Tab
  <2>3. disk[pane.tabs[i].path] \in File
    BY <1>2, <2>2 DEF FilesTyped
  <2> QED
    BY <1>2, <1>3, <2>2, <2>3 DEF IsOpen, FilesTyped, File
<1>11. ASSUME NEW k \in DOMAIN steps
       PROVE  /\ all[k] \in Command /\ all[k].op \in {"open", "restore"}
              /\ all[k].op = "open" =>
                    /\ IsOpen(pane, all[k].path) /\ all[k].text = disk[all[k].path].text
                    /\ all[k].text \in disk[all[k].path].past
  <2> DEFINE n == steps[k]
             c == Restoring(s, n)
  <2>1. n \in I
    BY <1>9
  <2>2. PICK i \in DOMAIN pane.tabs : n \div 2 = i /\ (n % 2 = 0 \/ n % 2 = 1)
    BY <1>7, <1>8, <2>1
  <2> DEFINE p == pane.tabs[i].path
  <2>3. c = IF n % 2 = 0 THEN [op |-> "open", path |-> p, text |-> disk[p].text]
            ELSE [op |-> "restore", path |-> p, text |-> pane.snapshots[p]]
    BY <1>7, <2>2 DEF Restoring
  <2>4. /\ p \in Paths /\ IsOpen(pane, p) /\ disk[p].text \in Past
        /\ disk[p].text \in disk[p].past /\ pane.snapshots[p] \in Past
    BY <1>10
  <2>5. all[k] = c
    OBVIOUS
  <2> HIDE DEF c, n, p, all
  <2>6. CASE n % 2 = 0
    <3>1. c = [op |-> "open", path |-> p, text |-> disk[p].text]
      BY <2>3, <2>6
    <3>2. c \in Command
      BY <2>4, <3>1, Commands
    <3>3. c.op = "open" /\ c.path = p /\ c.text = disk[p].text
      BY <3>1
    <3> QED
      BY <2>4, <2>5, <3>2, <3>3
  <2>7. CASE n % 2 # 0
    <3>1. c = [op |-> "restore", path |-> p, text |-> pane.snapshots[p]]
      BY <2>3, <2>7
    <3>2. c \in Command
      BY <2>4, <3>1, Commands
    <3>3. c.op = "restore"
      BY <3>1
    <3> QED
      BY <2>5, <3>2, <3>3
  <2> QED
    BY <2>6, <2>7
<1>12. all \in Seq(Command) /\ Len(all) = Cardinality(I) /\ DOMAIN all = DOMAIN steps
  <2> DEFINE m == Cardinality(I)
  <2>1. m \in Nat /\ DOMAIN all = 1..m /\ \A k \in 1..m : all[k] \in Command
    BY <1>9, <1>11
  <2>2. all = [k \in DOMAIN all |-> all[k]]
    OBVIOUS
  <2>3. DOMAIN all = DOMAIN steps
    OBVIOUS
  <2> HIDE DEF all, m
  <2>4. all \in [1..m -> Command]
    BY <2>1, <2>2
  <2> QED
    BY <2>1, <2>3, <2>4 DEF m
<1>13. ASSUME NEW p \in Paths, IsOpen(pane, p)
       PROVE  \E k \in DOMAIN all : Is(all[k], "open", p)
  <2>1. PICK i \in DOMAIN pane.tabs : pane.tabs[i].path = p
    BY <1>13 DEF IsOpen
  <2>2. 2 * i \in I /\ i \in Nat
    <3>1. i \in DOMAIN s.tabs
      BY <1>7
    <3>2. 2 * i \in I
      BY <1>8, <3>1
    <3>3. i \in Nat
      BY <1>3
    <3> QED
      BY <3>2, <3>3
  <2>3. PICK k \in DOMAIN steps : steps[k] = 2 * i
    BY <1>9, <2>2
  <2>4. steps[k] % 2 = 0 /\ steps[k] \div 2 = i
    BY <2>2, <2>3, StepOf
  <2>5. all[k] = Restoring(s, steps[k])
    OBVIOUS
  <2>6. Restoring(s, steps[k]) = [op |-> "open", path |-> s.tabs[i].path, text |-> disk[s.tabs[i].path].text]
    BY <2>4 DEF Restoring
  <2>7. all[k].op = "open" /\ all[k].path = p
    BY <1>7, <2>1, <2>5, <2>6
  <2> QED
    BY <1>12, <2>7 DEF Is
<1> HIDE DEF all
<1>14. b \in Seq(Command) /\ DOMAIN b = 1..Len(b) /\ (\A j \in DOMAIN b : pane.needsModelRestore /\ j \in DOMAIN all /\ b[j] = all[j])
  <2>1. CASE pane.needsModelRestore
    BY <1>12, <2>1
  <2>2. CASE ~pane.needsModelRestore
    BY <2>2
  <2> QED
    BY <2>1, <2>2
<1>15. queue \in Seq(Command) /\ queue = pane.toPage \o b
  BY <1>3, <1>14
<1>16. pane' = [s EXCEPT !.toPage = queue]
  <2>1. CASE pane.needsModelRestore
    <3>1. pane' = SendAll(s, all) /\ b = all
      BY <1>1, <2>1 DEF Restored, all, steps, I
    <3> HIDE DEF b
    <3>2. pane' = [s EXCEPT !.toPage = s.toPage \o all]
      BY <1>6, <3>1 DEF SendAll
    <3> QED
      BY <1>7, <3>1, <3>2
  <2>2. CASE ~pane.needsModelRestore
    <3>1. pane' = s /\ queue = pane.toPage
      BY <1>1, <1>3, <2>2
    <3>2. s.toPage = queue
      BY <1>7, <3>1
    <3> HIDE DEF queue
    <3> QED
      BY <1>6, <3>1, <3>2 DEF PaneType
  <2> QED
    BY <2>1, <2>2
<1> HIDE DEF queue
<1>17. pane' \in PaneType /\ pane'.toPage = queue /\ pane'.life = "up"
  BY <1>6, <1>15, <1>16 DEF PaneType
<1>18. /\ pane'.tabs = pane.tabs /\ pane'.unseen = pane.unseen /\ pane'.waiting = pane.waiting
       /\ pane'.replies = pane.replies /\ pane'.ask = pane.ask
  BY <1>6, <1>7, <1>16 DEF PaneType
<1>19. \A j \in 1..Len(b) : b[j].op \in {"open", "restore"}
  BY <1>11, <1>12, <1>14
<1>20. \A j \in 1..Len(b) : b[j].op = "open" =>
           /\ IsOpen(pane, b[j].path) /\ b[j].text = Alone.disk[b[j].path].text
           /\ b[j].text \in Alone.disk[b[j].path].past
  BY <1>2, <1>11, <1>12, <1>14
<1>21. ASSUME pane.needsModelRestore, NEW p \in Paths, IsOpen(pane, p)
       PROVE  \E j \in 1..Len(b) : Is(b[j], "open", p)
  <2>1. b = all
    BY <1>21
  <2> QED
    BY <1>13, <1>14, <1>21, <2>1
<1>22. pane'.toPage = pane.toPage \o b /\ b \in Seq(Command)
  BY <1>14, <1>15, <1>17
<1> HIDE DEF b
<1>23. Fine(pane', Alone)
  BY <1>1, <1>2, <1>17, <1>18, <1>19, <1>20, <1>21, <1>22, RebuiltIsFine
<1> QED
  BY <1>1, <1>23, AloneEnds

-----------------------------------------------------------------------------
(* A file is opened.                                                           *)

\* A tab at the end.
LEMMA TabAppended ==
    ASSUME NEW s, s \in PaneType, TabsDiffer(s), NEW p \in Paths, ~IsOpen(s, p), NEW pinned \in BOOLEAN
    PROVE  LET new == Append(s.tabs, NewTab(p, pinned))
           IN /\ new \in Seq(Tab)
              /\ \A j, k \in DOMAIN new : new[j].path = new[k].path => j = k
              /\ \A x : (\E j \in DOMAIN new : new[j].path = x) <=> x = p \/ IsOpen(s, x)
<1> DEFINE tab == NewTab(p, pinned)
           l == Len(s.tabs)
           new == Append(s.tabs, tab)
<1>1. s.tabs \in Seq(Tab) /\ l \in Nat
  BY DEF PaneType
<1>2. tab \in Tab /\ tab.path = p
  BY DEF NewTab, Tab
<1> HIDE DEF tab
<1>3. /\ new \in Seq(Tab) /\ DOMAIN new = 1..(l + 1) /\ new[l + 1] = tab
      /\ DOMAIN s.tabs = 1..l /\ \A i \in 1..l : new[i] = s.tabs[i]
  BY <1>1, <1>2
<1> HIDE DEF new, l
<1>4. \A i : i \in 1..(l + 1) <=> i \in 1..l \/ i = l + 1
  BY <1>1 DEF l
<1>5. \A i \in 1..l : new[i].path # p
  BY <1>3 DEF IsOpen
<1>6. ASSUME NEW j \in DOMAIN new, NEW k \in DOMAIN new, new[j].path = new[k].path
      PROVE  j = k
  <2>1. CASE j \in 1..l /\ k \in 1..l
    BY <1>3, <1>6, <2>1 DEF TabsDiffer
  <2>2. CASE j = l + 1 \/ k = l + 1
    BY <1>2, <1>3, <1>4, <1>5, <1>6, <2>2
  <2> QED
    BY <1>3, <1>4, <2>1, <2>2
<1>7. ASSUME NEW x
      PROVE  (\E j \in DOMAIN new : new[j].path = x) <=> x = p \/ IsOpen(s, x)
  <2>1. (\E j \in DOMAIN new : new[j].path = x) <=> (\E j \in 1..l : s.tabs[j].path = x) \/ x = p
    BY <1>2, <1>3, <1>4
  <2> QED
    BY <1>3, <2>1 DEF IsOpen
<1> QED
  BY <1>3, <1>6, <1>7 DEF new, tab

\* A tab in the place of another one.
LEMMA Replaced ==
    ASSUME NEW tabs, NEW p, NEW i \in DOMAIN tabs, NEW new,
           \A j \in DOMAIN tabs : tabs[j].path # p,
           \A j, k \in DOMAIN tabs : tabs[j].path = tabs[k].path => j = k,
           DOMAIN new = DOMAIN tabs, new[i].path = p, \A j \in DOMAIN tabs \ {i} : new[j] = tabs[j]
    PROVE  /\ \A j, k \in DOMAIN new : new[j].path = new[k].path => j = k
           /\ \A x : (\E j \in DOMAIN new : new[j].path = x)
                     <=> x = p \/ ((\E j \in DOMAIN tabs : tabs[j].path = x) /\ x # tabs[i].path)
<1>1. ASSUME NEW j \in DOMAIN new, NEW k \in DOMAIN new, new[j].path = new[k].path
      PROVE  j = k
  <2>1. CASE j # i /\ k # i
    BY <1>1, <2>1
  <2>2. CASE j = i \/ k = i
    BY <1>1, <2>2
  <2> QED
    BY <2>1, <2>2
<1>2. ASSUME NEW x
      PROVE  (\E j \in DOMAIN new : new[j].path = x)
             <=> x = p \/ ((\E j \in DOMAIN tabs : tabs[j].path = x) /\ x # tabs[i].path)
  <2>1. (\E j \in DOMAIN new : new[j].path = x) <=> x = p \/ \E j \in DOMAIN tabs \ {i} : tabs[j].path = x
    OBVIOUS
  <2> QED
    BY <2>1
<1> QED
  BY <1>1, <1>2

\* The tab is there and the page is told to open it.
LEMMA OpenedIsFine ==
    ASSUME NEW s, NEW t, NEW w, Deciding(s, w), NEW p \in Paths, ~IsOpen(s, p), p \in w.known,
           \A q \in s.waiting : q.op = "content" /\ q.path = p => p \in w.orphans,
           NEW text \in Past, text \in w.disk[p].past, p \in w.excused \/ text = w.disk[p].text,
           t \in PaneType, TabsDiffer(t), \A x : IsOpen(t, x) <=> x = p \/ IsOpen(s, x),
           t.toPage = IF s.life = "crashed" THEN s.toPage
                      ELSE Append(s.toPage, [op |-> "open", path |-> p, text |-> text]),
           t.waiting = s.waiting, t.replies = s.replies, t.posts = s.posts, t.life = s.life,
           t.needsModelRestore = s.needsModelRestore, t.unseen = s.unseen, t.ask = s.ask
    PROVE  Fine(t, w)
<1> DEFINE c == [op |-> "open", path |-> p, text |-> text]
<1>1. c \in Command /\ c.op = "open" /\ c.path = p /\ c.text = text
  BY Commands
<1>2. t.toPage = IF s.life = "crashed" THEN s.toPage ELSE Append(s.toPage, c)
  OBVIOUS
<1> HIDE DEF c
<1>3. Linked(s, w) /\ AllNoticed(s, w) /\ Typed(s)
  BY DEF Deciding, Linked
<1>4. Typed(t)
  BY <1>3 DEF Typed
<1>5. \A op, x : Is(c, op, x) <=> op = "open" /\ x = p
  BY <1>1 DEF Is
<1>6. Sent(s, t, c)
  BY <1>1, <1>2, <1>5 DEF Sent
<1>7. Proper(s, w, c)
  BY <1>1 DEF Proper, Asks
<1>8. Linked(t, w)
  BY <1>3, <1>4, <1>6, <1>7, SentLinked
<1>9. ASSUME NEW x \in Paths \ w.excused
      PROVE  Noticed(t, w, x)
  <2>1. CASE x = p
    <3>1. IsOpen(t, x) /\ Is(c, "open", x) /\ ~IsOpen(s, x) /\ c.text = w.disk[x].text
      BY <1>1, <1>5, <1>9, <2>1
    <3>2. UpToDate(t, w, x)
      BY <1>3, <1>6, <3>1, SentUpToDate
    <3> QED
      BY <3>2 DEF Noticed
  <2>2. CASE x # p
    <3>1. Noticed(s, w, x)
      BY <1>3 DEF AllNoticed
    <3>2. \A op \in {"open", "set", "mark"} : ~Is(c, op, x)
      BY <1>5, <2>2
    <3>3. Conflict(s, x) => Conflict(t, x)
      BY DEF Conflict
    <3> QED
      BY <1>3, <1>6, <3>1, <3>2, <3>3, SentNoticed
  <2> QED
    BY <2>1, <2>2
<1> QED
  BY <1>8, <1>9 DEF Fine, AllNoticed

\* OpenFile
LEMMA OpenFileStep ==
    ASSUME IInv, NEW p \in Paths, NEW preview \in BOOLEAN, OpenFile(p, preview)
    PROVE  IInv'
<1> DEFINE text == disk[p].text
           c == [op |-> "open", path |-> p, text |-> text]
           u == OpenTab(pane, p, preview)
           w == During(page, disk', {p}, {})
           pinned == ~preview
<1>1. /\ ~IsOpen(pane, p) /\ pane' = Send(u, c) /\ Torn(p, disk[p], count.opens + 1)
      /\ page' = page /\ Watch
  BY DEF OpenFile
<1>2. /\ pane \in PaneType /\ Typed(pane) /\ FilesTyped /\ CountsTyped /\ SavesAreKnown(pane, Now)
  BY DEF IInv, Linked, Typed
<1>3. disk[p] \in File /\ text \in Past /\ text \in disk[p].past
  BY <1>2 DEF FilesTyped, File
<1>4. count.opens + 1 \in Nat
  BY <1>2 DEF CountsTyped, Counts
<1>5. /\ FilesTyped' /\ CountsTyped'
      /\ Clock \in Nat /\ Clock' \in Nat /\ Clock <= Clock'
      /\ \A x \in Paths : disk[x].past \subseteq disk'[x].past
      /\ disk'[p] = disk[p] \/ disk'[p] # disk[p]
  BY <1>1, <1>3, <1>4, FileIsWritten
<1>6. Deciding(pane, w)
  BY <1>5, StartOfStep
<1>7. /\ p \in w.known /\ w.orphans = ghost.orphans /\ w.disk = disk'
      /\ disk'[p] # disk[p] => p \in w.excused
  BY DEF During
<1>8. p \in w.excused \/ text = w.disk[p].text
  BY <1>7
<1>9. ASSUME NEW q \in pane.waiting, q.op = "content", q.path = p
      PROVE  p \in w.orphans
  <2>1. p \in Known
    BY <1>2, <1>9 DEF SavesAreKnown, Now
  <2> QED
    BY <1>1, <1>7, <2>1 DEF Known
<1>10. text \in w.disk[p].past
  BY <1>3, <1>5, <1>7
<1>11. c \in Command
  BY <1>3, Commands
<1>12. TabsDiffer(pane) /\ pinned \in BOOLEAN
  BY <1>2 DEF Typed
<1> HIDE DEF w, text, u, pinned
<1>13. Fine(pane', w) /\ IsOpen(pane', p)
  <2>1. CASE ~preview \/ Reusable(pane) = {}
    <3> DEFINE new == Append(pane.tabs, NewTab(p, pinned))
    <3>1. u = [pane EXCEPT !.tabs = new]
      BY <2>1 DEF u, OpenTab, pinned
    <3>2. /\ new \in Seq(Tab)
          /\ \A j, k \in DOMAIN new : new[j].path = new[k].path => j = k
          /\ \A x : (\E j \in DOMAIN new : new[j].path = x) <=> x = p \/ IsOpen(pane, x)
      BY <1>1, <1>2, <1>12, TabAppended
    <3> HIDE DEF new, c
    <3>3. u \in PaneType
      BY <1>2, <3>1, <3>2 DEF PaneType
    <3>4. /\ u.tabs = new /\ u.unseen = pane.unseen /\ u.waiting = pane.waiting /\ u.ask = pane.ask
          /\ u.life = pane.life /\ u.toPage = pane.toPage /\ u.replies = pane.replies
          /\ u.posts = pane.posts /\ u.needsModelRestore = pane.needsModelRestore
      BY <1>2, <3>1 DEF PaneType
    <3>5. /\ pane' \in PaneType /\ pane'.toPage = IF u.life = "crashed" THEN u.toPage ELSE Append(u.toPage, c)
          /\ pane'.tabs = u.tabs /\ pane'.unseen = u.unseen
          /\ pane'.waiting = u.waiting /\ pane'.ask = u.ask /\ pane'.life = u.life
          /\ pane'.replies = u.replies /\ pane'.posts = u.posts
          /\ pane'.needsModelRestore = u.needsModelRestore
      BY <1>1, <1>11, <3>3, SendIsSent
    <3>6. pane'.tabs = new
      BY <3>4, <3>5
    <3>7. TabsDiffer(pane') /\ \A x : IsOpen(pane', x) <=> x = p \/ IsOpen(pane, x)
      BY <3>2, <3>6 DEF TabsDiffer, IsOpen
    <3>8. /\ pane'.toPage = IF pane.life = "crashed" THEN pane.toPage
                            ELSE Append(pane.toPage, [op |-> "open", path |-> p, text |-> text])
          /\ pane'.waiting = pane.waiting /\ pane'.replies = pane.replies /\ pane'.posts = pane.posts
          /\ pane'.life = pane.life /\ pane'.needsModelRestore = pane.needsModelRestore
          /\ pane'.unseen = pane.unseen /\ pane'.ask = pane.ask /\ pane' \in PaneType
      BY <3>4, <3>5 DEF c
    <3>9. text \in Past /\ ~IsOpen(pane, p) /\ p \in w.known
      BY <1>1, <1>3, <1>7
    <3>10. Fine(pane', w)
      BY <1>6, <1>8, <1>9, <1>10, <3>7, <3>8, <3>9, OpenedIsFine
    <3> QED
      BY <3>7, <3>10
  <2>2. CASE preview /\ Reusable(pane) # {}
    <3> DEFINE no == FALSE
    <3>1. Reusable(pane) \subseteq DOMAIN pane.tabs /\ DOMAIN pane.tabs \subseteq Nat
      BY <1>2 DEF Reusable, PaneType
    <3>2. \E x \in Reusable(pane) : \A j \in Reusable(pane) : x <= j
      BY <2>2, <3>1, LeastOf
    <3>25. PICK i \in DOMAIN pane.tabs :
              u = LET tab == NewTab(p, no)
                      evicted == pane.tabs[i].path
                  IN DiscardResources([pane EXCEPT !.tabs = [pane.tabs EXCEPT ![i] = tab]], evicted,
                                      Told(pane, evicted))
      BY <2>2, <3>1, <3>2 DEF u, OpenTab
    <3> DEFINE evicted == pane.tabs[i].path
               tab == NewTab(p, no)
               new == [pane.tabs EXCEPT ![i] = tab]
               upto == Told(pane, evicted)
               gone == [op |-> "close", path |-> evicted, upto |-> upto]
               v == PerformClose(pane, evicted, upto)
               a == [pane EXCEPT !.tabs = new]
               b == Send(a, gone)
               shots == [b.snapshots EXCEPT ![evicted] = 0]
               unseen == pane.unseen \ {evicted}
    <3>26. u = DiscardResources(a, evicted, upto)
      BY <3>25
    <3>3. evicted \in Paths /\ IsOpen(pane, evicted) /\ evicted # p
      <4>1. pane.tabs[i] \in Tab
        BY <1>2 DEF PaneType
      <4>2. IsOpen(pane, evicted)
        BY DEF IsOpen
      <4> QED
        BY <1>1, <4>1, <4>2 DEF Tab
    <3>4. /\ new \in Seq(Tab)
          /\ \A j, k \in DOMAIN new : new[j].path = new[k].path => j = k
          /\ \A x : (\E j \in DOMAIN new : new[j].path = x)
                    <=> x = p \/ (IsOpen(pane, x) /\ x # evicted)
      <4>1. tab \in Tab /\ tab.path = p
        <5>1. no \in BOOLEAN
          OBVIOUS
        <5> HIDE DEF no
        <5> QED
          BY <5>1 DEF NewTab, Tab
      <4>2. pane.tabs \in Seq(Tab) /\ TabsDiffer(pane) /\ ~IsOpen(pane, p)
        BY <1>1, <1>2, <1>12 DEF PaneType
      <4> HIDE DEF tab
      <4>3. new = [pane.tabs EXCEPT ![i] = tab]
        BY DEF tab
      <4>4. new \in Seq(Tab)
        BY <4>1, <4>2, <4>3
      <4>5. DOMAIN new = DOMAIN pane.tabs /\ new[i] = tab
        BY <4>2, <4>3
      <4>6. \A j \in DOMAIN pane.tabs \ {i} : new[j] = pane.tabs[j]
        BY <4>2, <4>3
      <4>7. new[i].path = p
        BY <4>1, <4>5
      <4> HIDE DEF new
      <4>8. /\ \A j, k \in DOMAIN new : new[j].path = new[k].path => j = k
            /\ \A x : (\E j \in DOMAIN new : new[j].path = x)
                      <=> x = p \/ (IsOpen(pane, x) /\ x # evicted)
        <5> DEFINE tabs == pane.tabs
        <5>1. TabsDiffer(pane) /\ ~IsOpen(pane, p) /\ i \in DOMAIN tabs /\ DOMAIN new = DOMAIN tabs
              /\ new[i].path = p
          BY <4>2, <4>5, <4>7
        <5>2. \A j \in DOMAIN tabs \ {i} : new[j] = tabs[j]
          BY <4>6
        <5>3. \A j \in DOMAIN tabs : tabs[j].path # p
          BY <5>1 DEF IsOpen
        <5>4. \A j, k \in DOMAIN tabs : tabs[j].path = tabs[k].path => j = k
          BY <5>1 DEF TabsDiffer
        <5>5. \A x : IsOpen(pane, x) <=> \E j \in DOMAIN tabs : tabs[j].path = x
          BY DEF IsOpen
        <5>6. evicted = tabs[i].path
          OBVIOUS
        <5> HIDE DEF tabs, evicted
        <5>7. /\ \A j, k \in DOMAIN new : new[j].path = new[k].path => j = k
              /\ \A x : (\E j \in DOMAIN new : new[j].path = x)
                        <=> x = p \/ ((\E j \in DOMAIN tabs : tabs[j].path = x) /\ x # tabs[i].path)
          BY <5>1, <5>2, <5>3, <5>4, Replaced
        <5> QED
          BY <5>5, <5>6, <5>7
      <4> QED
        BY <4>4, <4>8
    <3>5. upto \in Nat
      BY <1>5 DEF Told
    <3> HIDE DEF evicted, new, upto, tab, no
    <3>6. gone \in Command
      BY <3>3, <3>5, Commands
    <3>7. /\ Deciding(v, w) /\ v.life = pane.life /\ v.ask = pane.ask /\ v.unseen = pane.unseen \ {evicted}
          /\ v.waiting = pane.waiting /\ v.replies = pane.replies /\ v.posts = pane.posts
          /\ v.needsModelRestore = pane.needsModelRestore
          /\ \A x : IsOpen(v, x) <=> IsOpen(pane, x) /\ x # evicted
          /\ v.toPage = IF pane.life = "crashed" THEN pane.toPage ELSE Append(pane.toPage, gone)
      <4>1. /\ Deciding(PerformClose(pane, evicted, upto), w)
            /\ PerformClose(pane, evicted, upto).life = pane.life
            /\ PerformClose(pane, evicted, upto).ask = pane.ask
            /\ PerformClose(pane, evicted, upto).waiting = pane.waiting
            /\ PerformClose(pane, evicted, upto).replies = pane.replies
            /\ PerformClose(pane, evicted, upto).posts = pane.posts
            /\ PerformClose(pane, evicted, upto).needsModelRestore = pane.needsModelRestore
            /\ \A x : IsOpen(PerformClose(pane, evicted, upto), x) <=> IsOpen(pane, x) /\ x # evicted
        BY <1>2, <1>6, <3>3, <3>5, CloseDecides
      <4>2. PerformClose(pane, evicted, upto).unseen = pane.unseen \ {evicted}
        BY ZenonT(30), <1>2, <1>6, <3>3, <3>5, CloseDecides
      <4>3. PerformClose(pane, evicted, upto).toPage =
                IF pane.life = "crashed" THEN pane.toPage ELSE Append(pane.toPage, gone)
        <5>1. /\ CountsTyped /\ Deciding(pane, w) /\ evicted \in Paths /\ upto \in Nat
              /\ IsOpen(pane, evicted) /\ gone = [op |-> "close", path |-> evicted, upto |-> upto]
          BY <1>2, <1>6, <3>3, <3>5
        <5> HIDE DEF c, gone, v, a, b, shots, unseen
        <5>2. CASE pane.life = "crashed"
          <6>1. PerformClose(pane, evicted, upto).toPage = pane.toPage
            BY <5>1, <5>2, CloseDecides
          <6> QED
            BY <5>2, <6>1
        <5>3. CASE pane.life # "crashed"
          <6>1. \E x : /\ x = [op |-> "close", path |-> evicted, upto |-> upto]
                       /\ PerformClose(pane, evicted, upto).toPage = Append(pane.toPage, x)
            BY <5>1, <5>3, CloseDecides
          <6> QED
            BY <5>1, <5>3, <6>1
        <5> QED
          BY <5>2, <5>3
      <4> QED
        BY <4>1, <4>2, <4>3
    <3> HIDE DEF v, gone, c
    <3>8. a \in PaneType
      BY <1>2, <3>4 DEF PaneType
    <3>9. /\ a.tabs = new /\ a.unseen = pane.unseen /\ a.waiting = pane.waiting /\ a.ask = pane.ask
          /\ a.life = pane.life /\ a.toPage = pane.toPage /\ a.replies = pane.replies
          /\ a.posts = pane.posts /\ a.needsModelRestore = pane.needsModelRestore
      BY <1>2 DEF PaneType
    <3> HIDE DEF a
    <3>10. /\ b \in PaneType /\ b.toPage = IF a.life = "crashed" THEN a.toPage ELSE Append(a.toPage, gone)
           /\ b.tabs = a.tabs /\ b.unseen = a.unseen
           /\ b.waiting = a.waiting /\ b.ask = a.ask /\ b.life = a.life
           /\ b.replies = a.replies /\ b.posts = a.posts /\ b.needsModelRestore = a.needsModelRestore
      BY <3>6, <3>8, SendIsSent
    <3>11. u = [b EXCEPT !.unseen = unseen, !.snapshots = shots]
      BY <3>9, <3>10, <3>26 DEF DiscardResources, PaneType, gone
    <3>12. shots \in [Paths -> Past] /\ unseen \in SUBSET Paths
      BY <1>2, <3>10, ZeroIsText DEF PaneType
    <3> HIDE DEF b, shots, unseen
    <3>13. u \in PaneType
      BY <3>10, <3>11, <3>12 DEF PaneType
    <3>14. /\ u.tabs = b.tabs /\ u.unseen = unseen /\ u.waiting = b.waiting /\ u.ask = b.ask
           /\ u.life = b.life /\ u.toPage = b.toPage /\ u.replies = b.replies
           /\ u.posts = b.posts /\ u.needsModelRestore = b.needsModelRestore
      BY <3>10, <3>11 DEF PaneType
    <3>15. /\ pane' \in PaneType /\ pane'.toPage = IF u.life = "crashed" THEN u.toPage ELSE Append(u.toPage, c)
           /\ pane'.tabs = u.tabs /\ pane'.unseen = u.unseen
           /\ pane'.waiting = u.waiting /\ pane'.ask = u.ask /\ pane'.life = u.life
           /\ pane'.replies = u.replies /\ pane'.posts = u.posts
           /\ pane'.needsModelRestore = u.needsModelRestore
      BY <1>1, <1>11, <3>13, SendIsSent
    <3>16. pane'.tabs = new
      BY <3>9, <3>10, <3>14, <3>15
    <3>17. TabsDiffer(pane') /\ \A x : IsOpen(pane', x) <=> x = p \/ (IsOpen(pane, x) /\ x # evicted)
      BY <3>4, <3>16 DEF TabsDiffer, IsOpen
    <3>18. TabsDiffer(pane') /\ \A x : IsOpen(pane', x) <=> x = p \/ IsOpen(v, x)
      BY <3>7, <3>17
    <3>19. u.toPage = v.toPage /\ u.life = v.life
      BY <3>7, <3>9, <3>10, <3>14
    <3>20. /\ pane'.toPage = IF v.life = "crashed" THEN v.toPage
                             ELSE Append(v.toPage, [op |-> "open", path |-> p, text |-> text])
           /\ pane' \in PaneType
      BY <3>15, <3>19 DEF c
    <3>21. /\ pane'.waiting = v.waiting /\ pane'.replies = v.replies /\ pane'.posts = v.posts
           /\ pane'.life = v.life /\ pane'.needsModelRestore = v.needsModelRestore
           /\ pane'.unseen = v.unseen /\ pane'.ask = v.ask
      BY <3>7, <3>9, <3>10, <3>14, <3>15 DEF unseen
    <3>22. text \in Past /\ ~IsOpen(v, p) /\ p \in w.known /\ Deciding(v, w)
      BY <1>1, <1>3, <1>7, <3>7
    <3>23. \A q \in v.waiting : q.op = "content" /\ q.path = p => p \in w.orphans
      BY <1>9, <3>7
    <3>24. Fine(pane', w)
      BY <1>8, <1>10, <3>18, <3>20, <3>21, <3>22, <3>23, OpenedIsFine
    <3> QED
      BY <3>17, <3>24
  <2> QED
    BY <2>1, <2>2
<1>14. Fine(pane', During(page', disk', {p}, {}))
  BY <1>1, <1>13 DEF w
<1>15. IsOpen(pane', p)
  BY <1>13
<1>16. Linked(pane, Now)' /\ AllNoticed(pane, Now)'
  BY <1>1, <1>5, <1>14, <1>15, EndOfStep
<1>17. PageTyped' /\ SavedIsOnDisk'
  BY <1>1, <1>5, PageStays
<1> QED
  BY <1>5, <1>16, <1>17 DEF IInv

-----------------------------------------------------------------------------
(* The theorems.                                                               *)

\* The pane as it is made has told the page to open its tabs.
LEMMA InitIsFine == Init => IInv
<1> SUFFICES ASSUME Init
             PROVE  IInv
  OBVIOUS
<1> DEFINE q == [i \in DOMAIN InitialTabs |-> [op |-> "open", path |-> InitialTabs[i], text |-> 0]]
           none == FALSE
           noShots == [p \in Paths |-> 0]
           n == Len(InitialTabs)
<1>1. PICK pinned \in BOOLEAN :
         pane = [tabs |-> [i \in DOMAIN InitialTabs |-> NewTab(InitialTabs[i], pinned)],
                 unseen |-> {}, snapshots |-> noShots, waiting |-> {}, ask |-> NoAsk,
                 quit |-> "none", quitSince |-> 0, life |-> "loading", needsModelRestore |-> none,
                 toPage |-> q, replies |-> <<>>, posts |-> <<>>]
  BY DEF Init
<1>2. /\ page = [p \in Paths |-> NoModel]
      /\ disk = [p \in Paths |-> [text |-> 0, mine |-> FALSE, past |-> {0}]]
      /\ count = [edits |-> 0, writes |-> 0, faults |-> 0, opens |-> 0, requests |-> 0]
      /\ ghost.orphans = {}
  BY DEF Init
<1> DEFINE tabs == [i \in DOMAIN InitialTabs |-> NewTab(InitialTabs[i], pinned)]
<1>3. n \in Nat /\ DOMAIN InitialTabs = 1..n /\ \A i \in 1..n : InitialTabs[i] \in Paths
  BY InitialTabsAssumption
<1>4. Clock = 0 /\ Troubles = 0 /\ Past = {0} /\ 0 \in Past
  BY <1>2 DEF Clock, Troubles, Past
<1>5. CountsTyped
  BY <1>2, <1>4, BoundsAssumption DEF CountsTyped, Counts
<1>6. FilesTyped
  <2> DEFINE f == [text |-> 0, mine |-> FALSE, past |-> {0}]
  <2>1. f \in File
    BY <1>4 DEF File
  <2>2. f.text \in f.past
    OBVIOUS
  <2>3. disk = [p \in Paths |-> f]
    BY <1>2
  <2> HIDE DEF f
  <2> QED
    BY <2>1, <2>2, <2>3 DEF FilesTyped
<1>7. NoModel \in Model
  BY <1>4 DEF NoModel, Model
<1>8. PageTyped /\ SavedIsOnDisk /\ \A p \in Paths : page[p] = NoModel
  BY <1>2, <1>7 DEF PageTyped, SavedIsOnDisk
<1>9. tabs \in Seq(Tab) /\ DOMAIN tabs = 1..n /\ \A i \in 1..n : tabs[i].path = InitialTabs[i]
  <2>1. \A i \in 1..n : NewTab(InitialTabs[i], pinned) \in Tab /\ NewTab(InitialTabs[i], pinned).path = InitialTabs[i]
    BY <1>3 DEF NewTab, Tab
  <2>2. tabs = [i \in 1..n |-> NewTab(InitialTabs[i], pinned)]
    BY <1>3
  <2>3. tabs \in [1..n -> Tab]
    BY <2>1, <2>2
  <2> HIDE DEF tabs
  <2> QED
    BY <1>3, <2>1, <2>2, <2>3
<1>10. q \in Seq(Command) /\ DOMAIN q = 1..n /\ Len(q) = n
       /\ \A i \in 1..n : q[i].op = "open" /\ q[i].path = InitialTabs[i] /\ q[i].text = 0
  <2>1. \A i \in 1..n : [op |-> "open", path |-> InitialTabs[i], text |-> 0] \in Command
    BY <1>3, <1>4, Commands
  <2>2. q = [i \in 1..n |-> [op |-> "open", path |-> InitialTabs[i], text |-> 0]]
    BY <1>3
  <2>3. q \in [1..n -> Command]
    BY <2>1, <2>2
  <2> HIDE DEF q
  <2> QED
    BY <1>3, <2>2, <2>3
<1>11. none \in BOOLEAN /\ noShots \in [Paths -> Past]
  BY <1>4
<1> HIDE DEF q, none, noShots, tabs, n
<1>12. /\ pane.tabs = tabs /\ pane.unseen = {} /\ pane.waiting = {} /\ pane.ask = NoAsk /\ pane.life = "loading"
       /\ pane.toPage = q /\ pane.replies = <<>> /\ pane.posts = <<>> /\ pane.needsModelRestore = none
  BY <1>1 DEF tabs
<1>13. pane \in PaneType
  <2>1. NoAsk \in Card /\ <<>> \in Seq(Content \cup Clean) /\ <<>> \in Seq(Message)
    BY DEF Card
  <2>2. pane = [tabs |-> tabs, unseen |-> {}, snapshots |-> noShots, waiting |-> {}, ask |-> NoAsk,
                quit |-> "none", quitSince |-> 0, life |-> "loading", needsModelRestore |-> none,
                toPage |-> q, replies |-> <<>>, posts |-> <<>>]
    BY <1>1 DEF tabs
  <2> QED
    BY <1>9, <1>10, <1>11, <2>1, <2>2 DEF PaneType
<1>14. Typed(pane)
  <2>1. TabsDiffer(pane)
    BY <1>3, <1>9, <1>12, InitialTabsAssumption DEF TabsDiffer
  <2>2. IsFiniteSet({})
    BY FS_EmptySet
  <2> QED
    BY <1>12, <1>13, <2>1, <2>2 DEF Typed
<1>15. DownIsEmpty(pane, Now)
  <2>1. \A i \in DOMAIN pane.toPage : pane.toPage[i].op \in {"open", "set", "close"}
    BY <1>10, <1>12
  <2> QED
    BY <1>8, <1>12, <2>1 DEF DownIsEmpty, Down, Now
<1>16. IdsDiffer(pane)
  BY <1>12 DEF IdsDiffer
<1>17. ASSUME NEW p \in Paths
       PROVE  /\ IsOpen(pane, p) <=> \E i \in 1..n : Is(q[i], "open", p)
              /\ HasModel(pane, Now, p) <=> \E i \in 1..n : Is(q[i], "open", p)
  <2>1. IsOpen(pane, p) <=> \E i \in 1..n : Is(q[i], "open", p)
    BY <1>9, <1>10, <1>12 DEF IsOpen, Is
  <2>2. \A a, b : a \in Nat /\ b \in 0..n /\ 1 <= a => NoClose(q, p, a, b)
    <3> SUFFICES ASSUME NEW a \in Nat, NEW b \in 0..n, 1 <= a, NEW j \in a..b
                 PROVE  ~Is(q[j], "close", p)
      BY DEF NoClose
    <3>1. j \in 1..n
      BY <1>3 DEF n
    <3> QED
      BY <1>10, <3>1 DEF Is
  <2>3. \A i \in 1..n : NoClose(q, p, i + 1, n)
    <3> SUFFICES ASSUME NEW i \in 1..n
                 PROVE  NoClose(q, p, i + 1, n)
      OBVIOUS
    <3>1. i + 1 \in Nat /\ 1 <= i + 1 /\ n \in 0..n
      BY <1>3
    <3> QED
      BY <2>2, <3>1
  <2>4. Exists(q, p, NoModel, n) <=> \E i \in 1..n : Is(q[i], "open", p)
    BY <2>3 DEF Exists
  <2>5. HasModel(pane, Now, p) <=> Exists(q, p, NoModel, n)
    BY <1>8, <1>10, <1>12 DEF HasModel, Now
  <2> QED
    BY <2>1, <2>4, <2>5
<1>18. Follows(pane, Now)
  BY <1>17 DEF Follows
<1>19. FromDisk(pane, Now)
  <2>1. \A i \in 1..n : disk[InitialTabs[i]].past = {0}
    BY <1>2, <1>3
  <2> QED
    BY <1>10, <1>12, <2>1 DEF FromDisk, Now
<1>20. MarksAreTrue(pane, Now)
  BY <1>10, <1>12 DEF MarksAreTrue
<1>21. ReadsItsTab(pane, Now) /\ SavesAreKnown(pane, Now)
  BY <1>12 DEF ReadsItsTab, SavesAreKnown, Now, Known
<1>22. AllNoticed(pane, Now)
  <2> SUFFICES ASSUME NEW p \in Paths, IsOpen(pane, p)
               PROVE  UpToDate(pane, Now, p)
    BY DEF AllNoticed, Noticed
  <2> DEFINE K == {i \in 1..n : Is(q[i], "open", p)}
  <2>1. K # {} /\ K \subseteq Nat
    BY <1>17
  <2>2. PICK i \in K : \A j \in K : i <= j
    BY <2>1, LeastOf
  <2>3. i \in 1..n /\ i \in 1..Len(q) /\ Is(q[i], "open", p) /\ q[i].text = 0
    BY <1>10, <2>2
  <2>4. ~Exists(q, p, NoModel, i - 1)
    <3>1. \A j \in 1..(i - 1) : j \in 1..n /\ ~(i <= j)
      BY <1>3, <2>3
    <3>2. \A j \in 1..(i - 1) : ~Is(q[j], "open", p)
      BY <2>2, <3>1
    <3> QED
      BY <3>2 DEF Exists
  <2>5. Sets(q, p, NoModel, i)
    BY <2>3, <2>4 DEF Sets
  <2>6. Stays(q, p, i + 1)
    <3>1. \A j \in (i + 1)..Len(q) : j \in 1..n
      BY <1>3, <1>10, <2>3
    <3>2. \A j \in 1..n : KeepsBase(q[j], p)
      BY <1>10 DEF KeepsBase, Is
    <3> QED
      BY <3>1, <3>2 DEF Stays
  <2>7. BaseIs(q, p, NoModel, 0)
    BY <2>3, <2>5, <2>6 DEF BaseIs
  <2>8. Now.page[p] = NoModel /\ Now.disk[p].text = 0
    BY <1>2, <1>8 DEF Now
  <2> QED
    BY <1>12, <2>7, <2>8 DEF UpToDate
<1>23. Linked(pane, Now)
  BY <1>14, <1>15, <1>16, <1>18, <1>19, <1>20, <1>21 DEF Linked
<1> QED
  BY <1>5, <1>6, <1>8, <1>22, <1>23 DEF IInv

\* Nothing that the invariant speaks of changes.
LEMMA StutterIsFine ==
    ASSUME IInv, UNCHANGED vars
    PROVE  IInv'
<1>1. pane' = pane /\ page' = page /\ disk' = disk /\ count' = count /\ ghost' = ghost
  BY DEF vars
<1>2. Clock' = Clock
  BY <1>1 DEF Clock
<1>3. FilesTyped' /\ CountsTyped' /\ PageTyped' /\ SavedIsOnDisk'
  BY <1>1, <1>2 DEF IInv, FilesTyped, CountsTyped, PageTyped, SavedIsOnDisk, Troubles, File, Model, Past
<1>4. Now' = Now
  <2>1. Known' = Known
    BY <1>1 DEF Known
  <2>2. \A p : Excused(p)' <=> Excused(p)
    BY <1>1 DEF Excused
  <2> QED
    BY <1>1, <2>1, <2>2 DEF Now
<1>5. Linked(pane, Now)' /\ AllNoticed(pane, Now)'
  <2>1. Clock \in Nat /\ Clock' \in Nat /\ Clock <= Clock'
    BY <1>2, ClocksAreNumbers DEF IInv
  <2>2. Typed(pane) /\ IdsDiffer(pane)
    BY DEF IInv, Linked
  <2>3. Typed(pane)' /\ IdsDiffer(pane)'
    BY <1>1, <2>1, <2>2, TypesGrow DEF Typed, IdsDiffer
  <2> QED
    BY <1>1, <1>4, <2>3 DEF IInv, Linked
<1> QED
  BY <1>3, <1>5 DEF IInv

\* Every step of the pane, of the page and of the world.
LEMMA StepIsFine == IInv /\ [Next]_vars => IInv'
<1> SUFFICES ASSUME IInv, [Next]_vars
             PROVE  IInv'
  OBVIOUS
<1>1. CASE UNCHANGED vars
  BY <1>1, StutterIsFine
<1>2. CASE Swift
  BY <1>2, DeliverPostStep, AnswerCleanStep, AnswerContentStep, WriteFailsStep, LateAnswerStep,
     FallbackStep, DidTerminateStep DEF Swift, Answer
<1>3. CASE Page
  <2>1. CASE PageRunsHead
    BY <2>1, PageRunsStep DEF PageRunsHead
  <2>2. ASSUME NEW p \in Paths, Type(p) \/ SnapshotTimer(p) \/ PressSave(p)
        PROVE  IInv'
    BY <2>2, TypeStep, SnapshotTimerStep, PressSaveStep
  <2> QED
    BY <1>3, <2>1, <2>2 DEF Page
<1>4. CASE User
  <2>1. ASSUME NEW p \in Paths, OpenFile(p, TRUE) \/ OpenFile(p, FALSE) \/ PinTab(p) \/ CloseTab(p)
        PROVE  IInv'
    <3>1. ASSUME OpenFile(p, TRUE)
          PROVE  IInv'
      BY <3>1, OpenFileStep
    <3>2. ASSUME OpenFile(p, FALSE)
          PROVE  IInv'
      BY <3>2, OpenFileStep
    <3> QED
      BY <2>1, <3>1, <3>2, PinTabStep, CloseTabStep
  <2> QED
    BY <1>4, <2>1, CloseAllStep, SaveAllDirtyStep, CheckExternalChangesStep, CancelStep, DiscardStep,
       SaveThenCloseStep, TakeDiskStep DEF User
<1>5. CASE World
  BY <1>5, PageReadyStep, CrashStep, WedgeStep, AgentWritesStep DEF World
<1> QED
  BY <1>1, <1>2, <1>3, <1>4, <1>5 DEF Next

\* The invariant of the editor: what is in the queue of the page, what was asked and what
\* was answered fits what the pane has open and what the files hold (EditorWebView.run,
\* requestContent, requestIsClean, webViewWebContentProcessDidTerminate).
THEOREM EditorInvariant == Spec => []IInv
<1>1. Init => IInv
  BY InitIsFine
<1>2. IInv /\ [Next]_vars => IInv'
  BY StepIsFine
<1> QED
  BY <1>1, <1>2, PTL DEF Spec

\* The state has its types: a tab per file, a note of a change only for a file that is open
\* (EditorPaneModel.open, close).
THEOREM EditorTypes == Spec => []TypeOK
<1>1. IInv => TypeOK
  <2> SUFFICES ASSUME IInv
               PROVE  TypeOK
    OBVIOUS
  <2>1. Typed(pane) /\ pane \in PaneType /\ PageTyped /\ CountsTyped
    BY DEF IInv, Linked, Typed
  <2>2. ASSUME NEW i \in DOMAIN pane.tabs
        PROVE  pane.tabs[i] \in [path : Paths, dirty : BOOLEAN, pinned : BOOLEAN]
    <3>1. pane.tabs \in Seq(Tab)
      BY <2>1 DEF PaneType
    <3>2. pane.tabs[i] \in Tab
      BY <3>1
    <3> QED
      BY <3>2 DEF Tab
  <2>3. /\ \A i, j \in DOMAIN pane.tabs : pane.tabs[i].path = pane.tabs[j].path => i = j
        /\ pane.unseen \subseteq {p \in Paths : IsOpen(pane, p)}
    BY <2>1 DEF Typed, TabsDiffer
  <2>4. pane.life \in {"loading", "up", "wedged", "crashed"} /\ pane.quit \in {"none", "waiting", "yes", "no"}
    BY <2>1 DEF PaneType
  <2>5. Past \subseteq Texts
    <3>1. Clock \in Nat /\ MaxEdits \in Nat /\ MaxTroubles \in Nat /\ Clock <= MaxEdits + MaxTroubles
      BY <2>1, BoundsAssumption DEF CountsTyped, Counts, Clock, Troubles
    <3> QED
      BY <3>1 DEF Past, Texts
  <2>6. page \in [Paths -> [text : Texts, version : Nat, saved : Nat, base : Texts, first : Texts,
                            timer : BOOLEAN]]
    <3>1. Model \subseteq [text : Texts, version : Nat, saved : Nat, base : Texts, first : Texts, timer : BOOLEAN]
      BY <2>5 DEF Model
    <3> QED
      BY <2>1, <3>1 DEF PageTyped
  <2> QED
    BY <2>2, <2>3, <2>4, <2>6 DEF TypeOK
<1> QED
  BY <1>1, EditorInvariant, PTL

\* When nothing is under way the page holds a model for exactly the open files: no close,
\* recycled preview tab, dead renderer or reload leaves one behind or forgets one
\* (discardResources, restoreAfterRendererCrash).
THEOREM ModelsFollowTheTabs == Spec => []ModelsFollowTabs
<1>1. IInv => ModelsFollowTabs
  <2> SUFFICES ASSUME IInv, Quiet, NEW p \in Paths
               PROVE  IsOpen(pane, p) <=> page[p] # NoModel
    BY DEF ModelsFollowTabs
  <2>1. Follows(pane, Now) /\ Now.page = page
    BY DEF IInv, Linked, Now
  <2>2. HasModel(pane, Now, p) <=> page[p] # NoModel
    BY <2>1, ExistsNone DEF HasModel, Quiet
  <2>3. ~Rebuilding(pane)
    BY DEF Quiet, Rebuilding
  <2> QED
    BY <2>1, <2>2, <2>3 DEF Follows
<1> QED
  BY <1>1, EditorInvariant, PTL

\* A buffer that the page calls saved holds a text that was in its file, whatever was typed,
\* saved, closed or lost while the answers and the marks were on their way (markSaved,
\* versionId).
THEOREM SavedBuffersAreOnDisk == Spec => []CleanIsOnDisk
<1>1. IInv => CleanIsOnDisk
  BY DEF IInv, SavedIsOnDisk, CleanIsOnDisk
<1> QED
  BY <1>1, EditorInvariant, PTL

\* A file that an agent wrote under an open tab is noted as changed, or in the buffer, or the
\* user chose to keep the buffer over it: no order of the focus check, the answers, the
\* conflict card and the reloads of the page forgets it (checkExternalChanges,
\* resolveExternalChange).
THEOREM ExternalChangesAreNoticed == Spec => []DiskChangesAreNoticed
<1>1. IInv => DiskChangesAreNoticed
  <2> SUFFICES ASSUME IInv, NEW p \in Paths, Quiet, IsOpen(pane, p), ~disk[p].mine,
                      pane.ask.kind # "conflict", ~\E q \in pane.waiting : q.why = "check",
                      p \notin pane.unseen \cup ghost.torn
               PROVE  disk[p].text \in {page[p].base, ghost.kept[p]}
    BY DEF DiskChangesAreNoticed
  <2>1. AllNoticed(pane, Now) /\ Follows(pane, Now)
    BY DEF IInv, Linked
  <2>2. Now.page = page /\ Now.disk = disk /\ Now.excused = {x \in Paths : Excused(x)}
    BY DEF Now
  <2>3. CASE Excused(p)
    BY <2>3 DEF Excused
  <2>4. CASE ~Excused(p)
    <3>1. Noticed(pane, Now, p)
      BY <2>1, <2>2, <2>4 DEF AllNoticed
    <3>2. UpToDate(pane, Now, p)
      BY <3>1 DEF Noticed, Conflict, Checked
    <3>3. BaseIs(pane.toPage, p, page[p], disk[p].text)
      BY <2>2, <3>2 DEF UpToDate, Rebuilding, Quiet
    <3>4. Len(pane.toPage) = 0
      BY DEF Quiet
    <3> QED
      BY <3>3, <3>4 DEF BaseIs
  <2> QED
    BY <2>3, <2>4
<1> QED
  BY <1>1, EditorInvariant, PTL
=============================================================================
