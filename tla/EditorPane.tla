----------------------------- MODULE EditorPane -----------------------------
(* The editor pane of the Mac app: the Monaco page (Resources/monaco/          *)
(* bridge.js), the web view that carries its commands, answers and posts       *)
(* (EditorWebView.swift) and the pane that owns the tabs and the files         *)
(* (EditorPaneView.swift, EditorPaneModel.swift).                              *)
(*                                                                             *)
(* Commands reach the page in order.  An answer to a question comes back in    *)
(* order with the other answers, a posted message in order with the other      *)
(* posts, and neither channel is ordered against the other.  A question is     *)
(* also answered by its deadline, or by WebKit when the renderer is dead.      *)
(* Texts are numbers drawn from one clock, so a larger text is a later one;    *)
(* 0 is what every file holds at first.                                        *)
EXTENDS Naturals, Sequences, FiniteSets, SequencesExt

CONSTANTS
    Paths,        \* files
    InitialTabs,  \* the paths of the tabs the pane starts with, in order
    MaxEdits,     \* bound: keystrokes
    MaxTroubles,  \* bound: writes by agents, renderer deaths and wedges
    MaxOpens,     \* bound: files opened by the user
    MaxRequests   \* bound: saves and closes asked for by the user

ASSUME InitialTabsAssumption ==
    /\ InitialTabs \in Seq(Paths)
    /\ \A i, j \in DOMAIN InitialTabs : InitialTabs[i] = InitialTabs[j] => i = j
ASSUME BoundsAssumption == {MaxEdits, MaxTroubles, MaxOpens, MaxRequests} \subseteq Nat

VARIABLES
    pane,   \* EditorPaneView and its EditorWebView
    page,   \* bridge.js: [Paths -> Model or NoModel]
    disk,   \* the files: [Paths -> [text, mine, past]], mine: written by the editor,
            \* past: every text it held
    count,  \* texts, faults, opens and requests so far
    ghost   \* what only the properties read

vars == <<pane, page, disk, count, ghost>>

NoModel == [text |-> 0, version |-> 0, saved |-> 0, base |-> 0, first |-> 0, timer |-> FALSE]
NoAsk == [kind |-> "none"]

Dirty(m) == m.version # m.saved

Clock == count.edits + count.writes
Troubles == count.writes + count.faults
Latest == MaxEdits + MaxTroubles

-----------------------------------------------------------------------------
(* Tabs (EditorPaneModel).                                                     *)

NewTab(p, pinned) == [path |-> p, dirty |-> FALSE, pinned |-> pinned]
IsOpen(s, p) == \E i \in DOMAIN s.tabs : s.tabs[i].path = p
IndexOf(s, p) == CHOOSE i \in DOMAIN s.tabs : s.tabs[i].path = p
IsDirty(s, p) == IsOpen(s, p) /\ s.tabs[IndexOf(s, p)].dirty
OpenPaths(s) == [i \in DOMAIN s.tabs |-> s.tabs[i].path]

\* The numbers in I, in order.
InOrder(I) == [k \in 1..Cardinality(I) |-> CHOOSE i \in I : Cardinality({j \in I : j <= i}) = k]
DirtyTabs(s) == {i \in DOMAIN s.tabs : s.tabs[i].dirty}
DirtyPaths(s) == LET dirty == InOrder(DirtyTabs(s)) IN [k \in DOMAIN dirty |-> s.tabs[dirty[k]].path]

SetDirty(s, p, dirty) ==
    IF ~IsOpen(s, p) THEN s
    ELSE LET i == IndexOf(s, p)
         IN [s EXCEPT !.tabs[i] = [path |-> p, dirty |-> dirty, pinned |-> s.tabs[i].pinned \/ dirty]]

-----------------------------------------------------------------------------
(* Commands and questions (EditorWebView.run, requestContent, requestIsClean). *)
(* While the page loads `toPage` is the queue that `ready` replays; a dead     *)
(* renderer that was not reported yet swallows what is sent to it.             *)

IsReady(s) == s.life # "loading"

Send(s, c) == IF s.life = "crashed" THEN s ELSE [s EXCEPT !.toPage = Append(@, c)]
SendAll(s, commands) == IF s.life = "crashed" THEN s ELSE [s EXCEPT !.toPage = @ \o commands]

\* An id tells the questions about one path apart.
Asks(c) == c.op \in {"content", "clean"}
UsedIds(s) == {q.id : q \in s.waiting}
              \cup {s.toPage[i].id : i \in {j \in DOMAIN s.toPage : Asks(s.toPage[j])}}
              \cup {s.replies[i].id : i \in DOMAIN s.replies}
FreshId(s) == CHOOSE n \in 1..(Cardinality(UsedIds(s)) + 1) : n \notin UsedIds(s)

\* why: what the completion goes on with; tab: the tab that "Save" was about;
\* rest: the paths a serial walk has left; since: the clock of the earliest answer so far.
Question(op, p, id, why, tab, rest, since) ==
    [op |-> op, path |-> p, id |-> id, why |-> why, tab |-> tab, rest |-> rest, since |-> since]
Asking(q) == [op |-> q.op, path |-> q.path, id |-> q.id]
Ask(s, op, p, why, tab, rest, since) ==
    LET id == FreshId(s)
    IN [Send(s, [op |-> op, path |-> p, id |-> id]) EXCEPT
            !.waiting = @ \cup {Question(op, p, id, why, tab, rest, since)}]

\* Where a serial walk goes on: the first of its paths that is open.
WalkEnds(s, paths) == \A i \in DOMAIN paths : ~IsOpen(s, paths[i])
NextOpen(s, paths) == CHOOSE i \in DOMAIN paths : /\ IsOpen(s, paths[i])
                                                 /\ \A j \in 1..(i - 1) : ~IsOpen(s, paths[j])
Rest(paths, i) == SubSeq(paths, i + 1, Len(paths))

-----------------------------------------------------------------------------
(* The pane ask: one card at a time, a new one cancels the one it displaces.   *)

CancelAsk(s) == [s EXCEPT !.ask = NoAsk,
                          !.quit = IF s.ask.kind = "drain" THEN "no" ELSE @]
Present(s, kind, p) ==
    [CancelAsk(s) EXCEPT !.ask = [kind |-> kind, path |-> p,
                                  index |-> IF IsOpen(s, p) THEN IndexOf(s, p) ELSE 0]]

\* Mutant of DiscardResources: the note that the file changed on disk stays.
DiscardButTheNote(s, p, upto) ==
    [Send(s, [op |-> "close", path |-> p, upto |-> upto]) EXCEPT !.snapshots[p] = 0]

\* performClose, discardResources
DiscardResources(s, p, upto) ==
    [Send(s, [op |-> "close", path |-> p, upto |-> upto]) EXCEPT
        !.unseen = @ \ {p}, !.snapshots[p] = 0]
PerformClose(s, p, upto) ==
    IF ~IsOpen(s, p) THEN s
    ELSE DiscardResources([s EXCEPT !.tabs = RemoveAt(@, IndexOf(s, p))], p, upto)

\* requestCloseTab, promptThenCloseTab; known: the clock of the answer it acts on
CloseOrPrompt(s, p, dirty, known) ==
    CASE ~IsOpen(s, p) -> s
      [] IsOpen(s, p) /\ dirty -> Present(s, "close", p)
      [] OTHER -> PerformClose(s, p, known)

\* Mutant of RequestClose: the flag is believed, the page is not asked.
RequestCloseByFlag(s, p) == CloseOrPrompt(s, p, IsDirty(s, p), Clock)

RequestClose(s, p) ==
    IF IsReady(s) THEN Ask(s, "clean", p, "close", p, <<>>, Latest)
    ELSE CloseOrPrompt(s, p, IsDirty(s, p), Clock)

\* save(at:): the buffer is asked for, the write is the answer's
Save(s, p, why, tab, rest) == Ask(s, "content", p, why, tab, rest, Latest)

\* Mutant of SaveFailed: who waits for the pane to close is not told.
SaveFailedSilently(s, why) == s

SaveFailed(s, why) == [s EXCEPT !.quit = IF why = "drain" THEN "no" ELSE @]
SaveSerially(s, paths) ==
    IF WalkEnds(s, paths) \/ ~IsReady(s) THEN s
    ELSE LET i == NextOpen(s, paths) IN Save(s, paths[i], "saveAll", paths[i], Rest(paths, i))

\* reconcileDirtyFlags and what its two callers do when every flag is in line
DrainReconciled(s) ==
    IF DirtyPaths(s) = <<>> THEN [s EXCEPT !.quit = "yes"]
    ELSE Present(s, "drain", Head(DirtyPaths(s)))
Reconciled(s, why, since) ==
    IF why = "drain" THEN [DrainReconciled(s) EXCEPT !.quitSince = since]
    ELSE SaveSerially(s, DirtyPaths(s))
ReconcileRest(s, paths, why, since) ==
    IF WalkEnds(s, paths) \/ ~IsReady(s) THEN Reconciled(s, why, since)
    ELSE LET i == NextOpen(s, paths)
         IN Ask(s, "clean", paths[i], why, paths[i], Rest(paths, i), since)
Reconcile(s, why) == ReconcileRest(s, OpenPaths(s), why, Latest)

\* reloadFromDisk
ReloadFromDisk(s, p, upto) ==
    IF IsOpen(s, p) THEN Send(s, [op |-> "set", path |-> p, text |-> disk[p].text, upto |-> upto])
    ELSE s

\* Mutant of ResolveExternalChange: a change under an edited buffer is passed over.
ReloadOrIgnore(s, p, clean, known) == IF clean THEN ReloadFromDisk(s, p, known) ELSE s

\* resolveExternalChange
ResolveExternalChange(s, p, clean, known) ==
    CASE clean -> ReloadFromDisk(s, p, known)
      [] ~clean /\ s.ask.kind = "conflict" -> [s EXCEPT !.unseen = IF IsOpen(s, p) THEN @ \cup {p} ELSE @]
      [] OTHER -> Present(s, "conflict", p)

\* What the answer to q says of the tab that it closes.
Knows(q, known) == IF q.tab = q.path THEN known ELSE 0

\* What the completion of requestIsClean does with its answer.
OnClean(s, q, clean, known) ==
    CASE q.why = "check" -> ResolveExternalChange(s, q.path, clean, known)
      [] q.why = "close" -> CloseOrPrompt(SetDirty(s, q.path, ~clean), q.path, ~clean, known)
      [] q.why \in {"drain", "saveAll"} ->
            ReconcileRest(SetDirty(s, q.path, ~clean), q.rest, q.why, IF known < q.since THEN known ELSE q.since)
      [] q.why = "savedForClose" ->
            IF clean THEN PerformClose(s, q.tab, Knows(q, known))
            ELSE IF IsOpen(s, q.tab) THEN RequestClose(s, q.tab) ELSE s
      [] q.why = "savedForDrain" ->
            Reconcile(IF clean THEN PerformClose(s, q.tab, Knows(q, known)) ELSE s, "drain")

\* What the completion of requestContent does once the bytes are on disk.
OnSaved(s, q, version) ==
    LET t == Send([s EXCEPT !.unseen = @ \ {q.path}],
                  [op |-> "mark", path |-> q.path, version |-> version])
    IN CASE q.why = "close" -> Ask(t, "clean", q.path, "savedForClose", q.tab, <<>>, Latest)
         [] q.why = "drain" -> Ask(t, "clean", q.path, "savedForDrain", q.tab, <<>>, Latest)
         [] q.why = "saveAll" -> SaveSerially(t, q.rest)
         [] OTHER -> t

-----------------------------------------------------------------------------
(* What only the properties read.                                              *)

Pending(op, p) == \E i \in DOMAIN pane.toPage : pane.toPage[i].op = op /\ pane.toPage[i].path = p

\* An edit the last decision knew of went with its buffer: by a close or a replacement on its
\* way to the page, by a quit, or by a "Save" that saved another slot.  (A buffer whose close is
\* on its way was decided about then, even if its file is open again.)
Destroys(c) == c.op \in {"close", "set"} /\ page[c.path].first \in 1..c.upto
LosesKnownEdit ==
    {why \in {"close", "quit", "slot"} :
        \/ /\ why = "close" /\ pane.life = "up" /\ pane.toPage # <<>> /\ page' # page
           /\ pane'.toPage = Tail(pane.toPage) /\ Destroys(Head(pane.toPage))
        \/ /\ why = "quit" /\ pane'.quit = "yes"
           /\ \E p \in Paths : /\ IsOpen(pane', p) /\ p \notin ghost.misread /\ ~Pending("close", p)
                             /\ page[p].first \in 1..pane'.quitSince
        \/ /\ why = "slot"
           /\ \E q \in pane.waiting \ pane'.waiting :
                 /\ q.path # q.tab /\ IsOpen(pane, q.tab) /\ ~IsOpen(pane', q.tab)
                 /\ page[q.tab].first \in 1..Head(pane.replies).at}

\* A stale answer, or a stale post, unset the flag of a buffer that was edited since.
Misread(p) ==
    /\ IsDirty(pane, p) /\ IsOpen(pane', p) /\ ~IsDirty(pane', p)
    /\ Dirty(page[p]) \/ ghost.atStake[p] # 0

\* The unsaved edit a renderer death put at stake: the first one lost with the
\* page, then the snapshot that holds it, if one does.
Dies == pane.life = "up" /\ pane'.life = "crashed"
Reloads == pane.life = "crashed" /\ pane'.life = "loading"
LostWithPage(p) ==
    IF Pending("close", p) THEN 0
    ELSE IF page[p] = NoModel \/ Pending("restore", p) THEN ghost.atStake[p] ELSE page[p].first
Insured(p) == ghost.atStake[p] # 0 /\ pane.snapshots[p] >= ghost.atStake[p] /\ p \notin ghost.misread
AtStake(p) ==
    CASE ~IsOpen(pane', p) -> 0
      [] IsOpen(pane', p) /\ Dies -> LostWithPage(p)
      [] IsOpen(pane', p) /\ Reloads -> IF Insured(p) THEN pane.snapshots[p] ELSE 0
      [] OTHER -> IF Dirty(page[p]) /\ ~Dirty(page'[p]) THEN 0 ELSE ghost.atStake[p]

Watch ==
    /\ pane.quit # "yes"
    /\ ghost' =
             [lost |-> ghost.lost \cup LosesKnownEdit,
              orphans |-> ghost.orphans \cup
                  {p \in Paths : /\ IsOpen(pane, p) /\ ~IsOpen(pane', p)
                                 /\ \E q \in pane'.waiting : q.op = "content" /\ q.path = p},
              misread |-> {p \in Paths : /\ p \in ghost.misread \/ Misread(p)
                                         /\ IsOpen(pane', p) /\ ~IsDirty(pane', p)},
              torn |-> {p \in Paths : /\ IsOpen(pane', p) /\ p \notin pane'.unseen /\ ~disk'[p].mine
                                      /\ p \in ghost.torn \/ disk'[p] # disk[p]},
              kept |-> [p \in Paths |-> IF pane.ask.kind = "conflict" /\ pane.ask.path = p /\ pane'.ask # pane.ask
                                        THEN disk[p].text ELSE ghost.kept[p]],
              atStake |-> [p \in Paths |-> AtStake(p)]]

-----------------------------------------------------------------------------
(* The page (bridge.js).                                                       *)

Post(s, m) == [s EXCEPT !.posts = Append(@, m)]
DirtyChanged(p, m) == [type |-> "dirty", path |-> p, dirty |-> Dirty(m)]

\* What onDidChangeContent leaves behind: the post and the armed timer.
Changed(m, text) == [m EXCEPT !.text = text, !.version = @ + 1, !.timer = TRUE]

OpenModel(p, text) ==
    IF page[p] # NoModel THEN page[p]
    ELSE [NoModel EXCEPT !.text = text, !.base = text, !.version = 1, !.saved = 1]
SetContent(m, text) ==
    [m EXCEPT !.text = text, !.base = text, !.version = @ + 1, !.saved = m.version + 1,
              !.first = 0, !.timer = FALSE]

\* Mutant of MarkSaved: whatever the page holds by now is taken for what was written.
MarkAnySaved(m, version) == [m EXCEPT !.saved = m.version, !.base = m.text, !.first = 0]

MarkSaved(m, version) ==
    IF version # m.version THEN m ELSE [m EXCEPT !.saved = version, !.base = m.text, !.first = 0]
RestoreUnsaved(m, text) == [Changed(m, text) EXCEPT !.first = text]
CloseModel(m) == NoModel

PageModel(c) ==
    LET m == page[c.path]
    IN IF c.op = "open" THEN OpenModel(c.path, c.text)
       ELSE IF m = NoModel THEN NoModel
       ELSE CASE c.op = "set" -> SetContent(m, c.text)
              [] c.op = "mark" -> MarkSaved(m, c.version)
              [] c.op = "restore" -> RestoreUnsaved(m, c.text)
              [] c.op = "close" -> CloseModel(m)
              [] OTHER -> m

\* The dirtyChanged a command posts, if it posts one.
Posts(c) ==
    LET m == page[c.path]
    IN m # NoModel /\ \/ c.op \in {"set", "restore"}
                      \/ c.op = "mark" /\ c.version = m.version

\* getContent, isClean; at: the clock when the page answered
GetContent(c) == [id |-> c.id, path |-> c.path, at |-> Clock, version |-> page[c.path].version,
                  text |-> page[c.path].text, none |-> page[c.path] = NoModel]
IsClean(c) == [id |-> c.id, path |-> c.path, at |-> Clock, clean |-> ~Dirty(page[c.path])]

PageRuns(op) ==
    /\ pane.life = "up" /\ pane.toPage # <<>> /\ Head(pane.toPage).op = op
    /\ LET c == Head(pane.toPage)
           s == [pane EXCEPT !.toPage = Tail(@)]
           m == PageModel(c)
       IN /\ page' = [page EXCEPT ![c.path] = m]
          /\ pane' = CASE op = "content" -> [s EXCEPT !.replies = Append(@, GetContent(c))]
                       [] op = "clean" -> [s EXCEPT !.replies = Append(@, IsClean(c))]
                       [] OTHER -> IF Posts(c) THEN Post(s, DirtyChanged(c.path, m)) ELSE s
    /\ UNCHANGED <<disk, count>> /\ Watch

Type(p) ==
    /\ pane.life = "up" /\ page[p] # NoModel /\ count.edits < MaxEdits
    /\ LET text == Clock + 1
           m == [Changed(page[p], text) EXCEPT !.first = IF @ = 0 THEN text ELSE @]
       IN /\ page' = [page EXCEPT ![p] = m]
          /\ pane' = Post(pane, DirtyChanged(p, m))
          /\ count' = [count EXCEPT !.edits = @ + 1]
    /\ UNCHANGED disk /\ Watch

\* The 2 s debounce is over.
SnapshotTimer(p) ==
    /\ pane.life = "up" /\ page[p].timer
    /\ page' = [page EXCEPT ![p].timer = FALSE]
    /\ pane' = Post(pane, [type |-> "snapshot", path |-> p, text |-> page[p].text])
    /\ UNCHANGED <<disk, count>> /\ Watch

Request == count.requests < MaxRequests /\ count' = [count EXCEPT !.requests = @ + 1]

\* Cmd+S in the editor
PressSave(p) ==
    /\ pane.life = "up" /\ page[p] # NoModel /\ Request
    /\ pane' = Post(pane, [type |-> "save", path |-> p])
    /\ UNCHANGED <<page, disk>> /\ Watch

-----------------------------------------------------------------------------
(* Posts reach the pane (userContentController, wireBridge).                   *)

OnDirtyChanged(s, p, dirty) ==
    IF ~IsOpen(s, p) THEN s
    ELSE [SetDirty(s, p, dirty) EXCEPT !.snapshots[p] = IF dirty THEN @ ELSE 0]

DeliverPost ==
    /\ pane.life # "loading" /\ pane.posts # <<>>
    /\ LET m == Head(pane.posts)
           s == [pane EXCEPT !.posts = Tail(@)]
       IN pane' = CASE m.type = "dirty" -> OnDirtyChanged(s, m.path, m.dirty)
                    [] m.type = "snapshot" -> [s EXCEPT !.snapshots[m.path] = m.text]
                    [] m.type = "save" -> IF IsOpen(s, m.path) THEN Save(s, m.path, "save", m.path, <<>>)
                                          ELSE s
    /\ UNCHANGED <<page, disk, count>> /\ Watch

-----------------------------------------------------------------------------
(* Answers reach the pane.                                                     *)

Answered(q) == [pane EXCEPT !.waiting = @ \ {q}]
Answers(r, q) == r.id = q.id /\ r.path = q.path
Asker == {q \in pane.waiting : pane.replies # <<>> /\ Answers(Head(pane.replies), q)}

\* An agent may write between the editor's own read or write of a file and the
\* stat that follows it: then the recorded date is the agent's.
Written(f, text, mine) == [text |-> text, mine |-> mine, past |-> f.past \cup {text}]
Torn(p, f, opens) ==
    \/ /\ disk' = [disk EXCEPT ![p] = f]
       /\ count' = [count EXCEPT !.opens = opens]
    \/ /\ Troubles < MaxTroubles
       /\ disk' = [disk EXCEPT ![p] = Written(f, Clock + 1, FALSE)]
       /\ count' = [count EXCEPT !.opens = opens, !.writes = @ + 1]

AnswerClean ==
    \E q \in Asker :
        /\ q.op = "clean"
        /\ LET r == Head(pane.replies)
           IN pane' = OnClean([Answered(q) EXCEPT !.replies = Tail(@)], q, r.clean, r.at)
        /\ UNCHANGED <<page, disk, count>> /\ Watch

\* The write, then markSaved; the tab may be gone, the page may have no model.
AnswerContent ==
    \E q \in Asker :
        /\ q.op = "content"
        /\ LET r == Head(pane.replies)
               s == [Answered(q) EXCEPT !.replies = Tail(@)]
           IN IF ~IsOpen(s, q.path) \/ r.none
              THEN pane' = SaveFailed(s, q.why) /\ UNCHANGED <<disk, count>>
              ELSE pane' = OnSaved(s, q, r.version) /\ Torn(q.path, Written(disk[q.path], r.text, TRUE), count.opens)
        /\ UNCHANGED page /\ Watch

\* The disk refuses the bytes.
WriteFails ==
    \E q \in Asker :
        /\ q.op = "content" /\ ~Head(pane.replies).none /\ IsOpen(pane, q.path)
        /\ pane' = SaveFailed([Answered(q) EXCEPT !.replies = Tail(@)], q.why)
        /\ UNCHANGED <<page, disk, count>> /\ Watch

\* The answer comes after the deadline has spoken for it.
LateAnswer ==
    /\ pane.replies # <<>> /\ Asker = {}
    /\ pane' = [pane EXCEPT !.replies = Tail(@)]
    /\ UNCHANGED <<page, disk, count>> /\ Watch

\* The deadline passes on a renderer that does not answer, or the evaluation
\* fails in a dead one.
InToPage(q) == \E i \in DOMAIN pane.toPage : pane.toPage[i] = Asking(q)
Fallback ==
    \E q \in pane.waiting :
        /\ ~\E i \in DOMAIN pane.replies : Answers(pane.replies[i], q)
        /\ pane.life = "up" => ~InToPage(q)
        /\ pane' = IF q.op = "clean" THEN OnClean(Answered(q), q, FALSE, 0)
                   ELSE SaveFailed(Answered(q), q.why)
        /\ UNCHANGED <<page, disk, count>> /\ Watch

-----------------------------------------------------------------------------
(* The user.                                                                   *)

\* openReportingEviction: the tab a preview open recycles.  The flag it reads
\* lags the page by a post, so it knows nothing of an edit still posted.
Reusable(s) == {i \in DOMAIN s.tabs : ~s.tabs[i].pinned /\ ~s.tabs[i].dirty}
Told(s, p) == IF \E i \in DOMAIN s.posts : s.posts[i].type = "dirty" /\ s.posts[i].path = p
              THEN 0 ELSE Clock
OpenTab(s, p, preview) ==
    IF ~preview \/ Reusable(s) = {} THEN [s EXCEPT !.tabs = Append(@, NewTab(p, ~preview))]
    ELSE LET i == CHOOSE i \in Reusable(s) : \A j \in Reusable(s) : i <= j
             evicted == s.tabs[i].path
         IN DiscardResources([s EXCEPT !.tabs[i] = NewTab(p, FALSE)], evicted, Told(s, evicted))

\* openFile, loadFileTab
OpenFile(p, preview) ==
    /\ ~IsOpen(pane, p) /\ count.opens < MaxOpens
    /\ pane' = Send(OpenTab(pane, p, preview), [op |-> "open", path |-> p, text |-> disk[p].text])
    /\ Torn(p, disk[p], count.opens + 1)
    /\ UNCHANGED page /\ Watch

\* A deliberate open of an open file, a drag of its tab: pinned.
PinTab(p) ==
    /\ IsOpen(pane, p) /\ ~pane.tabs[IndexOf(pane, p)].pinned
    /\ pane' = [pane EXCEPT !.tabs[IndexOf(pane, p)].pinned = TRUE]
    /\ UNCHANGED <<page, disk, count>> /\ Watch

CloseTab(p) ==
    /\ IsOpen(pane, p) /\ Request
    /\ pane' = RequestClose(pane, p)
    /\ UNCHANGED <<page, disk>> /\ Watch

\* closeAllTabsAfterConfirmation
CloseAll ==
    /\ pane.quit # "waiting" /\ Request
    /\ pane' = Reconcile([pane EXCEPT !.quit = "waiting"], "drain")
    /\ UNCHANGED <<page, disk>> /\ Watch

SaveAllDirty ==
    /\ Request
    /\ pane' = Reconcile(pane, "saveAll")
    /\ UNCHANGED <<page, disk>> /\ Watch

\* checkExternalChanges, on focus and on a tab switch
CheckExternalChanges ==
    /\ pane.ask.kind # "conflict" /\ IsReady(pane) /\ pane.unseen # {}
    /\ LET changed == InOrder({i \in DOMAIN pane.tabs : pane.tabs[i].path \in pane.unseen})
           asked == [k \in DOMAIN changed |->
                        LET p == pane.tabs[changed[k]].path
                        IN Question("clean", p, FreshId(pane), "check", p, <<>>, Latest)]
       IN pane' = [SendAll(pane, [k \in DOMAIN asked |-> Asking(asked[k])]) EXCEPT
                      !.waiting = @ \cup Range(asked), !.unseen = {}]
    /\ UNCHANGED <<page, disk, count>> /\ Watch

\* The answers of the save prompt.  "Save" saves the tab at the captured index.
Cancel ==
    /\ pane.ask.kind # "none"
    /\ pane' = CancelAsk(pane)
    /\ UNCHANGED <<page, disk, count>> /\ Watch
Discard ==
    /\ pane.ask.kind \in {"close", "drain"}
    /\ LET s == PerformClose([pane EXCEPT !.ask = NoAsk], pane.ask.path, 0)
       IN pane' = IF pane.ask.kind = "drain" THEN Reconcile(s, "drain") ELSE s
    /\ UNCHANGED <<page, disk, count>> /\ Watch
SaveThenClose ==
    /\ pane.ask.kind \in {"close", "drain"}
    /\ LET a == pane.ask
           s == [pane EXCEPT !.ask = NoAsk]
       IN pane' = IF a.index \notin DOMAIN s.tabs \/ ~IsReady(s) THEN SaveFailed(s, a.kind)
                  ELSE Save(s, s.tabs[a.index].path, a.kind, a.path, <<>>)
    /\ UNCHANGED <<page, disk, count>> /\ Watch
TakeDisk ==
    /\ pane.ask.kind = "conflict"
    /\ pane' = ReloadFromDisk([pane EXCEPT !.ask = NoAsk], pane.ask.path, 0)
    /\ UNCHANGED <<page, disk, count>> /\ Watch

-----------------------------------------------------------------------------
(* The world: agents write files, the renderer dies and is reloaded.           *)

AgentWrites(p) ==
    /\ Troubles < MaxTroubles
    /\ disk' = [disk EXCEPT ![p] = Written(@, Clock + 1, FALSE)]
    /\ pane' = IF IsOpen(pane, p) THEN [pane EXCEPT !.unseen = @ \cup {p}] ELSE pane
    /\ count' = [count EXCEPT !.writes = @ + 1]
    /\ UNCHANGED page /\ Watch

\* The process is gone with its buffers and with the commands on their way.
Fault == Troubles < MaxTroubles /\ count' = [count EXCEPT !.faults = @ + 1]
Crash ==
    /\ pane.life = "up" /\ Fault
    /\ pane' = [pane EXCEPT !.life = "crashed", !.toPage = <<>>]
    /\ page' = [p \in Paths |-> NoModel]
    /\ UNCHANGED disk /\ Watch

\* A runaway script: nothing is answered until it ends, if it does.
Wedge ==
    /\ pane.life = "up" /\ Fault
    /\ pane' = [pane EXCEPT !.life = "wedged"]
    /\ UNCHANGED <<page, disk>> /\ Watch
Unwedge ==
    /\ pane.life = "wedged"
    /\ pane' = [pane EXCEPT !.life = "up"]
    /\ UNCHANGED <<page, disk, count>> /\ Watch

\* Mutant of DidTerminate: the reload is not known to start from nothing.
TerminateForgetsModels ==
    /\ pane.life = "crashed"
    /\ pane' = [pane EXCEPT !.life = "loading", !.posts = <<>>, !.replies = <<>>]
    /\ UNCHANGED <<page, disk, count>> /\ Watch

\* webViewWebContentProcessDidTerminate
DidTerminate ==
    /\ pane.life = "crashed"
    /\ pane' = [pane EXCEPT !.life = "loading", !.needsModelRestore = TRUE,
                            !.posts = <<>>, !.replies = <<>>]
    /\ UNCHANGED <<page, disk, count>> /\ Watch

\* Mutant of Restored: only what is on disk comes back.
RestoredFromDisk(s) ==
    SendAll(s, [i \in DOMAIN s.tabs |-> LET p == s.tabs[i].path
                                       IN [op |-> "open", path |-> p, text |-> disk[p].text]])

\* restoreAfterRendererCrash: of each tab i the disk text first (step 2i), the unsaved edit
\* on top of it (step 2i + 1)
Restores(s) ==
    {2 * i : i \in DOMAIN s.tabs}
    \cup {2 * i + 1 : i \in {j \in DirtyTabs(s) : s.snapshots[s.tabs[j].path] # 0}}
Restoring(s, n) ==
    LET p == s.tabs[n \div 2].path
    IN IF n % 2 = 0 THEN [op |-> "open", path |-> p, text |-> disk[p].text]
       ELSE [op |-> "restore", path |-> p, text |-> s.snapshots[p]]
Restored(s) ==
    LET steps == InOrder(Restores(s)) IN SendAll(s, [k \in DOMAIN steps |-> Restoring(s, steps[k])])
PageReady ==
    /\ pane.life = "loading"
    /\ LET s == [pane EXCEPT !.life = "up", !.needsModelRestore = FALSE]
       IN pane' = IF pane.needsModelRestore THEN Restored(s) ELSE s
    /\ UNCHANGED <<page, disk, count>> /\ Watch

-----------------------------------------------------------------------------
Init ==
    /\ \E pinned \in BOOLEAN :
       pane = [tabs |-> [i \in DOMAIN InitialTabs |-> NewTab(InitialTabs[i], pinned)],
               unseen |-> {}, snapshots |-> [p \in Paths |-> 0], waiting |-> {}, ask |-> NoAsk,
               quit |-> "none", quitSince |-> 0, life |-> "loading", needsModelRestore |-> FALSE,
               toPage |-> [i \in DOMAIN InitialTabs |-> [op |-> "open", path |-> InitialTabs[i], text |-> 0]],
               replies |-> <<>>, posts |-> <<>>]
    /\ page = [p \in Paths |-> NoModel]
    /\ disk = [p \in Paths |-> [text |-> 0, mine |-> FALSE, past |-> {0}]]
    /\ count = [edits |-> 0, writes |-> 0, faults |-> 0, opens |-> 0, requests |-> 0]
    /\ ghost = [lost |-> {}, orphans |-> {}, misread |-> {},
                torn |-> {}, kept |-> [p \in Paths |-> 0], atStake |-> [p \in Paths |-> 0]]

Answer == AnswerClean \/ AnswerContent \/ WriteFails \/ LateAnswer
Swift == DeliverPost \/ Answer \/ Fallback \/ DidTerminate
PageRunsHead == \E op \in {"open", "set", "mark", "restore", "close", "content", "clean"} : PageRuns(op)
Page == \/ PageRunsHead
        \/ \E p \in Paths : Type(p) \/ SnapshotTimer(p) \/ PressSave(p)
User == \/ \E p \in Paths : OpenFile(p, TRUE) \/ OpenFile(p, FALSE) \/ PinTab(p) \/ CloseTab(p)
        \/ CloseAll \/ SaveAllDirty \/ CheckExternalChanges
        \/ Cancel \/ Discard \/ SaveThenClose \/ TakeDisk
World == PageReady \/ Crash \/ Wedge \/ Unwedge \/ \E p \in Paths : AgentWrites(p)

Next == Swift \/ Page \/ User \/ World

\* Fairness: while a close waits, the main thread takes what is queued for it, deadlines pass,
\* and a page that is neither dead nor wedged runs its commands.  Nothing says that a wedge
\* ends, that a death is reported or that a reload becomes ready.
Spec == Init /\ [][Next]_vars /\ WF_vars(pane.quit = "waiting" /\ PageRunsHead)
        /\ WF_vars(pane.quit = "waiting" /\ Answer) /\ WF_vars(pane.quit = "waiting" /\ Fallback)

-----------------------------------------------------------------------------
Texts == 0..(MaxEdits + MaxTroubles)
\* The type of the state: a tab per file, and a note that a file changed on disk only for
\* a file that is open.
TypeOK ==
    /\ \A i \in DOMAIN pane.tabs : pane.tabs[i] \in [path : Paths, dirty : BOOLEAN, pinned : BOOLEAN]
    /\ \A i, j \in DOMAIN pane.tabs : pane.tabs[i].path = pane.tabs[j].path => i = j
    /\ pane.unseen \subseteq {p \in Paths : IsOpen(pane, p)}
    /\ pane.life \in {"loading", "up", "wedged", "crashed"}
    /\ pane.quit \in {"none", "waiting", "yes", "no"}
    /\ page \in [Paths -> [text : Texts, version : Nat, saved : Nat, base : Texts, first : Texts,
                           timer : BOOLEAN]]

Quiet == pane.life = "up" /\ pane.toPage = <<>>

\* A buffer that the page calls saved holds a text that was in its file: a keystroke between
\* the answer with the text and markSaved, or a restored buffer, is not called saved
\* (versionId, setContent, restoreUnsaved).  A tab that was closed and opened again while a
\* save of it was under way is left out.
CleanIsOnDisk ==
    \A p \in Paths : page[p] # NoModel /\ ~Dirty(page[p]) /\ p \notin ghost.orphans
                     => page[p].text \in disk[p].past

\* No edit is destroyed that was typed before the page gave the answer, or the user the
\* decision, on which its buffer is closed or replaced or the pane goes away; except that a
\* stale dirtyChanged may hide an edit from the walk of a close over several tabs, which
\* reads its flags again at the end (requestIsClean, drainDirtyTabs), and except for the tab
\* that "Save" closes on the answer of another, which is the next property's.
NoKnownEditIsLost == ghost.lost \subseteq {"slot"}

\* "Save" in the prompt of a tab does not close the tab over an edit of its own.
SavedTabLosesNothing == "slot" \notin ghost.lost

\* An unsaved edit that a snapshot holds when the renderer dies is in the buffer when the
\* page is back and counts as unsaved, until the buffer is saved or replaced or its tab closed
\* (contentSnapshot, restoreUnsaved after openModel, the order of the commands replayed).
InsuredEditsSurvive ==
    \A p \in Paths : LET text == ghost.atStake[p] IN
        text # 0 =>
            /\ pane.life = "loading" => IsDirty(pane, p) /\ pane.snapshots[p] = text
            /\ Quiet => Dirty(page[p]) /\ page[p].text >= text

\* A file that an agent wrote under an open tab is either noted as changed, or in the buffer,
\* or the user chose to keep the buffer over it; a write between the editor's own access and
\* the date it records is left out (unseen, resolveExternalChange, ghost.torn).
DiskChangesAreNoticed ==
    \A p \in Paths :
        /\ Quiet /\ IsOpen(pane, p) /\ ~disk[p].mine
        /\ pane.ask.kind # "conflict" /\ ~\E q \in pane.waiting : q.why = "check"
        => \/ p \in pane.unseen \cup ghost.torn
           \/ disk[p].text \in {page[p].base, ghost.kept[p]}

\* When no command is under way, the page holds a model for exactly the files that the pane
\* has open: through closes, recycled preview tabs, dead renderers and reloads.
ModelsFollowTabs == Quiet => \A p \in Paths : IsOpen(pane, p) <=> page[p] # NoModel

\* A request to close the pane, or to quit, is answered or has its question up, even when
\* the renderer dies or hangs, a save fails or a prompt is displaced (drainDirtyTabs).
CloseAllIsAnswered == pane.quit = "waiting" ~> (pane.quit # "waiting" \/ pane.ask.kind # "none")
=============================================================================
