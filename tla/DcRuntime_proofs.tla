-------------------------- MODULE DcRuntime_proofs --------------------------
(***************************************************************************)
(* Proofs about DcRuntime, for all components, templates, scripts, props   *)
(* and files, and any number of pushes.                                    *)
(*                                                                         *)
(* What is pushed last wins because of one fact about the evaluations that *)
(* are under way, EvaluationsInv: an evaluation that still has the newest  *)
(* number of its component is of the script that was pushed last, and when *)
(* there is none, that script's class is already in place.  The design     *)
(* mode and what the host was told are inductive as they stand, with the   *)
(* types.                                                                  *)
(***************************************************************************)
EXTENDS DcRuntime, Integers, TLAPS

HtmlInv == \A n \in Names : ghost.html[n] # Empty => reg[n].html = ghost.html[n]

Frames(s) == {s[i] : i \in DOMAIN s}
FramesInv ==
    \A f \in Frames(stack) : f.seq <= reg[f.name].jsSeq /\ (f.then = "boot" => f.name = Root)

PushedClass(n) == ghost.js[n] # NoSource /\ ghost.js[n].gives = "class"
Pending(n) == {f \in Frames(stack) : f.name = n /\ f.seq = reg[n].jsSeq}
EvaluationsInv ==
    \A n \in Names : PushedClass(n) =>
        /\ \A f \in Pending(n) : f.source = ghost.js[n]
        /\ Pending(n) = {} => reg[n].Logic = ghost.js[n] /\ ~reg[n].logicError

KnownBeforeBoot ==
    host.booted \/ (\E f \in Frames(stack) : f.then = "boot") => host.rootKnown

IInv ==
    /\ TypeOK /\ HtmlInv /\ FramesInv /\ EvaluationsInv
    /\ DesignModeFollowsRoot /\ HostKnowsRootProps /\ KnownBeforeBoot

-----------------------------------------------------------------------------
(* Templates and registry entries. *)

\* What a template yields has its type.
LEMMA TemplateTypes ==
    /\ Empty \in Templates
    /\ \A d \in Docs : Whole(d) \in Templates /\ Parsed(d) \in Templates
                       /\ Prefixes(d) \subseteq Templates
    /\ \A t \in Templates : DesignDocMode(t) \in Modes /\ Imports(t) \subseteq Names \ {Root}
<1>1. Empty \in Templates
  BY DEF Templates
<1>2. ASSUME NEW d \in Docs
      PROVE  Whole(d) \in Templates /\ Parsed(d) \in Templates /\ Prefixes(d) \subseteq Templates
  <2>1. Len(d.helmet) \in Nat
    BY DocsAssumption
  <2> DEFINE last == 2 * Len(d.helmet) + 1
  <2>2. last \in 1..last /\ \A k \in 1..(2 * Len(d.helmet)) : k \in 1..last
    BY <2>1
  <2>8. \A k \in 1..last, b \in BOOLEAN : [doc |-> d, cut |-> k, raw |-> b] \in Templates
    BY <2>1 DEF Templates
  <2> HIDE DEF last
  <2>3. Whole(d) = [doc |-> d, cut |-> last, raw |-> TRUE]
    BY DEF Whole, last
  <2>4. Whole(d) \in Templates
    BY <2>2, <2>3, <2>8
  <2>5. Parsed(d) = [doc |-> d, cut |-> last, raw |-> FALSE]
    <3> DEFINE w == Whole(d)
    <3>1. Parsed(d) = [w EXCEPT !.raw = FALSE]
      BY DEF Parsed
    <3>2. w = [doc |-> d, cut |-> last, raw |-> TRUE]
      BY <2>3
    <3> HIDE DEF w
    <3> QED
      BY <3>1, <3>2
  <2>6. Parsed(d) \in Templates
    BY <2>2, <2>5, <2>8
  <2>7. ASSUME NEW t \in Prefixes(d)
        PROVE  t \in Templates
    <3>1. t = Empty \/ \E k \in 1..(2 * Len(d.helmet)) : t = [doc |-> d, cut |-> k, raw |-> TRUE]
      BY DEF Prefixes
    <3> QED
      BY <1>1, <2>2, <2>8, <3>1
  <2> QED
    BY <2>4, <2>6, <2>7
<1>3. ASSUME NEW t \in Templates
      PROVE  DesignDocMode(t) \in Modes /\ Imports(t) \subseteq Names \ {Root}
  <2>1. t = Empty \/ t.doc \in Docs
    BY DEF Templates
  <2> QED
    BY <2>1, DocsAssumption DEF DesignDocMode, Imports, IsWhole, Modes
<1> QED
  BY <1>1, <1>2, <1>3

\* The children of a helmet have their type.
LEMMA ChildrenTypes ==
    ASSUME NEW t \in Templates, NEW i \in DOMAIN Children(t)
    PROVE  Children(t)[i] \in HelmetChildren
<1>1. CASE t = Empty
  BY <1>1 DEF Children
<1>2. CASE t # Empty
  <2>1. t.doc \in Docs /\ t.cut \in Nat /\ t.cut <= 2 * Len(t.doc.helmet) + 1
    BY <1>2 DEF Templates
  <2>2. t.doc.helmet \in Seq({"meta", "script", "style"}) /\ Len(t.doc.helmet) \in Nat
    BY <2>1, DocsAssumption
  <2>3. i \in 1..Len(t.doc.helmet)
    BY <1>2, <2>1, <2>2 DEF Children, IsWhole
  <2>4. t.doc.helmet[i] \in {"meta", "script", "style"}
    BY <2>2, <2>3
  <2>5. Children(t)[i] = [tag |-> t.doc.helmet[i], of |-> t.doc.id, at |-> i, partial |-> t.cut < 2 * i]
    BY <1>2 DEF Children
  <2> QED
    BY <2>1, <2>3, <2>4, <2>5 DEF HelmetChildren
<1> QED
  BY <1>1, <1>2

\* The script of an entry and its number are the same before and after.
SameScript(r, s) ==
    s.Logic = r.Logic /\ s.logicError = r.logicError /\ s.jsSeq = r.jsSeq

\* An entry keeps its type, its script and its props when its template changes.
LEMMA UpdatesHtml ==
    ASSUME NEW r \in EntryType, NEW t \in Templates
    PROVE  /\ UpdateHtml(r, t) \in EntryType /\ SameScript(r, UpdateHtml(r, t))
           /\ UpdateHtml(r, t).html = t /\ Told(UpdateHtml(r, t)) = Told(r)
           /\ UpdateHtml(r, t).htmlStreaming = r.htmlStreaming
BY DEF UpdateHtml, EntryType, SameScript, Told

\* Streaming begins or ends: nothing but its flag changes.
LEMMA SetsStreaming ==
    ASSUME NEW r \in EntryType, NEW on \in BOOLEAN
    PROVE  /\ SetStreaming(r, "html", on) \in EntryType /\ SameScript(r, SetStreaming(r, "html", on))
           /\ SetStreaming(r, "html", on).html = r.html /\ Told(SetStreaming(r, "html", on)) = Told(r)
           /\ SetStreaming(r, "html", on).htmlStreaming = on
           /\ SetStreaming(r, "js", on) \in EntryType /\ SameScript(r, SetStreaming(r, "js", on))
           /\ SetStreaming(r, "js", on).html = r.html /\ Told(SetStreaming(r, "js", on)) = Told(r)
           /\ SetStreaming(r, "js", on).htmlStreaming = r.htmlStreaming
BY DEF SetStreaming, EntryType, SameScript, Told

\* A component is taken for fetched: nothing else changes.
LEMMA TakesForFetched ==
    ASSUME NEW r \in EntryType, NEW on \in BOOLEAN
    PROVE  /\ Fetched(r, on) \in EntryType /\ SameScript(r, Fetched(r, on))
           /\ Fetched(r, on).html = r.html /\ Told(Fetched(r, on)) = Told(r)
           /\ Fetched(r, on).htmlStreaming = r.htmlStreaming
BY DEF Fetched, EntryType, SameScript, Told

\* Props are parsed to props of their type.
LEMMA ParsedProps ==
    ASSUME NEW x \in PropTexts
    PROVE  ParseDataProps(x).props \in PropsMetas /\ ParseDataProps(x).preview \in BOOLEAN
BY PropTextsAssumption DEF ParseDataProps, PropsMetas

\* The props of a file are adopted: the template and the script stay.
LEMMA AdoptsProps ==
    ASSUME NEW r \in EntryType, NEW x \in PropTexts
    PROVE  /\ AdoptProps(r, x) \in EntryType /\ SameScript(r, AdoptProps(r, x))
           /\ AdoptProps(r, x).html = r.html /\ AdoptProps(r, x).htmlStreaming = r.htmlStreaming
BY ParsedProps DEF AdoptProps, EntryType, SameScript

-----------------------------------------------------------------------------
(* The evaluations under way. *)

\* An evaluation begins: it joins those under way.
LEMMA FramesPush ==
    ASSUME NEW s \in Seq(FrameType), NEW f \in FrameType
    PROVE  <<f>> \o s \in Seq(FrameType) /\ Frames(<<f>> \o s) = {f} \cup Frames(s)
<1> DEFINE t == <<f>> \o s
<1>1. Len(s) \in Nat /\ DOMAIN s = 1..Len(s)
  OBVIOUS
<1>2. t \in Seq(FrameType) /\ Len(t) = Len(s) + 1 /\ DOMAIN t = 1..(Len(s) + 1)
  OBVIOUS
<1>3. t[1] = f /\ \A i \in 1..Len(s) : t[i + 1] = s[i]
  OBVIOUS
<1> HIDE DEF t
<1>4. \A i \in DOMAIN t : i = 1 \/ (i - 1 \in 1..Len(s) /\ t[i] = s[i - 1])
  <2> TAKE i \in DOMAIN t
  <2>1. i = 1 \/ i - 1 \in 1..Len(s)
    BY <1>1, <1>2
  <2>2. i \in Int /\ (i - 1) + 1 = i
    BY <1>1, <1>2
  <2>3. i - 1 \in 1..Len(s) => t[(i - 1) + 1] = s[i - 1]
    BY <1>3
  <2> QED
    BY <2>1, <2>2, <2>3
<1>5. \A i \in 1..Len(s) : i + 1 \in DOMAIN t
  BY <1>1, <1>2
<1>6. 1 \in DOMAIN t
  BY <1>1, <1>2
<1>7. Frames(t) \subseteq {f} \cup Frames(s)
  BY <1>1, <1>3, <1>4 DEF Frames
<1>8. Frames(s) \subseteq Frames(t) /\ f \in Frames(t)
  BY <1>1, <1>3, <1>5, <1>6 DEF Frames
<1>9. Frames(t) = {f} \cup Frames(s)
  BY <1>7, <1>8
<1> QED
  BY <1>2, <1>9 DEF t

\* The innermost evaluation ends: the others are still under way.
LEMMA FramesPop ==
    ASSUME NEW s \in Seq(FrameType), s # <<>>
    PROVE  /\ Head(s) \in FrameType /\ Tail(s) \in Seq(FrameType)
           /\ Frames(s) = {Head(s)} \cup Frames(Tail(s))
<1> DEFINE t == Tail(s)
<1>1. Len(s) \in Nat /\ Len(s) >= 1 /\ DOMAIN s = 1..Len(s) /\ Head(s) = s[1]
  OBVIOUS
<1>2. t \in Seq(FrameType) /\ DOMAIN t = 1..(Len(s) - 1)
  OBVIOUS
<1>3. \A i \in 1..(Len(s) - 1) : t[i] = s[i + 1]
  OBVIOUS
<1>10. Head(s) \in FrameType
  BY <1>1
<1> HIDE DEF t
<1>4. \A i \in DOMAIN s : i = 1 \/ (i - 1 \in 1..(Len(s) - 1) /\ t[i - 1] = s[i])
  <2> TAKE i \in DOMAIN s
  <2>1. i = 1 \/ i - 1 \in 1..(Len(s) - 1)
    BY <1>1
  <2>2. i \in Int /\ (i - 1) + 1 = i
    BY <1>1
  <2>3. i - 1 \in 1..(Len(s) - 1) => t[i - 1] = s[(i - 1) + 1]
    BY <1>3
  <2> QED
    BY <2>1, <2>2, <2>3
<1>5. \A i \in 1..(Len(s) - 1) : i + 1 \in DOMAIN s
  BY <1>1
<1>6. 1 \in DOMAIN s
  BY <1>1
<1>7. Frames(s) \subseteq {Head(s)} \cup Frames(t)
  BY <1>1, <1>2, <1>4 DEF Frames
<1>8. Frames(t) \subseteq Frames(s) /\ Head(s) \in Frames(s)
  BY <1>1, <1>2, <1>3, <1>5, <1>6 DEF Frames
<1>9. Frames(s) = {Head(s)} \cup Frames(t)
  BY <1>7, <1>8
<1> QED
  BY <1>2, <1>9, <1>10 DEF t

\* Every evaluation under way has the type of one.
LEMMA FramesTyped ==
    ASSUME NEW s \in Seq(FrameType)
    PROVE  Frames(s) \subseteq FrameType /\ (s = <<>> => Frames(s) = {})
BY DEF Frames

\* The evaluation of a script begins with the next number of its component.
LEMMA FrameTyped ==
    ASSUME NEW n \in Names, NEW r \in EntryType, NEW src \in Scripts, NEW then \in {"return", "boot"}
    PROVE  /\ Frame(n, r, src, then) \in FrameType
           /\ Frame(n, r, src, then).name = n /\ Frame(n, r, src, then).source = src
           /\ Frame(n, r, src, then).seq = r.jsSeq + 1 /\ Frame(n, r, src, then).then = then
           /\ StartJs(r) \in EntryType /\ StartJs(r).jsSeq = r.jsSeq + 1
           /\ StartJs(r).Logic = r.Logic /\ StartJs(r).logicError = r.logicError
           /\ StartJs(r).html = r.html /\ StartJs(r).htmlStreaming = r.htmlStreaming
           /\ Told(StartJs(r)) = Told(r)
BY DEF Frame, FrameType, StartJs, EntryType, Told

\* A step that leaves every script alone, starts no evaluation and pushes none keeps what
\* is known of the evaluations.
LEMMA ScriptsUntouched ==
    ASSUME FramesInv, EvaluationsInv, stack \in Seq(FrameType), stack' = stack,
           \A m \in Names : SameScript(reg[m], reg'[m]),
           \A m \in Names : ghost'.js[m] \in {ghost.js[m], NoSource}
    PROVE  FramesInv' /\ EvaluationsInv'
<1>1. Frames(stack)' = Frames(stack)
  BY DEF Frames
<1>2. \A f \in Frames(stack) : f.name \in Names
  BY FramesTyped DEF FrameType
<1>3. FramesInv'
  BY <1>1, <1>2 DEF FramesInv, SameScript
<1>4. \A m \in Names : Pending(m)' = Pending(m)
  BY <1>1 DEF Pending, SameScript
<1>5. EvaluationsInv'
  BY <1>4 DEF EvaluationsInv, PushedClass, SameScript
<1> QED
  BY <1>3, <1>5

\* The evaluation of a script that starts is the newest of its component: of the script
\* pushed last, or of a file's when nothing was pushed.
LEMMA ScriptStarts ==
    ASSUME FramesInv, EvaluationsInv, stack \in Seq(FrameType), reg \in [Names -> EntryType],
           NEW n \in Names, NEW r \in EntryType, SameScript(reg[n], r),
           NEW src \in Scripts, NEW then \in {"return", "boot"}, then = "boot" => n = Root,
           reg' = [reg EXCEPT ![n] = StartJs(r)], stack' = <<Frame(n, r, src, then)>> \o stack,
           \A m \in Names \ {n} : ghost'.js[m] = ghost.js[m],
           PushedClass(n)' => ghost'.js[n] = src
    PROVE  FramesInv' /\ EvaluationsInv' /\ stack' \in Seq(FrameType)
<1> DEFINE f == Frame(n, r, src, then)
           e == StartJs(r)
<1>1. /\ f \in FrameType /\ f.name = n /\ f.source = src /\ f.seq = r.jsSeq + 1 /\ f.then = then
      /\ e \in EntryType /\ e.jsSeq = r.jsSeq + 1
  BY FrameTyped
<1>2. reg' = [reg EXCEPT ![n] = e] /\ stack' = <<f>> \o stack
  OBVIOUS
<1> HIDE DEF f, e
<1>3. stack' \in Seq(FrameType) /\ Frames(stack)' = {f} \cup Frames(stack)
  <2>1. <<f>> \o stack \in Seq(FrameType) /\ Frames(<<f>> \o stack) = {f} \cup Frames(stack)
    BY <1>1, FramesPush
  <2>2. Frames(stack)' = Frames(<<f>> \o stack)
    BY <1>2 DEF Frames
  <2> QED
    BY <1>2, <2>1, <2>2
<1>4. \A g \in Frames(stack) : g.name \in Names /\ g.seq \in Nat
  BY FramesTyped DEF FrameType
<1>5. r.jsSeq \in Nat /\ r.jsSeq = reg[n].jsSeq /\ reg'[n].jsSeq = r.jsSeq + 1
  BY <1>1, <1>2 DEF SameScript, EntryType
<1>6. \A m \in Names \ {n} : reg'[m] = reg[m]
  BY <1>2
<1>7. FramesInv'
  <2> SUFFICES ASSUME NEW g \in {f} \cup Frames(stack)
               PROVE  g.seq <= reg'[g.name].jsSeq /\ (g.then = "boot" => g.name = Root)
    BY <1>3 DEF FramesInv
  <2>1. CASE g = f
    BY <2>1, <1>1, <1>5
  <2>2. CASE g \in Frames(stack) /\ g.name = n
    BY <2>2, <1>4, <1>5 DEF FramesInv
  <2>3. CASE g \in Frames(stack) /\ g.name # n
    BY <2>3, <1>4, <1>6 DEF FramesInv
  <2> QED
    BY <2>1, <2>2, <2>3
<1>8. Pending(n)' = {f}
  <2>1. \A g \in Frames(stack) : g.name = n => g.seq <= r.jsSeq
    BY <1>5 DEF FramesInv
  <2>2. \A g \in Frames(stack) : g.name = n => g.seq # r.jsSeq + 1
    BY <2>1, <1>4, <1>5
  <2> QED
    BY <2>2, <1>1, <1>3, <1>5 DEF Pending
<1>9. \A m \in Names \ {n} : Pending(m)' = Pending(m)
  BY <1>1, <1>3, <1>6 DEF Pending
<1>10. EvaluationsInv'
  <2> SUFFICES ASSUME NEW m \in Names, PushedClass(m)'
               PROVE  /\ \A g \in Pending(m)' : g.source = ghost'.js[m]
                      /\ Pending(m)' = {} => reg'[m].Logic = ghost'.js[m] /\ ~reg'[m].logicError
    BY DEF EvaluationsInv
  <2>1. CASE m = n
    BY <2>1, <1>1, <1>8
  <2>2. CASE m # n
    BY <2>2, <1>6, <1>9 DEF EvaluationsInv, PushedClass
  <2> QED
    BY <2>1, <2>2
<1> QED
  BY <1>3, <1>7, <1>10

\* The numbers that TypeOK asks for are those of FramesInv.
LEMMA TypesFromParts ==
    ASSUME reg' \in [Names -> EntryType], stack' \in Seq(FrameType), FramesInv',
           net' \in NetType, head' \in HeadType, host' \in HostType, ghost' \in GhostType
    PROVE  TypeOK'
BY DEF TypeOK, FramesInv, Frames

\* The boot ends: the host is told the page's props, the page's text is asked for.
LEMMA BootEnds ==
    ASSUME net \in NetType, NEW r, Told(r) \in [props : PropsMetas, preview : BOOLEAN], Booted(r)
    PROVE  /\ net' \in NetType /\ host' \in HostType
           /\ host'.rootKnown /\ host'.booted /\ host'.told = Told(r)
<1>1. net' \in NetType
  BY DEF Booted, NetType
<1>2. host' = [rootKnown |-> TRUE, booted |-> TRUE, told |-> Told(r)]
  BY DEF Booted
<1>3. host' \in HostType
  BY <1>2, Zenon DEF HostType
<1> QED
  BY <1>1, <1>2, <1>3

\* The design mode changes to a mode.
LEMMA HeadMode ==
    ASSUME head \in HeadType, NEW mode \in Modes
    PROVE  [head EXCEPT !.mode = mode] \in HeadType
BY DEF HeadType

\* A template is pushed, or the page starts afresh; one more component may have failed.
LEMMA GhostHtml ==
    ASSUME ghost \in GhostType, NEW n \in Names, NEW t \in Templates, NEW failed \in SUBSET Names
    PROVE  /\ [ghost EXCEPT !.pushes = @ + 1, !.html[n] = t, !.failed = failed] \in GhostType
           /\ [ghost EXCEPT !.html[n] = t, !.failed = failed] \in GhostType
<1> DEFINE html == [ghost.html EXCEPT ![n] = t]
           pushes == ghost.pushes + 1
<1>1. html \in [Names -> Templates] /\ pushes \in Nat
  BY DEF GhostType
<1> SUFFICES /\ [ghost EXCEPT !.pushes = pushes, !.html = html, !.failed = failed] \in GhostType
             /\ [ghost EXCEPT !.html = html, !.failed = failed] \in GhostType
  OBVIOUS
<1> HIDE DEF html, pushes
<1> QED
  BY <1>1 DEF GhostType

-----------------------------------------------------------------------------
(* The first state, and one lemma per action. *)

\* The page as it loads.
LEMMA InitHolds == Init => IInv
<1> SUFFICES ASSUME Init
             PROVE  IInv
  OBVIOUS
<1>1. Empty \in Templates /\ NoSource \in Scripts /\ Root \in Names
  BY TemplateTypes, RootAssumption DEF Scripts
<1>2. Entry \in EntryType /\ Told(Entry) \in [props : PropsMetas, preview : BOOLEAN]
  BY <1>1 DEF Entry, EntryType, Told, PropsMetas
<1>3. Nothing \in HelmetChildren \cup {Nothing}
  OBVIOUS
<1>4. stack = <<>> /\ stack \in Seq(FrameType) /\ DOMAIN stack = {} /\ Frames(stack) = {}
  BY DEF Init, Frames
<1>5. head \in HeadType
  BY <1>3 DEF Init, Modes, HeadType
<1>6. ghost \in GhostType
  BY <1>1 DEF Init, GhostType
<1>7. /\ reg \in [Names -> EntryType]
      /\ net \in NetType /\ host \in HostType
  BY <1>2 DEF Init, NetType, HostType
<1>8. TypeOK
  BY <1>4, <1>5, <1>6, <1>7 DEF TypeOK
<1>9. HtmlInv
  BY DEF Init, HtmlInv
<1>10. FramesInv /\ EvaluationsInv
  BY <1>4 DEF Init, FramesInv, EvaluationsInv, PushedClass
<1>11. DesignModeFollowsRoot /\ HostKnowsRootProps /\ KnownBeforeBoot
  BY <1>4 DEF Init, DesignModeFollowsRoot, HostKnowsRootProps, KnownBeforeBoot
<1> QED
  BY <1>8, <1>9, <1>10, <1>11 DEF IInv

\* The host, or a script, pushes a template.
LEMMA PushHtmlKeeps ==
    ASSUME IInv, NEW n \in Names, NEW t \in Templates, NEW streaming \in BOOLEAN,
           PushHtml(n, t, streaming)
    PROVE  IInv'
<1> DEFINE q == Fetched(reg[n], streaming)
           r == SetStreaming(q, "html", streaming)
           e == UpdateHtml(r, t)
           failed == IF Compiles(t) THEN ghost.failed ELSE ghost.failed \cup {n}
<1>1. reg[n] \in EntryType /\ failed \in SUBSET Names
  BY DEF IInv, TypeOK, GhostType
<1>2. /\ r \in EntryType /\ e \in EntryType /\ SameScript(reg[n], e) /\ e.html = t
      /\ Told(e) = Told(reg[n]) /\ e.htmlStreaming = streaming /\ r.htmlStreaming = streaming
  <2>1. q \in EntryType /\ SameScript(reg[n], q) /\ Told(q) = Told(reg[n])
    BY <1>1, TakesForFetched
  <2> HIDE DEF q
  <2>2. /\ r \in EntryType /\ SameScript(q, r) /\ Told(r) = Told(q)
        /\ r.htmlStreaming = streaming
    BY <2>1, SetsStreaming
  <2> HIDE DEF r
  <2>3. /\ e \in EntryType /\ SameScript(r, e) /\ e.html = t /\ Told(e) = Told(r)
        /\ e.htmlStreaming = r.htmlStreaming
    BY <2>2, UpdatesHtml
  <2> QED
    BY <2>1, <2>2, <2>3 DEF SameScript
<1>3. /\ reg' = [reg EXCEPT ![n] = e]
      /\ head' = [head EXCEPT !.mode = IF n = Root /\ host.rootKnown THEN UpdateMode(r, t) ELSE @]
      /\ ghost' = [ghost EXCEPT !.pushes = @ + 1, !.html[n] = t, !.failed = failed]
      /\ stack' = stack /\ host' = host /\ net' = net
  BY DEF PushHtml, Pushing
<1> HIDE DEF q, r, e, failed
<1>4. reg' \in [Names -> EntryType] /\ \A m \in Names : SameScript(reg[m], reg'[m])
  BY <1>2, <1>3 DEF IInv, TypeOK, SameScript
<1>5. FramesInv' /\ EvaluationsInv'
  <2>1. \A m \in Names : ghost'.js[m] \in {ghost.js[m], NoSource}
    BY <1>3 DEF IInv, TypeOK, GhostType
  <2> QED
    BY <1>3, <1>4, <2>1, ScriptsUntouched DEF IInv, TypeOK
<1>6. TypeOK'
  <2> DEFINE mode == IF n = Root /\ host.rootKnown THEN UpdateMode(r, t) ELSE head.mode
  <2>1. mode \in Modes
    BY TemplateTypes DEF UpdateMode, IInv, TypeOK, HeadType
  <2>2. head' = [head EXCEPT !.mode = mode]
    BY <1>3
  <2> HIDE DEF mode
  <2>3. head' \in HeadType
    BY <2>1, <2>2, HeadMode DEF IInv, TypeOK
  <2>4. ghost' \in GhostType
    BY <1>1, <1>3, GhostHtml DEF IInv, TypeOK
  <2> QED
    BY <1>3, <1>4, <1>5, <2>3, <2>4, TypesFromParts DEF IInv, TypeOK
<1>7. HtmlInv'
  BY <1>2, <1>3 DEF IInv, TypeOK, GhostType, HtmlInv
<1>8. DesignModeFollowsRoot'
  <2>1. CASE n = Root
    BY <2>1, <1>2, <1>3 DEF IInv, TypeOK, HeadType, HostType, DesignModeFollowsRoot, UpdateMode
  <2>2. CASE n # Root
    BY <2>2, <1>3, RootAssumption DEF IInv, TypeOK, HeadType, HostType, DesignModeFollowsRoot
  <2> QED
    BY <2>1, <2>2
<1>9. HostKnowsRootProps' /\ KnownBeforeBoot'
  <2>1. Told(reg[Root])' = Told(reg[Root])
    BY <1>2, <1>3, RootAssumption DEF IInv, TypeOK, Told
  <2> QED
    BY <1>3, <2>1 DEF IInv, TypeOK, GhostType, HostKnowsRootProps, KnownBeforeBoot, Frames
<1> QED
  BY <1>5, <1>6, <1>7, <1>8, <1>9 DEF IInv

\* The host, or a script, pushes a script.
LEMMA PushJsKeeps ==
    ASSUME IInv, NEW n \in Names, NEW src \in Sources, NEW streaming \in BOOLEAN,
           PushJs(n, src, streaming)
    PROVE  IInv'
<1> DEFINE q == Fetched(reg[n], streaming)
           r == SetStreaming(q, "js", streaming)
           f == Frame(n, r, src, "return")
           e == IF streaming THEN r ELSE StartJs(r)
           pushed == IF streaming THEN ghost.js[n] ELSE src
<1>1. reg[n] \in EntryType /\ src \in Scripts /\ pushed \in Scripts
  BY DEF IInv, TypeOK, GhostType, Scripts
<1>2. /\ r \in EntryType /\ SameScript(reg[n], r) /\ r.html = reg[n].html
      /\ Told(r) = Told(reg[n]) /\ r.htmlStreaming = reg[n].htmlStreaming
  <2>1. /\ q \in EntryType /\ SameScript(reg[n], q) /\ Told(q) = Told(reg[n])
        /\ q.html = reg[n].html /\ q.htmlStreaming = reg[n].htmlStreaming
    BY <1>1, TakesForFetched
  <2> HIDE DEF q
  <2>2. /\ r \in EntryType /\ SameScript(q, r) /\ Told(r) = Told(q)
        /\ r.html = q.html /\ r.htmlStreaming = q.htmlStreaming
    BY <2>1, SetsStreaming
  <2> HIDE DEF r
  <2> QED
    BY <2>1, <2>2 DEF SameScript
<1>3. /\ reg' = [reg EXCEPT ![n] = e] /\ (~streaming => e = StartJs(r))
      /\ stack' = IF streaming THEN stack ELSE <<f>> \o stack
      /\ ghost' = [ghost EXCEPT !.pushes = @ + 1, !.js[n] = pushed]
      /\ head' = head /\ host' = host /\ net' = net
  BY DEF PushJs, Pushing
<1> HIDE DEF q, r
<1>4. /\ e \in EntryType /\ e.html = r.html /\ e.htmlStreaming = r.htmlStreaming
      /\ Told(e) = Told(r) /\ (streaming => SameScript(reg[n], e))
  BY <1>1, <1>2, FrameTyped
<1> HIDE DEF e, pushed
<1>5. ghost' \in GhostType /\ ghost'.js = [ghost.js EXCEPT ![n] = pushed] /\ ghost'.html = ghost.html
      /\ ghost'.untold = ghost.untold
  <2> DEFINE js == [ghost.js EXCEPT ![n] = pushed]
             pushes == ghost.pushes + 1
  <2>1. js \in [Names -> Scripts] /\ pushes \in Nat
    BY <1>1 DEF IInv, TypeOK, GhostType
  <2>2. ghost' = [ghost EXCEPT !.pushes = pushes, !.js = js]
    BY <1>3
  <2> HIDE DEF js, pushes
  <2>3. ghost' \in GhostType /\ ghost'.js = js /\ ghost'.html = ghost.html /\ ghost'.untold = ghost.untold
    BY <2>1, <2>2 DEF IInv, TypeOK, GhostType
  <2> QED
    BY <2>3 DEF js
<1>6. /\ reg' \in [Names -> EntryType]
      /\ \A m \in Names : reg'[m].html = reg[m].html /\ reg'[m].htmlStreaming = reg[m].htmlStreaming
                          /\ Told(reg'[m]) = Told(reg[m])
  BY <1>2, <1>3, <1>4 DEF IInv, TypeOK
<1>7. FramesInv' /\ EvaluationsInv' /\ stack' \in Seq(FrameType)
  <2>1. CASE streaming
    <3>1. pushed = ghost.js[n]
      BY <2>1 DEF pushed
    <3>2. \A m \in Names : SameScript(reg[m], reg'[m])
      BY <2>1, <1>3, <1>4 DEF IInv, TypeOK, SameScript
    <3>3. \A m \in Names : ghost'.js[m] \in {ghost.js[m], NoSource}
      BY <1>5, <3>1 DEF IInv, TypeOK, GhostType
    <3> QED
      BY <2>1, <1>3, <3>2, <3>3, ScriptsUntouched DEF IInv, TypeOK
  <2>2. CASE ~streaming
    <3>1. pushed = src
      BY <2>2 DEF pushed
    <3>2. ghost'.js[n] = src /\ \A m \in Names \ {n} : ghost'.js[m] = ghost.js[m]
      BY <1>5, <3>1 DEF IInv, TypeOK, GhostType
    <3>3. reg' = [reg EXCEPT ![n] = StartJs(r)] /\ stack' = <<Frame(n, r, src, "return")>> \o stack
      BY <2>2, <1>3
    <3> QED
      BY <1>1, <1>2, <3>2, <3>3, ScriptStarts DEF IInv, TypeOK
  <2> QED
    BY <2>1, <2>2
<1>8. TypeOK'
  BY <1>3, <1>5, <1>6, <1>7, TypesFromParts DEF IInv, TypeOK
<1>9. HtmlInv'
  BY <1>5, <1>6 DEF IInv, HtmlInv
<1>10. DesignModeFollowsRoot' /\ HostKnowsRootProps' /\ KnownBeforeBoot'
  <2>1. DesignModeFollowsRoot' /\ HostKnowsRootProps'
    BY <1>3, <1>5, <1>6, RootAssumption DEF IInv, DesignModeFollowsRoot, HostKnowsRootProps
  <2>2. \A g \in Frames(stack') : g.then = "boot" => g \in Frames(stack)
    <3>1. f \in FrameType /\ f.then = "return"
      BY <1>1, <1>2, FrameTyped
    <3> HIDE DEF f
    <3> QED
      BY <1>3, <3>1, FramesPush DEF IInv, TypeOK
  <2>3. Frames(stack)' = Frames(stack')
    BY DEF Frames
  <2> QED
    BY <1>3, <2>1, <2>2, <2>3 DEF IInv, KnownBeforeBoot
<1> QED
  BY <1>7, <1>8, <1>9, <1>10 DEF IInv

\* The host, or a script, pushes props.
LEMMA PushPropsKeeps ==
    ASSUME IInv, NEW n \in Names, NEW text \in PropTexts, NEW streaming \in BOOLEAN,
           PushProps(n, text, streaming)
    PROVE  IInv'
<1> DEFINE q == Fetched(reg[n], streaming)
           p == ParseDataProps(text)
           e == [q EXCEPT !.propsMeta = p.props, !.preview = p.preview, !.bumped = TRUE]
           untold == IF n = Root THEN streaming ELSE ghost.untold
<1>1. reg[n] \in EntryType /\ untold \in BOOLEAN
  BY DEF IInv, TypeOK, GhostType
<1>2. /\ e \in EntryType /\ SameScript(reg[n], e) /\ e.html = reg[n].html
      /\ e.htmlStreaming = reg[n].htmlStreaming
  <2>1. /\ q \in EntryType /\ SameScript(reg[n], q)
        /\ q.html = reg[n].html /\ q.htmlStreaming = reg[n].htmlStreaming
    BY <1>1, TakesForFetched
  <2>2. p.props \in PropsMetas /\ p.preview \in BOOLEAN
    BY ParsedProps
  <2> HIDE DEF p, q
  <2> QED
    BY <2>1, <2>2 DEF EntryType, SameScript
<1>3. /\ reg' = [reg EXCEPT ![n] = e]
      /\ host' = IF n = Root /\ host.booted /\ ~streaming THEN [host EXCEPT !.told = Told(e)] ELSE host
      /\ ghost' = [ghost EXCEPT !.pushes = @ + 1, !.untold = untold]
      /\ stack' = stack /\ head' = head /\ net' = net
  BY DEF PushProps, Pushing
<1> HIDE DEF e, untold
<1>4. /\ reg' \in [Names -> EntryType] /\ \A m \in Names : SameScript(reg[m], reg'[m])
      /\ \A m \in Names : reg'[m].html = reg[m].html /\ reg'[m].htmlStreaming = reg[m].htmlStreaming
  BY <1>2, <1>3 DEF IInv, TypeOK, SameScript
<1>5. ghost' \in GhostType /\ ghost'.js = ghost.js /\ ghost'.html = ghost.html /\ ghost'.untold = untold
  <2> DEFINE pushes == ghost.pushes + 1
  <2>1. ghost \in GhostType /\ pushes \in Nat
    BY DEF IInv, TypeOK, GhostType
  <2>2. ghost' = [ghost EXCEPT !.pushes = pushes, !.untold = untold]
    BY <1>3
  <2> HIDE DEF pushes
  <2>3. ghost' \in GhostType
    BY <1>1, <2>1, <2>2, Zenon DEF GhostType
  <2> QED
    BY <2>1, <2>2, <2>3 DEF GhostType
<1>6. FramesInv' /\ EvaluationsInv'
  BY <1>3, <1>4, <1>5, ScriptsUntouched DEF IInv, TypeOK
<1>7. /\ host' \in HostType /\ host'.rootKnown = host.rootKnown /\ host'.booted = host.booted
      /\ host'.told = IF n = Root /\ host.booted /\ ~streaming THEN Told(e) ELSE host.told
  <2>1. Told(e) \in [props : PropsMetas, preview : BOOLEAN]
    BY <1>2 DEF EntryType, Told
  <2> QED
    BY <1>3, <2>1 DEF IInv, TypeOK, HostType
<1>8. TypeOK'
  BY <1>3, <1>4, <1>5, <1>6, <1>7, TypesFromParts DEF IInv, TypeOK
<1>9. HtmlInv' /\ DesignModeFollowsRoot' /\ KnownBeforeBoot'
  BY <1>3, <1>4, <1>5, <1>7, RootAssumption
  DEF IInv, HtmlInv, DesignModeFollowsRoot, KnownBeforeBoot, Frames
<1>10. HostKnowsRootProps'
  <2>1. n = Root => reg'[Root] = e
    BY <1>3, RootAssumption DEF IInv, TypeOK
  <2>2. n # Root => reg'[Root] = reg[Root]
    BY <1>3, RootAssumption DEF IInv, TypeOK
  <2> QED
    BY <1>5, <1>7, <2>1, <2>2 DEF IInv, HostKnowsRootProps, untold
<1> QED
  BY <1>6, <1>8, <1>9, <1>10 DEF IInv

\* The page boots: its template and its props are in place, its script starts.
LEMMA BootKeeps ==
    ASSUME IInv, Boot
    PROVE  IInv'
<1> DEFINE f == Files[Root]
           d == Parsed(f.doc)
           a == [reg[Root] EXCEPT !.fetched = TRUE]
           b == AdoptProps(a, f.props)
           r == UpdateHtml(b, d)
           e == IF f.source = NoSource THEN r ELSE StartJs(r)
           failed == IF Compiles(d) THEN ghost.failed ELSE ghost.failed \cup {Root}
           mode == UpdateMode(reg[Root], d)
<1>1. /\ reg[Root] \in EntryType /\ failed \in SUBSET Names /\ d \in Templates
      /\ f.source \in Scripts /\ f.props \in PropTexts /\ Root \in Names
  BY RootAssumption, FilesAssumption, TemplateTypes DEF IInv, TypeOK, GhostType, Scripts
<1>2. /\ r \in EntryType /\ SameScript(reg[Root], r) /\ r.html = d
      /\ r.htmlStreaming = reg[Root].htmlStreaming
  <2>1. /\ a \in EntryType /\ SameScript(reg[Root], a)
        /\ a.htmlStreaming = reg[Root].htmlStreaming
    BY <1>1 DEF EntryType, SameScript
  <2> HIDE DEF a, d, f
  <2>2. /\ b \in EntryType /\ SameScript(a, b) /\ b.htmlStreaming = a.htmlStreaming
    BY <1>1, <2>1, AdoptsProps
  <2> HIDE DEF b
  <2>3. /\ r \in EntryType /\ SameScript(b, r) /\ r.html = d /\ r.htmlStreaming = b.htmlStreaming
    BY <1>1, <2>2, UpdatesHtml
  <2> QED
    BY <2>1, <2>2, <2>3 DEF SameScript
<1>3. /\ ~host.rootKnown /\ stack = <<>>
      /\ IF f.source = NoSource
         THEN reg' = [reg EXCEPT ![Root] = r] /\ Booted(r) /\ stack' = stack
         ELSE /\ reg' = [reg EXCEPT ![Root] = StartJs(r)]
              /\ stack' = <<Frame(Root, r, f.source, "boot")>> \o stack
              /\ host' = [host EXCEPT !.rootKnown = TRUE] /\ net' = net
      /\ head' = [head EXCEPT !.mode = mode, !.shown = {Root}]
      /\ ghost' = [ghost EXCEPT !.html[Root] = Empty, !.js[Root] = NoSource, !.untold = FALSE,
                                !.failed = failed]
  <2>1. \A y : <<y>> = <<y>> \o <<>>
    OBVIOUS
  <2> QED
    BY <2>1 DEF Boot
<1> HIDE DEF r, d, f, failed, mode
<1>4. /\ reg' = [reg EXCEPT ![Root] = e] /\ e \in EntryType /\ e.html = d
      /\ e.htmlStreaming = reg[Root].htmlStreaming /\ Told(e) = Told(r)
  BY <1>1, <1>2, <1>3, FrameTyped
<1>5. ghost' \in GhostType /\ ghost'.html = [ghost.html EXCEPT ![Root] = Empty]
      /\ ghost'.js = [ghost.js EXCEPT ![Root] = NoSource]
  <2> DEFINE html == [ghost.html EXCEPT ![Root] = Empty]
             js == [ghost.js EXCEPT ![Root] = NoSource]
  <2>1. ghost \in GhostType /\ html \in [Names -> Templates] /\ js \in [Names -> Scripts]
    BY <1>1, TemplateTypes DEF IInv, TypeOK, GhostType, Scripts
  <2>2. ghost' = [ghost EXCEPT !.html = html, !.js = js, !.untold = FALSE, !.failed = failed]
    BY <1>3
  <2> HIDE DEF html, js
  <2>3. ghost' \in GhostType /\ ghost'.html = html /\ ghost'.js = js
    BY <1>1, <2>1, <2>2 DEF GhostType
  <2> QED
    BY <2>3 DEF html, js
<1> HIDE DEF e
<1>6. reg' \in [Names -> EntryType] /\ reg'[Root] = e /\ \A m \in Names \ {Root} : reg'[m] = reg[m]
  BY <1>1, <1>4 DEF IInv, TypeOK
<1>7. FramesInv' /\ EvaluationsInv' /\ stack' \in Seq(FrameType)
  <2>1. ghost'.js[Root] = NoSource /\ \A m \in Names \ {Root} : ghost'.js[m] = ghost.js[m]
    BY <1>1, <1>5 DEF IInv, TypeOK, GhostType
  <2>2. CASE f.source = NoSource
    <3>1. \A m \in Names : SameScript(reg[m], reg'[m])
      BY <2>2, <1>2, <1>3, <1>6 DEF e, SameScript
    <3>2. \A m \in Names : ghost'.js[m] \in {ghost.js[m], NoSource}
      BY <2>1
    <3> QED
      BY <2>2, <1>3, <3>1, <3>2, ScriptsUntouched DEF IInv, TypeOK
  <2>3. CASE f.source # NoSource
    <3>1. ~PushedClass(Root)'
      BY <2>1 DEF PushedClass
    <3>2. reg' = [reg EXCEPT ![Root] = StartJs(r)] /\ stack' = <<Frame(Root, r, f.source, "boot")>> \o stack
      BY <2>3, <1>3
    <3> QED
      BY <1>1, <1>2, <2>1, <3>1, <3>2, ScriptStarts DEF IInv, TypeOK
  <2> QED
    BY <2>2, <2>3
<1>8. net' \in NetType /\ host' \in HostType /\ (host'.booted => host'.told = Told(e))
  <2>1. Told(r) \in [props : PropsMetas, preview : BOOLEAN]
    BY <1>2 DEF EntryType, Told
  <2>2. CASE f.source = NoSource
    BY <2>1, <2>2, <1>3, <1>4, BootEnds DEF IInv, TypeOK
  <2>3. CASE f.source # NoSource
    <3>1. net' \in NetType /\ host' \in HostType /\ host'.booted = host.booted /\ host'.told = host.told
      BY <2>3, <1>3 DEF IInv, TypeOK, NetType, HostType
    <3>2. ~host.booted
      BY <1>3 DEF IInv, KnownBeforeBoot
    <3> QED
      BY <3>1, <3>2
  <2> QED
    BY <2>2, <2>3
<1>9. head' \in HeadType /\ head'.mode = mode
  <2>1. mode \in Modes
    BY <1>1, TemplateTypes DEF mode, UpdateMode, IInv, TypeOK, HeadType
  <2> QED
    BY <1>1, <1>3, <2>1 DEF IInv, TypeOK, HeadType
<1>10. TypeOK'
  BY <1>5, <1>6, <1>7, <1>8, <1>9, TypesFromParts
<1>11. HtmlInv'
  BY <1>1, <1>5, <1>6 DEF IInv, TypeOK, GhostType, HtmlInv
<1>12. DesignModeFollowsRoot'
  BY <1>4, <1>6, <1>9 DEF DesignModeFollowsRoot, mode, UpdateMode
<1>13. HostKnowsRootProps'
  BY <1>6, <1>8 DEF HostKnowsRootProps
<1>14. KnownBeforeBoot'
  <2>1. host'.rootKnown
    BY <1>3 DEF Booted, IInv, TypeOK, HostType
  <2> QED
    BY <2>1 DEF KnownBeforeBoot
<1> QED
  BY <1>7, <1>10, <1>11, <1>12, <1>13, <1>14 DEF IInv

\* The innermost evaluation returns: it takes effect only if it is still the newest.
LEMMA EvalReturnsKeeps ==
    ASSUME IInv, EvalReturns
    PROVE  IInv'
<1> DEFINE f == Head(stack)
           n == f.name
           r == FinishJs(reg[n], f)
<1>1. /\ stack # <<>> /\ stack \in Seq(FrameType) /\ reg \in [Names -> EntryType]
      /\ reg' = [reg EXCEPT ![n] = r] /\ stack' = Tail(stack)
      /\ IF f.then = "boot" THEN Booted(r) ELSE net' = net /\ host' = host
      /\ head' = head /\ ghost' = ghost
  BY DEF EvalReturns, IInv, TypeOK
<1>2. /\ f \in FrameType /\ stack' \in Seq(FrameType)
      /\ Frames(stack) = {f} \cup Frames(stack')
  BY <1>1, FramesPop
<1>3. n \in Names /\ f.source \in Scripts /\ reg[n] \in EntryType
  BY <1>1, <1>2 DEF FrameType
<1>4. /\ r \in EntryType /\ r.html = reg[n].html /\ r.htmlStreaming = reg[n].htmlStreaming
      /\ r.jsSeq = reg[n].jsSeq /\ Told(r) = Told(reg[n])
      /\ (f.seq # reg[n].jsSeq => r = reg[n])
      /\ (f.seq = reg[n].jsSeq /\ f.source.gives = "class" => r.Logic = f.source /\ ~r.logicError)
  BY <1>3 DEF FinishJs, EntryType, Told
<1>5. f.then = "boot" => n = Root
  BY <1>2 DEF IInv, FramesInv
<1> HIDE DEF f, n, r
<1>6. /\ reg' \in [Names -> EntryType] /\ reg'[n] = r /\ \A m \in Names \ {n} : reg'[m] = reg[m]
      /\ \A m \in Names : /\ reg'[m].html = reg[m].html /\ reg'[m].htmlStreaming = reg[m].htmlStreaming
                          /\ reg'[m].jsSeq = reg[m].jsSeq /\ Told(reg'[m]) = Told(reg[m])
  BY <1>1, <1>3, <1>4
<1>7. Frames(stack)' = Frames(stack')
  BY DEF Frames
<1>8. FramesInv'
  <2>1. \A g \in Frames(stack) : g.name \in Names
    BY <1>1, FramesTyped DEF FrameType
  <2> QED
    BY <1>2, <1>6, <1>7, <2>1 DEF IInv, FramesInv
<1>9. EvaluationsInv'
  <2> SUFFICES ASSUME NEW m \in Names, PushedClass(m)'
               PROVE  /\ \A g \in Pending(m)' : g.source = ghost'.js[m]
                      /\ Pending(m)' = {} => reg'[m].Logic = ghost'.js[m] /\ ~reg'[m].logicError
    BY DEF EvaluationsInv
  <2>1. PushedClass(m) /\ ghost'.js[m] = ghost.js[m] /\ ghost.js[m].gives = "class"
    BY <1>1 DEF PushedClass
  <2>2. Pending(m)' \subseteq Pending(m) /\ Pending(m) \subseteq Pending(m)' \cup {f}
    BY <1>2, <1>6, <1>7 DEF Pending
  <2>3. \A g \in Pending(m) : g.source = ghost.js[m]
    BY <2>1 DEF IInv, EvaluationsInv
  <2>4. ASSUME Pending(m)' = {}
        PROVE  reg'[m].Logic = ghost.js[m] /\ ~reg'[m].logicError
    <3>1. CASE f \in Pending(m)
      <4>1. m = n /\ f.seq = reg[n].jsSeq
        BY <3>1 DEF Pending, n
      <4>2. f.source = ghost.js[m]
        BY <3>1, <2>3
      <4> QED
        BY <4>1, <4>2, <2>1, <1>4, <1>6
    <3>2. CASE f \notin Pending(m)
      <4>1. Pending(m) = {}
        BY <3>2, <2>2, <2>4
      <4>2. reg[m].Logic = ghost.js[m] /\ ~reg[m].logicError
        BY <4>1, <2>1 DEF IInv, EvaluationsInv
      <4>3. reg'[m] = reg[m]
        <5>1. m = n => f.seq # reg[n].jsSeq
          BY <3>2, <1>2 DEF Pending, n
        <5> QED
          BY <5>1, <1>4, <1>6
      <4> QED
        BY <4>2, <4>3
    <3> QED
      BY <3>1, <3>2
  <2> QED
    BY <2>1, <2>2, <2>3, <2>4
<1>10. /\ net' \in NetType /\ host' \in HostType /\ host'.rootKnown \in BOOLEAN
       /\ (f.then # "boot" => host' = host)
       /\ (f.then = "boot" => host'.rootKnown /\ host'.told = Told(reg[Root]))
  <2>1. CASE f.then = "boot"
    <3>1. Told(r) = Told(reg[Root])
      BY <2>1, <1>4, <1>5
    <3>2. Told(r) \in [props : PropsMetas, preview : BOOLEAN]
      BY <1>4 DEF EntryType, Told
    <3> QED
      BY <2>1, <1>1, <3>1, <3>2, BootEnds DEF IInv, TypeOK, HostType
  <2>2. CASE f.then # "boot"
    BY <2>2, <1>1 DEF IInv, TypeOK, HostType
  <2> QED
    BY <2>1, <2>2
<1>11. TypeOK'
  BY <1>1, <1>2, <1>6, <1>8, <1>10, TypesFromParts DEF IInv, TypeOK
<1>12. HtmlInv'
  BY <1>1, <1>6 DEF IInv, HtmlInv
<1>13. f.then = "boot" => host.rootKnown
  BY <1>2 DEF IInv, KnownBeforeBoot
<1>14. DesignModeFollowsRoot' /\ HostKnowsRootProps' /\ KnownBeforeBoot'
  BY <1>1, <1>2, <1>6, <1>7, <1>10, <1>13, RootAssumption
  DEF IInv, DesignModeFollowsRoot, HostKnowsRootProps, KnownBeforeBoot
<1> QED
  BY <1>8, <1>9, <1>11, <1>12, <1>14 DEF IInv

\* A component's file arrives: it fills in what nobody pushed.
LEMMA SiblingArrivesKeeps ==
    ASSUME IInv, NEW n \in Names, SiblingArrives(n)
    PROVE  IInv'
<1> DEFINE f == Files[n]
           d == Whole(f.doc)
           p == AdoptProps(reg[n], f.props)
           r == IF p.html = Empty THEN UpdateHtml(p, d) ELSE p
           starts == f.source # NoSource /\ r.Logic = NoSource
           e == IF starts THEN StartJs(r) ELSE r
           failed == IF Compiles(r.html) THEN ghost.failed ELSE ghost.failed \cup {n}
<1>1. /\ reg[n] \in EntryType /\ failed \in SUBSET Names /\ d \in Templates
      /\ f.source \in Scripts /\ f.props \in PropTexts
  BY FilesAssumption, TemplateTypes DEF IInv, TypeOK, GhostType, Scripts
<1>2. /\ r \in EntryType /\ SameScript(reg[n], r) /\ r.htmlStreaming = reg[n].htmlStreaming
      /\ (reg[n].html # Empty => r.html = reg[n].html)
  <2> HIDE DEF d, f
  <2>1. /\ p \in EntryType /\ SameScript(reg[n], p) /\ p.htmlStreaming = reg[n].htmlStreaming
        /\ p.html = reg[n].html
    BY <1>1, AdoptsProps
  <2> HIDE DEF p
  <2>2. /\ UpdateHtml(p, d) \in EntryType /\ SameScript(p, UpdateHtml(p, d))
        /\ UpdateHtml(p, d).htmlStreaming = p.htmlStreaming
    BY <1>1, <2>1, UpdatesHtml
  <2> QED
    BY <2>1, <2>2 DEF SameScript
<1>3. /\ stack = <<>> /\ n \in net.siblings
      /\ net' = [net EXCEPT !.siblings = @ \ {n}]
      /\ IF starts
         THEN /\ reg' = [reg EXCEPT ![n] = StartJs(r)]
              /\ stack' = <<Frame(n, r, f.source, "return")>> \o stack
         ELSE reg' = [reg EXCEPT ![n] = r] /\ stack' = stack
      /\ ghost' = [ghost EXCEPT !.failed = failed] /\ head' = head /\ host' = host
  <2>1. \A y : <<y>> = <<y>> \o <<>>
    OBVIOUS
  <2> QED
    BY <2>1 DEF SiblingArrives
<1>4. n # Root
  BY <1>3 DEF IInv, TypeOK, NetType
<1> HIDE DEF r, d, f, failed
<1>5. /\ reg' = [reg EXCEPT ![n] = e] /\ e \in EntryType /\ e.html = r.html
  BY <1>1, <1>2, <1>3, FrameTyped
<1>6. /\ ghost' \in GhostType /\ ghost'.html = ghost.html /\ ghost'.js = ghost.js
      /\ ghost'.untold = ghost.untold
  BY <1>1, <1>3 DEF IInv, TypeOK, GhostType
<1> HIDE DEF e, starts
<1>7. reg' \in [Names -> EntryType] /\ reg'[n] = e /\ \A m \in Names \ {n} : reg'[m] = reg[m]
  BY <1>5 DEF IInv, TypeOK
<1>8. FramesInv' /\ EvaluationsInv' /\ stack' \in Seq(FrameType)
  <2>1. CASE ~starts
    <3>1. \A m \in Names : SameScript(reg[m], reg'[m])
      BY <2>1, <1>2, <1>7 DEF e, SameScript
    <3> QED
      BY <2>1, <1>3, <1>6, <3>1, ScriptsUntouched DEF IInv, TypeOK
  <2>2. CASE starts
    <3>1. Pending(n) = {}
      BY <1>3 DEF Pending, Frames
    <3>2. ~PushedClass(n)
      BY <2>2, <3>1, <1>2 DEF IInv, EvaluationsInv, PushedClass, starts, SameScript
    <3>3. ~PushedClass(n)'
      BY <3>2, <1>6 DEF PushedClass
    <3>4. reg' = [reg EXCEPT ![n] = StartJs(r)] /\ stack' = <<Frame(n, r, f.source, "return")>> \o stack
      BY <2>2, <1>3
    <3> QED
      BY <1>1, <1>2, <1>6, <3>3, <3>4, ScriptStarts DEF IInv, TypeOK
  <2> QED
    BY <2>1, <2>2
<1>9. TypeOK'
  <2>1. net' \in NetType
    BY <1>3 DEF IInv, TypeOK, NetType
  <2> QED
    BY <1>3, <1>6, <1>7, <1>8, <2>1, TypesFromParts DEF IInv, TypeOK
<1>10. HtmlInv'
  BY <1>2, <1>5, <1>6, <1>7 DEF IInv, HtmlInv
<1>11. DesignModeFollowsRoot' /\ HostKnowsRootProps'
  BY <1>3, <1>4, <1>6, <1>7, RootAssumption DEF IInv, DesignModeFollowsRoot, HostKnowsRootProps
<1>12. KnownBeforeBoot'
  <2>1. \A g \in Frames(stack') : g.then # "boot"
    <3> DEFINE g == Frame(n, r, f.source, "return")
    <3>1. g \in FrameType /\ g.then = "return"
      BY <1>1, <1>2 DEF Frame, FrameType, EntryType
    <3>2. Frames(stack) = {} /\ stack \in Seq(FrameType)
      BY <1>3 DEF Frames, IInv, TypeOK
    <3>3. stack' = IF starts THEN <<g>> \o stack ELSE stack
      BY <1>3
    <3> HIDE DEF g
    <3>4. Frames(<<g>> \o stack) = {g} \cup Frames(stack)
      BY <3>1, <3>2, FramesPush
    <3> QED
      BY <3>1, <3>2, <3>3, <3>4
  <2>2. Frames(stack)' = Frames(stack')
    BY DEF Frames
  <2> QED
    BY <1>3, <2>1, <2>2 DEF IInv, KnownBeforeBoot
<1> QED
  BY <1>8, <1>9, <1>10, <1>11, <1>12 DEF IInv

\* The page's own text arrives: its template takes the place of what is there.
LEMMA PageTextArrivesKeeps ==
    ASSUME IInv, PageTextArrives
    PROVE  IInv'
<1> DEFINE t == Whole(Files[Root].doc)
           e == UpdateHtml(reg[Root], t)
           failed == IF Compiles(t) THEN ghost.failed ELSE ghost.failed \cup {Root}
           mode == UpdateMode(reg[Root], t)
<1>1. /\ reg[Root] \in EntryType /\ failed \in SUBSET Names /\ t \in Templates
      /\ Root \in Names /\ mode \in Modes /\ Empty \in Templates
  BY RootAssumption, FilesAssumption, TemplateTypes DEF IInv, TypeOK, GhostType, HeadType, UpdateMode
<1>2. /\ reg' = [reg EXCEPT ![Root] = e] /\ head' = [head EXCEPT !.mode = mode]
      /\ ghost' = [ghost EXCEPT !.html[Root] = Empty, !.failed = failed]
      /\ net' = [net EXCEPT !.page = FALSE] /\ stack' = stack /\ host' = host
  BY DEF PageTextArrives
<1> HIDE DEF t, failed
<1>3. /\ e \in EntryType /\ SameScript(reg[Root], e) /\ e.html = t
      /\ Told(e) = Told(reg[Root]) /\ e.htmlStreaming = reg[Root].htmlStreaming
  BY <1>1, UpdatesHtml
<1> HIDE DEF e, mode
<1>4. /\ ghost' \in GhostType /\ ghost'.html = [ghost.html EXCEPT ![Root] = Empty]
      /\ ghost'.js = ghost.js /\ ghost'.untold = ghost.untold
  <2>1. ghost' \in GhostType
    BY <1>1, <1>2, GhostHtml DEF IInv, TypeOK
  <2> QED
    BY <2>1, <1>2 DEF IInv, TypeOK, GhostType
<1>5. reg' \in [Names -> EntryType] /\ reg'[Root] = e /\ \A m \in Names \ {Root} : reg'[m] = reg[m]
  BY <1>1, <1>2, <1>3 DEF IInv, TypeOK
<1>6. FramesInv' /\ EvaluationsInv'
  <2>1. \A m \in Names : SameScript(reg[m], reg'[m])
    BY <1>3, <1>5 DEF SameScript
  <2> QED
    BY <1>2, <1>4, <2>1, ScriptsUntouched DEF IInv, TypeOK
<1>7. head' \in HeadType /\ head'.mode = mode
  BY <1>1, <1>2, HeadMode DEF IInv, TypeOK, HeadType
<1>8. TypeOK'
  <2>1. net' \in NetType
    BY <1>2 DEF IInv, TypeOK, NetType
  <2> QED
    BY <1>2, <1>4, <1>5, <1>6, <1>7, <2>1, TypesFromParts DEF IInv, TypeOK
<1>9. HtmlInv'
  BY <1>1, <1>4, <1>5 DEF IInv, TypeOK, GhostType, HtmlInv
<1>10. DesignModeFollowsRoot'
  BY <1>3, <1>5, <1>7 DEF DesignModeFollowsRoot, mode, UpdateMode
<1>11. HostKnowsRootProps' /\ KnownBeforeBoot'
  BY <1>2, <1>3, <1>4, <1>5 DEF IInv, HostKnowsRootProps, KnownBeforeBoot, Frames
<1> QED
  BY <1>6, <1>8, <1>9, <1>10, <1>11 DEF IInv

\* A request fails: nothing but the request is gone.
LEMMA RequestFailsKeeps ==
    ASSUME IInv, RequestFails
    PROVE  IInv'
<1>1. reg' = reg /\ stack' = stack /\ head' = head /\ host' = host /\ ghost' = ghost
  BY DEF RequestFails
<1>2. net' \in NetType
  <2>1. net \in NetType
    BY DEF IInv, TypeOK
  <2>2. \/ \E n \in net.siblings : net' = [net EXCEPT !.siblings = @ \ {n}]
        \/ net' = [net EXCEPT !.page = FALSE]
    <3>1. net' \in {[net EXCEPT !.siblings = @ \ {n}] : n \in net.siblings}
          \/ net' \in (IF net.page THEN {[net EXCEPT !.page = FALSE]} ELSE {})
      BY DEF RequestFails
    <3> QED
      BY <3>1
  <2>3. CASE \E n \in net.siblings : net' = [net EXCEPT !.siblings = @ \ {n}]
    BY <2>1, <2>3 DEF NetType
  <2>4. CASE net' = [net EXCEPT !.page = FALSE]
    BY <2>1, <2>4 DEF NetType
  <2> QED
    BY <2>2, <2>3, <2>4
<1>3. TypeOK'
  BY <1>1, <1>2 DEF IInv, TypeOK
<1>4. HtmlInv' /\ FramesInv' /\ EvaluationsInv'
  BY <1>1 DEF IInv, HtmlInv, FramesInv, EvaluationsInv, Pending, PushedClass, Frames
<1>5. DesignModeFollowsRoot' /\ HostKnowsRootProps' /\ KnownBeforeBoot'
  BY <1>1 DEF IInv, DesignModeFollowsRoot, HostKnowsRootProps, KnownBeforeBoot, Frames
<1> QED
  BY <1>3, <1>4, <1>5 DEF IInv

\* A component renders: its helmet goes to the head, what it imports is asked for.
LEMMA RenderKeeps ==
    ASSUME IInv, NEW n \in Names, Render(n)
    PROVE  IInv'
<1> DEFINE shown == IF n = Root THEN {Root} \cup Imports(reg[n].tpl) ELSE head.shown
           new == shown \ head.shown
           mounted == head.mounted \cup Mounts(reg[n])
           asked == {m \in new : ~reg[m].fetched}
           live == [head.live EXCEPT ![n] = Live(n, reg[n])]
<1>1. /\ stack' = stack /\ host' = host /\ ghost' = ghost /\ n \in head.shown
      /\ head' = [head EXCEPT !.mounted = mounted, !.live = live, !.shown = shown]
      /\ reg' = [m \in Names |-> IF m \in new THEN EnsureFetched(reg[m])
                                 ELSE [reg[m] EXCEPT !.bumped = @ /\ m # n]]
      /\ net' = [net EXCEPT !.siblings = @ \cup asked]
  BY DEF Render
<1>2. reg \in [Names -> EntryType] /\ head \in HeadType /\ net \in NetType /\ reg[n].tpl \in Templates
  BY DEF IInv, TypeOK, EntryType
<1>3. /\ reg' \in [Names -> EntryType]
      /\ \A m \in Names : /\ SameScript(reg[m], reg'[m]) /\ reg'[m].html = reg[m].html
                           /\ reg'[m].htmlStreaming = reg[m].htmlStreaming
                           /\ Told(reg'[m]) = Told(reg[m])
  <2>1. ASSUME NEW e \in EntryType
        PROVE  /\ EnsureFetched(e) \in EntryType /\ SameScript(e, EnsureFetched(e))
               /\ EnsureFetched(e).html = e.html /\ EnsureFetched(e).htmlStreaming = e.htmlStreaming
               /\ Told(EnsureFetched(e)) = Told(e)
    BY DEF EnsureFetched, EntryType, SameScript, Told
  <2>2. ASSUME NEW e \in EntryType, NEW on \in BOOLEAN
        PROVE  LET f == [e EXCEPT !.bumped = on]
               IN  /\ f \in EntryType /\ SameScript(e, f) /\ f.html = e.html
                   /\ f.htmlStreaming = e.htmlStreaming /\ Told(f) = Told(e)
    BY DEF EntryType, SameScript, Told
  <2>3. \A m \in Names : reg[m] \in EntryType /\ (reg[m].bumped /\ m # n) \in BOOLEAN
    BY <1>2 DEF EntryType
  <2> HIDE DEF new
  <2>4. ASSUME NEW m \in Names
        PROVE  /\ reg'[m] \in EntryType
               /\ SameScript(reg[m], reg'[m]) /\ reg'[m].html = reg[m].html
               /\ reg'[m].htmlStreaming = reg[m].htmlStreaming
               /\ Told(reg'[m]) = Told(reg[m])
    <3>1. CASE m \in new
      <4>1. reg'[m] = EnsureFetched(reg[m])
        BY <1>1, <3>1
      <4> QED
        BY <4>1, <2>1, <2>3
    <3>2. CASE m \notin new
      <4> DEFINE on == reg[m].bumped /\ m # n
      <4>1. reg'[m] = [reg[m] EXCEPT !.bumped = on] /\ on \in BOOLEAN
        BY <1>1, <2>3, <3>2
      <4> HIDE DEF on
      <4> QED
        BY <4>1, <2>2, <2>3
    <3> QED
      BY <3>1, <3>2
  <2>5. DOMAIN reg' = Names /\ reg' = [m \in Names |-> reg'[m]]
    BY <1>1
  <2> QED
    BY <2>4, <2>5
<1>4. head' \in HeadType /\ head'.mode = head.mode
  <2>1. Mounts(reg[n]) \subseteq HelmetChildren
    BY <1>2, ChildrenTypes DEF Mounts
  <2>2. Live(n, reg[n]) \in [Positions -> HelmetChildren \cup {Nothing}]
    <3>1. head.live[n] \in [Positions -> HelmetChildren \cup {Nothing}]
      BY <1>2 DEF HeadType
    <3> QED
      BY <1>2, <3>1, ChildrenTypes DEF Live
  <2>3. live \in [Names -> [Positions -> HelmetChildren \cup {Nothing}]]
    BY <1>2, <2>2 DEF HeadType
  <2>4. mounted \in SUBSET HelmetChildren
    BY <1>2, <2>1 DEF HeadType
  <2>5. shown \in SUBSET Names
    BY <1>2, TemplateTypes, RootAssumption DEF HeadType
  <2> HIDE DEF live, mounted, shown
  <2> QED
    BY <1>1, <1>2, <2>3, <2>4, <2>5 DEF HeadType
<1>5. net' \in NetType
  <2>1. asked \subseteq Names \ {Root}
    BY <1>1, <1>2, TemplateTypes DEF HeadType
  <2> HIDE DEF asked
  <2> QED
    BY <1>1, <1>2, <2>1 DEF NetType
<1>6. FramesInv' /\ EvaluationsInv'
  <2>1. \A m \in Names : ghost'.js[m] \in {ghost.js[m], NoSource}
    BY <1>1
  <2> QED
    BY <1>1, <1>3, <2>1, ScriptsUntouched DEF IInv, TypeOK
<1>7. TypeOK'
  BY <1>1, <1>3, <1>4, <1>5, <1>6, TypesFromParts DEF IInv, TypeOK
<1>8. HtmlInv' /\ DesignModeFollowsRoot' /\ HostKnowsRootProps' /\ KnownBeforeBoot'
  BY <1>1, <1>3, <1>4, RootAssumption
  DEF IInv, HtmlInv, DesignModeFollowsRoot, HostKnowsRootProps, KnownBeforeBoot, Frames
<1> QED
  BY <1>6, <1>7, <1>8 DEF IInv

-----------------------------------------------------------------------------
(* The theorems. *)

\* A push is of a template, whole or under way, of a script, or of props.
LEMMA PushKeeps == IInv /\ Push => IInv'
<1> SUFFICES ASSUME IInv, Push
             PROVE  IInv'
  OBVIOUS
<1>1. PICK n \in Names :
        \/ \E d \in Docs : PushHtml(n, Whole(d), FALSE) \/ \E t \in Prefixes(d) : PushHtml(n, t, TRUE)
        \/ \E src \in Sources, streaming \in BOOLEAN : PushJs(n, src, streaming)
        \/ \E text \in PropTexts, streaming \in BOOLEAN : PushProps(n, text, streaming)
  BY DEF Push
<1>2. CASE \E d \in Docs : PushHtml(n, Whole(d), FALSE) \/ \E t \in Prefixes(d) : PushHtml(n, t, TRUE)
  <2>1. \E t \in Templates, streaming \in BOOLEAN : PushHtml(n, t, streaming)
    BY <1>2, TemplateTypes
  <2> QED
    BY <2>1, PushHtmlKeeps
<1>3. CASE \E src \in Sources, streaming \in BOOLEAN : PushJs(n, src, streaming)
  BY <1>3, PushJsKeeps
<1>4. CASE \E text \in PropTexts, streaming \in BOOLEAN : PushProps(n, text, streaming)
  BY <1>4, PushPropsKeeps
<1> QED
  BY <1>1, <1>2, <1>3, <1>4

\* No step of the runtime breaks the invariant.
LEMMA NextKeeps == IInv /\ [Next]_vars => IInv'
<1> SUFFICES ASSUME IInv, [Next]_vars
             PROVE  IInv'
  OBVIOUS
<1>1. CASE Push
  BY <1>1, PushKeeps
<1>2. CASE Boot
  BY <1>2, BootKeeps
<1>3. CASE EvalReturns
  BY <1>3, EvalReturnsKeeps
<1>4. CASE PageTextArrives
  BY <1>4, PageTextArrivesKeeps
<1>5. CASE RequestFails
  BY <1>5, RequestFailsKeeps
<1>6. ASSUME NEW n \in Names, SiblingArrives(n) \/ Render(n)
      PROVE  IInv'
  BY <1>6, SiblingArrivesKeeps, RenderKeeps
<1>7. CASE UNCHANGED vars
  <2>1. /\ reg' = reg /\ stack' = stack /\ net' = net /\ head' = head /\ host' = host
        /\ ghost' = ghost
    BY <1>7 DEF vars
  <2>2. TypeOK' /\ HtmlInv' /\ FramesInv' /\ EvaluationsInv'
    BY <2>1 DEF IInv, TypeOK, HtmlInv, FramesInv, EvaluationsInv, Pending, PushedClass, Frames
  <2>3. DesignModeFollowsRoot' /\ HostKnowsRootProps' /\ KnownBeforeBoot'
    BY <2>1 DEF IInv, DesignModeFollowsRoot, HostKnowsRootProps, KnownBeforeBoot, Frames
  <2> QED
    BY <2>2, <2>3 DEF IInv
<1> QED
  BY <1>1, <1>2, <1>3, <1>4, <1>5, <1>6, <1>7 DEF Next

\* The invariant of the runtime holds in every state.
THEOREM RuntimeInvariant == Spec => []IInv
BY InitHolds, NextKeeps, PTL DEF Spec

\* Every state has its type; no evaluation is numbered ahead of its component, and the
\* page's own file is never fetched as a sibling's (updateJs, ensureFetched).
THEOREM RuntimeTypes == Spec => []TypeOK
<1>1. IInv => TypeOK
  BY DEF IInv
<1> QED
  BY <1>1, RuntimeInvariant, PTL

\* The content pushed last is the content shown, however evaluations nest and whenever files
\* arrive (dcUpdate, updateJs, ensureFetched).
THEOREM NewestContent == Spec => []NewestContentWins
<1>1. ASSUME IInv
      PROVE  NewestContentWins
  <2>1. ASSUME NEW n \in Names, PushedClass(n), Quiet(n)
        PROVE  reg[n].Logic = ghost.js[n] /\ ~reg[n].logicError
    <3>1. Pending(n) = {}
      BY <2>1 DEF Pending, Frames, Quiet
    <3> QED
      BY <1>1, <2>1, <3>1 DEF IInv, EvaluationsInv
  <2> QED
    BY <1>1, <2>1 DEF IInv, HtmlInv, NewestContentWins, PushedClass
<1> QED
  BY <1>1, RuntimeInvariant, PTL

\* The design mode of the document is that of the page's template (setDesignDocMode).
THEOREM DesignMode == Spec => []DesignModeFollowsRoot
<1>1. IInv => DesignModeFollowsRoot
  BY DEF IInv
<1> QED
  BY <1>1, RuntimeInvariant, PTL

\* After the boot the host knows the page's props (notifyHost, __dcUpdate).
THEOREM HostKnows == Spec => []HostKnowsRootProps
<1>1. IInv => HostKnowsRootProps
  BY DEF IInv
<1> QED
  BY <1>1, RuntimeInvariant, PTL

-----------------------------------------------------------------------------
(* The document head.                                                          *)
(*                                                                             *)
(* Nothing half-arrived is mounted because of one fact about templates that    *)
(* the head itself does not show, SettledIsWhole: a template that is not       *)
(* streaming is whole, unless a finished one failed to compile and left its    *)
(* predecessor in place.  The head follows the templates because whatever      *)
(* changes a template, or puts a component on the page, also marks the         *)
(* component to be rendered.                                                   *)

Settled(r, failed) == ~r.htmlStreaming /\ r.tpl # Empty /\ ~IsWhole(r.tpl) => failed # {}
SettledIsWhole == \A n \in Names : Settled(reg[n], ghost.failed)

\* The helmet of entry r is in a head with these scripts and these styles.
HelmetIn(r, mounted, live) ==
    \A i \in DOMAIN Children(r.tpl) :
        LET c == Children(r.tpl)[i] IN
        /\ c.tag = "style" => live[i] = c
        /\ c.tag # "style" /\ (~r.htmlStreaming \/ i < Len(Children(r.tpl))) => c \in mounted

HeadInv == SettledIsWhole /\ NoPartialScriptRuns /\ HelmetIsInTheHead

\* The template of an entry stays, and what is to be rendered still is.
SameTemplate(r, s) ==
    s.tpl = r.tpl /\ s.htmlStreaming = r.htmlStreaming /\ (r.bumped => s.bumped)

\* An entry keeps its template, or has a settled one that is to be rendered.
TemplateStep(r, s, failed) == SameTemplate(r, s) \/ (s.bumped /\ Settled(s, failed))

-----------------------------------------------------------------------------
(* Templates. *)

\* A document that has arrived, or was parsed, is whole.
LEMMA WholeIsWhole ==
    ASSUME NEW d \in Docs
    PROVE  IsWhole(Whole(d)) /\ IsWhole(Parsed(d))
<1>1. DOMAIN Whole(d) = {"doc", "cut", "raw"} /\ DOMAIN Empty = {"doc"}
  BY DEF Whole, Empty
<1>2. Whole(d).doc = d /\ Whole(d).cut = 2 * Len(d.helmet) + 1
  BY DEF Whole
<1>3. /\ DOMAIN Parsed(d) = {"doc", "cut", "raw"}
      /\ Parsed(d).doc = d /\ Parsed(d).cut = 2 * Len(d.helmet) + 1
  BY DEF Parsed, Whole
<1> QED
  BY <1>1, <1>2, <1>3 DEF IsWhole

\* Only the last child of a helmet can be partial, and only while the document is not whole;
\* a child's place is a position.
LEMMA PartialIsLast ==
    ASSUME NEW t \in Templates
    PROVE  \A i \in DOMAIN Children(t) :
               /\ i \in Positions
               /\ Children(t)[i].partial => i = Len(Children(t)) /\ t # Empty /\ ~IsWhole(t)
<1>1. CASE t = Empty
  BY <1>1 DEF Children
<1>2. CASE t # Empty
  <2> DEFINE n == Len(t.doc.helmet)
             k == IF IsWhole(t) THEN n ELSE (t.cut + 1) \div 2
  <2>1. t.doc \in Docs /\ t.cut \in Nat /\ 1 <= t.cut /\ t.cut <= 2 * n + 1
    BY <1>2 DEF Templates
  <2>2. n \in Nat /\ DOMAIN t.doc.helmet = 1..n
    BY <2>1, DocsAssumption
  <2>3. k \in Nat /\ k <= n /\ (IsWhole(t) => t.cut = 2 * n + 1 /\ k = n)
        /\ (~IsWhole(t) => 2 * k <= t.cut + 1 /\ t.cut <= 2 * k)
    BY <1>2, <2>1, <2>2 DEF IsWhole
  <2>4. /\ DOMAIN Children(t) = 1..k
        /\ \A i \in 1..k : Children(t)[i].partial = (t.cut < 2 * i)
    BY <1>2 DEF Children
  <2> HIDE DEF k
  <2>5. Children(t) = [i \in 1..k |-> Children(t)[i]]
    BY <1>2, <2>4 DEF Children
  <2>6. Len(Children(t)) = k
    BY <2>3, <2>4
  <2> SUFFICES ASSUME NEW i \in 1..k
               PROVE  /\ i \in Positions
                      /\ t.cut < 2 * i => i = k /\ ~IsWhole(t)
    BY <1>2, <2>4, <2>6
  <2>7. i \in Positions
    BY <2>1, <2>2, <2>3 DEF Positions
  <2>8. t.cut < 2 * i => i = k /\ ~IsWhole(t)
    BY <2>1, <2>2, <2>3
  <2> QED
    BY <2>7, <2>8
<1> QED
  BY <1>1, <1>2

\* What is shown in place of a template: it, if it compiles.
LEMMA UpdatedTemplate ==
    ASSUME NEW r \in EntryType, NEW t \in Templates
    PROVE  /\ UpdateHtml(r, t).bumped
           /\ UpdateHtml(r, t).tpl = IF Compiles(t) THEN t ELSE r.tpl
           /\ UpdateHtml(r, t).htmlStreaming = r.htmlStreaming
BY DEF UpdateHtml, EntryType

\* A whole template is settled where it compiles, and counted as failed where it does not.
LEMMA WholeSettles ==
    ASSUME NEW r \in EntryType, NEW t \in Templates, IsWhole(t), NEW failed,
           ~Compiles(t) => failed # {}
    PROVE  UpdateHtml(r, t).bumped /\ Settled(UpdateHtml(r, t), failed)
BY UpdatedTemplate DEF Settled

\* What does not touch the template of an entry.
LEMMA OtherUpdates ==
    ASSUME NEW r \in EntryType
    PROVE  /\ SameTemplate(r, StartJs(r))
           /\ \A on \in BOOLEAN : SameTemplate(r, Fetched(r, on))
           /\ \A on \in BOOLEAN : SameTemplate(r, SetStreaming(r, "js", on))
           /\ \A f : SameTemplate(r, FinishJs(r, f))
           /\ \A x : SameTemplate(r, AdoptProps(r, x))
<1>1. SameTemplate(r, StartJs(r)) /\ \A on \in BOOLEAN : SameTemplate(r, Fetched(r, on))
  BY DEF StartJs, Fetched, SameTemplate, EntryType
<1>2. \A on \in BOOLEAN : SameTemplate(r, SetStreaming(r, "js", on))
  BY DEF SetStreaming, SameTemplate, EntryType
<1>3. \A f : SameTemplate(r, FinishJs(r, f))
  BY DEF FinishJs, SameTemplate, EntryType
<1>4. \A x : SameTemplate(r, AdoptProps(r, x))
  BY DEF AdoptProps, SameTemplate, EntryType
<1> QED
  BY <1>1, <1>2, <1>3, <1>4

-----------------------------------------------------------------------------
(* The steps that render nothing. *)

\* The head follows the templates when no more is put on the page than is to be rendered.
LEMMA HeadFollows ==
    ASSUME HeadInv, reg \in [Names -> EntryType], head.shown \subseteq Names, head'.shown \subseteq Names,
           head'.mounted = head.mounted, head'.live = head.live, ghost.failed \subseteq ghost'.failed,
           \A m \in head'.shown : m \in head.shown \/ reg'[m].bumped,
           \A m \in Names : TemplateStep(reg[m], reg'[m], ghost'.failed)
    PROVE  HeadInv'
<1>1. SettledIsWhole'
  <2> SUFFICES ASSUME NEW m \in Names
               PROVE  Settled(reg'[m], ghost'.failed)
    BY DEF SettledIsWhole
  <2>1. Settled(reg[m], ghost.failed)
    BY DEF HeadInv, SettledIsWhole
  <2> QED
    BY <2>1 DEF TemplateStep, SameTemplate, Settled
<1>2. NoPartialScriptRuns'
  BY DEF HeadInv, NoPartialScriptRuns
<1>3. HelmetIsInTheHead'
  <2> SUFFICES ASSUME NEW m \in head'.shown, ~reg'[m].bumped
               PROVE  HelmetIn(reg'[m], head'.mounted, head'.live[m])
    BY DEF HelmetIsInTheHead, HelmetIn
  <2>1. m \in head.shown /\ m \in Names /\ SameTemplate(reg[m], reg'[m])
    BY DEF TemplateStep
  <2>2. ~reg[m].bumped
    BY <2>1 DEF SameTemplate
  <2>3. HelmetIn(reg[m], head.mounted, head.live[m])
    BY <2>1, <2>2 DEF HeadInv, HelmetIsInTheHead, HelmetIn
  <2> QED
    BY <2>1, <2>3 DEF SameTemplate, HelmetIn
<1> QED
  BY <1>1, <1>2, <1>3 DEF HeadInv

\* One entry changes, on a page that shows the same components.
LEMMA EntryChanges ==
    ASSUME IInv, HeadInv, NEW n \in Names, NEW e, reg' = [reg EXCEPT ![n] = e],
           head'.shown = head.shown, head'.mounted = head.mounted, head'.live = head.live,
           ghost.failed \subseteq ghost'.failed, TemplateStep(reg[n], e, ghost'.failed)
    PROVE  HeadInv'
<1>1. reg \in [Names -> EntryType] /\ head.shown \subseteq Names
  BY DEF IInv, TypeOK, HeadType
<1>2. \A m \in Names : TemplateStep(reg[m], reg'[m], ghost'.failed)
  BY <1>1 DEF TemplateStep, SameTemplate
<1> QED
  BY <1>1, <1>2, HeadFollows

\* A template is pushed: under way it streams, finished it is whole or has failed.
LEMMA PushHtmlKeepsHead ==
    ASSUME IInv, HeadInv, NEW n \in Names, NEW t \in Templates, NEW streaming \in BOOLEAN,
           ~streaming => IsWhole(t), PushHtml(n, t, streaming)
    PROVE  HeadInv'
<1> DEFINE q == Fetched(reg[n], streaming)
           r == SetStreaming(q, "html", streaming)
           e == UpdateHtml(r, t)
           failed == IF Compiles(t) THEN ghost.failed ELSE ghost.failed \cup {n}
           mode == IF n = Root /\ host.rootKnown THEN UpdateMode(r, t) ELSE head.mode
<1>1. /\ reg' = [reg EXCEPT ![n] = e] /\ head' = [head EXCEPT !.mode = mode]
      /\ ghost' = [ghost EXCEPT !.pushes = @ + 1, !.html[n] = t, !.failed = failed]
  BY DEF PushHtml, Pushing
<1>2. reg[n] \in EntryType /\ head \in HeadType /\ ghost \in GhostType
  BY DEF IInv, TypeOK
<1>3. r \in EntryType /\ r.htmlStreaming = streaming
  <2>1. q \in EntryType
    BY <1>2, TakesForFetched
  <2> HIDE DEF q
  <2> QED
    BY <2>1, SetsStreaming
<1>4. (~Compiles(t) => failed # {}) /\ ghost.failed \subseteq failed
  OBVIOUS
<1> HIDE DEF q, r, failed, mode
<1>5. e.bumped /\ Settled(e, failed)
  <2>1. CASE streaming
    BY <2>1, <1>3, UpdatedTemplate DEF Settled
  <2>2. CASE ~streaming
    BY <2>2, <1>3, <1>4, WholeSettles
  <2> QED
    BY <2>1, <2>2
<1> HIDE DEF e
<1>6. ghost'.failed = failed /\ head'.shown = head.shown /\ head'.mounted = head.mounted
      /\ head'.live = head.live
  BY <1>1, <1>2 DEF HeadType, GhostType
<1> QED
  BY <1>1, <1>4, <1>5, <1>6, EntryChanges DEF TemplateStep

\* A script is pushed: no template changes.
LEMMA PushJsKeepsHead ==
    ASSUME IInv, HeadInv, NEW n \in Names, NEW src \in Sources, NEW streaming \in BOOLEAN,
           PushJs(n, src, streaming)
    PROVE  HeadInv'
<1> DEFINE q == Fetched(reg[n], streaming)
           r == SetStreaming(q, "js", streaming)
           e == IF streaming THEN r ELSE StartJs(r)
           js == [ghost.js EXCEPT ![n] = IF streaming THEN @ ELSE src]
<1>1. reg' = [reg EXCEPT ![n] = e] /\ head' = head /\ ghost' = [ghost EXCEPT !.pushes = @ + 1, !.js = js]
  BY DEF PushJs, Pushing
<1>2. reg[n] \in EntryType /\ ghost \in GhostType
  BY DEF IInv, TypeOK
<1>3. q \in EntryType /\ SameTemplate(reg[n], q)
  BY <1>2, TakesForFetched, OtherUpdates
<1> HIDE DEF q
<1>4. r \in EntryType /\ SameTemplate(q, r)
  BY <1>3, SetsStreaming, OtherUpdates
<1> HIDE DEF r, js
<1>5. SameTemplate(reg[n], e)
  BY <1>3, <1>4, OtherUpdates DEF SameTemplate
<1> HIDE DEF e
<1>6. ghost'.failed = ghost.failed
  BY <1>1, <1>2 DEF GhostType
<1> QED
  BY <1>1, <1>5, <1>6, EntryChanges DEF TemplateStep

\* Props are pushed: no template changes.
LEMMA PushPropsKeepsHead ==
    ASSUME IInv, HeadInv, NEW n \in Names, NEW text \in PropTexts, NEW streaming \in BOOLEAN,
           PushProps(n, text, streaming)
    PROVE  HeadInv'
<1> DEFINE q == Fetched(reg[n], streaming)
           p == ParseDataProps(text)
           e == [q EXCEPT !.propsMeta = p.props, !.preview = p.preview, !.bumped = TRUE]
           untold == IF n = Root THEN streaming ELSE ghost.untold
<1>1. /\ reg' = [reg EXCEPT ![n] = e] /\ head' = head
      /\ ghost' = [ghost EXCEPT !.pushes = @ + 1, !.untold = untold]
  BY DEF PushProps, Pushing
<1>2. reg[n] \in EntryType /\ ghost \in GhostType
  BY DEF IInv, TypeOK
<1>3. q \in EntryType /\ SameTemplate(reg[n], q)
  BY <1>2, TakesForFetched, OtherUpdates
<1> HIDE DEF q, p, untold
<1>4. SameTemplate(reg[n], e)
  BY <1>3 DEF SameTemplate, EntryType
<1> HIDE DEF e
<1>5. ghost'.failed = ghost.failed
  BY <1>1, <1>2 DEF GhostType
<1> QED
  BY <1>1, <1>4, <1>5, EntryChanges DEF TemplateStep

\* An evaluation returns: no template changes.
LEMMA EvalReturnsKeepsHead ==
    ASSUME IInv, HeadInv, EvalReturns
    PROVE  HeadInv'
<1> DEFINE f == Head(stack)
           e == FinishJs(reg[f.name], f)
<1>1. reg' = [reg EXCEPT ![f.name] = e] /\ head' = head /\ ghost' = ghost /\ stack # <<>>
  BY DEF EvalReturns
<1>2. f.name \in Names /\ reg[f.name] \in EntryType
  <2>1. f \in FrameType
    BY <1>1, FramesPop DEF IInv, TypeOK
  <2> QED
    BY <2>1 DEF IInv, TypeOK, FrameType
<1>3. SameTemplate(reg[f.name], e)
  BY <1>2, OtherUpdates
<1> HIDE DEF f, e
<1> QED
  BY <1>1, <1>2, <1>3, EntryChanges DEF TemplateStep

\* A template replaces the page's own: the page shows what it showed, or just itself.
LEMMA RootTemplateChanges ==
    ASSUME IInv, HeadInv, NEW e, reg' = [reg EXCEPT ![Root] = e], e.bumped,
           head'.shown \in {head.shown, {Root}}, head'.mounted = head.mounted, head'.live = head.live,
           ghost.failed \subseteq ghost'.failed, Settled(e, ghost'.failed)
    PROVE  HeadInv'
<1>1. reg \in [Names -> EntryType] /\ head.shown \subseteq Names /\ Root \in Names
  BY RootAssumption DEF IInv, TypeOK, HeadType
<1>2. \A m \in Names : TemplateStep(reg[m], reg'[m], ghost'.failed)
  BY <1>1 DEF TemplateStep, SameTemplate
<1>3. \A m \in head'.shown : m \in head.shown \/ reg'[m].bumped
  BY <1>1
<1> QED
  BY <1>1, <1>2, <1>3, HeadFollows

\* The page boots: it is to be rendered, with the template the browser parsed.
LEMMA BootKeepsHead ==
    ASSUME IInv, HeadInv, Boot
    PROVE  HeadInv'
<1> DEFINE f == Files[Root]
           q == [reg[Root] EXCEPT !.fetched = TRUE]
           p == AdoptProps(q, f.props)
           t == Parsed(f.doc)
           r == UpdateHtml(p, t)
           e == IF f.source = NoSource THEN r ELSE StartJs(r)
           failed == IF Compiles(t) THEN ghost.failed ELSE ghost.failed \cup {Root}
           mode == UpdateMode(reg[Root], t)
           html == [ghost.html EXCEPT ![Root] = Empty]
           js == [ghost.js EXCEPT ![Root] = NoSource]
<1>1. /\ reg' = [reg EXCEPT ![Root] = e] /\ head' = [head EXCEPT !.mode = mode, !.shown = {Root}]
      /\ ghost' = [ghost EXCEPT !.html = html, !.js = js, !.untold = FALSE, !.failed = failed]
  BY DEF Boot
<1>2. /\ Root \in Names /\ reg[Root] \in EntryType /\ head \in HeadType /\ ghost \in GhostType
      /\ f.props \in PropTexts /\ f.doc \in Docs
  BY RootAssumption, FilesAssumption DEF IInv, TypeOK
<1>3. t \in Templates /\ IsWhole(t)
  BY <1>2, TemplateTypes, WholeIsWhole
<1>4. q \in EntryType
  BY <1>2 DEF EntryType
<1> HIDE DEF q
<1>5. p \in EntryType
  BY <1>2, <1>4, AdoptsProps
<1>6. (~Compiles(t) => failed # {}) /\ ghost.failed \subseteq failed
  OBVIOUS
<1> HIDE DEF p, t, failed, mode, html, js
<1>7. r \in EntryType /\ r.bumped /\ Settled(r, failed)
  BY <1>3, <1>5, <1>6, UpdatesHtml, WholeSettles
<1> HIDE DEF r
<1>8. e.bumped /\ Settled(e, failed)
  BY <1>7, OtherUpdates DEF SameTemplate, Settled
<1> HIDE DEF e, f
<1>9. ghost'.failed = failed /\ head'.shown = {Root} /\ head'.mounted = head.mounted
      /\ head'.live = head.live
  BY <1>1, <1>2 DEF HeadType, GhostType
<1> QED
  BY <1>1, <1>6, <1>8, <1>9, RootTemplateChanges

\* The page's own text arrives: it is whole, or fails.
LEMMA PageTextArrivesKeepsHead ==
    ASSUME IInv, HeadInv, PageTextArrives
    PROVE  HeadInv'
<1> DEFINE t == Whole(Files[Root].doc)
           e == UpdateHtml(reg[Root], t)
           failed == IF Compiles(t) THEN ghost.failed ELSE ghost.failed \cup {Root}
           mode == UpdateMode(reg[Root], t)
           html == [ghost.html EXCEPT ![Root] = Empty]
<1>1. /\ reg' = [reg EXCEPT ![Root] = e] /\ head' = [head EXCEPT !.mode = mode]
      /\ ghost' = [ghost EXCEPT !.html = html, !.failed = failed]
  BY DEF PageTextArrives
<1>2. /\ Root \in Names /\ reg[Root] \in EntryType /\ head \in HeadType /\ ghost \in GhostType
      /\ Files[Root].doc \in Docs
  BY RootAssumption, FilesAssumption DEF IInv, TypeOK
<1>3. t \in Templates /\ IsWhole(t)
  BY <1>2, TemplateTypes, WholeIsWhole
<1>4. (~Compiles(t) => failed # {}) /\ ghost.failed \subseteq failed
  OBVIOUS
<1> HIDE DEF t, failed, mode, html
<1>5. e.bumped /\ Settled(e, failed)
  BY <1>2, <1>3, <1>4, WholeSettles
<1> HIDE DEF e
<1>6. ghost'.failed = failed /\ head'.shown = head.shown /\ head'.mounted = head.mounted
      /\ head'.live = head.live
  BY <1>1, <1>2 DEF HeadType, GhostType
<1> QED
  BY <1>1, <1>4, <1>5, <1>6, RootTemplateChanges

\* A sibling's file arrives: its template is whole, or fails, where none was pushed.
LEMMA SiblingArrivesKeepsHead ==
    ASSUME IInv, HeadInv, NEW n \in Names, SiblingArrives(n)
    PROVE  HeadInv'
<1> DEFINE f == Files[n]
           p == AdoptProps(reg[n], f.props)
           t == Whole(f.doc)
           r == IF p.html = Empty THEN UpdateHtml(p, t) ELSE p
           e == IF f.source # NoSource /\ r.Logic = NoSource THEN StartJs(r) ELSE r
           failed == IF Compiles(r.html) THEN ghost.failed ELSE ghost.failed \cup {n}
<1>1. reg' = [reg EXCEPT ![n] = e] /\ head' = head /\ ghost' = [ghost EXCEPT !.failed = failed]
  BY DEF SiblingArrives
<1>2. /\ reg[n] \in EntryType /\ ghost \in GhostType /\ f.props \in PropTexts /\ f.doc \in Docs
  BY FilesAssumption DEF IInv, TypeOK
<1>3. t \in Templates /\ IsWhole(t)
  BY <1>2, TemplateTypes, WholeIsWhole
<1>4. p \in EntryType /\ SameTemplate(reg[n], p)
  BY <1>2, AdoptsProps, OtherUpdates
<1>5. (~Compiles(r.html) => failed # {}) /\ ghost.failed \subseteq failed
  OBVIOUS
<1> HIDE DEF p, t, failed
<1>6. r \in EntryType /\ TemplateStep(reg[n], r, failed)
  <2>1. CASE p.html = Empty
    <3>1. UpdateHtml(p, t) \in EntryType /\ UpdateHtml(p, t).html = t
      BY <1>3, <1>4, UpdatesHtml
    <3>2. UpdateHtml(p, t).bumped /\ Settled(UpdateHtml(p, t), failed)
      BY <2>1, <1>3, <1>4, <1>5, <3>1, WholeSettles
    <3> QED
      BY <2>1, <3>1, <3>2 DEF TemplateStep
  <2>2. CASE p.html # Empty
    BY <2>2, <1>4 DEF TemplateStep
  <2> QED
    BY <2>1, <2>2
<1> HIDE DEF r
<1>7. TemplateStep(reg[n], e, failed)
  BY <1>6, OtherUpdates DEF TemplateStep, SameTemplate, Settled
<1> HIDE DEF e, f
<1>8. ghost'.failed = failed
  BY <1>1, <1>2 DEF GhostType
<1> QED
  BY <1>1, <1>5, <1>7, <1>8, EntryChanges

-----------------------------------------------------------------------------
(* The step that renders. *)

\* The helmet of what is rendered is in the head: its scripts are mounted if they were not,
\* its styles are brought up to date.
LEMMA HelmetRendered ==
    ASSUME IInv, NEW n \in Names
    PROVE  HelmetIn(reg[n], head.mounted \cup Mounts(reg[n]), Live(n, reg[n]))
<1>1. reg[n].tpl \in Templates /\ DOMAIN head.live[n] = Positions
  BY DEF IInv, TypeOK, EntryType, HeadType
<1>2. \A i \in DOMAIN Children(reg[n].tpl) :
          i \in Positions /\ Children(reg[n].tpl)[i] \in HelmetChildren
  BY <1>1, PartialIsLast, ChildrenTypes
<1> SUFFICES ASSUME NEW i \in DOMAIN Children(reg[n].tpl)
             PROVE  LET c == Children(reg[n].tpl)[i] IN
                    /\ c.tag = "style" => Live(n, reg[n])[i] = c
                    /\ c.tag # "style" /\ (~reg[n].htmlStreaming \/ i < Len(Children(reg[n].tpl)))
                       => c \in head.mounted \cup Mounts(reg[n])
  BY DEF HelmetIn
<1> DEFINE c == Children(reg[n].tpl)[i]
<1>3. c.tag = "style" => Live(n, reg[n])[i] = c
  BY <1>1, <1>2 DEF Live
<1>4. ASSUME c.tag # "style", ~reg[n].htmlStreaming \/ i < Len(Children(reg[n].tpl))
      PROVE  c \in Mounts(reg[n])
  <2>1. c.tag \in MountedOnce
    BY <1>2, <1>4 DEF HelmetChildren, MountedOnce
  <2>2. ~MayBePartial(reg[n], i)
    <3>1. i \in Nat
      BY <1>2, DocsAssumption DEF Positions
    <3>2. i < Len(Children(reg[n].tpl)) => i # Len(Children(reg[n].tpl))
      BY <3>1
    <3> QED
      BY <1>4, <3>2 DEF MayBePartial
  <2> QED
    BY <2>1, <2>2 DEF Mounts
<1> QED
  BY <1>3, <1>4

\* What is mounted is whole: a last child that is not, of a template that does not stream,
\* is there only after a failure.
LEMMA MountsWhole ==
    ASSUME IInv, SettledIsWhole, NEW n \in Names, NEW c \in Mounts(reg[n]), c.partial
    PROVE  ghost.failed # {}
<1>1. PICK i \in DOMAIN Children(reg[n].tpl) :
          c = Children(reg[n].tpl)[i] /\ ~MayBePartial(reg[n], i)
  BY DEF Mounts
<1>2. i = Len(Children(reg[n].tpl)) /\ reg[n].tpl # Empty /\ ~IsWhole(reg[n].tpl)
  BY <1>1, PartialIsLast DEF IInv, TypeOK, EntryType
<1>3. ~reg[n].htmlStreaming
  BY <1>1, <1>2 DEF MayBePartial, HelmetClosed
<1> QED
  BY <1>2, <1>3 DEF SettledIsWhole, Settled

\* A component renders: its helmet is in the head, the others' stay there.
LEMMA RenderKeepsHead ==
    ASSUME IInv, HeadInv, NEW n \in Names, Render(n)
    PROVE  HeadInv'
<1> DEFINE shown == IF n = Root THEN {Root} \cup Imports(reg[n].tpl) ELSE head.shown
           new == shown \ head.shown
           mounted == head.mounted \cup Mounts(reg[n])
           live == [head.live EXCEPT ![n] = Live(n, reg[n])]
<1>1. /\ ghost' = ghost /\ n \in head.shown
      /\ head' = [head EXCEPT !.mounted = mounted, !.live = live, !.shown = shown]
      /\ reg' = [m \in Names |-> IF m \in new THEN EnsureFetched(reg[m])
                                 ELSE [reg[m] EXCEPT !.bumped = @ /\ m # n]]
  BY DEF Render
<1>2. /\ reg \in [Names -> EntryType] /\ head \in HeadType /\ head.live \in [Names -> [Positions -> HelmetChildren \cup {Nothing}]]
      /\ reg[n].tpl \in Templates /\ head.shown \subseteq Names
  BY DEF IInv, TypeOK, EntryType, HeadType
<1>3. shown \subseteq Names
  BY <1>2, TemplateTypes, RootAssumption
<1>4. HelmetIn(reg[n], mounted, Live(n, reg[n]))
  BY HelmetRendered
<1>5. \A c \in mounted : c.partial => ghost.failed # {}
  BY MountsWhole DEF HeadInv, NoPartialScriptRuns
<1>6. live[n] = Live(n, reg[n]) /\ \A m \in Names \ {n} : live[m] = head.live[m]
  BY <1>2
<1>7. head.mounted \subseteq mounted
  OBVIOUS
<1> HIDE DEF shown, mounted, live
<1>8. /\ \A m \in Names : reg'[m].tpl = reg[m].tpl /\ reg'[m].htmlStreaming = reg[m].htmlStreaming
      /\ \A m \in Names : ~reg'[m].bumped => m \notin new /\ (m = n \/ ~reg[m].bumped)
  <2> HIDE DEF new
  <2>1. \A m \in Names : reg[m] \in EntryType
    BY <1>2
  <2>2. ASSUME NEW m \in Names, m \in new
        PROVE  /\ reg'[m].tpl = reg[m].tpl /\ reg'[m].htmlStreaming = reg[m].htmlStreaming
               /\ reg'[m].bumped
    BY <1>1, <2>1, <2>2 DEF EnsureFetched, EntryType
  <2>3. ASSUME NEW m \in Names, m \notin new
        PROVE  /\ reg'[m].tpl = reg[m].tpl /\ reg'[m].htmlStreaming = reg[m].htmlStreaming
               /\ ~reg'[m].bumped => m = n \/ ~reg[m].bumped
    <3> DEFINE on == reg[m].bumped /\ m # n
    <3>1. reg'[m] = [reg[m] EXCEPT !.bumped = on]
      BY <1>1, <2>3
    <3>2. ~on => m = n \/ ~reg[m].bumped
      BY <2>1 DEF EntryType
    <3> HIDE DEF on
    <3> QED
      BY <2>1, <3>1, <3>2 DEF EntryType
  <2> QED
    BY <2>2, <2>3
<1>9. head'.mounted = mounted /\ head'.live = live /\ head'.shown = shown
  BY <1>1, <1>2 DEF HeadType
<1>10. SettledIsWhole'
  <2> SUFFICES ASSUME NEW m \in Names
               PROVE  Settled(reg'[m], ghost'.failed)
    BY DEF SettledIsWhole
  <2>1. Settled(reg[m], ghost.failed)
    BY DEF HeadInv, SettledIsWhole
  <2> QED
    BY <2>1, <1>1, <1>8 DEF Settled
<1>11. NoPartialScriptRuns'
  BY <1>1, <1>5, <1>9 DEF NoPartialScriptRuns
<1>12. HelmetIsInTheHead'
  <2> SUFFICES ASSUME NEW m \in shown, ~reg'[m].bumped
               PROVE  HelmetIn(reg'[m], mounted, live[m])
    BY <1>9 DEF HelmetIsInTheHead, HelmetIn
  <2>1. m \in Names /\ m \in head.shown
    BY <1>3, <1>8
  <2>2. CASE m = n
    BY <2>1, <2>2, <1>4, <1>6, <1>8 DEF HelmetIn
  <2>3. CASE m # n
    <3>1. ~reg[m].bumped
      BY <2>1, <2>3, <1>8
    <3>2. HelmetIn(reg[m], head.mounted, head.live[m])
      BY <2>1, <3>1 DEF HeadInv, HelmetIsInTheHead, HelmetIn
    <3> QED
      BY <2>1, <2>3, <3>2, <1>6, <1>7, <1>8 DEF HelmetIn
  <2> QED
    BY <2>2, <2>3
<1> QED
  BY <1>10, <1>11, <1>12 DEF HeadInv

-----------------------------------------------------------------------------
(* The theorems. *)

\* As the page loads, nothing is shown, mounted or streaming.
LEMMA InitHoldsHead == Init => HeadInv
<1> SUFFICES ASSUME Init
             PROVE  HeadInv
  OBVIOUS
<1>1. SettledIsWhole
  BY DEF Init, Entry, SettledIsWhole, Settled
<1>2. NoPartialScriptRuns /\ HelmetIsInTheHead
  BY DEF Init, NoPartialScriptRuns, HelmetIsInTheHead
<1> QED
  BY <1>1, <1>2 DEF HeadInv

\* No step of the runtime breaks what is known of the head.
LEMMA NextKeepsHead == IInv /\ HeadInv /\ [Next]_vars => HeadInv'
<1> SUFFICES ASSUME IInv, HeadInv, [Next]_vars
             PROVE  HeadInv'
  OBVIOUS
<1>1. ASSUME NEW n \in Names, NEW d \in Docs, PushHtml(n, Whole(d), FALSE)
      PROVE  HeadInv'
  BY <1>1, TemplateTypes, WholeIsWhole, PushHtmlKeepsHead
<1>2. ASSUME NEW n \in Names, NEW d \in Docs, NEW t \in Prefixes(d), PushHtml(n, t, TRUE)
      PROVE  HeadInv'
  BY <1>2, TemplateTypes, PushHtmlKeepsHead
<1>3. CASE Push
  BY <1>1, <1>2, <1>3, PushJsKeepsHead, PushPropsKeepsHead DEF Push
<1>4. CASE Boot
  BY <1>4, BootKeepsHead
<1>5. CASE EvalReturns
  BY <1>5, EvalReturnsKeepsHead
<1>6. CASE PageTextArrives
  BY <1>6, PageTextArrivesKeepsHead
<1>7. CASE RequestFails \/ UNCHANGED vars
  <2>1. reg' = reg /\ head' = head /\ ghost' = ghost
    BY <1>7 DEF RequestFails, vars
  <2> QED
    BY <2>1 DEF HeadInv, SettledIsWhole, NoPartialScriptRuns, HelmetIsInTheHead
<1>8. ASSUME NEW n \in Names, SiblingArrives(n) \/ Render(n)
      PROVE  HeadInv'
  BY <1>8, SiblingArrivesKeepsHead, RenderKeepsHead
<1> QED
  BY <1>3, <1>4, <1>5, <1>6, <1>7, <1>8 DEF Next

\* What is known of the head holds in every state.
THEOREM HeadInvariant == Spec => []HeadInv
BY RuntimeInvariant, InitHoldsHead, NextKeepsHead, PTL DEF Spec

\* No script and no link is put in the head before all of it has arrived, unless a finished
\* template failed to compile (the helmet's builder, mayBePartial).
THEOREM PartialScriptsDoNotRun == Spec => []NoPartialScriptRuns
<1>1. HeadInv => NoPartialScriptRuns
  BY DEF HeadInv
<1> QED
  BY <1>1, HeadInvariant, PTL

\* Where a component has rendered since it last changed, the head has its whole helmet, the
\* styles at their newest text (the helmet's builder: `mounted`, `live`).
THEOREM HelmetsAreInTheHead == Spec => []HelmetIsInTheHead
<1>1. HeadInv => HelmetIsInTheHead
  BY DEF HeadInv
<1> QED
  BY <1>1, HeadInvariant, PTL
=============================================================================
