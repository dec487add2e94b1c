----------------------------- MODULE DcRuntime -----------------------------
(* The runtime of the design pages (src/design/support.js): the registry of    *)
(* components, the host's pushes of streamed and finished templates, logic and *)
(* props, the files the runtime fetches by itself, the boot of the page, and   *)
(* what the helmet of a template leaves in the document head.                  *)
(*                                                                             *)
(* JavaScript runs one task at a time: what is atomic here is a task, except   *)
(* the evaluation of a logic script, which is the author's code and may itself *)
(* call __dcUpdate before it returns; `stack` holds the evaluations under way. *)
(* React renders in a task of its own (createRoot) after a bump.               *)
(*                                                                             *)
(* A template is a document and how much of it has arrived: of the n children  *)
(* of its helmet, cut 2i - 1 ends inside child i, cut 2i behind it, and cut    *)
(* 2n + 1 is the whole document, with something behind the helmet.             *)
(* Only the page's own component imports others.                               *)
EXTENDS Naturals, Sequences

CONSTANTS
    Names,      \* components
    Root,       \* the component of the page itself
    Docs,       \* [id, mode, helmet, compiles, imports]
    Sources,    \* logic scripts: [id, gives], gives: a class, a value or an exception
    PropTexts,  \* data-props texts: [valid, props, preview]
    Files,      \* [Names -> [doc, source, props]]: the .dc.html files
    NoSource,
    MaxPushes   \* bound: calls of __dcUpdate

ASSUME RootAssumption == Root \in Names /\ NoSource \notin Sources
ASSUME DocsAssumption ==
    \A d \in Docs :
        /\ d.helmet \in Seq({"meta", "script", "style"}) /\ d.imports \subseteq Names \ {Root}
        /\ d.mode # "none" => d.helmet # <<>> /\ Head(d.helmet) = "meta"
ASSUME PropTextsAssumption == \A x \in PropTexts : x.valid \in BOOLEAN /\ x.preview \in BOOLEAN
ASSUME FilesAssumption ==
    \A n \in Names : Files[n].doc \in Docs /\ Files[n].source \in Sources \cup {NoSource}
                     /\ Files[n].props \in PropTexts

VARIABLES
    reg,    \* the registry: [Names -> entry]
    stack,  \* evaluations under way, the innermost first
    net,    \* requests under way: sibling files, and the page's own text
    head,   \* the design mode, what the helmets mounted, and which components are on the page
    host,   \* whether the root is known, whether the page has booted, what the host was told
    ghost   \* what only the properties read

vars == <<reg, stack, net, head, host, ghost>>

-----------------------------------------------------------------------------
(* Templates.                                                                  *)

Empty == [doc |-> "none"]
Whole(d) == [doc |-> d, cut |-> 2 * Len(d.helmet) + 1, raw |-> TRUE]
Prefixes(d) == {Empty} \cup {[doc |-> d, cut |-> k, raw |-> TRUE] : k \in 1..(2 * Len(d.helmet))}

IsWhole(t) == t # Empty /\ t.cut = 2 * Len(t.doc.helmet) + 1
Compiles(t) == ~IsWhole(t) \/ t.doc.compiles
HelmetClosed(t) == IsWhole(t)
Children(t) ==
    IF t = Empty THEN <<>>
    ELSE [i \in 1..(IF IsWhole(t) THEN Len(t.doc.helmet) ELSE (t.cut + 1) \div 2) |->
            [tag |-> t.doc.helmet[i], of |-> t.doc.id, at |-> i, partial |-> t.cut < 2 * i]]
DesignDocMode(t) == IF t # Empty /\ t.cut >= 2 THEN t.doc.mode ELSE "none"
Imports(t) == IF IsWhole(t) THEN t.doc.imports ELSE {}

-----------------------------------------------------------------------------
(* The registry.  `bumped`: subscribers were told and have not rendered yet.   *)

Entry == [html |-> Empty, tpl |-> Empty, Logic |-> NoSource, logicError |-> FALSE, jsSeq |-> 0,
          jsStreaming |-> FALSE, htmlStreaming |-> FALSE, fetched |-> FALSE, bumped |-> FALSE,
          propsMeta |-> 0, preview |-> FALSE]

SetStreaming(r, kind, on) ==
    [r EXCEPT !.htmlStreaming = IF kind = "html" THEN on ELSE @,
              !.jsStreaming = IF kind = "js" THEN on ELSE @, !.bumped = TRUE]

\* A template that does not compile leaves the one before it in place.
UpdateHtml(r, t) ==
    [r EXCEPT !.html = t, !.tpl = IF Compiles(t) THEN t ELSE @, !.bumped = TRUE]

\* Mutant of UpdateMode: a mode is only ever set, never taken away.
ModeIsKept(r, t) == IF DesignDocMode(t) # "none" THEN DesignDocMode(t) ELSE head.mode

\* of the root: a template under way only adds a mode, a finished one also takes it away
UpdateMode(r, t) ==
    IF DesignDocMode(t) # "none" \/ ~r.htmlStreaming THEN DesignDocMode(t) ELSE head.mode

\* Mutant of StartJs: the evaluation does not take a number.
UnnumberedJs(r) == r

\* The script starts; evalDcLogic has not returned.
StartJs(r) == [r EXCEPT !.jsSeq = @ + 1]
Frame(n, r, src, then) == [name |-> n, seq |-> r.jsSeq + 1, source |-> src, then |-> then]

\* Mutant of FinishJs: an evaluation that was overtaken takes effect all the same.
FinishUnchecked(r, f) ==
    IF f.source.gives = "class"
    THEN [r EXCEPT !.logicError = FALSE, !.Logic = f.source, !.bumped = TRUE]
    ELSE [r EXCEPT !.logicError = TRUE, !.bumped = TRUE]

FinishJs(r, f) ==
    IF r.jsSeq # f.seq THEN r
    ELSE IF f.source.gives = "class"
         THEN [r EXCEPT !.logicError = FALSE, !.Logic = f.source, !.bumped = TRUE]
         ELSE [r EXCEPT !.logicError = TRUE, !.bumped = TRUE]

ParseDataProps(text) ==
    IF text.valid THEN [props |-> text.props, preview |-> text.preview]
    ELSE [props |-> 0, preview |-> FALSE]
\* A file's props replace what there is; a file without props replaces nothing.
AdoptProps(r, text) ==
    LET p == ParseDataProps(text)
    IN [r EXCEPT !.propsMeta = IF p.props # 0 THEN p.props ELSE @,
                 !.preview = IF p.preview THEN TRUE ELSE @]

Told(r) == [props |-> r.propsMeta, preview |-> r.preview]

-----------------------------------------------------------------------------
(* The host, or a script that is being evaluated, calls __dcUpdate.            *)

Pushing == ghost.pushes < MaxPushes /\ UNCHANGED net

\* What is streamed to a component is never fetched.
Fetched(r, streaming) == [r EXCEPT !.fetched = @ \/ streaming]

PushHtml(n, t, streaming) ==
    /\ Pushing
    /\ LET r == SetStreaming(Fetched(reg[n], streaming), "html", streaming)
       IN /\ reg' = [reg EXCEPT ![n] = UpdateHtml(r, t)]
          /\ head' = [head EXCEPT !.mode = IF n = Root /\ host.rootKnown THEN UpdateMode(r, t) ELSE @]
    /\ ghost' = [ghost EXCEPT !.pushes = @ + 1, !.html[n] = t,
                              !.failed = IF Compiles(t) THEN @ ELSE @ \cup {n}]
    /\ UNCHANGED <<stack, host>>

\* A script under way only raises the flag; a finished one is evaluated.
PushJs(n, src, streaming) ==
    /\ Pushing
    /\ LET r == SetStreaming(Fetched(reg[n], streaming), "js", streaming)
       IN IF streaming
          THEN /\ reg' = [reg EXCEPT ![n] = r]
               /\ UNCHANGED stack
          ELSE /\ reg' = [reg EXCEPT ![n] = StartJs(r)]
               /\ stack' = <<Frame(n, r, src, "return")>> \o stack
    /\ ghost' = [ghost EXCEPT !.pushes = @ + 1, !.js[n] = IF streaming THEN @ ELSE src]
    /\ UNCHANGED <<head, host>>

\* Mutant of PushProps: the host is not told.
PushPropsQuietly(n, text, streaming) ==
    /\ Pushing
    /\ LET p == ParseDataProps(text)
       IN reg' = [reg EXCEPT ![n] = [Fetched(reg[n], streaming) EXCEPT
                     !.propsMeta = p.props, !.preview = p.preview, !.bumped = TRUE]]
    /\ ghost' = [ghost EXCEPT !.pushes = @ + 1, !.untold = IF n = Root THEN streaming ELSE @]
    /\ UNCHANGED <<stack, head, host>>

PushProps(n, text, streaming) ==
    /\ Pushing
    /\ LET p == ParseDataProps(text)
           r == [Fetched(reg[n], streaming) EXCEPT !.propsMeta = p.props, !.preview = p.preview,
                                                   !.bumped = TRUE]
       IN /\ reg' = [reg EXCEPT ![n] = r]
          /\ host' = IF n = Root /\ host.booted /\ ~streaming THEN [host EXCEPT !.told = Told(r)] ELSE host
    /\ ghost' = [ghost EXCEPT !.pushes = @ + 1, !.untold = IF n = Root THEN streaming ELSE @]
    /\ UNCHANGED <<stack, head>>

-----------------------------------------------------------------------------
(* Boot.                                                                       *)

\* the end of boot, and of the page's first notifyHost
Booted(r) ==
    /\ host' = [rootKnown |-> TRUE, booted |-> TRUE, told |-> Told(r)]
    /\ net' = [net EXCEPT !.page = TRUE]

\* The document as the browser parsed it: not the text of the file.
Parsed(d) == [Whole(d) EXCEPT !.raw = FALSE]

\* boot up to the evaluation of the page's own script, and on if it has none
Boot ==
    /\ ~host.rootKnown /\ stack = <<>>
    /\ LET f == Files[Root]
           r == UpdateHtml(AdoptProps([reg[Root] EXCEPT !.fetched = TRUE], f.props), Parsed(f.doc))
       IN IF f.source = NoSource
          THEN reg' = [reg EXCEPT ![Root] = r] /\ Booted(r) /\ UNCHANGED stack
          ELSE /\ reg' = [reg EXCEPT ![Root] = StartJs(r)]
               /\ stack' = <<Frame(Root, r, f.source, "boot")>>
               /\ host' = [host EXCEPT !.rootKnown = TRUE]
               /\ UNCHANGED net
    /\ head' = [head EXCEPT !.mode = UpdateMode(reg[Root], Parsed(Files[Root].doc)), !.shown = {Root}]
    /\ ghost' = [ghost EXCEPT !.html[Root] = Empty, !.js[Root] = NoSource, !.untold = FALSE,
                              !.failed = IF Compiles(Parsed(Files[Root].doc)) THEN @ ELSE @ \cup {Root}]

\* The innermost evaluation returns its class, returns none, or throws.
EvalReturns ==
    /\ stack # <<>>
    /\ LET f == Head(stack)
           r == FinishJs(reg[f.name], f)
       IN /\ reg' = [reg EXCEPT ![f.name] = r]
          /\ IF f.then = "boot" THEN Booted(r) ELSE UNCHANGED <<net, host>>
    /\ stack' = Tail(stack)
    /\ UNCHANGED <<head, ghost>>

-----------------------------------------------------------------------------
(* Files arrive, or do not.                                                    *)

\* ensureFetched: the file's template and logic only where nothing was pushed
SiblingArrives(n) ==
    /\ stack = <<>> /\ n \in net.siblings
    /\ net' = [net EXCEPT !.siblings = @ \ {n}]
    /\ LET f == Files[n]
           p == AdoptProps(reg[n], f.props)
           r == IF p.html = Empty THEN UpdateHtml(p, Whole(f.doc)) ELSE p
       IN /\ IF f.source # NoSource /\ r.Logic = NoSource
             THEN /\ reg' = [reg EXCEPT ![n] = StartJs(r)]
                  /\ stack' = <<Frame(n, r, f.source, "return")>>
             ELSE reg' = [reg EXCEPT ![n] = r] /\ UNCHANGED stack
          /\ ghost' = [ghost EXCEPT !.failed = IF Compiles(r.html) THEN @ ELSE @ \cup {n}]
    /\ UNCHANGED <<head, host>>

\* The page's own text, as it is in the file: whatever was pushed meanwhile.
PageTextArrives ==
    /\ stack = <<>> /\ net.page
    /\ LET t == Whole(Files[Root].doc)
       IN /\ reg' = [reg EXCEPT ![Root] = UpdateHtml(@, t)]
          /\ head' = [head EXCEPT !.mode = UpdateMode(reg[Root], t)]
          /\ ghost' = [ghost EXCEPT !.html[Root] = Empty,
                                    !.failed = IF Compiles(t) THEN @ ELSE @ \cup {Root}]
    /\ net' = [net EXCEPT !.page = FALSE]
    /\ UNCHANGED <<stack, host>>

RequestFails ==
    /\ stack = <<>>
    /\ net' \in {[net EXCEPT !.siblings = @ \ {n}] : n \in net.siblings}
                \cup (IF net.page THEN {[net EXCEPT !.page = FALSE]} ELSE {})
    /\ UNCHANGED <<reg, stack, head, host, ghost>>

-----------------------------------------------------------------------------
(* A component renders: the helmet's builder, and the components it imports.   *)

MountedOnce == {"meta", "script"}

\* Mutant of MayBePartial: every child of the helmet is taken for whole.
NeverPartial(r, i) == FALSE

MayBePartial(r, i) == r.htmlStreaming /\ ~HelmetClosed(r.tpl) /\ i = Len(Children(r.tpl))
Mounts(r) ==
    {Children(r.tpl)[i] : i \in {j \in DOMAIN Children(r.tpl) :
        Children(r.tpl)[j].tag \in MountedOnce /\ ~MayBePartial(r, j)}}

\* Mutant of Live: a style that is there already is not updated.
LiveOnce(n, r) ==
    [i \in DOMAIN head.live[n] |->
        IF head.live[n][i].tag = "none" /\ i \in DOMAIN Children(r.tpl) /\ Children(r.tpl)[i].tag = "style"
        THEN Children(r.tpl)[i] ELSE head.live[n][i]]

\* A style is updated in place, under the component's name and its position.
Live(n, r) ==
    [i \in DOMAIN head.live[n] |->
        IF i \in DOMAIN Children(r.tpl) /\ Children(r.tpl)[i].tag = "style"
        THEN Children(r.tpl)[i] ELSE head.live[n][i]]

EnsureFetched(r) == [r EXCEPT !.fetched = TRUE, !.bumped = TRUE]
Render(n) ==
    /\ stack = <<>> /\ n \in head.shown /\ reg[n].bumped
    /\ LET shown == IF n = Root THEN {Root} \cup Imports(reg[n].tpl) ELSE head.shown
           new == shown \ head.shown
       IN /\ head' = [head EXCEPT !.mounted = @ \cup Mounts(reg[n]), !.live[n] = Live(n, reg[n]),
                                  !.shown = shown]
          /\ reg' = [m \in Names |-> IF m \in new THEN EnsureFetched(reg[m])
                                     ELSE [reg[m] EXCEPT !.bumped = @ /\ m # n]]
          /\ net' = [net EXCEPT !.siblings = @ \cup {m \in new : ~reg[m].fetched}]
    /\ UNCHANGED <<stack, host, ghost>>

-----------------------------------------------------------------------------
Positions == UNION {DOMAIN d.helmet : d \in Docs}
Nothing == [tag |-> "none"]

Init ==
    /\ reg = [n \in Names |-> Entry]
    /\ stack = <<>>
    /\ net = [siblings |-> {}, page |-> FALSE]
    /\ head = [mode |-> "none", mounted |-> {}, shown |-> {},
               live |-> [n \in Names |-> [i \in Positions |-> Nothing]]]
    /\ host = [rootKnown |-> FALSE, booted |-> FALSE, told |-> Told(Entry)]
    /\ ghost = [pushes |-> 0, html |-> [n \in Names |-> Empty], js |-> [n \in Names |-> NoSource],
                failed |-> {}, untold |-> FALSE]

Push ==
    \E n \in Names :
        \/ \E d \in Docs : PushHtml(n, Whole(d), FALSE) \/ \E t \in Prefixes(d) : PushHtml(n, t, TRUE)
        \/ \E src \in Sources, streaming \in BOOLEAN : PushJs(n, src, streaming)
        \/ \E text \in PropTexts, streaming \in BOOLEAN : PushProps(n, text, streaming)

Next ==
    \/ Push \/ Boot \/ EvalReturns \/ PageTextArrives \/ RequestFails
    \/ \E n \in Names : SiblingArrives(n) \/ Render(n)

Spec == Init /\ [][Next]_vars

-----------------------------------------------------------------------------
Templates ==
    {Empty} \cup {t \in [doc : Docs, cut : Nat, raw : BOOLEAN] : t.cut \in 1..(2 * Len(t.doc.helmet) + 1)}
Scripts == Sources \cup {NoSource}
PropsMetas == {0} \cup {x.props : x \in PropTexts}
Modes == {"none"} \cup {d.mode : d \in Docs}
HelmetChildren ==
    [tag : {"meta", "script", "style"}, of : {d.id : d \in Docs}, at : Nat, partial : BOOLEAN]
EntryType ==
    [html : Templates, tpl : Templates, Logic : Scripts, logicError : BOOLEAN, jsSeq : Nat,
     jsStreaming : BOOLEAN, htmlStreaming : BOOLEAN, fetched : BOOLEAN, bumped : BOOLEAN,
     propsMeta : PropsMetas, preview : BOOLEAN]
FrameType == [name : Names, seq : Nat, source : Scripts, then : {"return", "boot"}]
NetType == [siblings : SUBSET (Names \ {Root}), page : BOOLEAN]
HeadType ==
    [mode : Modes, mounted : SUBSET HelmetChildren, shown : SUBSET Names,
     live : [Names -> [Positions -> HelmetChildren \cup {Nothing}]]]
HostType ==
    [rootKnown : BOOLEAN, booted : BOOLEAN, told : [props : PropsMetas, preview : BOOLEAN]]
GhostType ==
    [pushes : Nat, html : [Names -> Templates], js : [Names -> Scripts],
     failed : SUBSET Names, untold : BOOLEAN]

\* The type of the state; no evaluation under way has a number that its component has not
\* given yet, and the page's own file is never fetched as a sibling (updateJs, ensureFetched).
TypeOK ==
    /\ reg \in [Names -> EntryType]
    /\ stack \in Seq(FrameType)
    /\ \A i \in DOMAIN stack : stack[i].seq <= reg[stack[i].name].jsSeq
    /\ net \in NetType /\ head \in HeadType /\ host \in HostType /\ ghost \in GhostType

Quiet(n) == \A i \in DOMAIN stack : stack[i].name # n

\* A component shows the template that was pushed last, and runs the logic that was pushed
\* last once no evaluation of its scripts is under way: neither a file that arrives late nor
\* a script that pushed its own successor while it was evaluated undoes it (dcUpdate,
\* updateJs' jsSeq, ensureFetched).  The page's boot and its own text start afresh.
NewestContentWins ==
    \A n \in Names :
        /\ ghost.html[n] # Empty => reg[n].html = ghost.html[n]
        /\ ghost.js[n] # NoSource /\ ghost.js[n].gives = "class" /\ Quiet(n)
           => reg[n].Logic = ghost.js[n] /\ ~reg[n].logicError

\* When the page's template is not streaming, the design mode is the one that the template
\* names, and none if it names none: neither a stream that ended, nor one that was cut off
\* by a file, leaves an old mode behind (updateHtml, setDesignDocMode).
DesignModeFollowsRoot ==
    host.rootKnown /\ ~reg[Root].htmlStreaming => head.mode = DesignDocMode(reg[Root].html)

\* No script, and no link, that had only partly arrived is put in the document head, unless
\* a finished template did not compile and left the partial one in place (mayBePartial).
NoPartialScriptRuns == \A c \in head.mounted : c.partial => ghost.failed # {}

\* A component on the page that has rendered since its last change has the whole helmet of
\* its template in the document head, styles at their newest text; only the last child may
\* be missing while it streams (the helmet's builder: `mounted`, `live`, mayBePartial).
HelmetIsInTheHead ==
    \A n \in head.shown :
        LET r == reg[n] IN
        ~r.bumped =>
            \A i \in DOMAIN Children(r.tpl) :
                LET c == Children(r.tpl)[i] IN
                /\ c.tag = "style" => head.live[n][i] = c
                /\ c.tag # "style" /\ (~r.htmlStreaming \/ i < Len(Children(r.tpl))) => c \in head.mounted

\* Once the page has booted, the host's editor has been told the page's props as the runtime
\* has them, unless the last ones pushed were still streaming (notifyHost, __dcUpdate).
HostKnowsRootProps == host.booted /\ ~ghost.untold => host.told = Told(reg[Root])
=============================================================================
