----------------------------- MODULE DcExternal -----------------------------
(* The external modules of the design pages (createExternalModules in          *)
(* src/design/support.js): scripts fetched and evaluated for x-import elements,*)
(* Babel for the JSX ones, and the polling for globals that some other script  *)
(* of the page defines.                                                        *)
(*                                                                             *)
(* Actions are operators on `ext` and `window`; whoever uses the module        *)
(* conjoins what onResolved does.                                              *)
EXTENDS Naturals, Sequences, SequencesExt

CONSTANTS
    Urls,       \* modules
    Jsx,        \* the ones that Babel compiles
    Globals,    \* names on window, of components that modules or the page's scripts define
    Exports,    \* [Urls -> SUBSET Globals]: names a module exports
    Defines     \* [Urls -> SUBSET Globals]: names a module puts on window

ASSUME ModulesAssumption ==
    /\ Jsx \subseteq Urls
    /\ Exports \in [Urls -> SUBSET Globals] /\ Defines \in [Urls -> SUBSET Globals]

VARIABLES
    ext,    \* the module cache, Babel and the polls
    window  \* the globals that are defined

NoUrl == "none"

ExternalInit ==
    /\ ext = [status |-> [u \in Urls |-> "absent"], after |-> [u \in Urls |-> NoUrl],
              babel |-> "absent", poll |-> [g \in Globals |-> "no"]]
    /\ window = {}

Settled(x, u) == x.status[u] \in {"loaded", "failed"}

-----------------------------------------------------------------------------
(* load: what was asked for once is never asked for again, failed or not.      *)

\* Where a template asks for modules: an import without a hole, a place in its `from`.
Requests(imports) ==
    UNION {{k} \X DOMAIN imports[k].urls : k \in {j \in DOMAIN imports : ~imports[j].bindable}}
UrlAt(imports, p) == imports[p[1]].urls[p[2]]
Earlier(p, q) == p[1] < q[1] \/ (p[1] = q[1] /\ p[2] < q[2])

\* The module that u is to follow: the one before it where it is first asked for.
Predecessor(imports, u) ==
    LET p == CHOOSE r \in Requests(imports) :
                 /\ UrlAt(imports, r) = u
                 /\ \A q \in Requests(imports) : Earlier(q, r) => UrlAt(imports, q) # u
    IN IF p[2] = 1 THEN NoUrl ELSE UrlAt(imports, <<p[1], p[2] - 1>>)

\* The loads of a template, one after the other; the first of a JSX module asks for Babel.
LoadAll(x, imports) ==
    LET new == {u \in {UrlAt(imports, p) : p \in Requests(imports)} : x.status[u] = "absent"}
    IN [x EXCEPT !.status = [u \in Urls |-> IF u \in new THEN "loading" ELSE @[u]],
                 !.after = [u \in Urls |-> IF u \in new THEN Predecessor(imports, u) ELSE @[u]],
                 !.babel = IF @ = "absent" /\ new \cap Jsx # {} THEN "loading" ELSE @]

BabelReady(u) == u \in Jsx => ext.babel = "ready"
AfterSettled(u) == ext.after[u] # NoUrl => Settled(ext, ext.after[u])

ModuleRuns(u) ==
    /\ ext.status[u] = "loading" /\ BabelReady(u) /\ AfterSettled(u)
    /\ ext' = [ext EXCEPT !.status[u] = "loaded"]
    /\ window' = window \cup Defines[u]

\* The request fails, the script throws, or Babel never came.
ModuleFails(u) ==
    /\ ext.status[u] = "loading"
    /\ \/ BabelReady(u) /\ AfterSettled(u)
       \/ u \in Jsx /\ ext.babel = "failed"
    /\ ext' = [ext EXCEPT !.status[u] = "failed"]
    /\ UNCHANGED window

BabelArrives ==
    /\ ext.babel = "loading"
    /\ \E outcome \in {"ready", "failed"} : ext' = [ext EXCEPT !.babel = outcome]
    /\ UNCHANGED window

-----------------------------------------------------------------------------
(* waitForGlobal: a poll that gave up is not taken up again.                   *)

WaitForGlobals(x, names) ==
    [x EXCEPT !.poll = [g \in Globals |-> IF g \in names /\ @[g] = "no" THEN "polling" ELSE @[g]]]

PollFinds(g) ==
    /\ ext.poll[g] = "polling" /\ g \in window
    /\ ext' = [ext EXCEPT !.poll[g] = "no"]
    /\ UNCHANGED window

PollGivesUp(g) ==
    /\ ext.poll[g] = "polling" /\ g \notin window
    /\ ext' = [ext EXCEPT !.poll[g] = "over"]
    /\ UNCHANGED window

\* A script of the page defines a global: nobody is told.
PageDefines(g) ==
    /\ g \notin window
    /\ window' = window \cup {g}
    /\ UNCHANGED ext

-----------------------------------------------------------------------------
(* An x-import: [urls, name, global, bindable]; bindable: its `from` holds     *)
(* a {{ }} hole.                                                               *)

LastUrl(im) == IF im.urls = <<>> THEN NoUrl ELSE Last(im.urls)

\* resolve: the module's exports, then window; getError: what a module that has settled lacks
Provides(x, win, im) ==
    im.name \in win \/ (x.status[LastUrl(im)] = "loaded" /\ im.name \in Exports[LastUrl(im)])
GetError(x, win, im) == LastUrl(im) # NoUrl /\ Settled(x, LastUrl(im)) /\ ~Provides(x, win, im)
ResolveExternal(x, win, im) ==
    IF LastUrl(im) = NoUrl \/ ~Settled(x, LastUrl(im)) THEN "placeholder"
    ELSE IF GetError(x, win, im) THEN "error" ELSE "component"

\* resolveGlobal: window alone; once the module has settled, the name is rendered as it is
ResolveGlobal(x, win, im) ==
    LET u == LastUrl(im) IN
    IF im.name \in win /\ (u = NoUrl \/ Settled(x, u)) THEN "component"
    ELSE IF u # NoUrl /\ Settled(x, u) THEN "element"
    ELSE "placeholder"

\* what an x-import shows
Shows(x, win, im) ==
    IF im.bindable THEN "error"
    ELSE IF im.global THEN ResolveGlobal(x, win, im)
    ELSE ResolveExternal(x, win, im)

\* the globals that rendering these imports waits for
Awaited(win, imports) ==
    {imports[k].name : k \in {j \in DOMAIN imports :
        LET im == imports[j]
        IN ~im.bindable /\ im.global /\ LastUrl(im) = NoUrl /\ im.name \notin win}}
=============================================================================
