---------------------------- MODULE DcComponent ----------------------------
(* The components of a design page while they are rendered: the page's own     *)
(* component and one that its template may import (createComponentFactory and  *)
(* StreamableLogic in src/design/support.js), the logic each runs, and the     *)
(* modules their templates import (DcExternal).                                *)
(*                                                                             *)
(* React is external: a pass renders what is due, top down; an exception in a  *)
(* component's own render reaches the boundary above it, one in something it   *)
(* renders reaches its own; then the pass commits, unmounting first and        *)
(* mounting children before parents.  A pass is one task.                      *)
EXTENDS DcExternal, FiniteSets

CONSTANTS
    Templates,  \* [crash, imports, externals]; crash: "no", "own" or "inside"
    Classes,    \* [needs]: what a logic class's constructor needs: "nothing", "never",
                \* "prop" or a global
    NoTemplate, Base,
    MaxPushes,  \* bound: templates and logic classes pushed
    MaxStates   \* bound: calls of setState

ASSUME TemplatesAssumption ==
    \A t \in Templates :
        /\ t.crash \in {"no", "own", "inside"} /\ t.imports \in BOOLEAN
        /\ t.externals \in Seq([urls : Seq(Urls), name : Globals, global : BOOLEAN, bindable : BOOLEAN])
ASSUME NothingAssumption == NoTemplate \notin Templates /\ NoUrl \notin Urls
\* the base class is the runtime's own: its constructor does not throw
ASSUME BaseAssumption == Base.needs = "nothing"

VARIABLES
    reg,    \* the registry: [Names -> [tpl, Logic, ver]]
    inst,   \* the instances: [Names -> [mounted, logic, state, props, needsDidMount,
            \*                           failed, ctorError, err, due, view]]
    page,   \* "new", "shown", or "blank": React took everything off it
    ghost   \* what only the properties read

vars == <<ext, window, reg, inst, page, ghost>>

Names == {"page", "part"}

NoFailure == [class |-> Base, ver |-> 0, props |-> {}]
NoView == [tpl |-> NoTemplate, externals |-> <<>>]
Absent == [mounted |-> FALSE, logic |-> Base, state |-> {}, props |-> {}, needsDidMount |-> FALSE,
           failed |-> NoFailure, ctorError |-> FALSE, err |-> FALSE, due |-> "no", view |-> NoView]

-----------------------------------------------------------------------------
(* Logic.  A step of a pass is a function of [inst, page, ext, ghost].         *)

Constructs(class, props) ==
    \/ class.needs = "nothing"
    \/ class.needs = "prop" /\ props # {}
    \/ class.needs \in window

DidMount(s, n) == [s EXCEPT !.ghost.open[n] = @ + 1]
WillUnmount(s, n) == [s EXCEPT !.ghost.open[n] = @ - 1]

\* Mutant of MakeLogic: the state of the logic before it is not carried over.
MakeLogicAfresh(s, n, class, prevState) ==
    LET i == s.inst[n]
        ok == Constructs(class, i.props)
    IN [s EXCEPT !.inst[n] = [i EXCEPT
        !.logic = IF ok THEN class ELSE Base, !.ctorError = ~ok, !.state = {},
        !.failed = IF ok THEN NoFailure ELSE [class |-> class, ver |-> reg[n].ver, props |-> i.props]]]

\* __makeLogic: the class, or the base class if its constructor throws; the state of
\* the logic before it is laid over its own
MakeLogic(s, n, class, prevState) ==
    LET i == s.inst[n]
        attempt == [class |-> class, ver |-> reg[n].ver, props |-> i.props]
        ok == Constructs(class, i.props)
    IN [s EXCEPT
        !.inst[n] = [i EXCEPT !.logic = IF ok THEN class ELSE Base,
                              !.failed = IF ok THEN NoFailure ELSE attempt,
                              !.ctorError = ~ok, !.state = prevState],
        !.ghost.again = @ \/ attempt \in s.ghost.failures[n],
        !.ghost.failures[n] = IF ok THEN @ ELSE @ \cup {attempt}]

\* Mutant of FailedBefore: what failed is constructed again in every render.
NeverFailedBefore(n, i) == FALSE

\* Mutant of FailedBefore: a failure is remembered across changes of the registry.
FailedForGood(n, i) == reg[n].Logic = i.failed.class /\ i.props = i.failed.props

\* __reconcileLogic
FailedBefore(n, i) ==
    reg[n].Logic = i.failed.class /\ reg[n].ver = i.failed.ver /\ i.props = i.failed.props
Reconcile(s, n) ==
    LET i == s.inst[n]
        t == IF i.needsDidMount THEN s ELSE WillUnmount(s, n)
    IN IF reg[n].Logic = i.logic \/ FailedBefore(n, i) THEN s
       ELSE [MakeLogic(t, n, reg[n].Logic, i.state) EXCEPT !.inst[n].needsDidMount = TRUE]

\* the constructor of StreamableComponent
Construct(s, n, props) ==
    MakeLogic([s EXCEPT !.inst[n] = [Absent EXCEPT !.props = props], !.ghost.failures[n] = {},
                         !.ghost.state[n] = {}], n, reg[n].Logic, {})

-----------------------------------------------------------------------------
(* Render.                                                                     *)

\* The view of a template, and the polls that rendering it starts.
Build(s, n) ==
    LET t == reg[n].tpl
    IN [s EXCEPT !.ext = WaitForGlobals(@, Awaited(window, t.externals)),
                 !.inst[n].view = [tpl |-> t, externals |->
                     [k \in DOMAIN t.externals |-> Shows(s.ext, window, t.externals[k])]]]

\* render(): an instance that shows an error does nothing else; one without a
\* template shows a placeholder
RenderOwn(s, n) ==
    LET r == Reconcile(s, n)
    IN IF s.inst[n].err THEN s
       ELSE IF reg[n].tpl = NoTemplate THEN r
       ELSE IF reg[n].tpl.crash = "own" THEN r
       ELSE IF reg[n].tpl.crash = "inside" THEN [r EXCEPT !.inst[n].err = TRUE]
       ELSE Build(r, n)

Throws(s, n) == ~s.inst[n].err /\ reg[n].tpl # NoTemplate /\ reg[n].tpl.crash = "own"
HasPart(s) == ~s.inst["page"].err /\ reg["page"].tpl # NoTemplate
              /\ reg["page"].tpl.crash = "no" /\ reg["page"].tpl.imports

-----------------------------------------------------------------------------
(* Commit.                                                                     *)

\* Mutant of Unmount: a logic that was swapped in and never told of its mount is told of
\* its end.
UnmountAny(s, n) ==
    LET t == IF s.inst[n].mounted THEN WillUnmount(s, n) ELSE s
    IN [t EXCEPT !.inst[n] = Absent]

\* componentWillUnmount
Unmount(s, n) ==
    LET t == IF s.inst[n].mounted /\ ~s.inst[n].needsDidMount THEN WillUnmount(s, n) ELSE s
    IN [t EXCEPT !.inst[n] = Absent]

\* componentDidMount, componentDidUpdate
Commit(s, n) ==
    LET i == s.inst[n]
        t == [s EXCEPT !.inst[n].mounted = TRUE, !.inst[n].due = "no"]
    IN IF ~i.mounted THEN DidMount(t, n)
       ELSE IF i.needsDidMount /\ ~i.err /\ reg[n].tpl # NoTemplate
            THEN [DidMount(t, n) EXCEPT !.inst[n].needsDidMount = FALSE]
       ELSE t

-----------------------------------------------------------------------------
(* A pass.                                                                     *)

\* A bump clears the error of an instance that shows one.
Cleared(s) == [s EXCEPT !.inst = [n \in Names |->
                 [s.inst[n] EXCEPT !.err = @ /\ s.inst[n].due # "bump"]]]

RenderPage(s) == RenderOwn(IF s.inst["page"].mounted THEN s ELSE Construct(s, "page", {}), "page")
\* the part's props are what the page's template makes of the page's state
RenderPart(s, fromPage) ==
    LET props == s.inst["page"].state
    IN RenderOwn(IF ~s.inst["part"].mounted THEN Construct(s, "part", props)
                 ELSE IF fromPage THEN [s EXCEPT !.inst["part"].props = props] ELSE s, "part")

CommitAll(s, names) ==
    LET t == IF "part" \in names THEN Commit(s, "part") ELSE s
    IN IF "page" \in names THEN Commit(t, "page") ELSE t

Blank(s) == [Unmount(Unmount(s, "part"), "page") EXCEPT !.page = "blank"]

\* The part's own template threw: the page's boundary takes the part down.
PartThrew(s) == CommitAll([Unmount(s, "part") EXCEPT !.inst["page"].err = TRUE], {"page"})

Pass(s) ==
    LET fromPage == ~s.inst["page"].mounted \/ s.inst["page"].due # "no"
        p == IF fromPage THEN RenderPage(s) ELSE s
        q == RenderPart(p, fromPage)
    IN IF fromPage /\ Throws(p, "page") THEN Blank(p)
       ELSE IF ~HasPart(p) THEN CommitAll(Unmount(p, "part"), {"page"})
       ELSE IF Throws(q, "part") THEN PartThrew(q)
       ELSE CommitAll(q, IF fromPage THEN Names ELSE {"part"})

ReactRenders ==
    /\ page # "blank"
    /\ page = "new" \/ \E n \in Names : inst[n].due # "no"
    /\ LET s == Pass(Cleared([inst |-> inst, page |-> "shown", ext |-> ext, ghost |-> ghost]))
       IN inst' = s.inst /\ page' = s.page /\ ext' = s.ext /\ ghost' = s.ghost
    /\ UNCHANGED <<window, reg>>

-----------------------------------------------------------------------------
(* The registry changes, and its subscribers are told.                         *)

Bump(names, f) ==
    /\ reg' = [n \in Names |-> [f[n] EXCEPT !.ver = IF n \in names THEN @ + 1 ELSE @]]
    /\ inst' = [n \in Names |-> [inst[n] EXCEPT !.due = IF n \in names /\ inst[n].mounted
                                                        THEN "bump" ELSE @]]

Pushed == ghost.pushes < MaxPushes /\ ghost' = [ghost EXCEPT !.pushes = @ + 1]

\* updateHtml: compiling a template loads the modules it imports
PushTemplate(n, t) ==
    /\ Pushed
    /\ Bump({n}, [reg EXCEPT ![n].tpl = t])
    /\ ext' = LoadAll(ext, t.externals)
    /\ UNCHANGED <<window, page>>

\* updateJs
PushLogic(n, class) ==
    /\ Pushed
    /\ Bump({n}, [reg EXCEPT ![n].Logic = class])
    /\ UNCHANGED <<ext, window, page>>

\* this.setState of a logic, one that was swapped out included: __setLogicState
SetState(n) ==
    /\ inst[n].mounted /\ Cardinality(inst[n].state) < MaxStates
    /\ LET state == inst[n].state \cup {Cardinality(inst[n].state) + 1}
       IN /\ inst' = [inst EXCEPT ![n].state = state, ![n].due = IF @ = "no" THEN "state" ELSE @]
          /\ ghost' = [ghost EXCEPT !.state[n] = state]
    /\ UNCHANGED <<ext, window, reg, page>>

OnResolved == Bump(Names, reg)
ModuleRan(u) == ModuleRuns(u) /\ OnResolved /\ UNCHANGED <<page, ghost>>

\* Mutant of ModuleFailed: only a module that loads is announced.
ModuleFailedSilently(u) == ModuleFails(u) /\ UNCHANGED <<reg, inst, page, ghost>>

ModuleFailed(u) == ModuleFails(u) /\ OnResolved /\ UNCHANGED <<page, ghost>>
GlobalFound(g) == PollFinds(g) /\ OnResolved /\ UNCHANGED <<page, ghost>>
Untold ==
    \/ /\ BabelArrives \/ \E g \in Globals : PollGivesUp(g)
       /\ UNCHANGED <<reg, inst, page, ghost>>
    \/ \E g \in Globals : /\ PageDefines(g)
                          /\ ghost' = [ghost EXCEPT !.byPage = @ \cup {g}]
                          /\ UNCHANGED <<reg, inst, page>>

-----------------------------------------------------------------------------
Init ==
    /\ ExternalInit
    /\ reg = [n \in Names |-> [tpl |-> NoTemplate, Logic |-> Base, ver |-> 0]]
    /\ inst = [n \in Names |-> Absent]
    /\ page = "new"
    /\ ghost = [pushes |-> 0, open |-> [n \in Names |-> 0], state |-> [n \in Names |-> {}],
                failures |-> [n \in Names |-> {}], again |-> FALSE, byPage |-> {}]

Next ==
    \/ ReactRenders \/ Untold
    \/ \E n \in Names : \/ \E t \in Templates : PushTemplate(n, t)
                        \/ \E class \in Classes : PushLogic(n, class)
                        \/ SetState(n)
    \/ \E u \in Urls : ModuleRan(u) \/ ModuleFailed(u)
    \/ \E g \in Globals : GlobalFound(g)

Spec == Init /\ [][Next]_vars
-----------------------------------------------------------------------------
\* componentDidMount and componentWillUnmount of the logic alternate, however often it is
\* swapped, fails, crashes or is unmounted in between: a logic that was told of its mount
\* is told of its end before the next one is, and one that was not is not (__needsDidMount).
MountsArePaired ==
    \A n \in Names : ghost.open[n] = IF inst[n].mounted /\ ~inst[n].needsDidMount THEN 1 ELSE 0

\* What a logic put into its state survives every swap of its class, a failing constructor
\* included: the user of a page keeps the place while the author edits (__makeLogic).
StateSurvivesSwaps == \A n \in Names : inst[n].mounted => inst[n].state = ghost.state[n]

\* An instance never constructs a class again that failed with the same props while nothing
\* has changed since: no render loop around a failing constructor (__failedLogic).
ConstructorsAreNotRetried == ~ghost.again

AtRest(n) == inst[n].mounted /\ inst[n].due = "no" /\ ~inst[n].err

\* A component at rest runs the class that was pushed last exactly when that class can be
\* constructed now: one whose module or prop came late heals by itself, unless what it waits
\* for was defined by a script of the page, which nobody is told of (__reconcileLogic).
LogicHealsItself ==
    \A n \in Names : AtRest(n) /\ reg[n].Logic.needs \notin ghost.byPage =>
        (inst[n].logic = reg[n].Logic <=> Constructs(reg[n].Logic, inst[n].props))

\* A component at rest shows its newest template, and each x-import in it as what the module
\* has become, loaded, failed or still on its way; what a script of the page defines is
\* shown at the latest when the poll for it finds it or gives up (onResolved, bumpAll).
NoImportIsForgotten ==
    \A n \in Names : AtRest(n) /\ reg[n].tpl # NoTemplate =>
        /\ inst[n].view.tpl = reg[n].tpl
        /\ \A k \in DOMAIN reg[n].tpl.externals :
            LET im == reg[n].tpl.externals[k]
            IN \/ inst[n].view.externals[k] = Shows(ext, window, im)
               \/ im.name \in ghost.byPage /\ (LastUrl(im) = NoUrl => ext.poll[im.name] # "no")
=============================================================================
