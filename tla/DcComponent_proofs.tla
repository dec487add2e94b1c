------------------------- MODULE DcComponent_proofs -------------------------
(***************************************************************************)
(* Proofs about DcComponent, for all modules, templates and logic classes, *)
(* and any number of pushes and of calls of setState.                      *)
(*                                                                         *)
(* A pass is a function of a record; what holds before and after it is a   *)
(* predicate of that record, of the registry and of the globals.  The core *)
(* of it is Live, of an instance that is mounted or about to be: what its  *)
(* constructor's failures were worth.  A failure is remembered as the last *)
(* one, or its props have grown since; and a class that failed at the      *)
(* present version of the registry fails still, because only the page's    *)
(* own scripts define a global without a change of that version.           *)
(*                                                                         *)
(* At the end: what React is given to tell the children of a deck apart    *)
(* (DcDeck), for all decks.                                                *)
(***************************************************************************)
EXTENDS DcComponent, DcDeck, FiniteSetTheorems, TLAPS, WellFoundedInduction

AllClasses == Classes \cup {Base}
AllTemplates == Templates \cup {NoTemplate}
States == {s \in SUBSET Nat : IsFiniteSet(s)}
Failure == [class : AllClasses, ver : Nat, props : States]
\* what an import can be shown as
Looks == {"component", "element", "error", "placeholder"}
View == [tpl : AllTemplates, externals : Seq(Looks)]
Instance ==
    [mounted : BOOLEAN, logic : AllClasses, state : States, props : States,
     needsDidMount : BOOLEAN, failed : Failure, ctorError : BOOLEAN, err : BOOLEAN,
     due : {"no", "bump", "state"}, view : View]
EntryType == [tpl : AllTemplates, Logic : AllClasses, ver : Nat]
ExtType ==
    [status : [Urls -> {"absent", "loading", "loaded", "failed"}],
     after : [Urls -> Urls \cup {NoUrl}],
     babel : {"absent", "loading", "ready", "failed"},
     poll : [Globals -> {"no", "polling", "over"}]]
GhostType ==
    [pushes : Nat, open : [Names -> Int], state : [Names -> States],
     failures : [Names -> SUBSET Failure], again : BOOLEAN, byPage : SUBSET Globals]
Work == [inst : [Names -> Instance], page : {"new", "shown", "blank"}, ext : ExtType, ghost : GhostType]

\* Constructs, of the globals it is given.
Able(win, class, props) ==
    \/ class.needs = "nothing"
    \/ class.needs = "prop" /\ props # {}
    \/ class.needs \in win

\* What the last failure of instance i says of the class that entry e has now.
Hopeless(e, win, i, byPage) ==
    i.failed.class = e.Logic /\ i.failed.ver = e.ver =>
        i.logic = e.Logic \/ ~Able(win, e.Logic, i.failed.props) \/ e.Logic.needs \in byPage

\* Failure f of an instance is an old one, or the last, or its props have grown since.
Remembered(e, i, f) ==
    /\ f.ver <= e.ver
    /\ f.ver = e.ver => /\ f.class = e.Logic /\ f.props \subseteq i.props
                        /\ f.props = i.props => f = i.failed

Live(e, win, i, state, failures, byPage) ==
    /\ i.state = state
    /\ Able(win, i.logic, i.props)
    /\ i.failed.ver <= e.ver /\ Hopeless(e, win, i, byPage)
    /\ \A f \in failures : Remembered(e, i, f)

\* The class of entry e runs exactly when it can.
Fit(e, win, i, byPage) ==
    e.Logic.needs \notin byPage => (i.logic = e.Logic <=> Able(win, e.Logic, i.props))

\* Import im is shown as v, which is what has become of it, or somebody is going to tell.
Shown(v, x, win, byPage, im) ==
    \/ v = Shows(x, win, im)
    \/ im.name \in byPage /\ (LastUrl(im) = NoUrl => x.poll[im.name] # "no")
Awaits(x, win, im) ==
    ~im.bindable /\ im.global /\ LastUrl(im) = NoUrl /\ im.name \notin win => x.poll[im.name] # "no"
Built(e, x, win, i, byPage) ==
    e.tpl # NoTemplate =>
        /\ i.view.tpl = e.tpl
        /\ \A k \in DOMAIN e.tpl.externals :
               /\ Shown(i.view.externals[k], x, win, byPage, e.tpl.externals[k])
               /\ Awaits(x, win, e.tpl.externals[k])

Resting(i) == i.mounted /\ i.due = "no" /\ ~i.err
Paired(i, open) == open = IF i.mounted /\ ~i.needsDidMount THEN 1 ELSE 0

LiveIn(r, win, s, n) ==
    Live(r[n], win, s.inst[n], s.ghost.state[n], s.ghost.failures[n], s.ghost.byPage)
FitIn(r, win, s, n) == Fit(r[n], win, s.inst[n], s.ghost.byPage)
BuiltIn(r, win, s, n) == Built(r[n], s.ext, win, s.inst[n], s.ghost.byPage)
PairedIn(s, n) ==
    Paired(s.inst[n], s.ghost.open[n]) /\ (s.inst[n].needsDidMount => s.inst[n].mounted)

One(r, win, s, n) ==
    /\ PairedIn(s, n)
    /\ s.inst[n].mounted => LiveIn(r, win, s, n)
    /\ Resting(s.inst[n]) => FitIn(r, win, s, n) /\ BuiltIn(r, win, s, n)
PartBelongs(s) ==
    s.inst["part"].mounted => s.inst["page"].mounted /\ s.inst["part"].props \subseteq s.inst["page"].state

Holds(r, win, s) ==
    s \in Work /\ ~s.ghost.again /\ PartBelongs(s) /\ \A n \in Names : One(r, win, s, n)

RegType == [Names -> EntryType]
Now == [inst |-> inst, page |-> page, ext |-> ext, ghost |-> ghost]
IInv == reg \in RegType /\ window \subseteq Globals /\ Holds(reg, window, Now)

-----------------------------------------------------------------------------
(* Steps of a pass: what they touch. *)

\* From s to t, nothing changes but what is n's; no module settles and no poll ends.
Touches(s, t, n) ==
    /\ t \in Work /\ t.page = s.page /\ t.ghost.byPage = s.ghost.byPage
    /\ t.ext.status = s.ext.status
    /\ \A g \in Globals : s.ext.poll[g] # "no" => t.ext.poll[g] # "no"
    /\ \A m \in Names \ {n} : /\ t.inst[m] = s.inst[m] /\ t.ghost.open[m] = s.ghost.open[m]
                               /\ t.ghost.state[m] = s.ghost.state[m]
                               /\ t.ghost.failures[m] = s.ghost.failures[m]

\* Two steps touch what each of them touches.
LEMMA TouchesTwice ==
    ASSUME NEW s, NEW t, NEW u, NEW n, Touches(s, t, n), Touches(t, u, n)
    PROVE  Touches(s, u, n)
BY DEF Touches

\* An instance is replaced.
LEMMA WithInstance ==
    ASSUME NEW s \in Work, NEW n \in Names, NEW i \in Instance
    PROVE  LET t == [s EXCEPT !.inst[n] = i]
           IN  /\ Touches(s, t, n) /\ t.inst[n] = i /\ t.ghost = s.ghost /\ t.ext = s.ext
<1> DEFINE all == [s.inst EXCEPT ![n] = i]
           t == [s EXCEPT !.inst = all]
<1>1. all \in [Names -> Instance] /\ all[n] = i /\ \A m \in Names \ {n} : all[m] = s.inst[m]
  BY DEF Work
<1> HIDE DEF all
<1>2. /\ t \in Work /\ t.inst = all /\ t.ghost = s.ghost /\ t.ext = s.ext /\ t.page = s.page
  BY <1>1 DEF Work
<1> HIDE DEF t
<1>3. Touches(s, t, n)
  BY <1>1, <1>2 DEF Touches
<1>4. [s EXCEPT !.inst[n] = i] = t
  BY DEF t, all
<1> QED
  BY <1>1, <1>2, <1>3, <1>4

\* What the properties read of n is replaced.
LEMMA WithGhost ==
    ASSUME NEW s \in Work, NEW n \in Names, NEW ghosts \in GhostType, ghosts.byPage = s.ghost.byPage,
           \A m \in Names \ {n} : /\ ghosts.open[m] = s.ghost.open[m]
                                  /\ ghosts.state[m] = s.ghost.state[m]
                                  /\ ghosts.failures[m] = s.ghost.failures[m]
    PROVE  LET t == [s EXCEPT !.ghost = ghosts]
           IN  Touches(s, t, n) /\ t.inst = s.inst /\ t.ext = s.ext /\ t.ghost = ghosts
BY DEF Work, Touches

\* The count of the open mounts changes.
LEMMA WithOpen ==
    ASSUME NEW s \in Work, NEW n \in Names, NEW k \in Int
    PROVE  LET u == [s EXCEPT !.ghost.open[n] = k]
           IN  /\ Touches(s, u, n) /\ u.inst = s.inst /\ u.ext = s.ext /\ u.ghost.open[n] = k
               /\ u.ghost.state = s.ghost.state /\ u.ghost.failures = s.ghost.failures
               /\ u.ghost.again = s.ghost.again
<1> DEFINE opened == [s.ghost.open EXCEPT ![n] = k]
           g == [s.ghost EXCEPT !.open = opened]
           u == [s EXCEPT !.ghost = g]
<1>1. s.ghost \in GhostType
  BY DEF Work
<1>2. opened \in [Names -> Int] /\ opened[n] = k /\ \A m \in Names \ {n} : opened[m] = s.ghost.open[m]
  BY <1>1 DEF GhostType
<1>3. [s EXCEPT !.ghost.open[n] = k] = u
  OBVIOUS
<1> HIDE DEF opened
<1>4. /\ g \in GhostType /\ g.open = opened /\ g.byPage = s.ghost.byPage
      /\ g.state = s.ghost.state /\ g.failures = s.ghost.failures /\ g.again = s.ghost.again
  BY <1>1, <1>2 DEF GhostType
<1> HIDE DEF g
<1>5. Touches(s, u, n) /\ u.inst = s.inst /\ u.ext = s.ext /\ u.ghost = g
  BY <1>2, <1>4, WithGhost
<1> HIDE DEF u
<1> QED
  BY <1>2, <1>3, <1>4, <1>5

\* A logic is told of its mount, or of its end.
LEMMA CountsMounts ==
    ASSUME NEW s \in Work, NEW n \in Names
    PROVE  /\ LET t == DidMount(s, n)
              IN  /\ Touches(s, t, n) /\ t.inst = s.inst /\ t.ext = s.ext
                  /\ t.ghost.open[n] = s.ghost.open[n] + 1
                  /\ t.ghost.state = s.ghost.state /\ t.ghost.failures = s.ghost.failures
                  /\ t.ghost.again = s.ghost.again
           /\ LET t == WillUnmount(s, n)
              IN  /\ Touches(s, t, n) /\ t.inst = s.inst /\ t.ext = s.ext
                  /\ t.ghost.open[n] = s.ghost.open[n] - 1
                  /\ t.ghost.state = s.ghost.state /\ t.ghost.failures = s.ghost.failures
                  /\ t.ghost.again = s.ghost.again
<1> DEFINE k == s.ghost.open[n] + 1
           l == s.ghost.open[n] - 1
<1>1. k \in Int /\ l \in Int
  BY DEF Work, GhostType
<1>2. /\ DidMount(s, n) = [s EXCEPT !.ghost.open[n] = k]
      /\ WillUnmount(s, n) = [s EXCEPT !.ghost.open[n] = l]
  BY DEF DidMount, WillUnmount
<1> HIDE DEF k, l
<1>3. LET t == DidMount(s, n)
      IN  /\ Touches(s, t, n) /\ t.inst = s.inst /\ t.ext = s.ext /\ t.ghost.open[n] = k
          /\ t.ghost.state = s.ghost.state /\ t.ghost.failures = s.ghost.failures
          /\ t.ghost.again = s.ghost.again
  BY <1>1, <1>2, WithOpen
<1>4. LET t == WillUnmount(s, n)
      IN  /\ Touches(s, t, n) /\ t.inst = s.inst /\ t.ext = s.ext /\ t.ghost.open[n] = l
          /\ t.ghost.state = s.ghost.state /\ t.ghost.failures = s.ghost.failures
          /\ t.ghost.again = s.ghost.again
  BY <1>1, <1>2, WithOpen
<1> QED
  BY <1>3, <1>4 DEF k, l

-----------------------------------------------------------------------------
(* Logic is made. *)

Attempt(i, e) == [class |-> e.Logic, ver |-> e.ver, props |-> i.props]
\* Instance i with the class of entry e constructed, or with the base class in its place.
Made(win, i, e, state) ==
    LET ok == Able(win, e.Logic, i.props)
    IN [i EXCEPT !.logic = IF ok THEN e.Logic ELSE Base,
                 !.failed = IF ok THEN NoFailure ELSE Attempt(i, e),
                 !.ctorError = ~ok, !.state = state]
\* The failures of instance i after that.
Failures(win, i, e, failures) ==
    IF Able(win, e.Logic, i.props) THEN failures ELSE failures \cup {Attempt(i, e)}

\* The empty set is a state, and an instance that is not there is an instance.
LEMMA AbsentTyped ==
    /\ {} \in States /\ NoFailure \in Failure /\ NoView \in View /\ Absent \in Instance
    /\ ~Absent.mounted /\ ~Absent.needsDidMount /\ ~Absent.err /\ Absent.due = "no"
<1>1. {} \in States
  BY FS_EmptySet DEF States
<1>2. NoFailure \in Failure
  BY <1>1 DEF NoFailure, Failure, AllClasses
<1>3. NoView \in View
  BY DEF NoView, View, AllTemplates
<1>4. Absent \in Instance
  BY <1>1, <1>2, <1>3 DEF Absent, Instance, AllClasses
<1> QED
  BY <1>1, <1>2, <1>3, <1>4 DEF Absent

\* An instance that a logic is made for is one, and stays what it was in all else.
LEMMA MadeTyped ==
    ASSUME NEW win, NEW i \in Instance, NEW e \in EntryType, NEW state \in States
    PROVE  LET j == Made(win, i, e, state)
               ok == Able(win, e.Logic, i.props)
           IN  /\ j \in Instance /\ Attempt(i, e) \in Failure
               /\ j.mounted = i.mounted /\ j.needsDidMount = i.needsDidMount
               /\ j.props = i.props /\ j.err = i.err /\ j.due = i.due /\ j.view = i.view
               /\ j.state = state /\ j.logic = IF ok THEN e.Logic ELSE Base
               /\ j.failed = IF ok THEN NoFailure ELSE Attempt(i, e)
<1> DEFINE ok == Able(win, e.Logic, i.props)
           logic == IF ok THEN e.Logic ELSE Base
           failed == IF ok THEN NoFailure ELSE Attempt(i, e)
           error == ~ok
           j == Made(win, i, e, state)
<1>1. Attempt(i, e) \in Failure
  BY DEF Attempt, EntryType, Instance, Failure
<1>2. logic \in AllClasses /\ failed \in Failure /\ error \in BOOLEAN
  BY <1>1, AbsentTyped DEF AllClasses, EntryType
<1>3. j = [i EXCEPT !.logic = logic, !.failed = failed, !.ctorError = error, !.state = state]
  BY DEF Made
<1> HIDE DEF logic, failed, error, j
<1>4. /\ j \in Instance
      /\ j.mounted = i.mounted /\ j.needsDidMount = i.needsDidMount
      /\ j.props = i.props /\ j.err = i.err /\ j.due = i.due /\ j.view = i.view
      /\ j.state = state /\ j.logic = logic /\ j.failed = failed
  BY <1>2, <1>3 DEF Instance
<1> QED
  BY <1>1, <1>4 DEF logic, failed, j

\* The constructor of the class that the registry has now is tried.
LEMMA MakesLogic ==
    ASSUME NEW s \in Work, NEW n \in Names, reg \in RegType, NEW state \in States
    PROVE  LET t == MakeLogic(s, n, reg[n].Logic, state)
               i == s.inst[n]
           IN  /\ Touches(s, t, n) /\ t.ext = s.ext /\ t.inst[n] = Made(window, i, reg[n], state)
               /\ t.ghost.open = s.ghost.open /\ t.ghost.state = s.ghost.state
               /\ t.ghost.failures[n] = Failures(window, i, reg[n], s.ghost.failures[n])
               /\ s.ghost.again = FALSE /\ Attempt(i, reg[n]) \notin s.ghost.failures[n]
                  => t.ghost.again = FALSE
<1> DEFINE i == s.inst[n]
           ok == Able(window, reg[n].Logic, i.props)
           e == Made(window, i, reg[n], state)
           f == IF ok THEN s.ghost.failures[n] ELSE s.ghost.failures[n] \cup {Attempt(i, reg[n])}
           failures == [s.ghost.failures EXCEPT ![n] = f]
           again == s.ghost.again \/ Attempt(i, reg[n]) \in s.ghost.failures[n]
           g == [s.ghost EXCEPT !.again = again, !.failures = failures]
           u == [s EXCEPT !.inst[n] = e]
           t == [u EXCEPT !.ghost = g]
<1>1. i \in Instance /\ reg[n] \in EntryType /\ s.ghost \in GhostType
  BY DEF Work, RegType
<1>2. MakeLogic(s, n, reg[n].Logic, state) = t
  <2>1. Constructs(reg[n].Logic, i.props) = ok
    BY DEF Constructs, Able
  <2> HIDE DEF ok
  <2>2. MakeLogic(s, n, reg[n].Logic, state)
        = [s EXCEPT !.inst[n] = [i EXCEPT !.logic = IF ok THEN reg[n].Logic ELSE Base,
                                          !.failed = IF ok THEN NoFailure ELSE Attempt(i, reg[n]),
                                          !.ctorError = ~ok, !.state = state],
                    !.ghost.again = again, !.ghost.failures[n] = f]
    BY <2>1 DEF MakeLogic, Attempt
  <2>3. e = [i EXCEPT !.logic = IF ok THEN reg[n].Logic ELSE Base,
                      !.failed = IF ok THEN NoFailure ELSE Attempt(i, reg[n]),
                      !.ctorError = ~ok, !.state = state]
    BY DEF Made, ok
  <2> HIDE DEF e, f, again
  <2>4. [s EXCEPT !.inst[n] = e, !.ghost.again = again, !.ghost.failures[n] = f] = t
    BY <1>1 DEF Work, GhostType
  <2> QED
    BY <2>2, <2>3, <2>4
<1>3. e \in Instance /\ Attempt(i, reg[n]) \in Failure
  BY <1>1, MadeTyped
<1>4. f \in SUBSET Failure /\ again \in BOOLEAN /\ f = Failures(window, i, reg[n], s.ghost.failures[n])
  BY <1>1, <1>3 DEF GhostType, Failures
<1> HIDE DEF f
<1>5. failures \in [Names -> SUBSET Failure] /\ failures[n] = f
      /\ \A m \in Names \ {n} : failures[m] = s.ghost.failures[m]
  BY <1>1, <1>4 DEF GhostType
<1>6. s.ghost.again = FALSE /\ Attempt(i, reg[n]) \notin s.ghost.failures[n] => again = FALSE
  OBVIOUS
<1> HIDE DEF e, failures, again
<1>7. /\ g \in GhostType /\ g.again = again /\ g.failures = failures /\ g.open = s.ghost.open
      /\ g.state = s.ghost.state /\ g.byPage = s.ghost.byPage
  BY <1>1, <1>4, <1>5 DEF GhostType
<1> HIDE DEF g
<1>8. Touches(s, u, n) /\ u.inst[n] = e /\ u.ghost = s.ghost /\ u.ext = s.ext
  BY <1>3, WithInstance
<1> HIDE DEF u
<1>9. Touches(u, t, n) /\ t.inst = u.inst /\ t.ext = u.ext /\ t.ghost = g
  <2>1. u \in Work
    BY <1>8 DEF Touches
  <2> QED
    BY <2>1, <1>5, <1>7, <1>8, WithGhost
<1> HIDE DEF t
<1>10. Touches(s, t, n) /\ t.inst[n] = e /\ t.ext = s.ext
  BY <1>8, <1>9, TouchesTwice
<1>11. /\ Touches(s, t, n) /\ t.ext = s.ext /\ t.inst[n] = Made(window, i, reg[n], state)
       /\ t.ghost.open = s.ghost.open /\ t.ghost.state = s.ghost.state
       /\ t.ghost.failures[n] = f
       /\ s.ghost.again = FALSE /\ Attempt(i, reg[n]) \notin s.ghost.failures[n]
          => t.ghost.again = FALSE
  BY <1>5, <1>6, <1>7, <1>9, <1>10 DEF e
<1> QED
  BY <1>2, <1>4, <1>11

\* What a new logic makes of an instance: it runs the class exactly when it can, and a
\* failure is its last; if the failures it had were remembered, they still are.
LEMMA MadeLives ==
    ASSUME NEW win, NEW i \in Instance, NEW e \in EntryType, NEW state \in States,
           NEW byPage, NEW failures,
           \A f \in failures : Remembered(e, i, f), Attempt(i, e) \notin failures
    PROVE  LET j == Made(win, i, e, state)
           IN  /\ Live(e, win, j, state, Failures(win, i, e, failures), byPage)
               /\ Fit(e, win, j, byPage)
               /\ e.Logic = j.logic \/ j.failed = Attempt(i, e)
<1> DEFINE ok == Able(win, e.Logic, i.props)
           j == Made(win, i, e, state)
           all == Failures(win, i, e, failures)
<1>1. /\ j.props = i.props /\ j.state = state
      /\ j.logic = IF ok THEN e.Logic ELSE Base
      /\ j.failed = IF ok THEN NoFailure ELSE Attempt(i, e)
  BY MadeTyped
<1>2. Able(win, Base, i.props)
  BY BaseAssumption DEF Able
<1>3. e.ver \in Nat /\ 0 <= e.ver /\ e.ver <= e.ver
  BY DEF EntryType
<1>4. NoFailure.ver = 0 /\ Attempt(i, e).ver = e.ver /\ Attempt(i, e).class = e.Logic
      /\ Attempt(i, e).props = i.props
  BY DEF NoFailure, Attempt
<1> HIDE DEF j
<1>5. Able(win, j.logic, j.props)
  BY <1>1, <1>2
<1>6. j.failed.ver <= e.ver
  BY <1>1, <1>3, <1>4
<1>7. Hopeless(e, win, j, byPage)
  BY <1>1, <1>4 DEF Hopeless
<1>8. ASSUME NEW f \in all
      PROVE  Remembered(e, j, f)
  <2>1. CASE f \in failures
    <3>1. Remembered(e, i, f)
      BY <2>1
    <3>2. f.ver = e.ver => f.props # i.props
      <4> SUFFICES ASSUME f.ver = e.ver, f.props = i.props
                   PROVE  FALSE
        OBVIOUS
      <4>1. f = i.failed /\ f.class = e.Logic
        BY <3>1 DEF Remembered
      <4>2. f \in Failure
        BY <4>1 DEF Instance
      <4>3. f = [class |-> f.class, ver |-> f.ver, props |-> f.props]
        BY <4>2 DEF Failure
      <4> QED
        BY <2>1, <4>1, <4>3 DEF Attempt
    <3> QED
      BY <3>1, <3>2, <1>1 DEF Remembered
  <2>2. CASE f = Attempt(i, e) /\ ~ok
    BY <2>2, <1>1, <1>3, <1>4 DEF Remembered
  <2> QED
    BY <2>1, <2>2 DEF Failures
<1>9. Fit(e, win, j, byPage)
  BY <1>1, <1>2 DEF Fit
<1> QED
  BY <1>1, <1>5, <1>6, <1>7, <1>8, <1>9 DEF Live, j

\* Nobody is to be told twice that this instance has the class the registry has, or failed.
Tried(r, s, n) ==
    s.inst[n].logic = r[n].Logic \/ s.inst[n].failed = Attempt(s.inst[n], r[n])

\* From s to t, instance n has at most another logic: the rest of it is what it was.
Stays(s, t, n) ==
    /\ t.inst[n].mounted = s.inst[n].mounted /\ t.inst[n].err = s.inst[n].err
    /\ t.inst[n].due = s.inst[n].due /\ t.inst[n].props = s.inst[n].props
    /\ t.inst[n].state = s.inst[n].state

\* An instance is constructed: it lives, and fits.
LEMMA Constructed ==
    ASSUME NEW s \in Work, NEW n \in Names, NEW props \in States, reg \in RegType,
           ~s.inst[n].mounted, PairedIn(s, n), s.ghost.again = FALSE
    PROVE  LET t == Construct(s, n, props)
           IN  /\ Touches(s, t, n) /\ t.ext = s.ext /\ t.ghost.again = FALSE /\ PairedIn(t, n)
               /\ LiveIn(reg, window, t, n) /\ FitIn(reg, window, t, n) /\ Tried(reg, t, n)
               /\ ~t.inst[n].mounted /\ ~t.inst[n].err /\ t.inst[n].due = "no"
               /\ t.inst[n].props = props /\ t.inst[n].state = {}
<1> DEFINE i == [Absent EXCEPT !.props = props]
           states == [s.ghost.state EXCEPT ![n] = {}]
           failures == [s.ghost.failures EXCEPT ![n] = {}]
           g == [s.ghost EXCEPT !.failures = failures, !.state = states]
           u == [s EXCEPT !.inst[n] = i]
           v == [u EXCEPT !.ghost = g]
           t == MakeLogic(v, n, reg[n].Logic, {})
           j == Made(window, i, reg[n], {})
<1>1. reg[n] \in EntryType /\ s.ghost \in GhostType /\ {} \in States
  BY AbsentTyped DEF Work, RegType
<1>2. i \in Instance /\ ~i.mounted /\ ~i.needsDidMount /\ ~i.err /\ i.due = "no" /\ i.props = props
  BY AbsentTyped DEF Instance
<1>3. [s EXCEPT !.inst[n] = i, !.ghost.failures[n] = {}, !.ghost.state[n] = {}] = v
  <2> HIDE DEF i
  <2> QED
    BY <1>1 DEF Work, GhostType
<1>4. Construct(s, n, props) = t
  BY <1>3 DEF Construct
<1>5. /\ states \in [Names -> States] /\ states[n] = {}
      /\ failures \in [Names -> SUBSET Failure] /\ failures[n] = {}
      /\ \A m \in Names \ {n} : states[m] = s.ghost.state[m] /\ failures[m] = s.ghost.failures[m]
  BY <1>1 DEF GhostType
<1> HIDE DEF i, states, failures
<1>6. /\ g \in GhostType /\ g.state = states /\ g.failures = failures /\ g.open = s.ghost.open
      /\ g.again = s.ghost.again /\ g.byPage = s.ghost.byPage
  BY <1>1, <1>5 DEF GhostType
<1> HIDE DEF g
<1>7. Touches(s, u, n) /\ u.inst[n] = i /\ u.ghost = s.ghost /\ u.ext = s.ext
  BY <1>2, WithInstance
<1> HIDE DEF u
<1>8. u \in Work
  BY <1>7 DEF Touches
<1>9. Touches(u, v, n) /\ v.inst = u.inst /\ v.ext = u.ext /\ v.ghost = g
  BY <1>5, <1>6, <1>7, <1>8, WithGhost
<1> HIDE DEF v
<1>10. v \in Work /\ v.inst[n] = i /\ v.ghost.failures[n] = {} /\ v.ghost.again = FALSE
  BY <1>5, <1>6, <1>7, <1>9 DEF Touches
<1>11. /\ Touches(v, t, n) /\ t.ext = v.ext /\ t.inst[n] = j
       /\ t.ghost.open = v.ghost.open /\ t.ghost.state = v.ghost.state
       /\ t.ghost.failures[n] = Failures(window, i, reg[n], {})
       /\ t.ghost.again = FALSE
  <2>1. /\ Touches(v, t, n) /\ t.ext = v.ext /\ t.inst[n] = Made(window, v.inst[n], reg[n], {})
        /\ t.ghost.open = v.ghost.open /\ t.ghost.state = v.ghost.state
        /\ t.ghost.failures[n] = Failures(window, v.inst[n], reg[n], v.ghost.failures[n])
        /\ v.ghost.again = FALSE /\ Attempt(v.inst[n], reg[n]) \notin v.ghost.failures[n]
           => t.ghost.again = FALSE
    <3> HIDE DEF t
    <3> QED
      BY <1>1, <1>10, MakesLogic DEF t
  <2> HIDE DEF t
  <2> QED
    BY <2>1, <1>10
<1>12. /\ Live(reg[n], window, j, {}, Failures(window, i, reg[n], {}), s.ghost.byPage)
       /\ Fit(reg[n], window, j, s.ghost.byPage)
       /\ reg[n].Logic = j.logic \/ j.failed = Attempt(i, reg[n])
  BY <1>1, <1>2, MadeLives
<1>13. /\ j.mounted = i.mounted /\ j.needsDidMount = i.needsDidMount /\ j.props = i.props
       /\ j.err = i.err /\ j.due = i.due /\ j.state = {}
  BY <1>1, <1>2, MadeTyped
<1> HIDE DEF t, j
<1>14. Touches(s, t, n) /\ t.ext = s.ext
  BY <1>7, <1>9, <1>11, TouchesTwice
<1>15. t.ghost.byPage = s.ghost.byPage /\ t.ghost.open[n] = s.ghost.open[n] /\ t.ghost.state[n] = {}
  BY <1>5, <1>6, <1>9, <1>11, <1>14 DEF Touches
<1>16. LiveIn(reg, window, t, n) /\ FitIn(reg, window, t, n)
  BY <1>11, <1>12, <1>15 DEF LiveIn, FitIn
<1>17. PairedIn(t, n)
  BY <1>2, <1>11, <1>13, <1>15 DEF PairedIn, Paired
<1>18. Tried(reg, t, n)
  BY <1>11, <1>12, <1>13 DEF Tried, Attempt
<1> QED
  BY <1>2, <1>4, <1>11, <1>13, <1>14, <1>16, <1>17, <1>18

\* The logic is reconciled with the registry: it fits, and what lived lives.
LEMMA Reconciled ==
    ASSUME NEW s \in Work, NEW n \in Names, reg \in RegType, s.ghost.again = FALSE,
           PairedIn(s, n), LiveIn(reg, window, s, n), s.inst[n].mounted \/ Tried(reg, s, n)
    PROVE  LET t == Reconcile(s, n)
           IN  /\ Touches(s, t, n) /\ t.ext = s.ext /\ t.ghost.again = FALSE /\ PairedIn(t, n)
               /\ LiveIn(reg, window, t, n) /\ FitIn(reg, window, t, n) /\ Stays(s, t, n)
               /\ s.inst[n].mounted \/ Tried(reg, t, n)
<1> DEFINE i == s.inst[n]
           e == reg[n]
           keeps == e.Logic = i.logic \/ FailedBefore(n, i)
<1>1. i \in Instance /\ e \in EntryType
  BY DEF Work, RegType
<1>2. CASE keeps
  <2>1. Reconcile(s, n) = s
    BY <1>2 DEF Reconcile
  <2>2. FitIn(reg, window, s, n)
    <3>1. CASE e.Logic = i.logic
      BY <3>1 DEF LiveIn, Live, FitIn, Fit
    <3>2. CASE FailedBefore(n, i)
      <4>1. i.failed.class = e.Logic /\ i.failed.ver = e.ver /\ i.failed.props = i.props
        BY <3>2 DEF FailedBefore
      <4>2. Hopeless(e, window, i, s.ghost.byPage) /\ Able(window, i.logic, i.props)
        BY DEF LiveIn, Live
      <4> QED
        BY <4>1, <4>2 DEF Hopeless, FitIn, Fit
    <3> QED
      BY <1>2, <3>1, <3>2
  <2> QED
    BY <2>1, <2>2 DEF Touches, Stays
<1>3. CASE ~keeps
  <2> DEFINE u == IF i.needsDidMount THEN s ELSE WillUnmount(s, n)
             v == MakeLogic(u, n, e.Logic, i.state)
             j == [v.inst[n] EXCEPT !.needsDidMount = TRUE]
             t == [v EXCEPT !.inst[n] = j]
             k == Made(window, i, e, i.state)
             failures == Failures(window, i, e, s.ghost.failures[n])
  <2>1. Reconcile(s, n) = t
    BY <1>3 DEF Reconcile
  <2>2. i.mounted
    BY <1>3 DEF Tried, FailedBefore, Attempt
  <2>3. /\ Touches(s, u, n) /\ u.inst = s.inst /\ u.ext = s.ext /\ u.ghost.open[n] = 0
        /\ u.ghost.state = s.ghost.state /\ u.ghost.failures = s.ghost.failures
        /\ u.ghost.again = FALSE
    <3>1. CASE i.needsDidMount
      BY <3>1, <2>2 DEF Touches, PairedIn, Paired
    <3>2. CASE ~i.needsDidMount
      <4>1. s.ghost.open[n] = 1
        BY <2>2, <3>2 DEF PairedIn, Paired
      <4> QED
        BY <3>2, <4>1, CountsMounts
    <3> QED
      BY <3>1, <3>2
  <2>4. Attempt(i, e) \notin s.ghost.failures[n]
    <3> SUFFICES ASSUME Attempt(i, e) \in s.ghost.failures[n]
                 PROVE  FALSE
      OBVIOUS
    <3>1. Remembered(e, i, Attempt(i, e))
      BY DEF LiveIn, Live
    <3>2. Attempt(i, e) = i.failed
      BY <3>1 DEF Remembered, Attempt
    <3> QED
      BY <1>3, <3>2 DEF FailedBefore, Attempt
  <2>5. u \in Work /\ i.state \in States
    BY <1>1, <2>3 DEF Touches, Instance
  <2> HIDE DEF u
  <2>6. /\ Touches(u, v, n) /\ v.ext = u.ext /\ v.inst[n] = k
        /\ v.ghost.open = u.ghost.open /\ v.ghost.state = u.ghost.state
        /\ v.ghost.failures[n] = failures /\ v.ghost.again = FALSE
    BY <2>3, <2>4, <2>5, MakesLogic
  <2>7. Live(e, window, k, i.state, failures, s.ghost.byPage) /\ Fit(e, window, k, s.ghost.byPage)
    <3>1. \A f \in s.ghost.failures[n] : Remembered(e, i, f)
      BY DEF LiveIn, Live
    <3> QED
      BY <1>1, <2>4, <2>5, <3>1, MadeLives
  <2>8. /\ k \in Instance /\ k.mounted = i.mounted /\ k.props = i.props
        /\ k.err = i.err /\ k.due = i.due /\ k.state = i.state
    BY <1>1, <2>5, MadeTyped
  <2> HIDE DEF v, k
  <2>9. /\ j \in Instance /\ j.mounted = k.mounted /\ j.needsDidMount /\ j.props = k.props
        /\ j.err = k.err /\ j.due = k.due /\ j.state = k.state /\ j.logic = k.logic
        /\ j.failed = k.failed
    BY <2>6, <2>8 DEF Instance
  <2> HIDE DEF j
  <2>10. v \in Work
    BY <2>6 DEF Touches
  <2>11. Touches(v, t, n) /\ t.inst[n] = j /\ t.ghost = v.ghost /\ t.ext = v.ext
    BY <2>9, <2>10, WithInstance
  <2> HIDE DEF t, failures
  <2>12. Touches(s, t, n)
    BY <2>3, <2>6, <2>11, TouchesTwice
  <2>13. t.ghost.byPage = s.ghost.byPage /\ t.ghost.state[n] = i.state
    BY <2>3, <2>6, <2>11, <2>12 DEF Touches, LiveIn, Live
  <2>14. LiveIn(reg, window, t, n) /\ FitIn(reg, window, t, n)
    <3>1. Live(e, window, j, i.state, failures, s.ghost.byPage) /\ Fit(e, window, j, s.ghost.byPage)
      BY <2>7, <2>9 DEF Live, Fit, Hopeless, Remembered
    <3> QED
      BY <2>6, <2>11, <2>13, <3>1 DEF LiveIn, FitIn
  <2>15. PairedIn(t, n)
    BY <2>2, <2>3, <2>6, <2>8, <2>9, <2>11 DEF PairedIn, Paired
  <2>16. Stays(s, t, n)
    BY <2>6, <2>8, <2>9, <2>11 DEF Stays
  <2> QED
    BY <2>1, <2>2, <2>3, <2>6, <2>11, <2>12, <2>14, <2>15, <2>16
<1> QED
  BY <1>2, <1>3

-----------------------------------------------------------------------------
(* Rendering. *)

ImportType == [urls : Seq(Urls), name : Globals, global : BOOLEAN, bindable : BOOLEAN]

\* What an import shows follows from what became of the modules.
LEMMA ShowsTyped ==
    ASSUME NEW x, NEW y, x.status = y.status, NEW win, NEW im
    PROVE  Shows(x, win, im) = Shows(y, win, im) /\ Shows(x, win, im) \in Looks
<1>1. Shows(x, win, im) = Shows(y, win, im)
  BY DEF Shows, ResolveGlobal, ResolveExternal, GetError, Provides, Settled
<1>2. ResolveGlobal(x, win, im) \in Looks
  BY DEF ResolveGlobal, Looks
<1>3. ResolveExternal(x, win, im) \in Looks
  BY DEF ResolveExternal, GetError, Provides, Looks
<1>4. Shows(x, win, im) \in Looks
  BY <1>2, <1>3 DEF Shows, Looks
<1> QED
  BY <1>1, <1>4

\* The globals asked for are polled for, but those where a poll gave up; no poll ends.
LEMMA Waits ==
    ASSUME NEW x \in ExtType, NEW names
    PROVE  LET y == WaitForGlobals(x, names)
           IN  /\ y \in ExtType /\ y.status = x.status
               /\ \A g \in Globals : x.poll[g] # "no" \/ g \in names => y.poll[g] # "no"
<1> DEFINE poll == [g \in Globals |-> IF g \in names /\ x.poll[g] = "no" THEN "polling" ELSE x.poll[g]]
<1>1. poll \in [Globals -> {"no", "polling", "over"}]
  BY DEF ExtType
<1>2. \A g \in Globals : x.poll[g] # "no" \/ g \in names => poll[g] # "no"
  OBVIOUS
<1>3. WaitForGlobals(x, names) = [x EXCEPT !.poll = poll]
  BY DEF WaitForGlobals
<1> HIDE DEF poll
<1> QED
  BY <1>1, <1>2, <1>3 DEF ExtType

\* The view of a template shows every import as what it is, and whatever it waits for is
\* polled for.
LEMMA BuiltUp ==
    ASSUME NEW s \in Work, NEW n \in Names, reg \in RegType, reg[n].tpl # NoTemplate
    PROVE  LET t == Build(s, n)
               i == s.inst[n]
               j == t.inst[n]
           IN  /\ Touches(s, t, n) /\ t.ghost = s.ghost /\ BuiltIn(reg, window, t, n)
               /\ j.mounted = i.mounted /\ j.logic = i.logic /\ j.state = i.state
               /\ j.props = i.props /\ j.needsDidMount = i.needsDidMount
               /\ j.failed = i.failed /\ j.err = i.err /\ j.due = i.due
<1> DEFINE i == s.inst[n]
           T == reg[n].tpl
           shown == [k \in DOMAIN T.externals |-> Shows(s.ext, window, T.externals[k])]
           view == [tpl |-> T, externals |-> shown]
           ext1 == WaitForGlobals(s.ext, Awaited(window, T.externals))
           j == [i EXCEPT !.view = view]
           u == [s EXCEPT !.inst[n] = j]
           t == [u EXCEPT !.ext = ext1]
<1>1. i \in Instance /\ s.ext \in ExtType /\ T \in Templates
  BY DEF Work, RegType, EntryType, AllTemplates
<1>2. T.externals \in Seq(ImportType)
  BY <1>1, TemplatesAssumption DEF ImportType
<1>3. shown \in Seq(Looks) /\ DOMAIN shown = DOMAIN T.externals
  <2>1. DOMAIN T.externals = 1..Len(T.externals) /\ Len(T.externals) \in Nat
    BY <1>2
  <2>2. \A k \in DOMAIN T.externals : Shows(s.ext, window, T.externals[k]) \in Looks
    BY ShowsTyped
  <2> QED
    BY <2>1, <2>2
<1>4. view \in View
  <2> HIDE DEF shown, T
  <2> QED
    BY <1>1, <1>3 DEF View, AllTemplates
<1>5. /\ ext1 \in ExtType /\ ext1.status = s.ext.status
      /\ \A g \in Globals : s.ext.poll[g] # "no" \/ g \in Awaited(window, T.externals)
                            => ext1.poll[g] # "no"
  BY <1>1, Waits
<1>6. Build(s, n) = t
  <2>1. Build(s, n) = [s EXCEPT !.ext = ext1, !.inst[n].view = view]
    BY DEF Build
  <2> HIDE DEF ext1, view
  <2>2. [s EXCEPT !.ext = ext1, !.inst[n].view = view] = t
    BY DEF Work
  <2> QED
    BY <2>1, <2>2
<1>7. \A k \in DOMAIN T.externals :
          /\ Shown(shown[k], ext1, window, s.ghost.byPage, T.externals[k])
          /\ Awaits(ext1, window, T.externals[k])
  <2> SUFFICES ASSUME NEW k \in DOMAIN T.externals
               PROVE  /\ Shown(shown[k], ext1, window, s.ghost.byPage, T.externals[k])
                      /\ Awaits(ext1, window, T.externals[k])
    OBVIOUS
  <2> DEFINE im == T.externals[k]
  <2>1. im \in ImportType
    BY <1>2
  <2>2. shown[k] = Shows(ext1, window, im)
    BY <1>5, ShowsTyped
  <2>3. Awaits(ext1, window, im)
    <3>1. ~im.bindable /\ im.global /\ LastUrl(im) = NoUrl /\ im.name \notin window
          => im.name \in Awaited(window, T.externals)
      BY DEF Awaited
    <3> HIDE DEF ext1, T
    <3> QED
      BY <2>1, <3>1, <1>5 DEF Awaits, ImportType
  <2> QED
    BY <2>2, <2>3 DEF Shown
<1>8. view.tpl = T /\ view.externals = shown
  OBVIOUS
<1> HIDE DEF shown, view, ext1
<1>9. /\ j \in Instance /\ j.view = view
      /\ j.mounted = i.mounted /\ j.logic = i.logic /\ j.state = i.state
      /\ j.props = i.props /\ j.needsDidMount = i.needsDidMount
      /\ j.failed = i.failed /\ j.err = i.err /\ j.due = i.due
  BY <1>1, <1>4 DEF Instance
<1> HIDE DEF j
<1>10. Touches(s, u, n) /\ u.inst[n] = j /\ u.ghost = s.ghost /\ u.ext = s.ext
  BY <1>9, WithInstance
<1> HIDE DEF u
<1>11. Touches(u, t, n) /\ t.inst = u.inst /\ t.ghost = u.ghost /\ t.ext = ext1
  BY <1>5, <1>10 DEF Work, Touches
<1> HIDE DEF t
<1>12. Touches(s, t, n)
  BY <1>10, <1>11, TouchesTwice
<1>13. BuiltIn(reg, window, t, n)
  BY <1>7, <1>8, <1>9, <1>10, <1>11 DEF BuiltIn, Built
<1> QED
  BY <1>6, <1>9, <1>10, <1>11, <1>12, <1>13

\* An instance renders: unless it shows an error, it fits, and shows what there is to show.
LEMMA Rendered ==
    ASSUME NEW s \in Work, NEW n \in Names, reg \in RegType, s.ghost.again = FALSE,
           PairedIn(s, n), LiveIn(reg, window, s, n), s.inst[n].mounted \/ Tried(reg, s, n)
    PROVE  LET t == RenderOwn(s, n)
           IN  /\ Touches(s, t, n) /\ t.ghost.again = FALSE /\ PairedIn(t, n)
               /\ LiveIn(reg, window, t, n)
               /\ t.inst[n].mounted = s.inst[n].mounted /\ t.inst[n].due = s.inst[n].due
               /\ t.inst[n].props = s.inst[n].props /\ t.inst[n].state = s.inst[n].state
               /\ ~t.inst[n].err => /\ FitIn(reg, window, t, n)
                                    /\ Throws(t, n) \/ BuiltIn(reg, window, t, n)
<1> DEFINE r == Reconcile(s, n)
           T == reg[n].tpl
<1>1. /\ Touches(s, r, n) /\ r.ext = s.ext /\ r.ghost.again = FALSE /\ PairedIn(r, n)
      /\ LiveIn(reg, window, r, n) /\ FitIn(reg, window, r, n) /\ Stays(s, r, n)
  BY Reconciled
<1>2. r \in Work /\ T \in AllTemplates
  BY <1>1 DEF Touches, RegType, EntryType
<1>3. RenderOwn(s, n) = IF s.inst[n].err THEN s
                        ELSE IF T = NoTemplate THEN r
                        ELSE IF T.crash = "own" THEN r
                        ELSE IF T.crash = "inside" THEN [r EXCEPT !.inst[n].err = TRUE]
                        ELSE Build(r, n)
  BY DEF RenderOwn
<1> HIDE DEF r
<1>4. CASE s.inst[n].err
  BY <1>3, <1>4 DEF Touches
<1>5. CASE ~s.inst[n].err /\ (T = NoTemplate \/ T.crash = "own")
  <2>1. RenderOwn(s, n) = r
    BY <1>3, <1>5
  <2>2. Throws(r, n) \/ BuiltIn(reg, window, r, n)
    BY <1>1, <1>5 DEF Throws, Stays, BuiltIn, Built
  <2> QED
    BY <1>1, <2>1, <2>2 DEF Stays
<1>6. CASE ~s.inst[n].err /\ T # NoTemplate /\ T.crash = "inside"
  <2> DEFINE i == r.inst[n]
             j == [i EXCEPT !.err = TRUE]
             t == [r EXCEPT !.inst[n] = j]
  <2>1. RenderOwn(s, n) = t
    BY <1>3, <1>6
  <2>2. /\ j \in Instance /\ j.err
        /\ j.mounted = i.mounted /\ j.logic = i.logic /\ j.state = i.state
        /\ j.props = i.props /\ j.needsDidMount = i.needsDidMount
        /\ j.failed = i.failed /\ j.due = i.due
    <3>1. i \in Instance
      BY <1>2 DEF Work
    <3> HIDE DEF i
    <3> QED
      BY <3>1 DEF Instance
  <2> HIDE DEF j
  <2>3. Touches(r, t, n) /\ t.inst[n] = j /\ t.ghost = r.ghost
    BY <1>2, <2>2, WithInstance
  <2> HIDE DEF t
  <2>4. LiveIn(reg, window, t, n) /\ PairedIn(t, n)
    BY <1>1, <2>2, <2>3 DEF LiveIn, Live, Hopeless, Remembered, PairedIn, Paired
  <2>5. Touches(s, t, n)
    BY <1>1, <2>3, TouchesTwice
  <2> QED
    BY <1>1, <2>1, <2>2, <2>3, <2>4, <2>5 DEF Stays
<1>7. CASE ~s.inst[n].err /\ T # NoTemplate /\ T.crash # "own" /\ T.crash # "inside"
  <2> DEFINE t == Build(r, n)
             i == r.inst[n]
             j == t.inst[n]
  <2>1. RenderOwn(s, n) = t
    BY <1>3, <1>7
  <2>2. /\ Touches(r, t, n) /\ t.ghost = r.ghost /\ BuiltIn(reg, window, t, n)
        /\ j.mounted = i.mounted /\ j.logic = i.logic /\ j.state = i.state
        /\ j.props = i.props /\ j.needsDidMount = i.needsDidMount
        /\ j.failed = i.failed /\ j.err = i.err /\ j.due = i.due
    BY <1>2, <1>7, BuiltUp
  <2> HIDE DEF t
  <2>3. LiveIn(reg, window, t, n) /\ PairedIn(t, n) /\ FitIn(reg, window, t, n)
    BY <1>1, <2>2 DEF LiveIn, Live, Hopeless, Remembered, PairedIn, Paired, FitIn, Fit
  <2>4. Touches(s, t, n)
    BY <1>1, <2>2, TouchesTwice
  <2> QED
    BY <1>1, <2>1, <2>2, <2>3, <2>4 DEF Stays
<1> QED
  BY <1>4, <1>5, <1>6, <1>7

-----------------------------------------------------------------------------
(* Committing. *)

\* An instance that has rendered: if it shows no error it is as it should be.
Ready(r, win, s, n) ==
    /\ PairedIn(s, n) /\ LiveIn(r, win, s, n)
    /\ ~s.inst[n].err => FitIn(r, win, s, n) /\ BuiltIn(r, win, s, n)

\* What holds of the other instance goes on to hold.
LEMMA OthersKeep ==
    ASSUME NEW s \in Work, NEW t, NEW n \in Names, NEW m \in Names \ {n}, Touches(s, t, n),
           NEW r \in RegType, NEW win
    PROVE  /\ PairedIn(s, m) => PairedIn(t, m)
           /\ LiveIn(r, win, s, m) => LiveIn(r, win, t, m)
           /\ FitIn(r, win, s, m) => FitIn(r, win, t, m)
           /\ BuiltIn(r, win, s, m) => BuiltIn(r, win, t, m)
           /\ One(r, win, s, m) => One(r, win, t, m)
           /\ Ready(r, win, s, m) => Ready(r, win, t, m)
<1>1. /\ t.inst[m] = s.inst[m] /\ t.ghost.open[m] = s.ghost.open[m]
      /\ t.ghost.state[m] = s.ghost.state[m] /\ t.ghost.failures[m] = s.ghost.failures[m]
      /\ t.ghost.byPage = s.ghost.byPage
  BY DEF Touches
<1>2. PairedIn(s, m) => PairedIn(t, m)
  BY <1>1 DEF PairedIn
<1>3. LiveIn(r, win, s, m) => LiveIn(r, win, t, m)
  BY <1>1 DEF LiveIn
<1>4. FitIn(r, win, s, m) => FitIn(r, win, t, m)
  BY <1>1 DEF FitIn
<1>5. BuiltIn(r, win, s, m) => BuiltIn(r, win, t, m)
  <2> SUFFICES ASSUME BuiltIn(r, win, s, m), r[m].tpl # NoTemplate
               PROVE  BuiltIn(r, win, t, m)
    BY DEF BuiltIn, Built
  <2> DEFINE T == r[m].tpl
  <2>1. T.externals \in Seq(ImportType)
    BY TemplatesAssumption DEF RegType, EntryType, AllTemplates, ImportType
  <2>2. ASSUME NEW k \in DOMAIN T.externals
        PROVE  /\ Shown(t.inst[m].view.externals[k], t.ext, win, t.ghost.byPage, T.externals[k])
               /\ Awaits(t.ext, win, T.externals[k])
    <3> DEFINE im == T.externals[k]
    <3>1. im.name \in Globals
      <4>1. im \in ImportType
        <5> HIDE DEF T
        <5> QED
          BY <2>1
      <4> HIDE DEF im
      <4> QED
        BY <4>1 DEF ImportType
    <3>2. s.ext.poll[im.name] # "no" => t.ext.poll[im.name] # "no"
      BY <3>1 DEF Touches
    <3>3. Shows(s.ext, win, im) = Shows(t.ext, win, im)
      BY ShowsTyped DEF Touches
    <3>4. Shown(s.inst[m].view.externals[k], s.ext, win, s.ghost.byPage, im) /\ Awaits(s.ext, win, im)
      BY DEF BuiltIn, Built
    <3> QED
      BY <1>1, <3>2, <3>3, <3>4 DEF Shown, Awaits
  <2> QED
    BY <1>1, <2>2 DEF BuiltIn, Built
<1> QED
  BY <1>1, <1>2, <1>3, <1>4, <1>5 DEF One, Ready

\* An instance commits: it is mounted, nothing is due, and its logic has been told.
LEMMA Committed ==
    ASSUME NEW s \in Work, NEW n \in Names, s.ghost.again = FALSE, Ready(reg, window, s, n)
    PROVE  LET t == Commit(s, n)
           IN  /\ Touches(s, t, n) /\ t.ghost.again = FALSE /\ One(reg, window, t, n)
               /\ t.inst[n].mounted /\ t.inst[n].props = s.inst[n].props
               /\ t.inst[n].state = s.inst[n].state
<1> DEFINE i == s.inst[n]
           j == [i EXCEPT !.mounted = TRUE, !.due = "no"]
           u == [s EXCEPT !.inst[n] = j]
           v == DidMount(u, n)
           k == [j EXCEPT !.needsDidMount = FALSE]
           w == [v EXCEPT !.inst[n] = k]
           due == i.needsDidMount /\ ~i.err /\ reg[n].tpl # NoTemplate
<1>1. i \in Instance
  BY DEF Work
<1>2. /\ j \in Instance /\ j.mounted /\ j.due = "no" /\ j.logic = i.logic /\ j.state = i.state
      /\ j.props = i.props /\ j.needsDidMount = i.needsDidMount /\ j.failed = i.failed
      /\ j.err = i.err /\ j.view = i.view
  <2> HIDE DEF i
  <2> QED
    BY <1>1 DEF Instance
<1>3. [s EXCEPT !.inst[n].mounted = TRUE, !.inst[n].due = "no"] = u
  BY DEF Work
<1>6. Commit(s, n) = IF ~i.mounted THEN v
                     ELSE IF due THEN [v EXCEPT !.inst[n].needsDidMount = FALSE]
                     ELSE u
  <2> HIDE DEF v, u, j
  <2>1. Commit(s, n) = LET x == [s EXCEPT !.inst[n].mounted = TRUE, !.inst[n].due = "no"]
                       IN  IF ~i.mounted THEN DidMount(x, n)
                           ELSE IF due THEN [DidMount(x, n) EXCEPT !.inst[n].needsDidMount = FALSE]
                           ELSE x
    BY DEF Commit
  <2>2. v = DidMount(u, n)
    BY DEF v
  <2> QED
    BY <1>3, <2>1, <2>2
<1> HIDE DEF j
<1>4. Touches(s, u, n) /\ u.inst[n] = j /\ u.ghost = s.ghost /\ u.ext = s.ext /\ u \in Work
  BY <1>2, WithInstance DEF Touches
<1> HIDE DEF u
<1>5. /\ Touches(u, v, n) /\ v.inst = u.inst /\ v.ext = u.ext
      /\ v.ghost.open[n] = u.ghost.open[n] + 1
      /\ v.ghost.state = u.ghost.state /\ v.ghost.failures = u.ghost.failures
      /\ v.ghost.again = u.ghost.again
  BY <1>4, CountsMounts
<1> HIDE DEF v
<1>7. v \in Work /\ v.inst[n] = j /\ Touches(s, v, n) /\ v.ext = s.ext
      /\ v.ghost.open[n] = s.ghost.open[n] + 1 /\ v.ghost.state = s.ghost.state
      /\ v.ghost.failures = s.ghost.failures /\ v.ghost.again = FALSE
      /\ v.ghost.byPage = s.ghost.byPage
  BY <1>4, <1>5, TouchesTwice DEF Touches
<1>8. [v EXCEPT !.inst[n].needsDidMount = FALSE] = w
  BY <1>7 DEF Work
<1>9. /\ k \in Instance /\ k.mounted /\ k.logic = i.logic /\ k.state = i.state
      /\ k.props = i.props /\ ~k.needsDidMount /\ k.failed = i.failed
      /\ k.err = i.err /\ k.view = i.view
  <2> HIDE DEF i
  <2> QED
    BY <1>2 DEF Instance
<1> HIDE DEF k
<1>10. Touches(v, w, n) /\ w.inst[n] = k /\ w.ghost = v.ghost /\ w.ext = v.ext
  BY <1>7, <1>9, WithInstance
<1> HIDE DEF w
<1>11. Touches(s, w, n)
  BY <1>7, <1>10, TouchesTwice
\* what is left to show of any of the three outcomes
<1>12. ASSUME NEW t, NEW l, t.inst[n] = l, t.ext = s.ext, l.mounted, l.logic = i.logic,
              l.state = i.state, l.props = i.props, l.failed = i.failed, l.err = i.err, l.view = i.view,
              t.ghost.state = s.ghost.state, t.ghost.failures = s.ghost.failures,
              t.ghost.byPage = s.ghost.byPage,
              t.ghost.open[n] = IF ~l.needsDidMount THEN 1 ELSE 0
       PROVE  One(reg, window, t, n)
  <2>1. PairedIn(t, n)
    BY <1>12 DEF PairedIn, Paired
  <2>2. LiveIn(reg, window, t, n)
    BY <1>12 DEF Ready, LiveIn, Live, Hopeless, Remembered
  <2>3. Resting(t.inst[n]) => FitIn(reg, window, t, n) /\ BuiltIn(reg, window, t, n)
    BY <1>12 DEF Ready, Resting, FitIn, Fit, BuiltIn, Built
  <2> QED
    BY <2>1, <2>2, <2>3 DEF One
<1>13. s.ghost.open[n] = (IF i.mounted /\ ~i.needsDidMount THEN 1 ELSE 0)
       /\ (i.needsDidMount => i.mounted)
  BY DEF Ready, PairedIn, Paired
<1> HIDE DEF i
<1>14. CASE ~i.mounted
  <2>1. One(reg, window, v, n)
    BY <1>2, <1>7, <1>12, <1>13, <1>14
  <2> QED
    BY <2>1, <1>2, <1>6, <1>7, <1>14 DEF i
<1>15. CASE i.mounted /\ due
  <2>1. One(reg, window, w, n)
    BY <1>7, <1>9, <1>10, <1>12, <1>13, <1>15
  <2> QED
    BY <2>1, <1>6, <1>7, <1>8, <1>9, <1>10, <1>11, <1>15 DEF i
<1>16. CASE i.mounted /\ ~due
  <2>1. One(reg, window, u, n)
    BY <1>2, <1>4, <1>12, <1>13, <1>16 DEF Touches
  <2> QED
    BY <2>1, <1>2, <1>4, <1>6, <1>16 DEF i
<1> QED
  BY <1>14, <1>15, <1>16

\* An instance is unmounted: its logic, if it was told of its mount, is told of its end.
LEMMA Unmounted ==
    ASSUME NEW s \in Work, NEW n \in Names, PairedIn(s, n)
    PROVE  LET t == Unmount(s, n)
           IN  /\ Touches(s, t, n) /\ t.ghost.again = s.ghost.again /\ One(reg, window, t, n)
               /\ PairedIn(t, n) /\ ~t.inst[n].mounted
<1> DEFINE tell == s.inst[n].mounted /\ ~s.inst[n].needsDidMount
           u == IF tell THEN WillUnmount(s, n) ELSE s
           t == [u EXCEPT !.inst[n] = Absent]
<1>1. Unmount(s, n) = t
  BY DEF Unmount
<1>2. Touches(s, u, n) /\ u.ghost.again = s.ghost.again /\ u.ghost.open[n] = 0
  <2>1. CASE tell
    <3>1. s.ghost.open[n] = 1
      BY <2>1 DEF PairedIn, Paired
    <3> QED
      BY <2>1, <3>1, CountsMounts
  <2>2. CASE ~tell
    BY <2>2 DEF Touches, PairedIn, Paired
  <2> QED
    BY <2>1, <2>2
<1> HIDE DEF u
<1>3. u \in Work
  BY <1>2 DEF Touches
<1>4. Touches(u, t, n) /\ t.inst[n] = Absent /\ t.ghost = u.ghost
  BY <1>3, AbsentTyped, WithInstance
<1> HIDE DEF t
<1>5. Touches(s, t, n)
  BY <1>2, <1>4, TouchesTwice
<1>6. PairedIn(t, n) /\ One(reg, window, t, n)
  BY <1>2, <1>4, AbsentTyped DEF One, PairedIn, Paired, Resting
<1> QED
  BY <1>1, <1>2, <1>4, <1>5, <1>6, AbsentTyped

-----------------------------------------------------------------------------
(* A pass. *)

\* A pass begins with the errors of the instances that a bump is for taken back.
LEMMA ClearedHolds ==
    ASSUME NEW s, NEW r, NEW win, Holds(r, win, s)
    PROVE  Holds(r, win, Cleared(s)) /\ Cleared(s).page = s.page
<1> DEFINE all == [n \in Names |-> [s.inst[n] EXCEPT !.err = s.inst[n].err /\ s.inst[n].due # "bump"]]
           t == [s EXCEPT !.inst = all]
<1>1. s \in Work
  BY DEF Holds
<1>2. Cleared(s) = t
  BY <1>1 DEF Cleared, Work, Instance
<1>3. ASSUME NEW n \in Names
      PROVE  /\ all[n] \in Instance /\ all[n].mounted = s.inst[n].mounted
             /\ all[n].logic = s.inst[n].logic /\ all[n].state = s.inst[n].state
             /\ all[n].props = s.inst[n].props /\ all[n].needsDidMount = s.inst[n].needsDidMount
             /\ all[n].failed = s.inst[n].failed /\ all[n].due = s.inst[n].due
             /\ all[n].view = s.inst[n].view
             /\ s.inst[n].due # "bump" /\ s.inst[n].err => all[n].err
  <2> DEFINE i == s.inst[n]
             err == i.err /\ i.due # "bump"
             j == [i EXCEPT !.err = err]
  <2>1. i \in Instance
    BY <1>1 DEF Work
  <2>2. all[n] = j /\ (i.due # "bump" /\ i.err => err) /\ err \in BOOLEAN
    BY <2>1 DEF Instance
  <2> HIDE DEF i, all, err
  <2>3. /\ j \in Instance /\ j.mounted = i.mounted /\ j.logic = i.logic /\ j.state = i.state
        /\ j.props = i.props /\ j.needsDidMount = i.needsDidMount /\ j.failed = i.failed
        /\ j.due = i.due /\ j.view = i.view /\ j.err = err
    BY <2>1, <2>2 DEF Instance
  <2> HIDE DEF j
  <2> QED
    BY <2>2, <2>3 DEF i
<1>4. all \in [Names -> Instance]
  BY <1>3
<1> HIDE DEF all
<1>5. t \in Work /\ t.inst = all /\ t.page = s.page /\ t.ext = s.ext /\ t.ghost = s.ghost
  BY <1>1, <1>4 DEF Work
<1> HIDE DEF t
<1>6. ASSUME NEW n \in Names
      PROVE  One(r, win, t, n)
  <2> DEFINE i == s.inst[n]
             j == t.inst[n]
  <2>1. One(r, win, s, n)
    BY DEF Holds
  <2>2. /\ j.mounted = i.mounted /\ j.logic = i.logic /\ j.state = i.state
        /\ j.props = i.props /\ j.needsDidMount = i.needsDidMount /\ j.failed = i.failed
        /\ j.due = i.due /\ j.view = i.view /\ (i.due # "bump" /\ i.err => j.err)
    BY <1>3, <1>5
  <2>3. PairedIn(t, n)
    BY <1>5, <2>1, <2>2 DEF One, PairedIn, Paired
  <2>4. LiveIn(r, win, s, n) => LiveIn(r, win, t, n)
    BY <1>5, <2>2 DEF LiveIn, Live, Hopeless, Remembered
  <2>5. Resting(j) => Resting(i)
    BY <2>2 DEF Resting
  <2>6. FitIn(r, win, s, n) /\ BuiltIn(r, win, s, n) => FitIn(r, win, t, n) /\ BuiltIn(r, win, t, n)
    BY <1>5, <2>2 DEF FitIn, Fit, BuiltIn, Built
  <2> QED
    BY <2>1, <2>2, <2>3, <2>4, <2>5, <2>6 DEF One
<1>7. PartBelongs(t)
  BY <1>3, <1>5 DEF Holds, PartBelongs, Names
<1> QED
  BY <1>2, <1>5, <1>6, <1>7 DEF Holds

\* What rendering an instance gives: all is well but for what the commit does, or its own
\* template threw.
Rendering(r, win, s, t, n) ==
    /\ Touches(s, t, n) /\ t.ghost.again = FALSE /\ PairedIn(t, n) /\ LiveIn(r, win, t, n)
    /\ ~t.inst[n].err => FitIn(r, win, t, n) /\ (Throws(t, n) \/ BuiltIn(r, win, t, n))

\* The page renders.
LEMMA RenderedPage ==
    ASSUME NEW s, reg \in RegType, Holds(reg, window, s)
    PROVE  LET p == RenderPage(s)
           IN  Rendering(reg, window, s, p, "page") /\ PartBelongs(p)
<1> DEFINE n == "page"
           u == IF s.inst["page"].mounted THEN s ELSE Construct(s, "page", {})
           p == RenderOwn(u, n)
<1>1. s \in Work /\ s.ghost.again = FALSE /\ One(reg, window, s, n) /\ PartBelongs(s) /\ n \in Names
  BY DEF Holds, Work, GhostType, Names
<1>2. /\ Touches(s, u, n) /\ u.ghost.again = FALSE /\ PairedIn(u, n) /\ LiveIn(reg, window, u, n)
      /\ u.inst[n].mounted \/ Tried(reg, u, n)
      /\ s.inst[n].mounted => u = s
  <2>1. CASE s.inst[n].mounted
    BY <1>1, <2>1 DEF Touches, One
  <2>2. CASE ~s.inst[n].mounted
    <3>1. PairedIn(s, n)
      BY <1>1 DEF One
    <3> DEFINE c == Construct(s, n, {})
    <3>2. /\ Touches(s, c, n) /\ c.ghost.again = FALSE /\ PairedIn(c, n)
          /\ LiveIn(reg, window, c, n) /\ Tried(reg, c, n)
      <4>1. {} \in States /\ s \in Work /\ n \in Names /\ s.ghost.again = FALSE /\ ~s.inst[n].mounted
        BY <1>1, <2>2, AbsentTyped
      <4> HIDE DEF n
      <4>2. LET w == Construct(s, n, {})
            IN  /\ Touches(s, w, n) /\ w.ext = s.ext /\ w.ghost.again = FALSE /\ PairedIn(w, n)
                /\ LiveIn(reg, window, w, n) /\ FitIn(reg, window, w, n) /\ Tried(reg, w, n)
                /\ ~w.inst[n].mounted /\ ~w.inst[n].err /\ w.inst[n].due = "no"
                /\ w.inst[n].props = {} /\ w.inst[n].state = {}
        BY <3>1, <4>1, Constructed, Zenon
      <4> QED
        BY <4>2
    <3>3. u = c
      BY <2>2
    <3> HIDE DEF c, u
    <3> QED
      BY <2>2, <3>2, <3>3
  <2> QED
    BY <2>1, <2>2
<1>3. RenderPage(s) = p
  BY DEF RenderPage
<1> HIDE DEF u
<1>4. u \in Work
  BY <1>2 DEF Touches
<1>5. /\ Touches(u, p, n) /\ p.ghost.again = FALSE /\ PairedIn(p, n) /\ LiveIn(reg, window, p, n)
      /\ p.inst[n].state = u.inst[n].state /\ p.inst[n].mounted = u.inst[n].mounted
      /\ ~p.inst[n].err => FitIn(reg, window, p, n) /\ (Throws(p, n) \/ BuiltIn(reg, window, p, n))
  BY <1>1, <1>2, <1>4, Rendered
<1> HIDE DEF p
<1>6. Touches(s, p, n)
  BY <1>2, <1>5, TouchesTwice
<1>7. p.inst["part"] = s.inst["part"]
  BY <1>6 DEF Touches, Names
<1>8. PartBelongs(p)
  BY <1>1, <1>2, <1>5, <1>7 DEF PartBelongs
<1> QED
  BY <1>3, <1>5, <1>6, <1>8 DEF Rendering

\* The part renders: with new props if the page has rendered, and if it is new with them too.
LEMMA RenderedPart ==
    ASSUME NEW s \in Work, NEW fromPage \in BOOLEAN, reg \in RegType, s.ghost.again = FALSE,
           PartBelongs(s), One(reg, window, s, "part")
    PROVE  LET q == RenderPart(s, fromPage)
           IN  /\ Rendering(reg, window, s, q, "part")
               /\ q.inst["part"].props \subseteq s.inst["page"].state
<1> DEFINE props == s.inst["page"].state
           i == s.inst["part"]
           j == [i EXCEPT !.props = props]
           grown == [s EXCEPT !.inst["part"] = j]
           made == Construct(s, "part", props)
           u == IF ~i.mounted THEN made ELSE IF fromPage THEN grown ELSE s
           q == RenderOwn(u, "part")
<1>1. i \in Instance /\ props \in States /\ "part" \in Names /\ PairedIn(s, "part")
  BY DEF Work, Instance, Names, One
<1>2. RenderPart(s, fromPage) = q
  <2>1. [s EXCEPT !.inst["part"].props = props] = grown
    BY DEF Work
  <2> QED
    BY <2>1 DEF RenderPart
<1>3. /\ Touches(s, u, "part") /\ u.ghost.again = FALSE /\ PairedIn(u, "part")
      /\ LiveIn(reg, window, u, "part")
      /\ u.inst["part"].mounted \/ Tried(reg, u, "part")
      /\ u.inst["part"].props \subseteq props
  <2>1. CASE ~i.mounted
    <3>1. /\ Touches(s, made, "part") /\ made.ghost.again = FALSE /\ PairedIn(made, "part")
          /\ LiveIn(reg, window, made, "part") /\ Tried(reg, made, "part")
          /\ made.inst["part"].props = props
      <4>1. ~s.inst["part"].mounted
        BY <2>1
      <4> DEFINE n == "part"
      <4> HIDE DEF props
      <4>2. n \in Names /\ PairedIn(s, n) /\ ~s.inst[n].mounted
        BY <1>1, <4>1
      <4> HIDE DEF n
      <4>3. LET w == Construct(s, n, props)
            IN  /\ Touches(s, w, n) /\ w.ext = s.ext /\ w.ghost.again = FALSE /\ PairedIn(w, n)
                /\ LiveIn(reg, window, w, n) /\ FitIn(reg, window, w, n) /\ Tried(reg, w, n)
                /\ ~w.inst[n].mounted /\ ~w.inst[n].err /\ w.inst[n].due = "no"
                /\ w.inst[n].props = props /\ w.inst[n].state = {}
        BY <1>1, <4>2, Constructed, Zenon
      <4> QED
        BY <4>3 DEF n
    <3>2. u = made
      BY <2>1
    <3> HIDE DEF u, made
    <3> QED
      BY <3>1, <3>2
  <2>2. CASE i.mounted /\ fromPage
    <3>1. u = grown
      BY <2>2
    <3>2. i.props \subseteq props /\ LiveIn(reg, window, s, "part")
      BY <2>2 DEF PartBelongs, One
    <3>3. /\ j \in Instance /\ j.mounted = i.mounted /\ j.logic = i.logic /\ j.state = i.state
          /\ j.props = props /\ j.needsDidMount = i.needsDidMount /\ j.failed = i.failed
      <4> HIDE DEF i, props
      <4> QED
        BY <1>1 DEF Instance
    <3> HIDE DEF j
    <3>4. Touches(s, grown, "part") /\ grown.inst["part"] = j /\ grown.ghost = s.ghost
      BY <1>1, <3>3, WithInstance
    <3> HIDE DEF u, grown
    <3>5. PairedIn(grown, "part")
      BY <1>1, <3>3, <3>4 DEF PairedIn, Paired
    <3>6. LiveIn(reg, window, grown, "part")
      <4>1. Able(window, j.logic, j.props)
        BY <3>2, <3>3 DEF LiveIn, Live, Able
      <4>2. ASSUME NEW f \in s.ghost.failures["part"]
            PROVE  Remembered(reg["part"], j, f)
        <5>1. Remembered(reg["part"], i, f)
          BY <3>2 DEF LiveIn, Live
        <5> QED
          BY <3>2, <3>3, <5>1 DEF Remembered
      <4> QED
        BY <3>2, <3>3, <3>4, <4>1, <4>2 DEF LiveIn, Live, Hopeless
    <3> QED
      BY <2>2, <3>1, <3>3, <3>4, <3>5, <3>6
  <2>3. CASE i.mounted /\ ~fromPage
    <3>1. u = s
      BY <2>3
    <3> HIDE DEF u
    <3> QED
      BY <1>1, <2>3, <3>1 DEF Touches, One, PartBelongs
  <2> QED
    BY <2>1, <2>2, <2>3
<1> HIDE DEF u
<1>4. u \in Work
  BY <1>3 DEF Touches
<1>5. /\ Touches(u, q, "part") /\ q.ghost.again = FALSE /\ PairedIn(q, "part")
      /\ LiveIn(reg, window, q, "part") /\ q.inst["part"].props = u.inst["part"].props
      /\ ~q.inst["part"].err => /\ FitIn(reg, window, q, "part")
                                /\ Throws(q, "part") \/ BuiltIn(reg, window, q, "part")
  <2> HIDE DEF q
  <2> DEFINE n == "part"
  <2>1. /\ n \in Names /\ PairedIn(u, n) /\ LiveIn(reg, window, u, n)
        /\ u.inst[n].mounted \/ Tried(reg, u, n)
        /\ q = RenderOwn(u, n)
    BY <1>1, <1>3 DEF q
  <2> HIDE DEF n
  <2>2. /\ Touches(u, q, n) /\ q.ghost.again = FALSE /\ PairedIn(q, n)
        /\ LiveIn(reg, window, q, n) /\ q.inst[n].props = u.inst[n].props
        /\ ~q.inst[n].err => FitIn(reg, window, q, n) /\ (Throws(q, n) \/ BuiltIn(reg, window, q, n))
    BY <1>3, <1>4, <2>1, Rendered
  <2> QED
    BY <2>2 DEF n
<1> HIDE DEF q
<1>6. Touches(s, q, "part")
  BY <1>3, <1>5, TouchesTwice
<1> QED
  BY <1>2, <1>3, <1>5, <1>6 DEF Rendering

\* The page commits, last of all: then all is as it should be.
LEMMA PageCommits ==
    ASSUME NEW s \in Work, reg \in RegType, s.ghost.again = FALSE, Ready(reg, window, s, "page"),
           One(reg, window, s, "part"),
           s.inst["part"].mounted => s.inst["part"].props \subseteq s.inst["page"].state
    PROVE  Holds(reg, window, Commit(s, "page"))
<1> DEFINE n == "page"
           m == "part"
           t == Commit(s, n)
<1>1. n \in Names /\ m \in Names \ {n}
  BY DEF Names
<1>2. /\ Touches(s, t, n) /\ t.ghost.again = FALSE /\ One(reg, window, t, n)
      /\ t.inst[n].mounted /\ t.inst[n].state = s.inst[n].state
  <2>1. n \in Names /\ Ready(reg, window, s, n)
    BY <1>1
  <2> HIDE DEF n
  <2> QED
    BY <2>1, Committed
<1> HIDE DEF t
<1>3. One(reg, window, s, m) => One(reg, window, t, m)
  <2> HIDE DEF n, m
  <2> QED
    BY <1>1, <1>2, OthersKeep
<1>4. t.inst[m] = s.inst[m]
  BY <1>1, <1>2 DEF Touches
<1>5. PartBelongs(t)
  BY <1>2, <1>4 DEF PartBelongs
<1>6. \A k \in Names : One(reg, window, t, k)
  BY <1>2, <1>3 DEF Names
<1>7. t \in Work
  BY <1>2 DEF Touches
<1>8. Holds(reg, window, t)
  BY <1>2, <1>5, <1>6, <1>7 DEF Holds
<1> QED
  BY <1>8 DEF t

\* The page's own template throws and there is no boundary above it: React unmounts it all.
LEMMA BlankHolds ==
    ASSUME NEW s \in Work, reg \in RegType, s.ghost.again = FALSE,
           PairedIn(s, "page"), PairedIn(s, "part")
    PROVE  Holds(reg, window, Blank(s))
<1> DEFINE n == "page"
           m == "part"
           u == Unmount(s, m)
           v == Unmount(u, n)
           t == [v EXCEPT !.page = "blank"]
<1>1. n \in Names /\ m \in Names /\ n \in Names \ {m} /\ m \in Names \ {n} /\ PairedIn(s, n) /\ PairedIn(s, m)
  BY DEF Names
<1>2. Blank(s) = t
  BY DEF Blank
<1> HIDE DEF n, m
<1>3. /\ Touches(s, u, m) /\ u.ghost.again = s.ghost.again /\ One(reg, window, u, m)
      /\ ~u.inst[m].mounted
  BY <1>1, Unmounted
<1>4. u \in Work /\ PairedIn(u, n)
  BY <1>1, <1>3, OthersKeep DEF Touches
<1> HIDE DEF u
<1>5. /\ Touches(u, v, n) /\ v.ghost.again = u.ghost.again /\ One(reg, window, v, n)
  BY <1>1, <1>4, Unmounted
<1> HIDE DEF v
<1>6. One(reg, window, v, m) /\ v.inst[m] = u.inst[m]
  BY <1>1, <1>3, <1>4, <1>5, OthersKeep DEF Touches
<1>7. t \in Work /\ t.inst = v.inst /\ t.ghost = v.ghost /\ t.ext = v.ext
  BY <1>5 DEF Touches, Work
<1> HIDE DEF t
<1>8. ASSUME NEW k \in Names, One(reg, window, v, k)
      PROVE  One(reg, window, t, k)
  BY <1>7, <1>8 DEF One, PairedIn, LiveIn, FitIn, BuiltIn
<1>9. \A k \in Names : One(reg, window, t, k)
  BY <1>5, <1>6, <1>8 DEF Names, n, m
<1>10. PartBelongs(t)
  BY <1>3, <1>6, <1>7 DEF PartBelongs, m
<1> QED
  BY <1>2, <1>3, <1>5, <1>7, <1>9, <1>10 DEF Holds

\* A pass leaves everything as it should be, whoever threw and whoever was unmounted.
LEMMA PassHolds ==
    ASSUME NEW s, reg \in RegType, Holds(reg, window, s)
    PROVE  Holds(reg, window, Pass(s))
<1> DEFINE n == "page"
           m == "part"
           fromPage == ~s.inst["page"].mounted \/ s.inst["page"].due # "no"
           p == IF fromPage THEN RenderPage(s) ELSE s
           q == RenderPart(p, fromPage)
<1>1. /\ s \in Work /\ s.ghost.again = FALSE /\ PartBelongs(s)
      /\ One(reg, window, s, n) /\ One(reg, window, s, m)
      /\ n \in Names /\ m \in Names /\ n \in Names \ {m} /\ m \in Names \ {n}
  BY DEF Holds, Work, GhostType, Names
<1>2. Pass(s) = IF fromPage /\ Throws(p, n) THEN Blank(p)
                ELSE IF ~HasPart(p) THEN CommitAll(Unmount(p, m), {n})
                ELSE IF Throws(q, m) THEN PartThrew(q)
                ELSE CommitAll(q, IF fromPage THEN Names ELSE {m})
  BY DEF Pass
<1>3. /\ p \in Work /\ p.ghost.again = FALSE /\ PartBelongs(p) /\ One(reg, window, p, m)
      /\ PairedIn(p, n) /\ LiveIn(reg, window, p, n)
      /\ ~(fromPage /\ Throws(p, n)) => Ready(reg, window, p, n)
      /\ ~fromPage => One(reg, window, p, n) /\ p.inst[n].mounted
  <2>1. CASE fromPage
    <3>1. Rendering(reg, window, s, p, "page") /\ PartBelongs(p)
      BY <2>1, RenderedPage
    <3> HIDE DEF p
    <3>2. /\ Touches(s, p, n) /\ p.ghost.again = FALSE /\ PairedIn(p, n) /\ LiveIn(reg, window, p, n)
          /\ ~p.inst[n].err => FitIn(reg, window, p, n) /\ (Throws(p, n) \/ BuiltIn(reg, window, p, n))
      BY <3>1 DEF Rendering
    <3>3. One(reg, window, p, m)
      <4> HIDE DEF n, m
      <4> QED
        BY <1>1, <3>2, OthersKeep
    <3> QED
      BY <2>1, <3>1, <3>2, <3>3 DEF Touches, Ready
  <2>2. CASE ~fromPage
    <3>1. p = s /\ s.inst[n].mounted /\ s.inst[n].due = "no"
      BY <2>2
    <3> HIDE DEF p, fromPage
    <3>2. Ready(reg, window, s, n)
      BY <1>1, <3>1 DEF One, Resting, Ready
    <3> QED
      BY <1>1, <2>2, <3>1, <3>2 DEF Ready
  <2> QED
    BY <2>1, <2>2
<1>4. fromPage \in BOOLEAN
  OBVIOUS
<1> HIDE DEF p, fromPage
<1>5. CASE fromPage /\ Throws(p, n)
  <2>1. PairedIn(p, m)
    BY <1>3 DEF One
  <2>2. Holds(reg, window, Blank(p))
    BY <1>3, <2>1, BlankHolds
  <2> QED
    BY <1>2, <1>5, <2>2
<1>6. CASE ~(fromPage /\ Throws(p, n)) /\ ~HasPart(p)
  <2> DEFINE u == Unmount(p, m)
  <2>1. Pass(s) = Commit(u, n)
    BY <1>2, <1>6 DEF CommitAll
  <2>2. PairedIn(p, m) /\ Ready(reg, window, p, n)
    BY <1>3, <1>6 DEF One
  <2>3. /\ Touches(p, u, m) /\ u.ghost.again = FALSE /\ One(reg, window, u, m) /\ ~u.inst[m].mounted
    <3> HIDE DEF n, m
    <3> QED
      BY <1>1, <1>3, <2>2, Unmounted
  <2> HIDE DEF u
  <2>4. Ready(reg, window, u, n)
    <3> HIDE DEF n, m
    <3> QED
      BY <1>1, <1>3, <2>2, <2>3, OthersKeep
  <2>5. u \in Work
    BY <2>3 DEF Touches
  <2>6. Holds(reg, window, Commit(u, n))
    BY <2>3, <2>4, <2>5, PageCommits
  <2> QED
    BY <2>1, <2>6
<1>7. /\ Touches(p, q, m) /\ q.ghost.again = FALSE /\ PairedIn(q, m) /\ LiveIn(reg, window, q, m)
      /\ ~q.inst[m].err => FitIn(reg, window, q, m) /\ (Throws(q, m) \/ BuiltIn(reg, window, q, m))
      /\ q.inst[m].props \subseteq p.inst[n].state
  <2>1. Rendering(reg, window, p, q, "part") /\ q.inst["part"].props \subseteq p.inst["page"].state
    BY <1>3, <1>4, RenderedPart
  <2> QED
    BY <2>1 DEF Rendering
<1> HIDE DEF q
<1>8. /\ q \in Work /\ q.inst[n] = p.inst[n] /\ PairedIn(q, n) /\ LiveIn(reg, window, q, n)
      /\ Ready(reg, window, p, n) => Ready(reg, window, q, n)
      /\ One(reg, window, p, n) => One(reg, window, q, n)
  <2> HIDE DEF n, m
  <2> QED
    BY <1>1, <1>3, <1>7, OthersKeep DEF Touches
<1>9. CASE ~(fromPage /\ Throws(p, n)) /\ HasPart(p) /\ Throws(q, m)
  <2> DEFINE u == Unmount(q, m)
             i == u.inst[n]
             j == [i EXCEPT !.err = TRUE]
             t == [u EXCEPT !.inst[n] = j]
  <2>1. Pass(s) = Commit([u EXCEPT !.inst[n].err = TRUE], n)
    BY <1>2, <1>9 DEF PartThrew, CommitAll
  <2>2. /\ Touches(q, u, m) /\ u.ghost.again = FALSE /\ One(reg, window, u, m) /\ ~u.inst[m].mounted
    <3> HIDE DEF n, m
    <3> QED
      BY <1>1, <1>7, <1>8, Unmounted
  <2> HIDE DEF u
  <2>3. u \in Work /\ PairedIn(u, n) /\ LiveIn(reg, window, u, n)
    <3> HIDE DEF n, m
    <3> QED
      BY <1>1, <1>8, <2>2, OthersKeep DEF Touches
  <2>4. [u EXCEPT !.inst[n].err = TRUE] = t
    BY <2>3 DEF Work
  <2>5. /\ j \in Instance /\ j.err /\ j.mounted = i.mounted /\ j.logic = i.logic
        /\ j.state = i.state /\ j.props = i.props /\ j.needsDidMount = i.needsDidMount
        /\ j.failed = i.failed
    <3>1. i \in Instance
      BY <1>1, <2>3 DEF Work
    <3> HIDE DEF i
    <3> QED
      BY <3>1 DEF Instance
  <2> HIDE DEF j
  <2>6. Touches(u, t, n) /\ t.inst[n] = j /\ t.ghost = u.ghost
    <3> HIDE DEF n
    <3> QED
      BY <1>1, <2>3, <2>5, WithInstance
  <2> HIDE DEF t
  <2>7. Ready(reg, window, t, n)
    BY <2>3, <2>5, <2>6 DEF Ready, LiveIn, Live, Hopeless, Remembered, PairedIn, Paired
  <2>8. One(reg, window, t, m) /\ t.inst[m] = u.inst[m] /\ t \in Work
    <3> HIDE DEF n, m
    <3> QED
      BY <1>1, <2>2, <2>3, <2>6, OthersKeep DEF Touches
  <2>9. Holds(reg, window, Commit(t, n))
    BY <2>2, <2>6, <2>7, <2>8, PageCommits
  <2> QED
    BY <2>1, <2>4, <2>9
<1>10. CASE ~(fromPage /\ Throws(p, n)) /\ HasPart(p) /\ ~Throws(q, m)
  <2> DEFINE t == Commit(q, m)
  <2>1. Pass(s) = IF fromPage THEN Commit(t, n) ELSE t
    BY <1>2, <1>10 DEF CommitAll, Names
  <2>2. Ready(reg, window, q, m)
    BY <1>7, <1>10 DEF Ready
  <2>3. /\ Touches(q, t, m) /\ t.ghost.again = FALSE /\ One(reg, window, t, m)
        /\ t.inst[m].mounted /\ t.inst[m].props = q.inst[m].props
    <3> HIDE DEF n, m
    <3> QED
      BY <1>1, <1>7, <1>8, <2>2, Committed
  <2> HIDE DEF t
  <2>4. /\ t \in Work /\ t.inst[n] = q.inst[n] /\ Ready(reg, window, t, n)
        /\ One(reg, window, q, n) => One(reg, window, t, n)
    <3> HIDE DEF n, m
    <3> QED
      BY <1>1, <1>3, <1>8, <1>10, <2>3, OthersKeep DEF Touches
  <2>5. t.inst[m].props \subseteq t.inst[n].state
    BY <1>7, <1>8, <2>3, <2>4
  <2>6. CASE fromPage
    <3>1. Holds(reg, window, Commit(t, n))
      BY <2>3, <2>4, <2>5, PageCommits
    <3> QED
      BY <2>1, <2>6, <3>1
  <2>7. CASE ~fromPage
    <3>1. One(reg, window, t, n) /\ t.inst[n].mounted
      BY <1>3, <1>8, <2>4, <2>7
    <3>2. PartBelongs(t)
      BY <2>5, <3>1 DEF PartBelongs
    <3>3. \A k \in Names : One(reg, window, t, k)
      BY <2>3, <3>1 DEF Names
    <3>4. Holds(reg, window, t)
      BY <2>3, <2>4, <3>2, <3>3 DEF Holds
    <3> QED
      BY <2>1, <2>7, <3>4
  <2> QED
    BY <2>6, <2>7
<1> QED
  BY <1>5, <1>6, <1>9, <1>10

-----------------------------------------------------------------------------
(* The registry changes. *)

\* The entries of names are bumped, from what f makes of them; so are their instances.
Bumped(f, names) == [n \in Names |-> [f[n] EXCEPT !.ver = IF n \in names THEN @ + 1 ELSE @]]
Due(i, told) == [i EXCEPT !.due = IF told /\ i.mounted THEN "bump" ELSE @]

\* A registry that is bumped is one; nothing of it is younger than it was.
LEMMA BumpedTyped ==
    ASSUME NEW f \in RegType, NEW names
    PROVE  LET q == Bumped(f, names)
           IN  q \in RegType /\ \A n \in Names : IF n \in names THEN q[n].ver = f[n].ver + 1 ELSE q[n] = f[n]
<1> DEFINE q == Bumped(f, names)
<1>1. ASSUME NEW n \in Names
      PROVE  q[n] \in EntryType /\ IF n \in names THEN q[n].ver = f[n].ver + 1 ELSE q[n] = f[n]
  <2> DEFINE e == f[n]
             ver == IF n \in names THEN e.ver + 1 ELSE e.ver
  <2>1. e \in EntryType
    BY DEF RegType
  <2>2. q[n] = [e EXCEPT !.ver = ver]
    BY DEF Bumped
  <2> HIDE DEF e, q
  <2>3. ver \in Nat
    BY <2>1 DEF EntryType
  <2> QED
    BY <2>1, <2>2, <2>3 DEF EntryType, e
<1>2. DOMAIN q = Names /\ q = [n \in Names |-> q[n]]
  BY DEF Bumped
<1> HIDE DEF q
<1>3. q \in RegType
  BY <1>1, <1>2 DEF RegType
<1> QED
  BY <1>1, <1>3 DEF q

\* An instance that is told of a bump is due, and stays what it was in all else.
LEMMA DueTyped ==
    ASSUME NEW i \in Instance, NEW told \in BOOLEAN
    PROVE  LET j == Due(i, told)
           IN  /\ j \in Instance /\ j.mounted = i.mounted /\ j.logic = i.logic /\ j.state = i.state
               /\ j.props = i.props /\ j.needsDidMount = i.needsDidMount /\ j.failed = i.failed
               /\ j.err = i.err /\ j.view = i.view
               /\ told /\ i.mounted => j.due = "bump"
               /\ ~told => j = i
<1> DEFINE due == IF told /\ i.mounted THEN "bump" ELSE i.due
           j == [i EXCEPT !.due = due]
<1>1. Due(i, told) = j
  BY DEF Due
<1>2. due \in {"no", "bump", "state"} /\ (told /\ i.mounted => due = "bump") /\ (~told => due = i.due)
  BY DEF Instance
<1> HIDE DEF due
<1> QED
  BY <1>1, <1>2 DEF Instance

\* After a bump everything is as it should be: what is bumped has yet to render, its failures
\* no longer count, and what is not sees no difference.  More globals may be defined if all
\* of the registry is bumped.
LEMMA BumpHolds ==
    ASSUME NEW s, NEW t \in Work, NEW r \in RegType, NEW q \in RegType, NEW win, NEW wider, NEW names,
           Holds(r, win, s), win \subseteq wider,
           \A n \in Names : t.inst[n] = Due(s.inst[n], n \in names),
           \A n \in Names : IF n \in names THEN q[n].ver = r[n].ver + 1 ELSE q[n] = r[n],
           t.ghost.open = s.ghost.open, t.ghost.state = s.ghost.state,
           t.ghost.failures = s.ghost.failures, t.ghost.again = s.ghost.again,
           t.ghost.byPage = s.ghost.byPage,
           \/ \A n \in Names : n \in names
           \/ /\ wider = win /\ t.ext.poll = s.ext.poll
              /\ \A im \in ImportType : Shows(t.ext, win, im) = Shows(s.ext, win, im)
    PROVE  Holds(q, wider, t)
<1>1. s \in Work
  BY DEF Holds
<1>2. ASSUME NEW n \in Names
      PROVE  One(q, wider, t, n)
  <2> DEFINE i == s.inst[n]
             j == t.inst[n]
             told == n \in names
  <2>1. One(r, win, s, n) /\ i \in Instance /\ r[n] \in EntryType /\ q[n] \in EntryType
    BY <1>1 DEF Holds, Work, RegType
  <2>2. /\ j \in Instance /\ j.mounted = i.mounted /\ j.logic = i.logic /\ j.state = i.state
        /\ j.props = i.props /\ j.needsDidMount = i.needsDidMount /\ j.failed = i.failed
        /\ j.err = i.err /\ j.view = i.view
        /\ told /\ i.mounted => j.due = "bump"
        /\ ~told => j = i
    <3>1. j = Due(i, told) /\ told \in BOOLEAN
      OBVIOUS
    <3> HIDE DEF i, j, told
    <3> QED
      BY <2>1, <3>1, DueTyped
  <2>3. PairedIn(t, n)
    BY <2>1, <2>2 DEF One, PairedIn, Paired
  <2>4. ASSUME told
        PROVE  One(q, wider, t, n)
    <3>1. q[n].ver = r[n].ver + 1 /\ r[n].ver \in Nat
      BY <2>1, <2>4 DEF EntryType
    <3>2. ASSUME LiveIn(r, win, s, n)
          PROVE  LiveIn(q, wider, t, n)
      <4>1. /\ j.state = t.ghost.state[n] /\ Able(wider, j.logic, j.props)
        BY <2>2, <3>2 DEF LiveIn, Live, Able
      <4>2. j.failed.ver <= q[n].ver /\ j.failed.ver # q[n].ver
        <5>1. i.failed.ver \in Nat /\ i.failed.ver <= r[n].ver
          BY <2>1, <3>2 DEF LiveIn, Live, Instance, Failure
        <5> QED
          BY <2>2, <3>1, <5>1
      <4>3. Hopeless(q[n], wider, j, t.ghost.byPage)
        BY <4>2 DEF Hopeless
      <4>4. ASSUME NEW f \in s.ghost.failures[n]
            PROVE  Remembered(q[n], j, f)
        <5>1. f.ver <= r[n].ver
          BY <3>2 DEF LiveIn, Live, Remembered
        <5>2. f.ver \in Nat
          BY <1>1 DEF Work, GhostType, Failure
        <5> QED
          BY <3>1, <5>1, <5>2 DEF Remembered
      <4> QED
        BY <4>1, <4>2, <4>3, <4>4 DEF LiveIn, Live
    <3>3. ~Resting(j)
      BY <2>2, <2>4 DEF Resting
    <3> QED
      BY <2>1, <2>2, <2>3, <3>2, <3>3 DEF One
  <2>5. ASSUME ~told
        PROVE  One(q, wider, t, n)
    <3>1. j = i /\ q[n] = r[n] /\ wider = win /\ t.ext.poll = s.ext.poll
      BY <2>2, <2>5
    <3>2. LiveIn(r, win, s, n) => LiveIn(q, wider, t, n)
      BY <3>1 DEF LiveIn
    <3>3. FitIn(r, win, s, n) => FitIn(q, wider, t, n)
      BY <3>1 DEF FitIn
    <3>4. BuiltIn(r, win, s, n) => BuiltIn(q, wider, t, n)
      <4> SUFFICES ASSUME BuiltIn(r, win, s, n), r[n].tpl # NoTemplate
                   PROVE  BuiltIn(q, wider, t, n)
        BY <3>1 DEF BuiltIn, Built
      <4> DEFINE T == r[n].tpl
      <4>1. T.externals \in Seq(ImportType)
        BY <2>1, TemplatesAssumption DEF EntryType, AllTemplates, ImportType
      <4>2. ASSUME NEW k \in DOMAIN T.externals
            PROVE  /\ Shown(j.view.externals[k], t.ext, wider, t.ghost.byPage, T.externals[k])
                   /\ Awaits(t.ext, wider, T.externals[k])
        <5> DEFINE im == T.externals[k]
        <5>1. im \in ImportType
          <6> HIDE DEF T
          <6> QED
            BY <4>1
        <5>2. Shown(i.view.externals[k], s.ext, win, s.ghost.byPage, im) /\ Awaits(s.ext, win, im)
          BY DEF BuiltIn, Built
        <5> HIDE DEF im
        <5>3. Shows(t.ext, win, im) = Shows(s.ext, win, im)
          BY <2>5, <5>1
        <5> HIDE DEF i, j
        <5>4. Shown(j.view.externals[k], t.ext, wider, t.ghost.byPage, im) /\ Awaits(t.ext, wider, im)
          BY <3>1, <5>2, <5>3 DEF Shown, Awaits
        <5> QED
          BY <5>4 DEF im
      <4>3. i.view.tpl = T
        BY DEF BuiltIn, Built
      <4> QED
        BY <3>1, <4>2, <4>3 DEF BuiltIn, Built
    <3> QED
      BY <2>1, <2>3, <3>1, <3>2, <3>3, <3>4 DEF One
  <2> QED
    BY <2>4, <2>5
<1>3. PartBelongs(t)
  <2>1. \A n \in Names : /\ t.inst[n].mounted = s.inst[n].mounted /\ t.inst[n].props = s.inst[n].props
                         /\ t.inst[n].state = s.inst[n].state
    <3> TAKE n \in Names
    <3> DEFINE i == s.inst[n]
               told == n \in names
    <3>1. i \in Instance /\ told \in BOOLEAN /\ t.inst[n] = Due(i, told)
      BY <1>1 DEF Work
    <3> HIDE DEF i, told
    <3>2. t.inst[n].mounted = i.mounted /\ t.inst[n].props = i.props /\ t.inst[n].state = i.state
      BY <3>1, DueTyped
    <3> QED
      BY <3>2 DEF i
  <2> QED
    BY <2>1 DEF Holds, PartBelongs, Names
<1> QED
  BY <1>2, <1>3 DEF Holds

-----------------------------------------------------------------------------
(* The modules. *)

\* In a set of places there is an earliest.
LEMMA Earliest ==
    ASSUME NEW T, T \subseteq Nat \X Nat, T # {}
    PROVE  \E p \in T : \A q \in T : ~Earlier(q, p)
<1> DEFINE R == OpToRel(<, Nat)
           L == LexPairOrdering(R, R, Nat, Nat)
<1>1. IsWellFoundedOn(R, Nat)
  BY NatLessThanWellFounded
<1>2. R = {ss \in Nat \X Nat : ss[1] < ss[2]}
  BY DEF OpToRel
<1> HIDE DEF R
<1>3. IsWellFoundedOn(L, Nat \X Nat)
  BY <1>1, WFLexPairOrdering
<1>4. ASSUME NEW p \in Nat \X Nat, NEW q \in Nat \X Nat, Earlier(q, p)
      PROVE  <<q, p>> \in L
  <2>1. p[1] \in Nat /\ p[2] \in Nat /\ q[1] \in Nat /\ q[2] \in Nat
    BY <1>4
  <2>2. <<q[1], p[1]>> \in R \/ (q[1] = p[1] /\ <<q[2], p[2]>> \in R)
    BY <1>2, <1>4, <2>1 DEF Earlier
  <2> QED
    BY <2>2 DEF LexPairOrdering
<1> HIDE DEF L
<1>5. \E p \in T : \A q \in T : ~(<<q, p>> \in L)
  BY <1>3, WFMin
<1> QED
  BY <1>4, <1>5

\* The modules that a template asks for are modules.
LEMMA RequestsTyped ==
    ASSUME NEW imports \in Seq(ImportType), NEW p \in Requests(imports)
    PROVE  /\ p \in Nat \X Nat /\ UrlAt(imports, p) \in Urls
           /\ p[2] # 1 => UrlAt(imports, <<p[1], p[2] - 1>>) \in Urls
<1>1. PICK k \in DOMAIN imports : p \in {k} \X DOMAIN imports[k].urls
  BY DEF Requests
<1>2. p[1] = k /\ p[2] \in DOMAIN imports[k].urls /\ p = <<p[1], p[2]>>
  BY <1>1
<1>3. k \in Nat /\ imports[k] \in ImportType
  OBVIOUS
<1> DEFINE urls == imports[k].urls
           j == p[2]
<1>4. urls \in Seq(Urls)
  BY <1>3 DEF ImportType
<1>5. j \in DOMAIN urls
  BY <1>2
<1>6. /\ UrlAt(imports, p) = urls[j] /\ UrlAt(imports, <<p[1], p[2] - 1>>) = urls[j - 1]
  BY <1>2 DEF UrlAt
<1>7. p = <<k, j>>
  BY <1>2
<1> HIDE DEF urls, j
<1>8. j \in Nat /\ urls[j] \in Urls /\ (j # 1 => urls[j - 1] \in Urls)
  BY <1>4, <1>5
<1> QED
  BY <1>3, <1>6, <1>7, <1>8

\* The module that one is to follow is a module, if there is one.
LEMMA PredecessorTyped ==
    ASSUME NEW imports \in Seq(ImportType), NEW u \in {UrlAt(imports, p) : p \in Requests(imports)}
    PROVE  Predecessor(imports, u) \in Urls \cup {NoUrl}
<1> DEFINE T == {p \in Requests(imports) : UrlAt(imports, p) = u}
           First(r) == /\ UrlAt(imports, r) = u
                       /\ \A q \in Requests(imports) : Earlier(q, r) => UrlAt(imports, q) # u
           p == CHOOSE r \in Requests(imports) : First(r)
<1>1. T \subseteq Nat \X Nat /\ T # {}
  BY RequestsTyped
<1>2. \E r \in T : \A q \in T : ~Earlier(q, r)
  <2> HIDE DEF T
  <2> QED
    BY <1>1, Earliest
<1>3. \E r \in Requests(imports) : First(r)
  BY <1>2
<1>4. p \in Requests(imports)
  BY <1>3
<1>5. Predecessor(imports, u) = IF p[2] = 1 THEN NoUrl ELSE UrlAt(imports, <<p[1], p[2] - 1>>)
  BY DEF Predecessor
<1> HIDE DEF p
<1> QED
  BY <1>4, <1>5, RequestsTyped

\* Loading what a template imports settles nothing, and ends no poll.
LEMMA LoadsTyped ==
    ASSUME NEW x \in ExtType, NEW imports \in Seq(ImportType)
    PROVE  LET y == LoadAll(x, imports)
           IN  /\ y \in ExtType /\ y.poll = x.poll
               /\ \A win : \A im \in ImportType : Shows(y, win, im) = Shows(x, win, im)
<1> DEFINE new == {u \in {UrlAt(imports, p) : p \in Requests(imports)} : x.status[u] = "absent"}
           status == [u \in Urls |-> IF u \in new THEN "loading" ELSE x.status[u]]
           after == [u \in Urls |-> IF u \in new THEN Predecessor(imports, u) ELSE x.after[u]]
           babel == IF x.babel = "absent" /\ new \cap Jsx # {} THEN "loading" ELSE x.babel
           y == [x EXCEPT !.status = status, !.after = after, !.babel = babel]
<1>1. LoadAll(x, imports) = y
  BY DEF LoadAll
<1>2. status \in [Urls -> {"absent", "loading", "loaded", "failed"}]
  BY DEF ExtType
<1>3. after \in [Urls -> Urls \cup {NoUrl}]
  BY PredecessorTyped DEF ExtType
<1>4. babel \in {"absent", "loading", "ready", "failed"}
  BY DEF ExtType
<1>5. \A u \in Urls : /\ status[u] \in {"loaded", "failed"} <=> x.status[u] \in {"loaded", "failed"}
                      /\ status[u] = "loaded" <=> x.status[u] = "loaded"
  OBVIOUS
<1> HIDE DEF status, after, babel
<1>6. y \in ExtType /\ y.poll = x.poll /\ y.status = status
  BY <1>2, <1>3, <1>4 DEF ExtType
<1> HIDE DEF y
<1>7. ASSUME NEW win, NEW im \in ImportType
      PROVE  Shows(y, win, im) = Shows(x, win, im)
  <2>1. LastUrl(im) \in Urls \cup {NoUrl}
    <3> DEFINE urls == im.urls
    <3>1. urls \in Seq(Urls)
      BY DEF ImportType
    <3>2. LastUrl(im) = IF urls = <<>> THEN NoUrl ELSE urls[Len(urls)]
      BY DEF LastUrl, Last
    <3> HIDE DEF urls
    <3> QED
      BY <3>1, <3>2
  <2> DEFINE u == LastUrl(im)
  <2>2. u # NoUrl => /\ Settled(y, u) <=> Settled(x, u)
                     /\ y.status[u] = "loaded" <=> x.status[u] = "loaded"
    BY <1>5, <1>6, <2>1 DEF Settled
  <2> HIDE DEF u
  <2>3. ResolveGlobal(y, win, im) = ResolveGlobal(x, win, im)
    BY <2>2 DEF ResolveGlobal, u
  <2>4. ResolveExternal(y, win, im) = ResolveExternal(x, win, im)
    BY <2>2 DEF ResolveExternal, GetError, Provides, u
  <2> QED
    BY <2>3, <2>4 DEF Shows
<1> QED
  BY <1>1, <1>6, <1>7

-----------------------------------------------------------------------------
(* The steps. *)

\* A step of the registry, for the record of the state.
LEMMA BumpStep ==
    ASSUME IInv, NEW names, NEW f \in RegType, Bump(names, f), page' = page, ext' \in ExtType,
           ghost' \in GhostType, window' \subseteq Globals, window \subseteq window',
           \A n \in Names : n \notin names => f[n] = reg[n],
           \A n \in Names : f[n].ver = reg[n].ver,
           ghost'.open = ghost.open, ghost'.state = ghost.state,
           ghost'.failures = ghost.failures, ghost'.again = ghost.again,
           ghost'.byPage = ghost.byPage,
           \/ \A n \in Names : n \in names
           \/ /\ window' = window /\ ext'.poll = ext.poll
              /\ \A im \in ImportType : Shows(ext', window, im) = Shows(ext, window, im)
    PROVE  IInv'
<1> DEFINE s == Now
           t == [inst |-> inst', page |-> page', ext |-> ext', ghost |-> ghost']
           q == reg'
           wider == window'
<1>1. /\ s \in Work /\ reg \in RegType /\ Holds(reg, window, s)
      /\ s.inst = inst /\ s.ghost = ghost /\ s.ext = ext /\ s.page = page
  BY DEF IInv, Holds, Now
<1>2. q = Bumped(f, names)
  BY DEF Bump, Bumped
<1>3. q \in RegType /\ \A n \in Names : IF n \in names THEN q[n].ver = f[n].ver + 1 ELSE q[n] = f[n]
  <2> HIDE DEF q
  <2> QED
    BY <1>2, BumpedTyped
<1>4. inst' = [n \in Names |-> Due(inst[n], n \in names)]
  BY DEF Bump, Due
<1>5. \A n \in Names : Due(inst[n], n \in names) \in Instance
  <2> TAKE n \in Names
  <2> DEFINE told == n \in names
             i == inst[n]
  <2>1. told \in BOOLEAN /\ i \in Instance
    BY <1>1 DEF Work
  <2> HIDE DEF told, i
  <2>2. Due(i, told) \in Instance
    BY <2>1, DueTyped
  <2> QED
    BY <2>2 DEF told, i
<1>6. t \in Work
  BY <1>1, <1>4, <1>5 DEF Work
<1>7. /\ t.inst = inst' /\ t.ghost = ghost' /\ t.ext = ext'
  OBVIOUS
<1>8. \A n \in Names : t.inst[n] = Due(s.inst[n], n \in names)
  BY <1>1, <1>4
<1>9. \A n \in Names : IF n \in names THEN q[n].ver = reg[n].ver + 1 ELSE q[n] = reg[n]
  BY <1>3
<1>10. Now' = t
  BY DEF Now
<1> HIDE DEF s, t, q, wider
<1>11. Holds(q, wider, t)
  BY <1>1, <1>3, <1>6, <1>7, <1>8, <1>9, BumpHolds DEF wider
<1> QED
  BY <1>3, <1>10, <1>11 DEF IInv, q, wider

\* The types of the parts of the state.
LEMMA Typed ==
    ASSUME IInv
    PROVE  /\ reg \in RegType /\ inst \in [Names -> Instance] /\ ext \in ExtType
           /\ ghost \in GhostType /\ page \in {"new", "shown", "blank"} /\ window \subseteq Globals
BY DEF IInv, Holds, Now, Work

\* A template is pushed, or a logic.
LEMMA Pushes ==
    ASSUME IInv, NEW n \in Names,
           \/ \E t \in Templates : PushTemplate(n, t)
           \/ \E class \in Classes : PushLogic(n, class)
    PROVE  IInv'
<1>1. ASSUME Pushed
      PROVE  /\ ghost' \in GhostType /\ ghost'.open = ghost.open /\ ghost'.state = ghost.state
             /\ ghost'.failures = ghost.failures /\ ghost'.again = ghost.again
             /\ ghost'.byPage = ghost.byPage
  <2>1. ghost \in GhostType
    BY Typed
  <2> QED
    BY <1>1, <2>1 DEF Pushed, GhostType
<1>2. ASSUME NEW t \in Templates, PushTemplate(n, t)
      PROVE  IInv'
  <2> DEFINE f == [reg EXCEPT ![n].tpl = t]
             e == [reg[n] EXCEPT !.tpl = t]
  <2>1. reg \in RegType /\ ext \in ExtType
    BY Typed
  <2>2. e \in EntryType /\ e.ver = reg[n].ver
    <3> DEFINE d == reg[n]
    <3>1. d \in EntryType
      BY <2>1 DEF RegType
    <3> HIDE DEF d
    <3>2. [d EXCEPT !.tpl = t] \in EntryType /\ [d EXCEPT !.tpl = t].ver = d.ver
      BY <3>1 DEF EntryType, AllTemplates
    <3> QED
      BY <3>2 DEF d
  <2>3. f = [reg EXCEPT ![n] = e]
    BY <2>1 DEF RegType
  <2> HIDE DEF e
  <2>4. f \in RegType /\ \A m \in Names : (m # n => f[m] = reg[m]) /\ f[m].ver = reg[m].ver
    BY <2>1, <2>2, <2>3 DEF RegType
  <2> HIDE DEF f
  <2>5. t.externals \in Seq(ImportType)
    BY TemplatesAssumption DEF ImportType
  <2>6. /\ Pushed /\ Bump({n}, f) /\ ext' = LoadAll(ext, t.externals)
        /\ window' = window /\ page' = page
    BY <1>2 DEF PushTemplate, f
  <2>7. /\ ext' \in ExtType /\ ext'.poll = ext.poll
        /\ \A im \in ImportType : Shows(ext', window, im) = Shows(ext, window, im)
    BY <2>1, <2>5, <2>6, LoadsTyped
  <2>8. window' \subseteq Globals /\ window \subseteq window'
    BY <2>6, Typed
  <2> QED
    BY <1>1, <2>4, <2>6, <2>7, <2>8, BumpStep
<1>3. ASSUME NEW class \in Classes, PushLogic(n, class)
      PROVE  IInv'
  <2> DEFINE f == [reg EXCEPT ![n].Logic = class]
             e == [reg[n] EXCEPT !.Logic = class]
  <2>1. reg \in RegType /\ ext \in ExtType
    BY Typed
  <2>2. e \in EntryType /\ e.ver = reg[n].ver
    <3> DEFINE d == reg[n]
    <3>1. d \in EntryType
      BY <2>1 DEF RegType
    <3> HIDE DEF d
    <3>2. [d EXCEPT !.Logic = class] \in EntryType /\ [d EXCEPT !.Logic = class].ver = d.ver
      BY <3>1 DEF EntryType, AllClasses
    <3> QED
      BY <3>2 DEF d
  <2>3. f = [reg EXCEPT ![n] = e]
    BY <2>1 DEF RegType
  <2> HIDE DEF e
  <2>4. f \in RegType /\ \A m \in Names : (m # n => f[m] = reg[m]) /\ f[m].ver = reg[m].ver
    BY <2>1, <2>2, <2>3 DEF RegType
  <2> HIDE DEF f
  <2>5. Pushed /\ Bump({n}, f) /\ ext' = ext /\ window' = window /\ page' = page
    BY <1>3 DEF PushLogic, f
  <2>6. window' \subseteq Globals /\ window \subseteq window'
    BY <2>5, Typed
  <2> QED
    BY <1>1, <2>1, <2>4, <2>5, <2>6, BumpStep
<1> QED
  BY <1>2, <1>3

\* A module ran or failed, or a global is found: everything is told.
LEMMA Tells ==
    ASSUME IInv,
           \/ \E u \in Urls : ModuleRan(u) \/ ModuleFailed(u)
           \/ \E g \in Globals : GlobalFound(g)
    PROVE  IInv'
<1>1. reg \in RegType /\ ext \in ExtType /\ ghost \in GhostType /\ window \subseteq Globals
  BY Typed
<1>2. ASSUME OnResolved, page' = page, ghost' = ghost, ext' \in ExtType, window' \subseteq Globals,
             window \subseteq window'
      PROVE  IInv'
  BY <1>1, <1>2, BumpStep DEF OnResolved
<1>3. ASSUME NEW u \in Urls, NEW became \in {"loaded", "failed"}, ext' = [ext EXCEPT !.status[u] = became]
      PROVE  ext' \in ExtType
  <2> DEFINE status == [ext.status EXCEPT ![u] = became]
  <2>1. status \in [Urls -> {"absent", "loading", "loaded", "failed"}]
    BY <1>1 DEF ExtType
  <2>2. ext' = [ext EXCEPT !.status = status]
    BY <1>3
  <2> HIDE DEF status
  <2> QED
    BY <1>1, <2>1, <2>2 DEF ExtType
<1>4. ASSUME NEW u \in Urls, ModuleRan(u)
      PROVE  IInv'
  <2>1. /\ ext' = [ext EXCEPT !.status[u] = "loaded"] /\ window' = window \cup Defines[u]
        /\ OnResolved /\ page' = page /\ ghost' = ghost
    BY <1>4 DEF ModuleRan, ModuleRuns
  <2>2. Defines[u] \subseteq Globals
    BY ModulesAssumption
  <2> QED
    BY <1>1, <1>2, <1>3, <2>1, <2>2
<1>5. ASSUME NEW u \in Urls, ModuleFailed(u)
      PROVE  IInv'
  <2>1. /\ ext' = [ext EXCEPT !.status[u] = "failed"] /\ window' = window
        /\ OnResolved /\ page' = page /\ ghost' = ghost
    BY <1>5 DEF ModuleFailed, ModuleFails
  <2> QED
    BY <1>1, <1>2, <1>3, <2>1
<1>6. ASSUME NEW g \in Globals, GlobalFound(g)
      PROVE  IInv'
  <2>1. /\ ext' = [ext EXCEPT !.poll[g] = "no"] /\ window' = window
        /\ OnResolved /\ page' = page /\ ghost' = ghost
    BY <1>6 DEF GlobalFound, PollFinds
  <2> DEFINE poll == [ext.poll EXCEPT ![g] = "no"]
  <2>2. poll \in [Globals -> {"no", "polling", "over"}]
    BY <1>1 DEF ExtType
  <2>3. ext' = [ext EXCEPT !.poll = poll]
    BY <2>1
  <2> HIDE DEF poll
  <2>4. ext' \in ExtType
    BY <1>1, <2>2, <2>3 DEF ExtType
  <2> QED
    BY <1>1, <1>2, <2>1, <2>4
<1> QED
  BY <1>4, <1>5, <1>6

\* A global is defined by a script of the page: whoever waits for it is polled for.
LEMMA PageDefinesHolds ==
    ASSUME IInv, NEW g \in Globals, g \notin window,
           NEW s, s = Now, NEW t \in Work, t.inst = s.inst, t.ext = s.ext,
           t.ghost.open = s.ghost.open, t.ghost.state = s.ghost.state,
           t.ghost.failures = s.ghost.failures, t.ghost.again = s.ghost.again,
           t.ghost.byPage = s.ghost.byPage \cup {g}
    PROVE  Holds(reg, window \cup {g}, t)
<1> DEFINE wider == window \cup {g}
           byPage == s.ghost.byPage
<1>1. /\ s \in Work /\ reg \in RegType /\ ~s.ghost.again /\ PartBelongs(s)
      /\ \A n \in Names : One(reg, window, s, n)
  BY DEF IInv, Holds
<1>2. ASSUME NEW class, NEW props, class.needs # g
      PROVE  Able(wider, class, props) <=> Able(window, class, props)
  BY <1>2 DEF Able
<1>3. ASSUME NEW class, NEW props, Able(window, class, props)
      PROVE  Able(wider, class, props)
  BY <1>3 DEF Able
<1>4. ASSUME NEW v, NEW im, Shown(v, s.ext, window, byPage, im), Awaits(s.ext, window, im)
      PROVE  Shown(v, s.ext, wider, byPage \cup {g}, im) /\ Awaits(s.ext, wider, im)
  <2>1. Awaits(s.ext, wider, im)
    BY <1>4 DEF Awaits
  <2>2. CASE im.name # g
    <3>1. Shows(s.ext, wider, im) = Shows(s.ext, window, im)
      BY <2>2 DEF Shows, ResolveGlobal, ResolveExternal, GetError, Provides
    <3> QED
      BY <1>4, <2>1, <3>1 DEF Shown
  <2>3. CASE im.name = g /\ LastUrl(im) # NoUrl
    BY <2>1, <2>3 DEF Shown
  <2>4. CASE im.name = g /\ LastUrl(im) = NoUrl /\ (im.bindable \/ ~im.global)
    <3>1. Shows(s.ext, wider, im) = Shows(s.ext, window, im)
      BY <2>4 DEF Shows, ResolveExternal, GetError, Provides
    <3> QED
      BY <1>4, <2>1, <3>1 DEF Shown
  <2>5. CASE im.name = g /\ LastUrl(im) = NoUrl /\ ~im.bindable /\ im.global
    <3>1. s.ext.poll[im.name] # "no"
      BY <1>4, <2>5 DEF Awaits
    <3> QED
      BY <2>1, <2>5, <3>1 DEF Shown
  <2> QED
    BY <2>2, <2>3, <2>4, <2>5
<1>5. ASSUME NEW n \in Names
      PROVE  One(reg, wider, t, n)
  <2> DEFINE i == s.inst[n]
  <2>1. One(reg, window, s, n) /\ t.inst[n] = i
    BY <1>1
  <2>2. PairedIn(t, n)
    BY <2>1 DEF One, PairedIn
  <2>3. LiveIn(reg, window, s, n) => LiveIn(reg, wider, t, n)
    <3> SUFFICES ASSUME LiveIn(reg, window, s, n)
                 PROVE  LiveIn(reg, wider, t, n)
      OBVIOUS
    <3>1. Able(wider, i.logic, i.props)
      BY <1>3 DEF LiveIn, Live
    <3>2. Hopeless(reg[n], wider, i, byPage \cup {g})
      BY <1>2 DEF LiveIn, Live, Hopeless
    <3> HIDE DEF wider
    <3> QED
      BY <2>1, <3>1, <3>2 DEF LiveIn, Live
  <2>4. FitIn(reg, window, s, n) => FitIn(reg, wider, t, n)
    BY <1>2, <2>1 DEF FitIn, Fit
  <2>5. BuiltIn(reg, window, s, n) => BuiltIn(reg, wider, t, n)
    <3> HIDE DEF wider
    <3> QED
      BY <1>4, <2>1 DEF BuiltIn, Built
  <2> QED
    BY <2>1, <2>2, <2>3, <2>4, <2>5 DEF One
<1>6. PartBelongs(t)
  BY <1>1 DEF PartBelongs
<1> QED
  BY <1>1, <1>5, <1>6 DEF Holds

\* Babel came or did not, a poll gave up, a script of the page defined a global.
LEMMA NotTold ==
    ASSUME IInv, Untold
    PROVE  IInv'
<1> DEFINE s == Now
           t == [inst |-> inst', page |-> page', ext |-> ext', ghost |-> ghost']
<1>1. /\ s \in Work /\ reg \in RegType /\ Holds(reg, window, s)
      /\ s.inst = inst /\ s.ghost = ghost /\ s.ext = ext /\ s.page = page
      /\ t.inst = inst' /\ t.ghost = ghost' /\ t.ext = ext' /\ t.page = page'
  BY DEF IInv, Holds, Now
<1>2. /\ ext \in ExtType /\ ghost \in GhostType /\ window \subseteq Globals
      /\ inst \in [Names -> Instance] /\ page \in {"new", "shown", "blank"}
  BY Typed
<1>3. Now' = t
  BY DEF Now
<1>4. ASSUME ext' \in ExtType, ext'.status = ext.status, window' = window,
             \A g \in Globals : ext.poll[g] # "no" => ext'.poll[g] # "no",
             UNCHANGED <<reg, inst, page, ghost>>
      PROVE  IInv'
  <2>1. t \in Work
    BY <1>2, <1>4 DEF Work
  <2>2. \A n \in Names : Touches(s, t, n)
    BY <1>1, <1>4, <2>1 DEF Touches
  <2>3. PartBelongs(t) /\ t.ghost.again = s.ghost.again
    BY <1>1, <1>4 DEF Holds, PartBelongs
  <2> HIDE DEF s, t
  <2>4. \A n \in Names : One(reg, window, t, n)
    <3>1. ASSUME NEW n \in Names, NEW m \in Names, m # n
          PROVE  One(reg, window, t, m)
      <4>1. Touches(s, t, n) /\ One(reg, window, s, m) /\ m \in Names \ {n}
        BY <1>1, <2>2, <3>1 DEF Holds
      <4> QED
        BY <1>1, <4>1, OthersKeep
    <3> QED
      BY <3>1 DEF Names
  <2>5. Holds(reg, window, t)
    BY <1>1, <2>1, <2>3, <2>4 DEF Holds
  <2> QED
    BY <1>1, <1>2, <1>3, <1>4, <2>5 DEF IInv
<1>5. CASE BabelArrives /\ UNCHANGED <<reg, inst, page, ghost>>
  <2>1. PICK outcome \in {"ready", "failed"} : ext' = [ext EXCEPT !.babel = outcome]
    BY <1>5 DEF BabelArrives
  <2>2. ext' \in ExtType /\ ext'.status = ext.status /\ ext'.poll = ext.poll
    BY <1>2, <2>1 DEF ExtType
  <2>3. window' = window
    BY <1>5 DEF BabelArrives
  <2> QED
    BY <1>4, <1>5, <2>2, <2>3
<1>6. ASSUME NEW g \in Globals, PollGivesUp(g), UNCHANGED <<reg, inst, page, ghost>>
      PROVE  IInv'
  <2> DEFINE poll == [ext.poll EXCEPT ![g] = "over"]
  <2>1. /\ poll \in [Globals -> {"no", "polling", "over"}]
        /\ \A h \in Globals : ext.poll[h] # "no" => poll[h] # "no"
    BY <1>2 DEF ExtType
  <2>2. ext' = [ext EXCEPT !.poll = poll] /\ window' = window
    BY <1>6 DEF PollGivesUp
  <2> HIDE DEF poll
  <2>3. ext' \in ExtType /\ ext'.status = ext.status /\ ext'.poll = poll
    BY <1>2, <2>1, <2>2 DEF ExtType
  <2> QED
    BY <1>4, <1>6, <2>1, <2>2, <2>3
<1>7. ASSUME NEW g \in Globals, PageDefines(g), ghost' = [ghost EXCEPT !.byPage = @ \cup {g}],
             UNCHANGED <<reg, inst, page>>
      PROVE  IInv'
  <2>1. g \notin window /\ window' = window \cup {g} /\ ext' = ext
    BY <1>7 DEF PageDefines
  <2>2. /\ ghost' \in GhostType /\ ghost'.byPage = ghost.byPage \cup {g}
        /\ ghost'.open = ghost.open /\ ghost'.state = ghost.state
        /\ ghost'.failures = ghost.failures /\ ghost'.again = ghost.again
    BY <1>2, <1>7 DEF GhostType
  <2>3. t \in Work
    BY <1>2, <1>7, <2>1, <2>2 DEF Work
  <2>4. Holds(reg, window \cup {g}, t)
    <3>1. t.inst = s.inst /\ t.ext = s.ext
      BY <1>1, <1>7, <2>1
    <3>2. s = Now
      OBVIOUS
    <3> HIDE DEF s, t
    <3> QED
      BY <1>1, <2>1, <2>2, <2>3, <3>1, <3>2, PageDefinesHolds
  <2> QED
    BY <1>1, <1>2, <1>3, <1>7, <2>1, <2>4 DEF IInv
<1> QED
  BY <1>5, <1>6, <1>7 DEF Untold

\* A logic calls setState: its state grows, and the instance is due.
LEMMA Sets ==
    ASSUME IInv, NEW n \in Names, SetState(n)
    PROVE  IInv'
<1> DEFINE s == Now
           i == inst[n]
           state == i.state \cup {Cardinality(i.state) + 1}
           due == IF i.due = "no" THEN "state" ELSE i.due
           j == [i EXCEPT !.state = state, !.due = due]
           u == [s EXCEPT !.inst[n] = j]
           states == [s.ghost.state EXCEPT ![n] = state]
           g == [s.ghost EXCEPT !.state = states]
           t == [u EXCEPT !.ghost = g]
<1>1. /\ s \in Work /\ reg \in RegType /\ window \subseteq Globals /\ Holds(reg, window, s)
      /\ s.inst = inst /\ s.ghost = ghost /\ s.ext = ext /\ s.page = page
  BY DEF IInv, Holds, Now
<1>2. /\ i \in Instance /\ i.mounted /\ inst' = [inst EXCEPT ![n].state = state, ![n].due = due]
      /\ ghost' = [ghost EXCEPT !.state[n] = state]
      /\ UNCHANGED <<ext, window, reg, page>>
  BY <1>1 DEF SetState, Work
<1>3. state \in States
  <2>1. i.state \in SUBSET Nat /\ IsFiniteSet(i.state)
    BY <1>2 DEF Instance, States
  <2>2. Cardinality(i.state) \in Nat
    BY <2>1, FS_CardinalityType
  <2>3. IsFiniteSet(state)
    BY <2>1, FS_AddElement
  <2> QED
    BY <2>1, <2>2, <2>3 DEF States
<1>4. due \in {"no", "bump", "state"} /\ due # "no" /\ i.state \subseteq state
  BY <1>2 DEF Instance
<1> HIDE DEF state, due
<1>5. /\ j \in Instance /\ j.mounted = i.mounted /\ j.logic = i.logic /\ j.state = state
      /\ j.props = i.props /\ j.needsDidMount = i.needsDidMount /\ j.failed = i.failed
      /\ j.due = due
  <2> HIDE DEF i
  <2> QED
    BY <1>2, <1>3, <1>4 DEF Instance
<1>6. inst' = [inst EXCEPT ![n] = j]
  BY <1>1, <1>2 DEF Work
<1>7. s.ghost \in GhostType /\ ghost' = g
  BY <1>1, <1>2 DEF Work, GhostType
<1>8. states \in [Names -> States] /\ states[n] = state /\ \A m \in Names \ {n} : states[m] = s.ghost.state[m]
  BY <1>3, <1>7 DEF GhostType
<1> HIDE DEF j, states
<1>9. /\ g \in GhostType /\ g.state = states /\ g.open = s.ghost.open /\ g.failures = s.ghost.failures
      /\ g.again = s.ghost.again /\ g.byPage = s.ghost.byPage
  BY <1>7, <1>8 DEF GhostType
<1> HIDE DEF g
<1>10. Touches(s, u, n) /\ u.inst[n] = j /\ u.ghost = s.ghost /\ u.ext = s.ext
  <2> HIDE DEF s
  <2> QED
    BY <1>1, <1>5, WithInstance
<1>11. u.inst = inst'
  BY <1>1, <1>6 DEF Work
<1> HIDE DEF u
<1>12. Touches(u, t, n) /\ t.inst = u.inst /\ t.ext = u.ext /\ t.ghost = g
  <2>1. u \in Work
    BY <1>10 DEF Touches
  <2> QED
    BY <1>8, <1>9, <1>10, <2>1, WithGhost
<1>13. Now' = t
  <2>1. t = [inst |-> t.inst, page |-> t.page, ext |-> t.ext, ghost |-> t.ghost] /\ t.page = s.page
    <3>1. t \in Work /\ t.page = s.page
      BY <1>10, <1>12 DEF Touches
    <3> HIDE DEF t
    <3> QED
      BY <3>1 DEF Work
  <2> QED
    BY <1>1, <1>2, <1>7, <1>10, <1>11, <1>12, <2>1 DEF Now
<1> HIDE DEF t, s
<1>14. Touches(s, t, n) /\ t.inst[n] = j /\ t.ghost = g /\ t \in Work
  BY <1>10, <1>12, TouchesTwice DEF Touches
<1>15. One(reg, window, t, n)
  <2>1. One(reg, window, s, n) /\ s.inst[n] = i
    BY <1>1 DEF Holds
  <2>2. PairedIn(t, n)
    BY <1>5, <1>9, <1>14, <2>1 DEF One, PairedIn, Paired
  <2>3. LiveIn(reg, window, t, n)
    BY <1>2, <1>5, <1>8, <1>9, <1>14, <2>1 DEF One, LiveIn, Live, Hopeless, Remembered
  <2>4. ~Resting(t.inst[n])
    BY <1>4, <1>5, <1>14 DEF Resting
  <2> QED
    BY <2>2, <2>3, <2>4 DEF One
<1>16. ASSUME NEW m \in Names \ {n}
       PROVE  One(reg, window, t, m) /\ t.inst[m] = s.inst[m]
  <2>1. One(reg, window, s, m)
    BY <1>1 DEF Holds
  <2> QED
    BY <1>1, <1>14, <2>1, OthersKeep DEF Touches
<1>17. PartBelongs(t)
  <2>1. \A m \in Names : /\ t.inst[m].mounted = s.inst[m].mounted /\ t.inst[m].props = s.inst[m].props
                         /\ s.inst[m].state \subseteq t.inst[m].state
    BY <1>1, <1>4, <1>5, <1>14, <1>16
  <2> QED
    BY <1>1, <2>1 DEF Holds, PartBelongs, Names
<1>18. Holds(reg, window, t)
  BY <1>1, <1>9, <1>14, <1>15, <1>16, <1>17 DEF Holds
<1> QED
  BY <1>1, <1>2, <1>13, <1>18 DEF IInv

\* React renders: one pass.
LEMMA Renders ==
    ASSUME IInv, ReactRenders
    PROVE  IInv'
<1> DEFINE s == [Now EXCEPT !.page = "shown"]
           c == Cleared(s)
           t == Pass(c)
<1>1. reg \in RegType /\ window \subseteq Globals /\ Holds(reg, window, Now) /\ Now \in Work
  BY DEF IInv, Holds
<1>2. s = [inst |-> inst, page |-> "shown", ext |-> ext, ghost |-> ghost]
  BY DEF Now
<1>3. /\ inst' = t.inst /\ page' = t.page /\ ext' = t.ext /\ ghost' = t.ghost
      /\ window' = window /\ reg' = reg
  BY <1>2 DEF ReactRenders
<1>4. s \in Work /\ s.inst = Now.inst /\ s.ext = Now.ext /\ s.ghost = Now.ghost
  BY <1>1 DEF Work
<1> HIDE DEF s
<1>5. Holds(reg, window, s)
  <2>1. \A n \in Names : One(reg, window, Now, n) => One(reg, window, s, n)
    BY <1>4 DEF One, PairedIn, LiveIn, FitIn, BuiltIn
  <2>2. PartBelongs(s)
    BY <1>1, <1>4 DEF Holds, PartBelongs
  <2> QED
    BY <1>1, <1>4, <2>1, <2>2 DEF Holds
<1>6. Holds(reg, window, c)
  BY <1>5, ClearedHolds
<1> HIDE DEF c
<1>7. Holds(reg, window, t)
  BY <1>1, <1>6, PassHolds
<1> HIDE DEF t
<1>8. t = [inst |-> t.inst, page |-> t.page, ext |-> t.ext, ghost |-> t.ghost]
  BY <1>7 DEF Holds, Work
<1>9. Now' = t
  BY <1>3, <1>8 DEF Now
<1> QED
  BY <1>1, <1>3, <1>7, <1>9 DEF IInv

\* It holds at first.
LEMMA Initially ==
    ASSUME Init
    PROVE  IInv
<1>1. reg \in RegType
  BY DEF Init, RegType, EntryType, AllTemplates, AllClasses
<1>2. inst \in [Names -> Instance] /\ \A n \in Names : inst[n] = Absent
  BY AbsentTyped DEF Init
<1>3. ext \in ExtType /\ window = {}
  BY DEF Init, ExternalInit, ExtType
<1>4. /\ ghost \in GhostType /\ ~ghost.again /\ \A n \in Names : ghost.open[n] = 0
  BY AbsentTyped DEF Init, GhostType
<1>5. Now \in Work /\ Now.inst = inst /\ Now.ghost = ghost
  BY <1>2, <1>3, <1>4 DEF Init, Now, Work
<1>6. \A n \in Names : One(reg, window, Now, n)
  BY <1>2, <1>4, <1>5, AbsentTyped DEF One, PairedIn, Paired, Resting
<1>7. PartBelongs(Now)
  BY <1>2, <1>5, AbsentTyped DEF PartBelongs, Names
<1> QED
  BY <1>1, <1>3, <1>4, <1>5, <1>6, <1>7 DEF IInv, Holds

-----------------------------------------------------------------------------
\* The inductive invariant: every instance that is mounted lives, and one at rest runs what
\* the registry has if it can and shows what there is to show, through every pass, push,
\* setState and module.
THEOREM ComponentInvariant == Spec => []IInv
<1>1. Init => IInv
  BY Initially
<1>2. IInv /\ [Next]_vars => IInv'
  <2> SUFFICES ASSUME IInv, [Next]_vars
               PROVE  IInv'
    OBVIOUS
  <2>1. CASE ReactRenders
    BY <2>1, Renders
  <2>2. CASE Untold
    BY <2>2, NotTold
  <2>3. ASSUME NEW n \in Names, \/ \E t \in Templates : PushTemplate(n, t)
                                \/ \E class \in Classes : PushLogic(n, class)
        PROVE  IInv'
    BY <2>3, Pushes
  <2>4. ASSUME NEW n \in Names, SetState(n)
        PROVE  IInv'
    BY <2>4, Sets
  <2>5. CASE \/ \E u \in Urls : ModuleRan(u) \/ ModuleFailed(u)
             \/ \E g \in Globals : GlobalFound(g)
    BY <2>5, Tells
  <2>6. CASE UNCHANGED vars
    BY <2>6 DEF vars, IInv, Now
  <2> QED
    BY <2>1, <2>2, <2>3, <2>4, <2>5, <2>6 DEF Next
<1> QED
  BY <1>1, <1>2, PTL DEF Spec

\* A logic that was told of its mount is told of its end before the next one is told of its
\* mount, and one that was not told is not told of its end either: MountsArePaired.
THEOREM MountsArePairedAlways == Spec => []MountsArePaired
<1>1. IInv => MountsArePaired
  BY DEF IInv, Holds, One, PairedIn, Paired, Now, MountsArePaired
<1> QED
  BY <1>1, ComponentInvariant, PTL

\* The state that a logic had is the state of the logic that takes its place, whether its
\* constructor threw or not: StateSurvivesSwaps.
THEOREM StateSurvivesAlways == Spec => []StateSurvivesSwaps
<1>1. IInv => StateSurvivesSwaps
  BY DEF IInv, Holds, One, LiveIn, Live, Now, StateSurvivesSwaps
<1> QED
  BY <1>1, ComponentInvariant, PTL

\* A class that failed is not constructed again with the same props while the registry is
\* what it was: ConstructorsAreNotRetried.
THEOREM NoConstructorLoop == Spec => []ConstructorsAreNotRetried
<1>1. IInv => ConstructorsAreNotRetried
  BY DEF IInv, Holds, Now, ConstructorsAreNotRetried
<1> QED
  BY <1>1, ComponentInvariant, PTL

\* A component at rest runs the newest class exactly when it can be constructed, but for
\* what only the page's own scripts define: LogicHealsItself.
THEOREM LogicHealsAlways == Spec => []LogicHealsItself
<1>1. IInv => LogicHealsItself
  <2> SUFFICES ASSUME IInv, NEW n \in Names, AtRest(n), reg[n].Logic.needs \notin ghost.byPage
               PROVE  inst[n].logic = reg[n].Logic <=> Constructs(reg[n].Logic, inst[n].props)
    BY DEF LogicHealsItself
  <2>1. Fit(reg[n], window, inst[n], ghost.byPage)
    BY DEF IInv, Holds, One, Resting, AtRest, FitIn, Now
  <2> QED
    BY <2>1 DEF Fit, Able, Constructs
<1> QED
  BY <1>1, ComponentInvariant, PTL

\* A component at rest shows its newest template, with every import as what has become of
\* it, or a poll will tell or has told in vain: NoImportIsForgotten.
THEOREM ImportsAreShownAlways == Spec => []NoImportIsForgotten
<1>1. IInv => NoImportIsForgotten
  <2> SUFFICES ASSUME IInv, NEW n \in Names, AtRest(n), reg[n].tpl # NoTemplate
               PROVE  /\ inst[n].view.tpl = reg[n].tpl
                      /\ \A k \in DOMAIN reg[n].tpl.externals :
                          LET im == reg[n].tpl.externals[k]
                          IN \/ inst[n].view.externals[k] = Shows(ext, window, im)
                             \/ im.name \in ghost.byPage /\ (LastUrl(im) = NoUrl => ext.poll[im.name] # "no")
    BY DEF NoImportIsForgotten
  <2>1. Built(reg[n], ext, window, inst[n], ghost.byPage)
    BY DEF IInv, Holds, One, Resting, AtRest, BuiltIn, Now
  <2> QED
    BY <2>1 DEF Built, Shown
<1> QED
  BY <1>1, ComponentInvariant, PTL

-----------------------------------------------------------------------------
(* The keys of a deck's children (DcDeck).                                     *)

Child == SlideIds \cup Others

\* A deck that has keys: of what its children are, and what key each gets.
LEMMA KeysOfChildren ==
    ASSUME NEW d \in Seq(Child), ~Unkeyable(d), SlideIds \cap Others = {}
    PROVE  /\ DOMAIN WalkDeckChildren(d) = 1..Len(d)
           /\ \A i \in 1..Len(d) :
                 /\ d[i] = "blank" \/ d[i] = "aux" \/ d[i] \in SlideIds
                 /\ d[i] = "blank" => WalkDeckChildren(d)[i] = BlankKey(d, i)
                 /\ d[i] = "aux" => WalkDeckChildren(d)[i] = <<"position", "aux", i>>
                 /\ d[i] \in SlideIds => WalkDeckChildren(d)[i] = <<"slide", d[i], 0>>
           /\ \A i, j \in 1..Len(d) : d[i] = d[j] /\ d[i] \in SlideIds => i = j
<1>1. DOMAIN d = 1..Len(d)
  OBVIOUS
<1>2. \A i \in 1..Len(d) : d[i] \in SlideIds \cup {"blank", "aux"}
  BY <1>1 DEF Unkeyable, Child, Others
<1>3. WalkDeckChildren(d) = [i \in 1..Len(d) |-> CASE d[i] = "blank" -> BlankKey(d, i)
                                                   [] d[i] = "aux" -> <<"position", "aux", i>>
                                                   [] OTHER -> <<"slide", d[i], 0>>]
  BY <1>1 DEF WalkDeckChildren
<1>4. ASSUME NEW i \in 1..Len(d)
      PROVE  /\ d[i] = "blank" \/ d[i] = "aux" \/ d[i] \in SlideIds
             /\ d[i] = "blank" => WalkDeckChildren(d)[i] = BlankKey(d, i)
             /\ d[i] = "aux" => WalkDeckChildren(d)[i] = <<"position", "aux", i>>
             /\ d[i] \in SlideIds => WalkDeckChildren(d)[i] = <<"slide", d[i], 0>>
  <2>1. d[i] \in SlideIds => d[i] # "blank" /\ d[i] # "aux"
    BY DEF Others
  <2> QED
    BY <1>2, <1>3, <2>1
<1>5. \A i, j \in 1..Len(d) : d[i] = d[j] /\ d[i] \in SlideIds => i = j
  BY <1>1 DEF Unkeyable
<1> QED
  BY <1>3, <1>4, <1>5

\* The blanks before child i that stand before the same slide as it, or before none.
Alike(d, i, base) == {j \in 1..(i - 1) : d[j] = "blank" /\ NextSlideId(d, j) = base}

\* Of two blanks before the same slide the later one counts the earlier one.
LEMMA BlanksDiffer ==
    ASSUME NEW d, NEW i \in Nat, NEW j \in Nat, 1 <= i, i < j, d[i] = "blank", d[j] = "blank"
    PROVE  BlankKey(d, i) # BlankKey(d, j)
<1> DEFINE base == NextSlideId(d, j)
<1> SUFFICES ASSUME NextSlideId(d, i) = base PROVE BlankKey(d, i) # BlankKey(d, j)
  BY DEF BlankKey
<1>1. IsFiniteSet(Alike(d, j, base))
  <2>1. Alike(d, j, base) \subseteq 1..(j - 1)
    BY DEF Alike
  <2>2. IsFiniteSet(1..(j - 1))
    BY FS_Interval
  <2> QED
    BY <2>1, <2>2, FS_Subset
<1>2. Alike(d, i, base) \subseteq Alike(d, j, base)
  BY DEF Alike
<1>3. i \in Alike(d, j, base) /\ i \notin Alike(d, i, base)
  BY DEF Alike
<1>4. Cardinality(Alike(d, i, base)) # Cardinality(Alike(d, j, base))
  BY <1>1, <1>2, <1>3, FS_Subset
<1>5. /\ BlankKey(d, i) = <<"ws", base, Cardinality(Alike(d, i, base))>>
      /\ BlankKey(d, j) = <<"ws", base, Cardinality(Alike(d, j, base))>>
  BY DEF BlankKey, Alike
<1> QED
  BY <1>4, <1>5

\* No two children of a deck have one key.
LEMMA KeysDiffer ==
    ASSUME NEW d \in Seq(Child), ~Unkeyable(d), SlideIds \cap Others = {},
           NEW i \in 1..Len(d), NEW j \in 1..Len(d), WalkDeckChildren(d)[i] = WalkDeckChildren(d)[j]
    PROVE  i = j
<1> DEFINE keys == WalkDeckChildren(d)
<1>1. /\ d[i] = "blank" \/ d[i] = "aux" \/ d[i] \in SlideIds
      /\ d[j] = "blank" \/ d[j] = "aux" \/ d[j] \in SlideIds
  BY KeysOfChildren
<1>2. ASSUME NEW k \in 1..Len(d)
      PROVE  /\ d[k] = "blank" => keys[k][1] = "ws"
             /\ d[k] = "aux" => keys[k][1] = "position" /\ keys[k][3] = k
             /\ d[k] \in SlideIds => keys[k][1] = "slide" /\ keys[k][2] = d[k]
  <2>1. BlankKey(d, k)[1] = "ws"
    BY DEF BlankKey
  <2> QED
    BY <2>1, KeysOfChildren
<1>3. CASE d[i] = "blank"
  <2>1. d[j] = "blank"
    BY <1>1, <1>2, <1>3
  <2>2. BlankKey(d, i) = BlankKey(d, j)
    BY <1>3, <2>1, KeysOfChildren
  <2> QED
    BY <1>3, <2>1, <2>2, BlanksDiffer
<1>4. CASE d[i] = "aux"
  BY <1>1, <1>2, <1>4
<1>5. CASE d[i] \in SlideIds
  <2>1. d[j] \in SlideIds /\ d[j] = d[i]
    BY <1>1, <1>2, <1>5
  <2> QED
    BY <2>1, KeysOfChildren
<1> QED
  BY <1>1, <1>3, <1>4, <1>5

\* The deck without child k: the others are where they were, or one place before it.
LEMMA WithoutChild ==
    ASSUME NEW d \in Seq(Child), NEW k \in 1..Len(d)
    PROVE  LET rest == RemoveAt(d, k)
               Old(i) == IF i < k THEN i ELSE i + 1
           IN /\ rest \in Seq(Child) /\ Len(rest) = Len(d) - 1
              /\ \A i \in 1..Len(rest) : Old(i) \in 1..Len(d) /\ rest[i] = d[Old(i)]
<1> DEFINE front == SubSeq(d, 1, k - 1)
           back == SubSeq(d, k + 1, Len(d))
<1>1. RemoveAt(d, k) = front \o back
  BY DEF RemoveAt
<1>2. front \in Seq(Child) /\ Len(front) = k - 1 /\ \A i \in 1..(k - 1) : front[i] = d[i]
  OBVIOUS
<1>3. back \in Seq(Child) /\ Len(back) = Len(d) - k /\ \A i \in 1..(Len(d) - k) : back[i] = d[k + i]
  OBVIOUS
<1> HIDE DEF front, back
<1>4. Len(front \o back) = Len(d) - 1 /\ front \o back \in Seq(Child)
  <2>1. \A s, t \in Seq(Child) : s \o t \in Seq(Child) /\ Len(s \o t) = Len(s) + Len(t)
    OBVIOUS
  <2>2. k \in Int /\ Len(d) \in Int
    OBVIOUS
  <2> QED
    BY <1>2, <1>3, <2>1, <2>2
<1>5. ASSUME NEW i \in 1..(Len(d) - 1)
      PROVE  (front \o back)[i] = d[IF i < k THEN i ELSE i + 1]
  <2>1. \A s, t \in Seq(Child) : \A n \in 1..(Len(s) + Len(t)) :
           (s \o t)[n] = IF n <= Len(s) THEN s[n] ELSE t[n - Len(s)]
    OBVIOUS
  <2>2. k \in Int /\ Len(d) \in Int /\ k <= Len(d) /\ i \in Int
    OBVIOUS
  <2>3. (front \o back)[i] = IF i <= k - 1 THEN front[i] ELSE back[i - (k - 1)]
    BY <1>2, <1>3, <2>1, <2>2
  <2>4. CASE i < k
    BY <1>2, <2>2, <2>3, <2>4
  <2>5. CASE i >= k
    <3>1. i - (k - 1) \in 1..(Len(d) - k) /\ k + (i - (k - 1)) = i + 1
      BY <2>2, <2>5
    <3> QED
      BY <1>3, <2>2, <2>3, <2>5, <3>1
  <2>6. i < k \/ i >= k
    BY <2>2
  <2> QED
    BY <2>4, <2>5, <2>6, Zenon
<1> QED
  BY <1>1, <1>4, <1>5

\* A slide keeps its key when another child goes.
LEMMA SlideKeepsItsKey ==
    ASSUME NEW d \in Seq(Child), ~Unkeyable(d), SlideIds \cap Others = {},
           NEW i \in 1..Len(d), d[i] \in SlideIds, NEW k \in 1..Len(d), k # i
    PROVE  WalkDeckChildren(RemoveAt(d, k))[IF k < i THEN i - 1 ELSE i] = WalkDeckChildren(d)[i]
<1> DEFINE rest == RemoveAt(d, k)
           Old(n) == IF n < k THEN n ELSE n + 1
           new == IF k < i THEN i - 1 ELSE i
<1>1. rest \in Seq(Child) /\ Len(rest) = Len(d) - 1
  BY WithoutChild
<1>2. \A n \in 1..Len(rest) : Old(n) \in 1..Len(d) /\ rest[n] = d[Old(n)]
  BY WithoutChild
<1>3. \A m, n \in 1..Len(rest) : Old(m) = Old(n) => m = n
  OBVIOUS
<1>4. new \in 1..Len(rest) /\ Old(new) = i
  BY <1>1
<1>5. DOMAIN d = 1..Len(d) /\ DOMAIN rest = 1..Len(rest)
  BY <1>1
<1> HIDE DEF rest, Old, new
<1>6. ~Unkeyable(rest)
  BY <1>2, <1>3, <1>5 DEF Unkeyable
<1>7. WalkDeckChildren(rest)[new] = <<"slide", d[i], 0>>
  BY <1>1, <1>2, <1>4, <1>6, KeysOfChildren
<1>8. WalkDeckChildren(d)[i] = <<"slide", d[i], 0>>
  BY KeysOfChildren
<1> QED
  BY <1>7, <1>8 DEF rest, new

\* All that is asked of the keys; a deck without keys has none that could be equal.
LEMMA DecksAreToldApart ==
    ASSUME NEW d \in Seq(Child), SlideIds \cap Others = {}
    PROVE  LET keys == WalkDeckChildren(d) IN
           /\ \A i, j \in DOMAIN keys : keys[i] = keys[j] => i = j
           /\ \A i \in DOMAIN keys : d[i] \in SlideIds =>
                 \A k \in DOMAIN d \ {i} :
                    LET rest == WalkDeckChildren(RemoveAt(d, k))
                    IN rest[IF k < i THEN i - 1 ELSE i] = keys[i]
<1>1. CASE Unkeyable(d)
  <2>1. DOMAIN WalkDeckChildren(d) = {}
    BY <1>1 DEF WalkDeckChildren, NoKeys
  <2> QED
    BY <2>1
<1>2. CASE ~Unkeyable(d)
  <2>1. DOMAIN WalkDeckChildren(d) = 1..Len(d) /\ DOMAIN d = 1..Len(d)
    BY <1>2, KeysOfChildren
  <2>2. \A i, j \in 1..Len(d) : WalkDeckChildren(d)[i] = WalkDeckChildren(d)[j] => i = j
    BY <1>2, KeysDiffer
  <2>3. ASSUME NEW i \in 1..Len(d), d[i] \in SlideIds, NEW k \in 1..Len(d) \ {i}
        PROVE  WalkDeckChildren(RemoveAt(d, k))[IF k < i THEN i - 1 ELSE i] = WalkDeckChildren(d)[i]
    BY <1>2, <2>3, SlideKeepsItsKey
  <2> QED
    BY <2>1, <2>2, <2>3
<1> QED
  BY <1>1, <1>2

\* A deck's call returns what walkDeckChildren computes.
DeckInv == /\ call.fn = "deck" /\ call.arg \in Seq(Child)
           /\ result.done => result.value = WalkDeckChildren(call.arg)

\* The children of a deck have different keys, and a slide keeps its key when any other child
\* goes: of every deck, whatever walkDeckChildren is called with.
THEOREM DeckKeys == DeckSpec => []DeckKeysTellChildrenApart
<1>1. DeckIsCalled /\ result = Pending => DeckInv
  BY DecksAssumption DEF DeckIsCalled, Pending, DeckInv, Child
<1>2. DeckInv /\ [~result.done /\ CallWalkDeckChildren /\ UNCHANGED call]_<<call, result>> => DeckInv'
  BY DEF DeckInv, CallWalkDeckChildren, Returns
<1>3. DeckInv => DeckKeysTellChildrenApart
  BY DecksAssumption, DecksAreToldApart DEF DeckInv, DeckKeysTellChildrenApart, Returned, Child
<1> QED
  BY <1>1, <1>2, <1>3, PTL DEF DeckSpec
=============================================================================
