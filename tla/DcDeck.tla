------------------------------- MODULE DcDeck -------------------------------
(* The keys that React tells the children of a deck apart by: a slide by the   *)
(* id that the editor wrote into it, what is between the slides by its place   *)
(* or by the slide that follows (walkDeckChildren in src/design/support.js).   *)
(* A function is called and returns; DcTemplate calls the compiler's others.   *)
EXTENDS Naturals, Sequences, SequencesExt, FiniteSets

CONSTANTS
    SlideIds,   \* ids of slides that have the form of one
    Decks       \* sequences of children: the ids of slides, and Others

\* a text that is blank or not, a script or the like, a control-flow element, and an
\* element without an id
Others == {"blank", "text", "aux", "flow", "unnamed"}

ASSUME DecksAssumption == Decks \subseteq Seq(SlideIds \cup Others) /\ SlideIds \cap Others = {}

VARIABLES
    call,   \* the function that is called, and its argument
    result

-----------------------------------------------------------------------------
(* No keys, <<>>: React falls back to positions.                               *)

NoKeys == <<>>
IsElement(c) == c \notin {"blank", "text"}

\* the slide that the element after child i is, if it is one
NextSlideId(d, i) ==
    LET at == {j \in i..Len(d) : IsElement(d[j])}
        next == CHOOSE j \in at : \A k \in at : j <= k
    IN IF at = {} \/ d[next] \notin SlideIds THEN "aux" ELSE d[next]

\* Mutant of BlankKey: the blanks before one slide are not counted.
BlankKeyUncounted(d, i) == <<"ws", NextSlideId(d, i), 0>>

BlankKey(d, i) ==
    LET base == NextSlideId(d, i)
    IN <<"ws", base, Cardinality({j \in 1..(i - 1) : d[j] = "blank" /\ NextSlideId(d, j) = base})>>

Unkeyable(d) ==
    \/ \E i \in DOMAIN d : d[i] \in {"text", "flow", "unnamed"}
    \/ \E i, j \in DOMAIN d : i # j /\ d[i] = d[j] /\ d[i] \in SlideIds

WalkDeckChildren(d) ==
    IF Unkeyable(d) THEN NoKeys
    ELSE [i \in DOMAIN d |-> CASE d[i] = "blank" -> BlankKey(d, i)
                               [] d[i] = "aux" -> <<"position", "aux", i>>
                               [] OTHER -> <<"slide", d[i], 0>>]

-----------------------------------------------------------------------------
Pending == [done |-> FALSE]
Returns(value) == result' = [done |-> TRUE, value |-> value]
Returned(fn) == call.fn = fn /\ result.done

DeckIsCalled == call \in [fn : {"deck"}, arg : Decks]
CallWalkDeckChildren == call.fn = "deck" /\ Returns(WalkDeckChildren(call.arg))

\* The calls of this one function.
DeckSpec == /\ DeckIsCalled /\ result = Pending
            /\ [][~result.done /\ CallWalkDeckChildren /\ UNCHANGED call]_<<call, result>>

\* The children of a deck have different keys, and a slide keeps its key when any other
\* child is removed: React neither drops a child nor mounts a slide anew, with its state
\* lost, when the author edits the deck around it (walkDeckChildren).
DeckKeysTellChildrenApart ==
    Returned("deck") =>
        /\ \A i, j \in DOMAIN result.value : result.value[i] = result.value[j] => i = j
        /\ \A i \in DOMAIN result.value : call.arg[i] \in SlideIds =>
              \A k \in DOMAIN call.arg \ {i} :
                 LET rest == WalkDeckChildren(RemoveAt(call.arg, k))
                 IN rest[IF k < i THEN i - 1 ELSE i] = result.value[i]
=============================================================================
