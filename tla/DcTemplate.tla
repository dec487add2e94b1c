----------------------------- MODULE DcTemplate -----------------------------
(* What the template compiler of the design pages computes                     *)
(* (src/design/support.js): the value of an expression in {{ }}, the           *)
(* declarations of a style-hover attribute, what text, sc-if and sc-for put on *)
(* the page while it streams and afterwards, and, in DcDeck, a deck's keys.    *)
(*                                                                             *)
(* Texts are sequences of tokens; blanks matter only inside declarations.  A    *)
(* string literal is one token: an operator or a bracket between its quotes,   *)
(* which the code does not skip, is not among the inputs.                      *)
(* The inputs are built together with what they mean, so that each function is *)
(* compared with the meaning and not with another parser.                      *)
EXTENDS DcDeck

CONSTANTS
    Vals,       \* the values a template sees: [names -> values]
    Objects,    \* values that have fields: [objects -> [fields -> values]]
    Literals,   \* [literal tokens -> values]
    Expressions,\* [src, val]
    Sheets,     \* [src, decls]
    Templates,  \* sequences of nodes: [kind, get, hint, kids]
    Scopes,     \* [holes -> values]: what the holes of a template resolve to
    Arrays      \* values that are lists: [lists -> sequences of values]

vars == <<call, result>>

None == "undefined"
Truthy(v) == v \notin {None, "null", "false"}
Bool(b) == IF b THEN "true" ELSE "false"
LooselyEqual(v, w) == v = w \/ {v, w} \in {{None, "null"}, {"1", "true"}}
Compare(op, v, w) ==
    CASE op = "===" -> Bool(v = w)
      [] op = "!==" -> Bool(v # w)
      [] op = "==" -> Bool(LooselyEqual(v, w))
      [] op = "!=" -> Bool(~LooselyEqual(v, w))
Member(v, key) ==
    IF v \in DOMAIN Objects /\ key \in DOMAIN Objects[v] THEN Objects[v][key] ELSE None

-----------------------------------------------------------------------------
(* Expressions.                                                                *)

Before(e, i) == SubSeq(e, 1, i - 1)
After(e, i) == SubSeq(e, i + 1, Len(e))

Depth(e, i, opening, closing) ==
    Cardinality({j \in 1..i : e[j] \in opening}) - Cardinality({j \in 1..i : e[j] \in closing})

\* Mutant of ParensWrapWhole: the first and the last one are taken for a pair.
ParensArePaired(e) == TRUE

ParensWrapWhole(e) ==
    \A i \in 1..(Len(e) - 1) : e[i] = ")" => Depth(e, i, {"("}, {")"}) # 0

Operators == {"==", "===", "!=", "!=="}
\* 0: there is none
FindTopLevelEquality(e) ==
    LET at == {i \in 2..Len(e) : e[i] \in Operators /\ Depth(e, i, {"(", "["}, {")", "]"}) = 0}
    IN IF at = {} THEN 0 ELSE CHOOSE i \in at : \A j \in at : i <= j

\* where the bracket at i closes; 0: nowhere
Closing(e, i) ==
    LET at == {j \in (i + 1)..Len(e) : e[j] = "]" /\ Depth(e, j, {"["}, {"]"}) = Depth(e, i, {"["}, {"]"}) - 1}
    IN IF at = {} THEN 0 ELSE CHOOSE j \in at : \A k \in at : j <= k

RECURSIVE Resolve(_), ResolvePath(_, _)
\* the rest of a path whose head has the value `cur`
ResolvePath(cur, e) ==
    CASE e = <<>> -> cur
      [] e # <<>> /\ Head(e) = "." ->
            IF Len(e) = 1 \/ e[2] \in {".", "[", "]", "(", ")", "!"} \cup Operators THEN None
            ELSE ResolvePath(Member(cur, e[2]), After(e, 2))
      [] e # <<>> /\ Head(e) = "[" ->
            LET j == Closing(e, 1)
            IN IF j = 0 THEN None
               ELSE ResolvePath(Member(cur, Resolve(SubSeq(e, 2, j - 1))), After(e, j))
      [] OTHER -> None
Resolve(e) ==
    LET i == FindTopLevelEquality(e) IN
    CASE e = <<>> -> None
      [] e # <<>> /\ Head(e) = "(" /\ Last(e) = ")" /\ ParensWrapWhole(e) ->
            Resolve(SubSeq(e, 2, Len(e) - 1))
      [] OTHER ->
            IF i # 0 THEN Compare(e[i], Resolve(Before(e, i)), Resolve(After(e, i)))
            ELSE IF Head(e) = "!" THEN Bool(~Truthy(Resolve(Tail(e))))
            ELSE IF Len(e) = 1 /\ Head(e) \in DOMAIN Literals THEN Literals[Head(e)]
            ELSE IF Head(e) \in DOMAIN Vals THEN ResolvePath(Vals[Head(e)], Tail(e))
            ELSE None

-----------------------------------------------------------------------------
(* Declarations (scanUnquotedUrl, stripComments, importantify).                *)

\* the first position behind the unquoted url( at i
RECURSIVE UrlEnd(_, _)
UrlEnd(css, i) ==
    CASE i > Len(css) -> Len(css) + 1
      [] i <= Len(css) /\ css[i] = ")" -> i + 1
      [] i <= Len(css) /\ css[i] = "\\" -> UrlEnd(css, i + 2)
      [] OTHER -> UrlEnd(css, i + 1)

\* Mutant of StartsUrl: an unquoted url( is scanned like any other function.
UrlsAreOrdinary(css, i) == FALSE

StartsUrl(css, i) == css[i] = "url(" /\ (i = Len(css) \/ css[i + 1] # "'")

RECURSIVE StripFrom(_, _, _)
\* css from i on, quoted or not, without its comments
StripFrom(css, i, quoted) ==
    IF i > Len(css) THEN <<>>
    ELSE LET c == css[i]
             ends == {j \in (i + 1)..Len(css) : css[j] = "*/"}
             end == IF ends = {} THEN Len(css) ELSE CHOOSE j \in ends : \A k \in ends : j <= k
         IN CASE quoted /\ c = "\\" -> SubSeq(css, i, i + 1 ) \o StripFrom(css, i + 2, TRUE)
              [] quoted /\ c # "\\" -> <<c>> \o StripFrom(css, i + 1, c # "'")
              [] ~quoted /\ c = "'" -> <<c>> \o StripFrom(css, i + 1, TRUE)
              [] ~quoted /\ c = "/*" -> <<" ">> \o StripFrom(css, end + 1, FALSE)
              [] ~quoted /\ StartsUrl(css, i) ->
                    SubSeq(css, i, UrlEnd(css, i + 1) - 1) \o StripFrom(css, UrlEnd(css, i + 1), FALSE)
              [] OTHER -> <<c>> \o StripFrom(css, i + 1, FALSE)
StripComments(css) == StripFrom(css, 1, FALSE)

RECURSIVE SplitFrom(_, _, _, _, _)
\* the declarations of css from i on; the one under way starts at `start`
SplitFrom(css, i, start, depth, quoted) ==
    IF i > Len(css) THEN <<SubSeq(css, start, Len(css))>>
    ELSE LET c == css[i] IN
         CASE quoted -> IF c = "\\" THEN SplitFrom(css, i + 2, start, depth, TRUE)
                        ELSE SplitFrom(css, i + 1, start, depth, c # "'")
           [] ~quoted /\ c = "'" -> SplitFrom(css, i + 1, start, depth, TRUE)
           [] ~quoted /\ StartsUrl(css, i) -> SplitFrom(css, UrlEnd(css, i + 1), start, depth, FALSE)
           [] ~quoted /\ (c = "(" \/ (c = "url(" /\ ~StartsUrl(css, i))) ->
                SplitFrom(css, i + 1, start, depth + 1, FALSE)
           [] ~quoted /\ c = ")" -> SplitFrom(css, i + 1, start, IF depth = 0 THEN 0 ELSE depth - 1, FALSE)
           [] ~quoted /\ c = ";" /\ depth = 0 ->
                <<SubSeq(css, start, i - 1)>> \o SplitFrom(css, i + 1, i + 1, 0, FALSE)
           [] OTHER -> SplitFrom(css, i + 1, start, depth, FALSE)

Trim(d) ==
    LET solid == {i \in DOMAIN d : d[i] # " "}
    IN IF solid = {} THEN <<>>
       ELSE SubSeq(d, CHOOSE i \in solid : \A j \in solid : i <= j, CHOOSE i \in solid : \A j \in solid : i >= j)

MarkImportant(d) == IF Last(d) = "!important" THEN d ELSE Append(d, "!important")
Importantify(css) ==
    LET all == SplitFrom(StripComments(css), 1, 1, 0, FALSE)
        decls == SelectSeq([i \in DOMAIN all |-> Trim(all[i])], LAMBDA d : d # <<>>)
    IN [i \in DOMAIN decls |-> MarkImportant(decls[i])]

-----------------------------------------------------------------------------
(* Nodes (walkText, walkIf, walkFor, walkElement).  `get` names a hole: the    *)
(* text, the condition, the list, an input's value.  `hint` is what the         *)
(* hint-placeholder-val of an sc-if evaluates to, "" if it has none; for an    *)
(* sc-for any hint but "" stands for the count 2.  A node's page is the        *)
(* sequence of what its holes show.                                            *)

ItemHole == "item"
Mark(hole, as, v) == <<[hole |-> hole, as |-> as, value |-> v]>>

BuildText(n, scope, mode) ==
    LET v == scope[n.get] IN
    CASE v = None -> IF mode.streaming THEN Mark(n.get, "missing", v)
                     ELSE IF mode.editor THEN Mark(n.get, "unresolved", v) ELSE <<>>
      [] v \in {"null", "true", "false"} -> <<>>
      [] OTHER -> Mark(n.get, "value", v)

\* Mutant of IfValue: while it streams the hint wins over the value that is there.
HintWins(n, scope, mode) ==
    IF n.hint # "" /\ mode.streaming THEN n.hint ELSE scope[n.get]

IfValue(n, scope, mode) ==
    IF scope[n.get] = None /\ n.hint # "" /\ mode.streaming THEN n.hint ELSE scope[n.get]
Placeholders == [i \in 1..2 |-> None]
Items(n, scope, mode) ==
    IF scope[n.get] \in DOMAIN Arrays THEN Arrays[scope[n.get]]
    ELSE IF mode.streaming /\ n.hint # "" THEN Placeholders ELSE <<>>

\* An input without a value gets an empty one: it stays a controlled input.
ElementProps(n, scope) == IF scope[n.get] = None THEN "" ELSE scope[n.get]

RECURSIVE Build(_, _, _)
BuildNode(n, scope, mode) ==
    CASE n.kind = "text" -> BuildText(n, scope, mode)
      [] n.kind = "element" -> Mark(n.get, "element", ElementProps(n, scope)) \o Build(n.kids, scope, mode)
      [] n.kind = "if" -> IF Truthy(IfValue(n, scope, mode)) THEN Build(n.kids, scope, mode) ELSE <<>>
      [] n.kind = "for" ->
            LET items == Items(n, scope, mode)
            IN FlattenSeq([i \in DOMAIN items |-> Build(n.kids, [scope EXCEPT ![ItemHole] = items[i]], mode)])
Build(nodes, scope, mode) == FlattenSeq([i \in DOMAIN nodes |-> BuildNode(nodes[i], scope, mode)])

-----------------------------------------------------------------------------
Init ==
    /\ \/ call \in [fn : {"resolve"}, arg : Expressions]
       \/ DeckIsCalled
       \/ call \in [fn : {"importantify"}, arg : Sheets]
       \/ call \in [fn : {"build"}, arg : [nodes : Templates, scope : Scopes,
                                          mode : [streaming : BOOLEAN, editor : BOOLEAN]]]
    /\ result = Pending

CallResolve == call.fn = "resolve" /\ Returns(Resolve(call.arg.src))
CallImportantify == call.fn = "importantify" /\ Returns(Importantify(call.arg.src))
CallBuild == call.fn = "build" /\ Returns(Build(call.arg.nodes, call.arg.scope, call.arg.mode))

Next == /\ ~result.done
        /\ CallResolve \/ CallWalkDeckChildren \/ CallImportantify \/ CallBuild
        /\ UNCHANGED call

Spec == Init /\ [][Next]_vars

\* An expression in {{ }} has the value that JavaScript gives it, whatever brackets,
\* negations and comparisons it is nested from (resolve, which splits the text by hand).
ExpressionsMeanWhatTheySay == Returned("resolve") => result.value = call.arg.val

Keep(marks, kept) == FlattenSeq([i \in DOMAIN marks |-> IF i \in kept THEN <<marks[i]>> ELSE <<>>])
Finished == [streaming |-> FALSE, editor |-> FALSE]
\* What the finished page shows, the streaming page shows too, for the same values and in
\* the same order: the end of a stream takes placeholders away and moves nothing.  And the
\* finished page has no placeholder left (walkText, walkIf, walkFor, nested).
StreamingOnlyAdds ==
    Returned("build") =>
        LET done == Build(call.arg.nodes, call.arg.scope, Finished) IN
        /\ \A i \in DOMAIN done : done[i].as \in {"value", "element"}
        /\ \E kept \in SUBSET DOMAIN result.value : done = Keep(result.value, kept)

\* Every declaration of a style-hover attribute comes out whole, once and important: no
\* semicolon, bracket or comment sign inside a string, a bracket or an unquoted url( )
\* splits or swallows one (scanUnquotedUrl, stripComments, importantify).
DeclarationsStayWhole == Returned("importantify") => result.value = call.arg.decls
=============================================================================
