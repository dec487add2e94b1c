---- MODULE MCDcTemplate ----
(* Bounded inputs, each built together with its meaning.                       *)
EXTENDS DcTemplate, TLC

MCVals == ("a" :> "o1") @@ ("k" :> "f") @@ ("no" :> "false")
MCObjects == ("o1" :> (("f" :> "o2") @@ ("true" :> "1"))) @@ ("o2" :> ("f" :> "null"))
MCLiterals == ("'f'" :> "f") @@ ("null" :> "null") @@ ("1" :> "1")

Term(src, val) == [src |-> src, val |-> val]
Names == {Term(<<n>>, MCVals[n]) : n \in DOMAIN MCVals}
Atoms == Names \cup {Term(<<l>>, MCLiterals[l]) : l \in DOMAIN MCLiterals}
Dot(x, f) == Term(x.src \o <<".", f>>, Member(x.val, f))
At(x, y) == Term(x.src \o <<"[">> \o y.src \o <<"]">>, Member(x.val, y.val))
Paren(x) == Term(<<"(">> \o x.src \o <<")">>, x.val)
Not(x) == Term(<<"!">> \o x.src, Bool(~Truthy(x.val)))
Equal(x, op, y) == Term(x.src \o <<op>> \o y.src, Compare(op, x.val, y.val))

Paths(X, Y) == {Dot(x, f) : x \in X, f \in {"f", "g"}} \cup {At(x, y) : x \in X, y \in Y}
Unary(X) == X \cup {Not(x) : x \in X} \cup {Paren(x) : x \in X}
Binary(X, Y) == {Equal(x, op, y) : x \in X, op \in Operators, y \in Y}

Simple == Binary(Names, Atoms)
MCExpressions ==
    LET paths == Paths(Names, Atoms)
        nested == {At(x, y) : x \in Names, y \in Simple}
        deep == Paths(Paths({Term(<<"a">>, "o1")}, Atoms), Atoms \cup Paths(Names, Atoms))
        wrapped == {Paren(x) : x \in Simple}
    IN Unary(deep) \cup Unary(nested) \cup Unary(wrapped) \cup Binary(Atoms, Unary(paths))
       \cup Binary(wrapped, Names) \cup Binary(Unary(Names), wrapped \cup nested)

MCDecks == SeqOf({"blank", "aux", "s1", "s2", "s3", "unnamed"}, 4)
           \cup {<<"blank", "s1", "blank", "text">>, <<"s1", "flow", "s2">>}
           \cup {<<"blank", x, "blank", y, "blank", z>> : x, y, z \in {"s1", "s2", "aux", "blank"}}

Piece(src, clean) == [src |-> src, clean |-> clean]
Pieces == {
    Piece(<<"x">>, <<"x">>), Piece(<<" ">>, <<" ">>),
    Piece(<<"'", ";", "/*", "'">>, <<"'", ";", "/*", "'">>),
    Piece(<<"'", "\\", "'", ";", ")", "'">>, <<"'", "\\", "'", ";", ")", "'">>),
    Piece(<<"(", ";", "(", "x", ")", ";", ")">>, <<"(", ";", "(", "x", ")", ";", ")">>),
    Piece(<<"(", "'", ")", "'", ";", ")">>, <<"(", "'", ")", "'", ";", ")">>),
    Piece(<<"url(", ";", "/*", ")">>, <<"url(", ";", "/*", ")">>),
    Piece(<<"url(", "\\", ")", ";", "(", ")">>, <<"url(", "\\", ")", ";", "(", ")">>),
    Piece(<<"url(", "'", ")", ";", "'", ")">>, <<"url(", "'", ")", ";", "'", ")">>),
    Piece(<<"/*", ";", "'", "(", "*/">>, <<" ">>) }
Declarations == {<<>>} \cup {<<p>> : p \in Pieces} 
                \cup {<<p, Piece(<<"!important">>, <<"!important">>)>> : p \in Pieces}
Join(d) == [src |-> FoldLeft(LAMBDA s, p : s \o p.src, <<>>, d),
            clean |-> Trim(FoldLeft(LAMBDA s, p : s \o p.clean, <<>>, d))]
Expected(cleans) ==
    LET some == SelectSeq(cleans, LAMBDA c : c # <<>>)
    IN [i \in DOMAIN some |-> IF Last(some[i]) = "!important" THEN some[i] ELSE Append(some[i], "!important")]
MCSheets ==
    LET J == {Join(d) : d \in Declarations}
    IN {[src |-> c.src \o <<";">> \o d.src, decls |-> Expected(<<c.clean, d.clean>>)] : c, d \in J}

Node(kind, get, hint, kids) == [kind |-> kind, get |-> get, hint |-> hint, kids |-> kids]
Texts == {Node("text", g, "", <<>>) : g \in {"x", "item"}}
Leaves == {<<t>> : t \in Texts} \cup {<<Node("text", "item", "", <<>>), Node("text", "x", "", <<>>)>>}
Inner == {Node(k, g, h, l) : k \in {"if", "for"}, g \in {"x", "y", "item"}, h \in {"", "true", "false"}, l \in Leaves}
         \cup {Node("element", g, "", l) : g \in {"y", "item"}, l \in Leaves}
MCTemplates == {<<Node(k, g, h, <<n>> \o l)>> : k \in {"if", "for"}, g \in {"x", "y"}, h \in {"", "true"},
                                               n \in Inner, l \in {<<>>, <<Node("text", "y", "", <<>>)>>}}
MCArrays == "list" :> <<"v", None>>
MCScopes == {(ItemHole :> None) @@ s : s \in [{"x", "y"} -> {None, "v", "list"}]}
====
