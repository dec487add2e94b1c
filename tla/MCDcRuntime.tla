---- MODULE MCDcRuntime ----
EXTENDS DcRuntime, TLC
Slides == [id |-> "slides", mode |-> "none", helmet |-> <<"style", "script">>, compiles |-> TRUE, imports |-> {"part"}]
Canvas == [id |-> "canvas", mode |-> "canvas", helmet |-> <<"meta", "script">>, compiles |-> TRUE, imports |-> {}]
Broken == [id |-> "broken", mode |-> "none", helmet |-> <<"script">>, compiles |-> FALSE, imports |-> {}]
MCDocs == {Slides, Canvas, Broken}
Hello == [id |-> "hello", gives |-> "class"]
World == [id |-> "world", gives |-> "class"]
Thrower == [id |-> "thrower", gives |-> "exception"]
MCSources == {Hello, World, Thrower}
NoSrc == [id |-> "none", gives |-> "none"]
Text == [valid |-> TRUE, props |-> 1, preview |-> TRUE]
BadText == [valid |-> FALSE, props |-> 2, preview |-> FALSE]
MCPropTexts == {Text, BadText}
MCFiles == ("root" :> [doc |-> Slides, source |-> Hello, props |-> Text])
           @@ ("part" :> [doc |-> Canvas, source |-> World, props |-> BadText])
====
