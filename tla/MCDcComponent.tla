---- MODULE MCDcComponent ----
EXTENDS DcComponent
Import(urls, name, global) == [urls |-> urls, name |-> name, global |-> global, bindable |-> FALSE]
Tpl(crash, imports, externals) == [crash |-> crash, imports |-> imports, externals |-> externals]
NoTpl == Tpl("no", FALSE, <<[name |-> "none"]>>)
Parent == Tpl("no", TRUE, <<>>)
Plain == Tpl("no", FALSE, <<Import(<<>>, "G", TRUE)>>)
Widget == Tpl("no", FALSE, <<Import(<<"lib", "jsx">>, "W", FALSE), Import(<<"lib">>, "G", FALSE)>>)
OwnCrash == Tpl("own", FALSE, <<>>)
Inside == Tpl("inside", FALSE, <<>>)
MCTemplates == {Parent, Plain, Widget, OwnCrash, Inside}
BaseClass == [needs |-> "nothing", id |-> "base"]
Fine == [needs |-> "nothing", id |-> "fine"]
NeedsW == [needs |-> "W", id |-> "needsW"]
NeedsProp == [needs |-> "prop", id |-> "needsProp"]
MCClasses == {Fine, NeedsW, NeedsProp}
MCExports == [u \in {"lib", "jsx"} |-> IF u = "lib" THEN {"G"} ELSE {}]
MCDefines == [u \in {"lib", "jsx"} |-> IF u = "jsx" THEN {"W"} ELSE {}]
====
