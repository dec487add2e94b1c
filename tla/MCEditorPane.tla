---- MODULE MCEditorPane ----
EXTENDS EditorPane
OneTab == <<"a">>
ThreeTabs == <<"b", "a", "c">>
====
