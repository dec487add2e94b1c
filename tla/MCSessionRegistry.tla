------------------------- MODULE MCSessionRegistry -------------------------
(* TLC instance of SessionRegistry. *)
EXTENDS SessionRegistry

CONSTANTS app, viewer, a, b

\* The tasks of the app and of serve and the readers run: a viewer's task may stop anywhere.
FairSpecOfTheApp ==
    Spec /\ Serving(app) /\ Serve /\ \A s \in Spawns : WF_vars(Reading(s))
=============================================================================
