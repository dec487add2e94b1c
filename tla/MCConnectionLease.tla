------------------------- MODULE MCConnectionLease -------------------------
(* TLC instances of ConnectionLease. *)
EXTENDS ConnectionLease

CONSTANTS c1, c2, c3, air, mini

\* Two connections of one Mac, which reclaims, and one of another Mac.
TwoMacs == [c \in Conns |-> IF c = c3 THEN mini ELSE air]

\* Two connections of one Mac.
OneMac == [c \in Conns |-> air]

\* Only the task of one connection is scheduled fairly: nobody else has to run.
FairToOne == Spec /\ Scheduled(c1)

\* A kicked or replaced connection ends by its own task's doing, whatever the other
\* connections, the kick and the host do or leave undone (CancelledEnds of ConnectionLease).
CancelledConnectionEnds == CancelledEnds(c1)
=============================================================================
