---------------------------- MODULE LossyStream ----------------------------
(***************************************************************************)
(* What the PTY daemon promises a client that is attached to one session:  *)
(* the session's output, chunk by chunk, without a silent gap.  A client   *)
(* that cannot keep up may miss chunks, but only after it was told so, and *)
(* a client that was told has to attach again (which brings it up to date) *)
(* before its copy can be trusted.                                         *)
(*                                                                         *)
(* This is the specification SessionStream implements.  It says nothing    *)
(* about threads, locks, queues or statuses.                               *)
(***************************************************************************)
EXTENDS Naturals

CONSTANT Subs              \* the subscriptions a session may have

VARIABLES
    sequence,              \* chunks of output produced so far
    live,                  \* the subscriptions that are attached
    applied,               \* applied[s]: the newest chunk s's client has
    told                   \* told[s]: s's client knows its copy has a hole

vars == <<sequence, live, applied, told>>

Init ==
    /\ sequence = 0
    /\ live = {}
    /\ applied = [s \in Subs |-> 0]
    /\ told = [s \in Subs |-> FALSE]

Produce ==
    /\ sequence' = sequence + 1
    /\ UNCHANGED <<live, applied, told>>

\* Attaching hands over everything produced so far.
Join(s) ==
    /\ s \notin live
    /\ live' = live \cup {s}
    /\ applied' = [applied EXCEPT ![s] = sequence]
    /\ told' = [told EXCEPT ![s] = FALSE]
    /\ UNCHANGED sequence

Leave(s) ==
    /\ s \in live
    /\ live' = live \ {s}
    /\ UNCHANGED <<sequence, applied, told>>

\* The next chunk, and no other, reaches a client that trusts its copy.
DeliverNext(s) ==
    /\ s \in live
    /\ applied[s] < sequence
    /\ applied' = [applied EXCEPT ![s] = @ + 1]
    /\ UNCHANGED <<sequence, live, told>>

Announce(s) ==
    /\ s \in live
    /\ told' = [told EXCEPT ![s] = TRUE]
    /\ UNCHANGED <<sequence, live, applied>>

\* A client that knows about its hole may see any later chunk.
DeliverAny(s) ==
    /\ s \in live /\ told[s]
    /\ \E n \in (applied[s] + 1) .. sequence :
          applied' = [applied EXCEPT ![s] = n]
    /\ UNCHANGED <<sequence, live, told>>

Next ==
    \/ Produce
    \/ \E s \in Subs :
          Join(s) \/ Leave(s) \/ DeliverNext(s) \/ Announce(s) \/ DeliverAny(s)

Spec == Init /\ [][Next]_vars
=============================================================================
