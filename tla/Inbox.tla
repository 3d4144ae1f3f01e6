------------------------------- MODULE Inbox -------------------------------
(***************************************************************************)
(* What the receiving half of a client promises: a message that has been   *)
(* handed to it, or that the server keeps for it, is never out of sight    *)
(* again and is stored at last; only a kill of the process may cut a       *)
(* message short.  InboundMessages implements it.                          *)
(***************************************************************************)
CONSTANT Messages

VARIABLES
    arrived,  \* messages the server keeps for the client or the client has had
    stored,   \* those in the history
    cut       \* those a kill has hit between arrival and storage

vars == <<arrived, stored, cut>>

TypeOK == {arrived, stored, cut} \subseteq SUBSET Messages

Init == arrived = {} /\ stored = {} /\ cut = {}

\* Once arrived, for good: arrived only grows.
Arrive(S) ==
    /\ arrived' = arrived \cup S
    /\ UNCHANGED <<stored, cut>>

Store(m) ==
    /\ m \in arrived
    /\ stored' = stored \cup {m}
    /\ UNCHANGED <<arrived, cut>>

Kill(S) ==
    /\ S \subseteq arrived
    /\ cut' = cut \cup S
    /\ UNCHANGED <<arrived, stored>>

Next ==
    \/ \E S \in SUBSET Messages : Arrive(S) \/ Kill(S)
    \/ \E m \in Messages : Store(m)

Safety == Init /\ [][Next]_vars

Fairness == \A m \in Messages : WF_vars(m \notin cut /\ Store(m))

Spec == Safety /\ Fairness
=============================================================================
