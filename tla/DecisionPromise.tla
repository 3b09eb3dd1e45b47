--------------------------- MODULE DecisionPromise ---------------------------
(***************************************************************************)
(* What the decision rendezvous promises, with no process, timer, row or   *)
(* crash in sight: a decision is asked once, is settled at most once,      *)
(* either by an authorised responder or by its default, or else is closed  *)
(* unanswered; whoever asked hears the settlement or hears nothing.        *)
(***************************************************************************)
CONSTANTS Decision, Option, None

VARIABLES
  asked,     \* decisions that were put to the operator
  settled,   \* the option each decision was settled on, or None
  closed,    \* decisions that can no longer be settled
  heard      \* the option its requester acts on, or None

vars == <<asked, settled, closed, heard>>

Init ==
  /\ asked = {}
  /\ settled = [d \in Decision |-> None]
  /\ closed = {}
  /\ heard = [d \in Decision |-> None]

Ask(d) ==
  /\ d \notin asked
  /\ asked' = asked \cup {d}
  /\ UNCHANGED <<settled, closed, heard>>

Settle(d, option) ==
  /\ d \in asked \ closed
  /\ settled' = [settled EXCEPT ![d] = option]
  /\ closed' = closed \cup {d}
  /\ \/ UNCHANGED heard
     \/ heard' = [heard EXCEPT ![d] = option]
  /\ UNCHANGED asked

\* Several decisions may be closed unanswered at once, by the boot sweep.
Abandon(D) ==
  /\ D \subseteq asked \ closed
  /\ closed' = closed \cup D
  /\ UNCHANGED <<asked, settled, heard>>

Hear(d) ==
  /\ settled[d] # None
  /\ heard' = [heard EXCEPT ![d] = settled[d]]
  /\ UNCHANGED <<asked, settled, closed>>

Next ==
  \/ \E d \in Decision : Ask(d) \/ Hear(d)
  \/ \E d \in Decision, option \in Option : Settle(d, option)
  \/ \E D \in SUBSET Decision : Abandon(D)

Spec == Init /\ [][Next]_vars
=============================================================================
