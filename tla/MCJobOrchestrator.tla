-------------------------- MODULE MCJobOrchestrator --------------------------
(* Small instances of JobOrchestrator.                                     *)
EXTENDS JobOrchestrator, TLC
CONSTANTS j1, j2, j3, s1, s2, build, test, peer, op, run

Local(n) == [name |-> n, holder |-> op, actor |-> op, use |-> run,
             peer |-> FALSE, pinned |-> None]
ByPeer(n, s) == [Local(n) EXCEPT !.holder = peer, !.actor = peer, !.peer = TRUE, !.pinned = s]

\* Three local dispatches, two of them of one name.
Locals == j1 :> Local(build) @@ j2 :> Local(test) @@ j3 :> Local(build)
TwoBuilds == j1 :> Local(build) @@ j2 :> Local(build)

Builds == Permutations({j1, j3})

\* A peer's dispatch under a pinned grant, an operator's that finds its own.
Granted == j1 :> ByPeer(build, s1) @@ j2 :> Local(build)

OneDispatch == [allowed |-> {}, forbidden |-> {}, cap |-> None,
                serves |-> {op, peer}, covers |-> {run}, budget |-> 1]
ProposeOne == {OneDispatch}
=============================================================================
