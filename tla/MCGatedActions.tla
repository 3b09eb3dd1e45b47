---------------------------- MODULE MCGatedActions ----------------------------
(***************************************************************************)
(* Small instances of GatedActions.  A behaviour runs the calls of one     *)
(* group, over proposals that fit them: merges race for scopes, or for a   *)
(* scope whose cap is being lowered, or a merge and a no-go action ask for *)
(* their way while the scope that covers both is granted by a call.        *)
(***************************************************************************)
EXTENDS GatedActions, TLC

CONSTANTS s1, s2, c1, c2, c3, c4, c5, merge, purge

OneUse == [allowed |-> {merge, purge}, forbidden |-> {}, cap |-> 1,
           serves |-> {}, covers |-> {}, budget |-> None]
NoMerge == [OneUse EXCEPT !.forbidden = {merge}, !.cap = None]
TwoUses == [OneUse EXCEPT !.cap = 2]

AnyTerms == {OneUse, NoMerge, TwoUses}

Wanted == c1 :> [kind |-> "act", act |-> merge]
       @@ c2 :> [kind |-> "act", act |-> merge]
       @@ c3 :> [kind |-> "extend", scope |-> s1, later |-> TRUE, cap |-> 1]
       @@ c4 :> [kind |-> "act", act |-> purge]
       @@ c5 :> [kind |-> "grant", scope |-> s1]

\* A merge, beside all but one of: another merge, an extension, a second scope.
\* Either merge may be the one, so that they stay interchangeable.
Racing == {[calls |-> {c1, c2, c3}, scopes |-> {s1}, terms |-> {TwoUses}],
           [calls |-> {c1, c2}, scopes |-> {s1, s2}, terms |-> {TwoUses}]}
       \cup {[calls |-> {c, c3}, scopes |-> {s1, s2}, terms |-> {TwoUses}] : c \in {c1, c2}}
Asking == {[calls |-> {c, c4, c5}, scopes |-> {s1}, terms |-> {OneUse, NoMerge}] :
             c \in {c1, c2}}

VARIABLE group

EitherInit == Init /\ group \in Racing \cup Asking

\* Only calls and proposals of the group are seen.
Fits ==
  /\ \A c \in Call \ group.calls : pc[c] = "idle"
  /\ \A s \in Scope :
       /\ s \in group.scopes \/ scope[s].status = "absent"
       /\ scope[s].status = "proposed" => scope[s].terms \in group.terms

EitherNext == Next /\ UNCHANGED group /\ Fits'

EitherSpec == EitherInit /\ [][EitherNext]_<<vars, group>>

Merges == Permutations({c1, c2})
=============================================================================
