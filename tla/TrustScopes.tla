----------------------------- MODULE TrustScopes -----------------------------
(***************************************************************************)
(* The trust_scopes table and the TrustStore operations on it: an agent    *)
(* proposes a scope, an operator grants, extends or revokes it, gated      *)
(* actions look one up and charge it, job dispatches spend its budget.     *)
(* Every operation is one synchronous SQLite call, hence one action here;  *)
(* who calls them, and what happens between two of their calls, is the     *)
(* business of the modules that extend this one.                           *)
(***************************************************************************)
EXTENDS Naturals, Sequences

CONSTANTS
  Scope,     \* scope ids
  Act,       \* gated actions: a tool with its arguments
  Actor,     \* who may dispatch jobs under a grant
  Use,       \* what a dispatch asks a grant to cover: tool and target
  Proposals, \* the contents a proposal may have, a subset of Proposal
  None       \* SQL NULL: no cap, no budget; also "no scope"

Proposal == [allowed : SUBSET Act, forbidden : SUBSET Act,
             cap : Nat \cup {None}, serves : SUBSET Actor,
             covers : SUBSET Use, budget : Nat \cup {None}]

ASSUME TrustScopesAssumption ==
  /\ Proposals \subseteq Proposal
  /\ None \notin Nat \cup Scope

VARIABLES
  scope,    \* the rows
  granted,  \* granted scopes, in the order of granted_at
  lapsed    \* scopes whose expires_at is in the past

storeVars == <<scope, granted, lapsed>>

Status == {"absent", "proposed", "active", "expired", "revoked", "completed"}
Terminal == {"expired", "revoked", "completed"}

ScopeRow == [status : Status, terms : Proposal, used : Nat]

Blank == [allowed |-> {}, forbidden |-> {}, cap |-> None, serves |-> {},
          covers |-> {}, budget |-> None]

\* Type invariant of the table.
StoreTypeOK ==
  /\ scope \in [Scope -> ScopeRow]
  /\ granted \in Seq(Scope)
  /\ lapsed \in SUBSET Scope

StoreInit ==
  /\ scope = [s \in Scope |-> [status |-> "absent", terms |-> Blank, used |-> 0]]
  /\ granted = <<>>
  /\ lapsed = {}

Active(s) == scope[s].status = "active"
Spent(s) == scope[s].terms.cap # None /\ scope[s].used >= scope[s].terms.cap
Covers(s, a) == a \in scope[s].terms.allowed \ scope[s].terms.forbidden

-----------------------------------------------------------------------------
(* The operator's and the proposer's operations.                           *)

CreateProposal(s, p) ==
  /\ scope[s].status = "absent"
  /\ scope' = [scope EXCEPT ![s] = [status |-> "proposed", terms |-> p, used |-> 0]]
  /\ UNCHANGED <<granted, lapsed>>

\* A scope that is not 'proposed' is returned as it is; a proposal that
\* outlived its expires_at gets a fresh hour.
Grant(s) ==
  IF scope[s].status = "proposed"
    THEN /\ scope' = [scope EXCEPT ![s].status = "active"]
         /\ granted' = Append(granted, s)
         /\ lapsed' = lapsed \ {s}
    ELSE UNCHANGED storeVars

Revocable(s) == scope[s].status \in {"proposed", "active"}
RevokeAny(s) == TRUE

Revoke(s) ==
  /\ scope' = IF Revocable(s) THEN [scope EXCEPT ![s].status = "revoked"] ELSE scope
  /\ UNCHANGED <<granted, lapsed>>

\* A later deadline, a new cap or both; only an active row is touched, but an
\* active row past its deadline still is one.
Extend(s, later, cap) ==
  IF Active(s)
    THEN /\ scope' = IF cap = None THEN scope
                     ELSE [scope EXCEPT ![s].terms.cap = cap]
         /\ lapsed' = IF later THEN lapsed \ {s} ELSE lapsed
         /\ UNCHANGED granted
    ELSE UNCHANGED storeVars

\* The wall clock passes the expires_at of s.
Lapse(s) ==
  /\ scope[s].status \in {"proposed", "active"}
  /\ s \notin lapsed
  /\ lapsed' = lapsed \cup {s}
  /\ UNCHANGED <<scope, granted>>

\* Marked(E, C) is the table with E expired and C completed, active rows only.
Marked(E, C) ==
  [s \in Scope |->
     IF ~Active(s) THEN scope[s]
     ELSE IF s \in E THEN [scope[s] EXCEPT !.status = "expired"]
     ELSE IF s \in C THEN [scope[s] EXCEPT !.status = "completed"]
     ELSE scope[s]]

SweepExpired ==
  /\ scope' = Marked(lapsed, {})
  /\ UNCHANGED <<granted, lapsed>>

-----------------------------------------------------------------------------
(* findActiveScopeFor and recordScopeAction, used by gated actions.        *)

\* Does the lookup take s for action a?
Takes(s, a) == Active(s) /\ s \notin lapsed /\ ~Spent(s) /\ Covers(s, a)

Hits(a) == {i \in DOMAIN granted : Takes(granted[i], a)}

\* Where the oldest grant that covers the action stands, if there is one.
Found(a) == {i \in Hits(a) : \A j \in Hits(a) : i <= j}

\* The rows the lookup walks past on its way there: it retires what it finds
\* lapsed or spent.
Before(a) == {i \in DOMAIN granted : \A j \in Hits(a) : i < j}
Passed(a) == {granted[i] : i \in Before(a)}

FindActiveScope(a) ==
  /\ scope' = Marked(Passed(a) \cap lapsed, {s \in Passed(a) : Spent(s)})
  /\ UNCHANGED <<granted, lapsed>>

\* The charge is unconditional; the scope completes when it is still active
\* and the charge brought it to its cap.
CompletesAny(s) ==
  scope[s].terms.cap # None /\ scope[s].used + 1 >= scope[s].terms.cap
Completes(s) == Active(s) /\ CompletesAny(s)

ChargeActive(s) == IF Active(s) THEN scope[s].used + 1 ELSE scope[s].used
Charge(s) == scope[s].used + 1

RecordScopeAction(s) ==
  /\ scope' = [scope EXCEPT ![s] =
       [status |-> IF Completes(s) THEN "completed" ELSE scope[s].status,
        terms |-> scope[s].terms,
        used |-> Charge(s)]]
  /\ UNCHANGED <<granted, lapsed>>

-----------------------------------------------------------------------------
(* resolveGrant and decrementBudget, used by job dispatches.  A request r  *)
(* names an actor, a use, whether the actor is a peer, and the grant it    *)
(* pins, if any.                                                           *)

Serves(s, r) == r.actor \in scope[s].terms.serves
Usable(s, r) ==
  /\ Active(s) /\ s \notin lapsed
  /\ Serves(s, r) /\ r.use \in scope[s].terms.covers

GrantHits(r) == {i \in DOMAIN granted : Usable(granted[i], r)}
Resolved(r) ==
  IF r.pinned # None THEN {s \in Scope : s = r.pinned /\ Usable(s, r)}
  ELSE {granted[i] : i \in {k \in GrantHits(r) : \A j \in GrantHits(r) : k <= j}}

\* What resolving a request retires: the pinned grant, or the grants of the
\* actor that the walk meets before its hit, when they have lapsed.
Retired(r) ==
  IF r.pinned # None THEN {s \in lapsed : s = r.pinned /\ Serves(s, r)}
  ELSE {granted[i] : i \in {k \in DOMAIN granted :
          /\ granted[k] \in lapsed /\ Serves(granted[k], r)
          /\ \A j \in GrantHits(r) : k < j}}

\* A peer has to pin a grant, a pinned grant has to be usable, and the operator
\* needs none.
Denied(r) == Resolved(r) = {} /\ (r.peer \/ r.pinned # None)

ResolveGrant(r) ==
  /\ scope' = IF r.peer /\ r.pinned = None THEN scope ELSE Marked(Retired(r), {})
  /\ UNCHANGED <<granted, lapsed>>

\* One transaction: is the grant still good, and is there budget left?
Budget(s) == scope[s].terms.budget
HasBudget(s) == Budget(s) = None \/ Budget(s) > 0
ConsumableLate(s) == Active(s) /\ HasBudget(s)
Consumable(s) == Active(s) /\ s \notin lapsed /\ HasBudget(s)

DecrementBudget(s) ==
  /\ scope' = IF Active(s) /\ s \in lapsed THEN Marked({s}, {})
              ELSE IF Consumable(s) /\ Budget(s) # None
              THEN [scope EXCEPT ![s].terms.budget = Budget(s) - 1]
              ELSE scope
  /\ UNCHANGED <<granted, lapsed>>
=============================================================================
