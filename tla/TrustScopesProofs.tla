--------------------------- MODULE TrustScopesProofs ---------------------------
(***************************************************************************)
(* How the operations of TrustStore may change the table, for every set of *)
(* scopes and proposals: terms are kept, granted scopes stay granted,      *)
(* terminal ones stay terminal.  The components that share the table rest  *)
(* their invariants on these lemmas.                                       *)
(***************************************************************************)
EXTENDS TrustScopes, FiniteSetTheorems, TLAPS

Pending == {"absent", "proposed"}

\* A scope in the grant order was granted; a row that is absent is blank.
GrantedRows ==
  \A i \in DOMAIN granted : scope[granted[i]].status \notin Pending

BlankRows ==
  \A s \in Scope : scope[s].status = "absent" =>
    scope[s].terms = Blank /\ scope[s].used = 0

StoreInv == StoreTypeOK /\ GrantedRows /\ BlankRows

\* How a step may change the store when it spends the budgets of B.
EvolvesBut(B) ==
  /\ StoreTypeOK'
  /\ GrantedRows'
  /\ BlankRows'
  /\ \A s \in Scope :
       /\ scope[s].status # "absent" =>
            /\ scope'[s].status # "absent"
            /\ scope'[s].terms.allowed = scope[s].terms.allowed
            /\ scope'[s].terms.forbidden = scope[s].terms.forbidden
            /\ scope'[s].terms.serves = scope[s].terms.serves
            /\ scope'[s].terms.covers = scope[s].terms.covers
            /\ s \notin B => scope'[s].terms.budget = scope[s].terms.budget
       /\ scope[s].status \in Terminal => scope'[s].status = scope[s].status
       /\ scope[s].status \notin Pending => scope'[s].status \notin Pending
  /\ \A i \in DOMAIN granted : i \in DOMAIN granted' /\ granted'[i] = granted[i]

Evolves == EvolvesBut({})

SameCharge == \A s \in Scope : scope'[s].used = scope[s].used

LEMMA StoreBegins ==
  ASSUME StoreInit
  PROVE  StoreInv
<1>1. Blank \in Proposal
  BY DEF Blank, Proposal
<1>2. [status |-> "absent", terms |-> Blank, used |-> 0] \in ScopeRow
  BY <1>1 DEF ScopeRow, Status
<1> QED
  BY <1>2 DEF StoreInit, StoreInv, StoreTypeOK, GrantedRows, BlankRows

\* Writing one row keeps the type of the table.
LEMMA RowWrite ==
  ASSUME StoreTypeOK, NEW s \in Scope, NEW row \in ScopeRow,
         scope' = [scope EXCEPT ![s] = row]
  PROVE  /\ scope' \in [Scope -> ScopeRow]
         /\ scope'[s] = row
         /\ \A t \in Scope \ {s} : scope'[t] = scope[t]
BY DEF StoreTypeOK

\* A store that is left alone evolves.
LEMMA StoreStutter ==
  ASSUME StoreInv, UNCHANGED storeVars
  PROVE  Evolves /\ SameCharge
BY DEF StoreInv, Evolves, EvolvesBut, SameCharge, storeVars, StoreTypeOK, GrantedRows, BlankRows, Pending

LEMMA CreateEvolves ==
  ASSUME StoreInv, NEW s \in Scope, NEW p \in Proposals, CreateProposal(s, p)
  PROVE  Evolves /\ SameCharge
<1> DEFINE row == [status |-> "proposed", terms |-> p, used |-> 0]
<1>1. row \in ScopeRow
  BY TrustScopesAssumption DEF ScopeRow, Status
<1>2. /\ scope' \in [Scope -> ScopeRow]
      /\ scope'[s] = row
      /\ \A t \in Scope \ {s} : scope'[t] = scope[t]
  BY <1>1, RowWrite DEF CreateProposal, StoreInv
<1>3. scope[s].status = "absent" /\ granted' = granted /\ lapsed' = lapsed
  BY DEF CreateProposal
<1>4. GrantedRows'
  BY <1>2, <1>3 DEF StoreInv, GrantedRows, StoreTypeOK, Pending
<1>5. BlankRows'
  BY <1>2, <1>3 DEF StoreInv, BlankRows
<1>6. SameCharge
  BY <1>2, <1>3 DEF SameCharge, StoreInv, BlankRows
<1> QED
  BY <1>2, <1>3, <1>4, <1>5, <1>6 DEF Evolves, EvolvesBut, StoreInv, StoreTypeOK, Terminal, Pending

LEMMA GrantEvolves ==
  ASSUME StoreInv, NEW s \in Scope, Grant(s)
  PROVE  Evolves /\ SameCharge
<1>1. CASE scope[s].status # "proposed"
  BY <1>1, StoreStutter DEF Grant
<1>2. CASE scope[s].status = "proposed"
  <2> DEFINE row == [scope[s] EXCEPT !.status = "active"]
  <2>1. row \in ScopeRow /\ row.terms = scope[s].terms /\ row.used = scope[s].used
        /\ row.status = "active"
    BY DEF StoreInv, StoreTypeOK, ScopeRow, Status
  <2>2. /\ scope' = [scope EXCEPT ![s] = row]
        /\ granted' = Append(granted, s)
        /\ lapsed' = lapsed \ {s}
    BY <1>2 DEF Grant
  <2>3. /\ scope' \in [Scope -> ScopeRow]
        /\ scope'[s] = row
        /\ \A t \in Scope \ {s} : scope'[t] = scope[t]
    BY <2>1, <2>2, RowWrite DEF StoreInv
  <2>4. /\ granted' \in Seq(Scope)
        /\ \A i \in DOMAIN granted : i \in DOMAIN granted' /\ granted'[i] = granted[i]
        /\ \A i \in DOMAIN granted' : granted'[i] = s \/ i \in DOMAIN granted
    BY <2>2 DEF StoreInv, StoreTypeOK
  <2>5. GrantedRows'
    <3> SUFFICES ASSUME NEW i \in DOMAIN granted'
                 PROVE  scope'[granted'[i]].status \notin Pending
      BY DEF GrantedRows
    <3>1. CASE granted'[i] = s
      BY <3>1, <2>1, <2>3 DEF Pending
    <3>2. CASE granted'[i] # s
      <4>1. i \in DOMAIN granted /\ granted'[i] = granted[i] /\ granted[i] \in Scope
        BY <3>2, <2>4 DEF StoreInv, StoreTypeOK
      <4> QED
        BY <4>1, <3>2, <2>3 DEF StoreInv, GrantedRows
    <3> QED
      BY <3>1, <3>2
  <2>6. BlankRows'
    BY <2>1, <2>3 DEF StoreInv, BlankRows
  <2>7. SameCharge
    BY <2>1, <2>3 DEF SameCharge
  <2>8. lapsed' \in SUBSET Scope
    BY <2>2 DEF StoreInv, StoreTypeOK
  <2> QED
    BY <1>2, <2>1, <2>3, <2>4, <2>5, <2>6, <2>7, <2>8 DEF Evolves, EvolvesBut, StoreTypeOK, Terminal, Pending
<1> QED
  BY <1>1, <1>2

LEMMA RevokeEvolves ==
  ASSUME StoreInv, NEW s \in Scope, scope[s].status # "absent", Revoke(s)
  PROVE  Evolves /\ SameCharge
<1>1. CASE ~Revocable(s)
  BY <1>1, StoreStutter DEF Revoke, storeVars
<1>2. CASE Revocable(s)
  <2> DEFINE row == [scope[s] EXCEPT !.status = "revoked"]
  <2>1. row \in ScopeRow /\ row.terms = scope[s].terms /\ row.used = scope[s].used
        /\ row.status = "revoked"
    BY DEF StoreInv, StoreTypeOK, ScopeRow, Status
  <2>2. scope' = [scope EXCEPT ![s] = row] /\ granted' = granted /\ lapsed' = lapsed
    BY <1>2 DEF Revoke
  <2>3. /\ scope' \in [Scope -> ScopeRow]
        /\ scope'[s] = row
        /\ \A t \in Scope \ {s} : scope'[t] = scope[t]
    BY <2>1, <2>2, RowWrite DEF StoreInv
  <2>5. GrantedRows' /\ BlankRows' /\ SameCharge
    BY <2>1, <2>2, <2>3 DEF StoreInv, GrantedRows, BlankRows, SameCharge, StoreTypeOK, Pending
  <2> QED
    BY <1>2, <2>1, <2>2, <2>3, <2>5 DEF Evolves, EvolvesBut, StoreInv, StoreTypeOK, Terminal, Revocable, Pending
<1> QED
  BY <1>1, <1>2

LEMMA ExtendEvolves ==
  ASSUME StoreInv, NEW s \in Scope, NEW later \in BOOLEAN,
         NEW cap \in Nat \cup {None}, Extend(s, later, cap)
  PROVE  Evolves /\ SameCharge
<1>1. CASE ~Active(s)
  BY <1>1, StoreStutter DEF Extend
<1>2. CASE Active(s)
  <2> DEFINE row == [scope[s] EXCEPT !.terms.cap = cap]
  <2>1. /\ row.terms = [scope[s].terms EXCEPT !.cap = cap]
        /\ row.used = scope[s].used
        /\ row.status = "active"
        /\ row \in ScopeRow
    BY <1>2 DEF StoreInv, StoreTypeOK, ScopeRow, Active, Proposal, Status
  <2>2. (scope' = [scope EXCEPT ![s] = row] \/ scope' = [scope EXCEPT ![s] = scope[s]])
        /\ granted' = granted /\ (lapsed' = lapsed \/ lapsed' = lapsed \ {s})
    BY <1>2 DEF Extend, StoreInv, StoreTypeOK
  <2>3. PICK r \in {row, scope[s]} : scope' = [scope EXCEPT ![s] = r]
    BY <2>2
  <2>4. r \in ScopeRow
    BY <2>1 DEF StoreInv, StoreTypeOK
  <2>5. /\ scope' \in [Scope -> ScopeRow]
        /\ scope'[s] = r
        /\ \A t \in Scope \ {s} : scope'[t] = scope[t]
    BY <2>3, <2>4, RowWrite DEF StoreInv
  <2>6. /\ r.status = "active"
        /\ r.used = scope[s].used
        /\ r.terms.allowed = scope[s].terms.allowed
        /\ r.terms.forbidden = scope[s].terms.forbidden
        /\ r.terms.serves = scope[s].terms.serves
        /\ r.terms.covers = scope[s].terms.covers
        /\ r.terms.budget = scope[s].terms.budget
    BY <1>2, <2>1 DEF Active, StoreInv, StoreTypeOK, ScopeRow, Proposal
  <2>7. GrantedRows' /\ BlankRows' /\ SameCharge
    BY <2>2, <2>5, <2>6 DEF StoreInv, GrantedRows, BlankRows, SameCharge, StoreTypeOK, Pending
  <2> QED
    BY <1>2, <2>2, <2>5, <2>6, <2>7 DEF Evolves, EvolvesBut, StoreInv, StoreTypeOK, Terminal, Active, Pending
<1> QED
  BY <1>1, <1>2

\* Retiring rows moves active scopes only.
LEMMA MarkedEvolves ==
  ASSUME StoreInv, NEW E \in SUBSET Scope, NEW C \in SUBSET Scope,
         scope' = Marked(E, C), UNCHANGED <<granted, lapsed>>
  PROVE  Evolves /\ SameCharge
<1>1. ASSUME NEW s \in Scope
      PROVE  /\ scope'[s] \in ScopeRow
             /\ scope'[s].terms = scope[s].terms
             /\ scope'[s].used = scope[s].used
             /\ scope'[s].status # scope[s].status =>
                  scope[s].status = "active" /\ scope'[s].status \in {"expired", "completed"}
  BY DEF Marked, StoreInv, StoreTypeOK, ScopeRow, Status, Active
<1>2. scope' \in [Scope -> ScopeRow]
  BY <1>1 DEF Marked
<1>3. GrantedRows' /\ BlankRows' /\ SameCharge
  BY <1>1 DEF StoreInv, GrantedRows, BlankRows, SameCharge, StoreTypeOK, Pending
<1> QED
  BY <1>1, <1>2, <1>3 DEF Evolves, EvolvesBut, StoreInv, StoreTypeOK, Terminal, Pending

LEMMA FindEvolves ==
  ASSUME StoreInv, NEW a \in Act, FindActiveScope(a)
  PROVE  Evolves /\ SameCharge
<1>1. Passed(a) \in SUBSET Scope
  BY DEF Passed, Before, StoreInv, StoreTypeOK
<1>2. Passed(a) \cap lapsed \in SUBSET Scope /\ {s \in Passed(a) : Spent(s)} \in SUBSET Scope
  BY <1>1
<1> QED
  BY <1>2, MarkedEvolves DEF FindActiveScope

LEMMA RecordEvolves ==
  ASSUME StoreInv, NEW s \in Scope, RecordScopeAction(s), scope[s].status # "absent"
  PROVE  /\ Evolves
         /\ scope'[s].used = scope[s].used + 1
         /\ \A t \in Scope \ {s} : scope'[t].used = scope[t].used
<1> DEFINE status == IF Completes(s) THEN "completed" ELSE scope[s].status
           row == [status |-> status, terms |-> scope[s].terms,
                   used |-> scope[s].used + 1]
<1>0. scope[s] \in ScopeRow /\ status \in Status
  BY DEF StoreInv, StoreTypeOK, ScopeRow, Status
<1>1. /\ row \in ScopeRow
      /\ row.terms = scope[s].terms
      /\ row.used = scope[s].used + 1
      /\ row.status = status
  <2> HIDE DEF status
  <2> QED
    BY <1>0 DEF ScopeRow
<1>2. scope' = [scope EXCEPT ![s] = row] /\ granted' = granted /\ lapsed' = lapsed
  BY DEF RecordScopeAction, Charge
<1>3. /\ scope' \in [Scope -> ScopeRow]
      /\ scope'[s] = row
      /\ \A t \in Scope \ {s} : scope'[t] = scope[t]
  BY <1>1, <1>2, RowWrite DEF StoreInv
<1>4. status \notin Pending \/ status = scope[s].status
  BY DEF Pending
<1>5. scope[s].status \in Terminal => status = scope[s].status
  BY DEF Completes, Active, Terminal
<1>6. status # "absent"
  OBVIOUS
<1> HIDE DEF status
<1>7. GrantedRows' /\ BlankRows'
  BY <1>1, <1>2, <1>3, <1>4, <1>6 DEF StoreInv, GrantedRows, BlankRows, StoreTypeOK, Pending
<1> QED
  BY <1>1, <1>2, <1>3, <1>4, <1>5, <1>6, <1>7 DEF Evolves, EvolvesBut, StoreInv, StoreTypeOK, Pending

-----------------------------------------------------------------------------
(* Job grants.                                                             *)

LEMMA ResolvedUsable ==
  ASSUME StoreInv, NEW r, NEW s \in Resolved(r)
  PROVE  s \in Scope /\ Usable(s, r)
<1>1. CASE r.pinned # None
  BY <1>1 DEF Resolved
<1>2. CASE r.pinned = None
  BY <1>2 DEF Resolved, GrantHits, StoreInv, StoreTypeOK
<1> QED
  BY <1>1, <1>2

LEMMA ResolveEvolves ==
  ASSUME StoreInv, NEW r, ResolveGrant(r)
  PROVE  Evolves
<1>1. Retired(r) \in SUBSET Scope
  BY DEF Retired, StoreInv, StoreTypeOK
<1>2. CASE scope' = Marked(Retired(r), {})
  BY <1>1, <1>2, MarkedEvolves DEF ResolveGrant
<1>3. CASE scope' = scope
  BY <1>3, StoreStutter DEF ResolveGrant, storeVars
<1> QED
  BY <1>2, <1>3 DEF ResolveGrant

LEMMA SweepEvolves ==
  ASSUME StoreInv, SweepExpired
  PROVE  Evolves
BY MarkedEvolves DEF SweepExpired, StoreInv, StoreTypeOK

LEMMA LapseEvolves ==
  ASSUME StoreInv, NEW s \in Scope, Lapse(s)
  PROVE  Evolves
BY DEF Lapse, StoreInv, StoreTypeOK, GrantedRows, BlankRows, Evolves, EvolvesBut, Pending

\* A decrement takes one from the budget exactly when the grant is consumable
\* and has one.
LEMMA DecrementEvolves ==
  ASSUME StoreInv, NEW s \in Scope, DecrementBudget(s)
  PROVE  /\ EvolvesBut({s})
         /\ scope'[s].terms.budget =
              IF Consumable(s) /\ Budget(s) # None THEN Budget(s) - 1 ELSE Budget(s)
<1>0. scope[s] \in ScopeRow
  BY DEF StoreInv, StoreTypeOK
<1>1. CASE Active(s) /\ s \in lapsed
  <2>1. Evolves
    BY <1>1, MarkedEvolves DEF DecrementBudget
  <2>2. ~Consumable(s) /\ scope'[s].terms.budget = scope[s].terms.budget
    BY <1>1, <2>1 DEF Consumable, Evolves, EvolvesBut, Active
  <2> QED
    BY <2>1, <2>2 DEF Evolves, EvolvesBut, Budget
<1>2. CASE Consumable(s) /\ Budget(s) # None
  <2> DEFINE r == [scope[s] EXCEPT !.terms.budget = Budget(s) - 1]
  <2>1. scope[s].status = "active" /\ Budget(s) \in Nat /\ Budget(s) - 1 \in Nat
    BY <1>0, <1>2 DEF Consumable, Active, HasBudget, Budget, ScopeRow, Proposal
  <2>2. /\ r.terms = [scope[s].terms EXCEPT !.budget = Budget(s) - 1]
        /\ r.used = scope[s].used
        /\ r.status = "active"
        /\ r \in ScopeRow
    BY <1>0, <2>1 DEF ScopeRow, Proposal, Status
  <2>3. /\ r.terms.budget = Budget(s) - 1
        /\ r.terms.allowed = scope[s].terms.allowed
        /\ r.terms.forbidden = scope[s].terms.forbidden
        /\ r.terms.serves = scope[s].terms.serves
        /\ r.terms.covers = scope[s].terms.covers
    BY <1>0, <2>2 DEF ScopeRow, Proposal
  <2>4. scope' = [scope EXCEPT ![s] = r]
    BY <1>2 DEF DecrementBudget, Consumable
  <2>5. r \in ScopeRow /\ r.status = "active"
    BY <2>2
  <2> HIDE DEF r
  <2>6. /\ scope' \in [Scope -> ScopeRow]
        /\ scope'[s] = r
        /\ \A t \in Scope \ {s} : scope'[t] = scope[t]
    BY <2>4, <2>5, RowWrite DEF StoreInv
  <2>7. granted' = granted /\ lapsed' = lapsed
    BY DEF DecrementBudget
  <2>8. GrantedRows' /\ BlankRows'
    BY <2>1, <2>5, <2>6, <2>7 DEF StoreInv, GrantedRows, BlankRows, StoreTypeOK, Pending
  <2> QED
    BY <1>2, <2>1, <2>3, <2>5, <2>6, <2>7, <2>8 DEF EvolvesBut, StoreInv, StoreTypeOK, Terminal, Pending
<1>3. CASE ~(Active(s) /\ s \in lapsed) /\ ~(Consumable(s) /\ Budget(s) # None)
  <2>1. scope' = scope
    BY <1>3 DEF DecrementBudget
  <2>2. Evolves
    BY <2>1, StoreStutter DEF DecrementBudget, storeVars
  <2> QED
    BY <1>3, <2>1, <2>2 DEF Evolves, EvolvesBut, Budget
<1> QED
  BY <1>1, <1>2, <1>3
=============================================================================
