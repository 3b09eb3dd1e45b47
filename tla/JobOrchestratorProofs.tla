------------------------- MODULE JobOrchestratorProofs -------------------------
(***************************************************************************)
(* What the job orchestrator guarantees for every set of dispatches,       *)
(* holders, caps and grants.                                               *)
(*                                                                         *)
(* Two counts are at stake, a holder's slots and a grant's budget; each is *)
(* tied to a set of jobs that a step changes by at most one member.        *)
(* GrantsFit and RowsFit say what a suspended dispatch may rely on; they   *)
(* survive other steps because the store only evolves.  The watchdog that  *)
(* reads the orchestrator's rows follows at the end.                       *)
(***************************************************************************)
EXTENDS MCJobsAndWatchdog, TrustScopesProofs, SequenceTheorems

JobTypeOK ==
  /\ pc \in [Job -> PC]
  /\ grant \in [Job -> Scope \cup {None}]
  /\ row \in [Job -> [state : LifecycleState, ended : BOOLEAN]]
  /\ live \in Seq(Job)
  /\ slots \in [Holder -> Nat]
  /\ killed \in SUBSET Job
  /\ stopping \in SUBSET (Job \X {"announced", "operator", "host"})
  /\ restarts \in 0 .. MaxRestarts
  /\ issued \in [Scope -> Nat \cup {None}]

CapKept == ActorCap # None => \A h \in Holder : slots[h] <= ActorCap

\* A resolved grant exists, and its terms fit the request.
GrantsFit ==
  \A j \in Job : grant[j] # None =>
    /\ scope[grant[j]].status # "absent"
    /\ Serves(grant[j], request[j])
    /\ request[j].use \in scope[grant[j]].terms.covers

Resolving == {"resolved", "reserved", "refusing"}

\* No row before the insert, no peer without a grant, no way back from an end.
RowsFit ==
  \A j \in Job :
    /\ pc[j] \in Resolving \cup {"idle"} => row[j].state = "none"
    /\ pc[j] \in Resolving /\ grant[j] = None => ~request[j].peer
    /\ pc[j] \in {"exited", "failed"} => row[j].ended /\ ~CurrentlyActive(row[j].state)

Accounts ==
  \A s \in Scope : issued[s] # None =>
    /\ scope[s].status # "absent"
    /\ Budget(s) \in Nat
    /\ Budget(s) + Cardinality(Inserted(s)) = issued[s]

\* Who runs, is live or is being stopped was inserted.
Known ==
  \A j \in Job : row[j].state = "none" =>
    /\ pc[j] \in Resolving \cup {"idle", "refused", "lost"}
    /\ \A i \in DOMAIN live : live[i] # j
    /\ \A p \in stopping : p[1] # j

SlotInv == SlotsBalance /\ CapKept

\* The inductive invariant of orchestrator and store.
IInv == StoreInv /\ JobTypeOK /\ SlotInv /\ GrantsFit /\ RowsFit /\ Accounts /\ Known

-----------------------------------------------------------------------------
LEMMA InitIInv == Init => IInv
<1> SUFFICES ASSUME Init PROVE IInv
  OBVIOUS
<1>1. StoreInv
  BY StoreBegins DEF Init
<1>2. JobTypeOK
  BY JobOrchestratorAssumption DEF Init, JobTypeOK, PC, LifecycleState
<1>3. SlotInv
  <2>1. \A h \in Holder : Holders(h) = {}
    BY DEF Init, Holders, Holding
  <2>2. \A h \in Holder : slots[h] = 0
    BY DEF Init
  <2>3. SlotsBalance
    BY <2>1, <2>2, FS_EmptySet DEF SlotsBalance
  <2>4. CapKept
    BY <2>2, JobOrchestratorAssumption DEF CapKept
  <2> QED
    BY <2>3, <2>4 DEF SlotInv
<1>4. GrantsFit /\ RowsFit /\ Accounts /\ Known
  BY DEF Init, GrantsFit, RowsFit, Accounts, Known, Resolving
<1> QED
  BY <1>1, <1>2, <1>3, <1>4 DEF IInv

-----------------------------------------------------------------------------
(* The slots.                                                              *)

LEMMA HoldersFinite == \A h \in Holder : IsFiniteSet(Holders(h))
BY JobOrchestratorAssumption, FS_Subset DEF Holders

LEMMA InsertedFinite == \A s \in Scope : IsFiniteSet(Inserted(s))
BY JobOrchestratorAssumption, FS_Subset DEF Inserted

\* A step that lets nobody enter or leave.
LEMMA SlotsSame ==
  ASSUME SlotInv, UNCHANGED slots,
         \A k \in Job : (pc'[k] \in Holding) = (pc[k] \in Holding)
  PROVE  SlotInv'
<1>1. \A h \in Holder : Holders(h)' = Holders(h)
  BY DEF Holders
<1> QED
  BY <1>1 DEF SlotInv, SlotsBalance, CapKept

LEMMA SlotsEnter ==
  ASSUME JobTypeOK, SlotInv, NEW j \in Job, NEW l \in Holding, pc[j] \notin Holding,
         Goto(j, l), ~AtCap(Holds(j)), Reserve(Holds(j))
  PROVE  SlotInv' /\ slots' \in [Holder -> Nat]
<1> DEFINE g == Holds(j)
<1>0. g \in Holder
  BY JobOrchestratorAssumption DEF Holds, Request
<1>1. /\ pc'[j] = l
      /\ \A k \in Job \ {j} : pc'[k] = pc[k]
  BY DEF Goto, JobTypeOK
<1>2. /\ slots' \in [Holder -> Nat]
      /\ slots'[g] = slots[g] + 1
      /\ \A h \in Holder \ {g} : slots'[h] = slots[h]
  BY <1>0 DEF Reserve, JobTypeOK
<1>3. Holders(g)' = Holders(g) \cup {j} /\ j \notin Holders(g)
  BY <1>1 DEF Holders
<1>4. \A h \in Holder \ {g} : Holders(h)' = Holders(h)
  BY <1>1 DEF Holders
<1>5. Cardinality(Holders(g)') = Cardinality(Holders(g)) + 1
  BY <1>0, <1>3, HoldersFinite, FS_AddElement
<1>6. SlotsBalance'
  BY <1>0, <1>2, <1>4, <1>5 DEF SlotInv, SlotsBalance
<1>7. CapKept'
  <2> SUFFICES ASSUME ActorCap # None, NEW h \in Holder
               PROVE  slots'[h] <= ActorCap
    BY DEF CapKept
  <2>1. ActorCap \in Nat /\ slots[h] \in Nat /\ slots[h] <= ActorCap
    BY JobOrchestratorAssumption DEF SlotInv, CapKept, JobTypeOK
  <2>2. CASE h = g
    BY <2>1, <2>2, <1>2 DEF AtCap
  <2>3. CASE h # g
    BY <2>1, <2>3, <1>2
  <2> QED
    BY <2>2, <2>3
<1> QED
  BY <1>2, <1>6, <1>7 DEF SlotInv

LEMMA SlotsLeave ==
  ASSUME JobTypeOK, SlotInv, NEW j \in Job, NEW l, l \notin Holding, pc[j] \in Holding,
         Goto(j, l), Release(Holds(j))
  PROVE  SlotInv' /\ slots' \in [Holder -> Nat]
<1> DEFINE g == Holds(j)
<1>0. g \in Holder
  BY JobOrchestratorAssumption DEF Holds, Request
<1>1. /\ pc'[j] = l
      /\ \A k \in Job \ {j} : pc'[k] = pc[k]
  BY DEF Goto, JobTypeOK
<1>3. Holders(g)' = Holders(g) \ {j} /\ j \in Holders(g)
  BY <1>1 DEF Holders
<1>4. \A h \in Holder \ {g} : Holders(h)' = Holders(h)
  BY <1>1 DEF Holders
<1>5. /\ Cardinality(Holders(g)') = Cardinality(Holders(g)) - 1
      /\ Cardinality(Holders(g)') \in Nat
      /\ Cardinality(Holders(g)) \in Nat
  <2>1. IsFiniteSet(Holders(g)) /\ IsFiniteSet(Holders(g)')
    BY <1>0, <1>3, HoldersFinite, FS_RemoveElement
  <2> QED
    BY <2>1, <1>3, FS_RemoveElement, FS_CardinalityType
<1>6. slots[g] = Cardinality(Holders(g)) /\ slots[g] \in Nat
  BY <1>0 DEF SlotInv, SlotsBalance, JobTypeOK
<1>7. slots[g] >= 1
  BY <1>5, <1>6
<1>2. /\ slots' \in [Holder -> Nat]
      /\ slots'[g] = slots[g] - 1
      /\ \A h \in Holder \ {g} : slots'[h] = slots[h]
  BY <1>0, <1>6, <1>7 DEF Release, JobTypeOK
<1>8. SlotsBalance'
  BY <1>0, <1>2, <1>4, <1>5, <1>6 DEF SlotInv, SlotsBalance
<1>9. CapKept'
  <2> SUFFICES ASSUME ActorCap # None, NEW h \in Holder
               PROVE  slots'[h] <= ActorCap
    BY DEF CapKept
  <2>1. ActorCap \in Nat /\ slots[h] \in Nat /\ slots[h] <= ActorCap
    BY JobOrchestratorAssumption DEF SlotInv, CapKept, JobTypeOK
  <2> QED
    BY <2>1, <1>2
<1> QED
  BY <1>2, <1>8, <1>9 DEF SlotInv

-----------------------------------------------------------------------------
(* The grants.                                                             *)

LEMMA GrantsKept ==
  ASSUME StoreInv, JobTypeOK, GrantsFit, NEW B, EvolvesBut(B), UNCHANGED grant
  PROVE  GrantsFit'
BY DEF GrantsFit, JobTypeOK, EvolvesBut, Serves

\* A step that inserts nothing and spends nothing.
LEMMA AccountsKept ==
  ASSUME Accounts, Evolves, UNCHANGED <<grant, issued>>,
         \A k \in Job : (row'[k].state = "none") = (row[k].state = "none")
  PROVE  Accounts'
<1>1. \A s \in Scope : Inserted(s)' = Inserted(s)
  BY DEF Inserted
<1> QED
  BY <1>1 DEF Accounts, Evolves, EvolvesBut, Budget

LEMMA StoreKept ==
  ASSUME NEW B, EvolvesBut(B)
  PROVE  StoreInv'
BY DEF EvolvesBut, StoreInv

LEMMA EndStates ==
  /\ \A reason \in ExitReason \cup {"shed_by_host"} :
       EndState(reason) \in LifecycleState /\ ~CurrentlyActive(EndState(reason))
         /\ EndState(reason) # "none"
BY DEF ExitReason, EndState, LifecycleState, CurrentlyActive

LEMMA MarkedRow ==
  ASSUME JobTypeOK, NEW j \in Job, NEW reason \in ExitReason \cup {"shed_by_host"},
         MarkTerminated(j, reason)
  PROVE  /\ row' \in [Job -> [state : LifecycleState, ended : BOOLEAN]]
         /\ row'[j].ended /\ ~CurrentlyActive(row'[j].state) /\ row'[j].state # "none"
         /\ \A k \in Job \ {j} : row'[k] = row[k]
<1>1. PICK st \in LifecycleState : st = EndState(reason) /\ ~CurrentlyActive(st) /\ st # "none"
  BY EndStates
<1>2. row' = [row EXCEPT ![j] = [state |-> st, ended |-> TRUE]]
  BY <1>1 DEF MarkTerminated
<1> QED
  BY <1>1, <1>2 DEF JobTypeOK

-----------------------------------------------------------------------------
(* The steps.                                                              *)

\* Everything of the jobs stays, the store evolves.
LEMMA JobsStutter ==
  ASSUME IInv, Evolves, UNCHANGED <<jobVars, issued>>
  PROVE  IInv'
<1>1. StoreInv' /\ GrantsFit'
  BY StoreKept, GrantsKept DEF IInv, Evolves, jobVars
<1>2. JobTypeOK' /\ RowsFit' /\ Known'
  BY DEF IInv, JobTypeOK, RowsFit, Known, jobVars
<1>3. SlotInv'
  BY SlotsSame DEF IInv, jobVars
<1>4. Accounts'
  BY AccountsKept DEF IInv, jobVars
<1> QED
  BY <1>1, <1>2, <1>3, <1>4 DEF IInv

LEMMA DispatchStepKept ==
  ASSUME IInv, NEW j \in Job, Dispatch(j)
  PROVE  IInv'
<1> DEFINE r == request[j]
<1>0. r \in Request
  BY JobOrchestratorAssumption
<1>1. Evolves
  BY ResolveEvolves DEF Dispatch, IInv
<1>2. PICK l \in {"refused", "resolved"} :
        /\ Goto(j, l)
        /\ l = "refused" => grant' = grant
        /\ l = "resolved" => ~Denied(r)
  BY DEF Dispatch
<1>3. \/ grant' = grant /\ (l = "resolved" => Resolved(r) = {})
      \/ \E s \in Resolved(r) : grant' = [grant EXCEPT ![j] = s]
  BY <1>2 DEF Dispatch, Goto, IInv, JobTypeOK
<1>4. UNCHANGED <<row, live, slots, killed, stopping, restarts, issued>>
  BY DEF Dispatch
<1>5. pc[j] = "idle" /\ pc'[j] = l /\ \A k \in Job \ {j} : pc'[k] = pc[k]
  BY <1>2 DEF Dispatch, Goto, IInv, JobTypeOK
<1>6. pc' \in [Job -> PC]
  BY <1>2 DEF Goto, IInv, JobTypeOK, PC
<1>7. row[j].state = "none"
  BY <1>5 DEF IInv, RowsFit
<1>8. SlotInv'
  BY <1>4, <1>5, SlotsSame DEF IInv, Holding
<1>11. Known'
  BY <1>2, <1>4, <1>5 DEF IInv, Known, Resolving
<1>9. CASE grant' = grant /\ (l = "resolved" => Resolved(r) = {})
  <2>1. GrantsFit'
    BY <1>1, <1>9, GrantsKept DEF IInv, Evolves
  <2>2. RowsFit'
    BY <1>2, <1>4, <1>5, <1>9 DEF IInv, RowsFit, Denied, Resolving
  <2>3. Accounts'
    BY <1>1, <1>4, <1>9, AccountsKept DEF IInv
  <2>4. JobTypeOK'
    BY <1>4, <1>6, <1>9 DEF IInv, JobTypeOK
  <2> QED
    BY <1>1, <1>8, <1>11, <2>1, <2>2, <2>3, <2>4, StoreKept DEF IInv, Evolves
<1>10. ASSUME NEW s \in Resolved(r), grant' = [grant EXCEPT ![j] = s]
       PROVE  IInv'
  <2>1. s \in Scope /\ Usable(s, r)
    BY ResolvedUsable DEF IInv
  <2>2. /\ grant' \in [Job -> Scope \cup {None}]
        /\ grant'[j] = s
        /\ \A k \in Job \ {j} : grant'[k] = grant[k]
    BY <2>1, <1>10 DEF IInv, JobTypeOK
  <2>3. /\ scope'[s].status # "absent"
        /\ r.actor \in scope'[s].terms.serves
        /\ r.use \in scope'[s].terms.covers
    BY <1>1, <2>1 DEF Usable, Active, Evolves, EvolvesBut, Serves
  <2>4. \A k \in Job \ {j} : grant[k] # None =>
          /\ scope'[grant[k]].status # "absent"
          /\ request[k].actor \in scope'[grant[k]].terms.serves
          /\ request[k].use \in scope'[grant[k]].terms.covers
    BY <1>1 DEF IInv, GrantsFit, JobTypeOK, Evolves, EvolvesBut, Serves
  <2>5. GrantsFit'
    BY <2>2, <2>3, <2>4 DEF GrantsFit, Serves
  <2>6. None \notin Scope
    BY TrustScopesAssumption
  <2>7. RowsFit'
    BY <1>4, <1>5, <1>7, <2>1, <2>2, <2>6 DEF IInv, RowsFit, Resolving
  <2>8. \A t \in Scope : Inserted(t)' = Inserted(t)
    BY <1>4, <1>7, <2>2 DEF Inserted
  <2>9. Accounts'
    BY <1>1, <1>4, <2>8 DEF IInv, Accounts, Evolves, EvolvesBut, Budget
  <2>10. JobTypeOK'
    BY <1>4, <1>6, <2>2 DEF IInv, JobTypeOK
  <2> QED
    BY <1>1, <1>8, <1>11, <2>5, <2>7, <2>9, <2>10, StoreKept DEF IInv, Evolves
<1> QED
  BY <1>3, <1>9, <1>10

\* Steps of a dispatch that leave the store and the rows alone.
LEMMA AdmissionSteps ==
  ASSUME IInv, NEW j \in Job,
         RefuseName(j) \/ CheckActor(j) \/ RefuseHost(j) \/ ReleaseHost(j)
  PROVE  IInv'
<1>1. /\ UNCHANGED <<storeVars, grant, row, live, killed, stopping, restarts, issued>>
      /\ pc[j] \in Resolving \cup {"idle"}
  BY DEF RefuseName, CheckActor, RefuseHost, ReleaseHost, Resolving
<1>2. PICK l \in {"refused", "reserved", "refusing"} :
        Goto(j, l) /\ (l = "refused" \/ pc[j] \in Resolving)
  BY DEF RefuseName, CheckActor, RefuseHost, ReleaseHost, Resolving
<1>3. pc'[j] = l /\ (\A k \in Job \ {j} : pc'[k] = pc[k]) /\ pc' \in [Job -> PC]
  BY <1>2 DEF Goto, IInv, JobTypeOK, PC
<1>4. SlotInv' /\ slots' \in [Holder -> Nat]
  <2>1. CASE RefuseName(j) \/ RefuseHost(j)
    <3>1. UNCHANGED slots /\ (pc'[j] \in Holding) = (pc[j] \in Holding)
      BY <2>1 DEF RefuseName, RefuseHost, Goto, Holding, IInv, JobTypeOK
    <3> QED
      BY <3>1, <1>3, SlotsSame DEF IInv, JobTypeOK
  <2>2. CASE CheckActor(j) /\ AtCap(Holds(j))
    <3>1. UNCHANGED slots /\ pc'[j] = "refused" /\ pc[j] = "resolved"
      BY <2>2 DEF CheckActor, Goto, IInv, JobTypeOK
    <3> QED
      BY <3>1, <1>3, SlotsSame DEF IInv, JobTypeOK, Holding
  <2>3. CASE CheckActor(j) /\ ~AtCap(Holds(j))
    BY <2>3, SlotsEnter DEF CheckActor, IInv, Holding
  <2>4. CASE ReleaseHost(j)
    BY <2>4, SlotsLeave DEF ReleaseHost, IInv, Holding
  <2> QED
    BY <2>1, <2>2, <2>3, <2>4
<1>5. Evolves
  BY <1>1, StoreStutter DEF IInv
<1>6. RowsFit' /\ Known'
  BY <1>1, <1>2, <1>3 DEF IInv, RowsFit, Known, Resolving
<1>7. JobTypeOK'
  BY <1>1, <1>3, <1>4 DEF IInv, JobTypeOK
<1>8. Accounts' /\ GrantsFit' /\ StoreInv'
  BY <1>1, <1>5, AccountsKept, GrantsKept, StoreKept DEF IInv, Evolves
<1> QED
  BY <1>4, <1>6, <1>7, <1>8 DEF IInv

LEMMA AdmitStep ==
  ASSUME IInv, NEW j \in Job, Admit(j)
  PROVE  IInv'
<1> DEFINE g == grant[j]
<1>0. g \in Scope \cup {None} /\ None \notin Scope
  BY TrustScopesAssumption DEF IInv, JobTypeOK
<1>1. /\ pc[j] = "reserved"
      /\ row[j].state = "none"
      /\ UNCHANGED <<grant, live, killed, stopping, restarts, issued>>
  BY DEF Admit, IInv, RowsFit, Resolving
<1>2. CASE Insert(j) /\ (g = None => UNCHANGED storeVars)
                     /\ (g # None => DecrementBudget(g) /\ Consumable(g))
  <2>1. /\ pc'[j] = "starting"
        /\ \A k \in Job \ {j} : pc'[k] = pc[k]
        /\ pc' \in [Job -> PC]
    BY <1>2 DEF Insert, Goto, IInv, JobTypeOK, PC
  <2>2. /\ row'[j].state = "dispatched"
        /\ \A k \in Job \ {j} : row'[k] = row[k]
        /\ row' \in [Job -> [state : LifecycleState, ended : BOOLEAN]]
    BY <1>2 DEF Insert, IInv, JobTypeOK, LifecycleState
  <2>3. SlotInv' /\ slots' = slots
    BY <1>1, <1>2, <2>1, SlotsSame DEF Insert, IInv, Holding
  <2>4. JobTypeOK'
    BY <1>1, <2>1, <2>2, <2>3 DEF IInv, JobTypeOK
  <2>5. RowsFit' /\ Known'
    BY <1>1, <2>1, <2>2 DEF IInv, RowsFit, Known, Resolving
  <2>6. \A s \in Scope : s # g => Inserted(s)' = Inserted(s)
    BY <1>1, <2>2 DEF Inserted
  <2>7. CASE g = None
    <3>1. Evolves
      BY <1>2, <2>7, StoreStutter DEF IInv
    <3>2. Accounts'
      BY <1>0, <1>1, <2>6, <2>7, <3>1 DEF IInv, Accounts, Evolves, EvolvesBut, Budget
    <3> QED
      BY <1>1, <2>3, <2>4, <2>5, <3>1, <3>2, GrantsKept, StoreKept DEF IInv, Evolves
  <2>8. CASE g # None
    <3>1. /\ EvolvesBut({g})
          /\ scope'[g].terms.budget = IF Budget(g) # None THEN Budget(g) - 1 ELSE Budget(g)
      BY <1>0, <1>2, <2>8, DecrementEvolves DEF IInv
    <3>2. Inserted(g)' = Inserted(g) \cup {j} /\ j \notin Inserted(g)
      BY <1>1, <2>2 DEF Inserted
    <3>3. /\ Cardinality(Inserted(g)') = Cardinality(Inserted(g)) + 1
          /\ Cardinality(Inserted(g)) \in Nat
      BY <1>0, <2>8, <3>2, InsertedFinite, FS_AddElement, FS_CardinalityType
    <3>4. ASSUME NEW s \in Scope, issued[s] # None, s # g
          PROVE  /\ scope'[s].status # "absent" /\ Budget(s)' \in Nat
                 /\ Budget(s)' + Cardinality(Inserted(s)') = issued[s]
      BY <2>6, <3>1, <3>4 DEF IInv, Accounts, EvolvesBut, Budget
    <3>5. ASSUME issued[g] # None
          PROVE  /\ scope'[g].status # "absent" /\ Budget(g)' \in Nat
                 /\ Budget(g)' + Cardinality(Inserted(g)') = issued[g]
      <4>1. /\ Budget(g) \in Nat /\ scope[g].status # "absent"
            /\ Budget(g) + Cardinality(Inserted(g)) = issued[g]
        BY <1>0, <2>8, <3>5 DEF IInv, Accounts
      <4>2. Budget(g) > 0 /\ Budget(g) # None
        BY <1>2, <2>8, <4>1, TrustScopesAssumption DEF Consumable, HasBudget
      <4>3. Budget(g)' = Budget(g) - 1
        BY <1>1, <3>1, <4>2 DEF Budget
      <4>4. scope'[g].status # "absent"
        BY <1>0, <2>8, <3>1, <4>1 DEF EvolvesBut
      <4> QED
        BY <3>3, <4>1, <4>2, <4>3, <4>4
    <3>6. Accounts'
      BY <1>1, <3>4, <3>5 DEF Accounts
    <3> QED
      BY <1>1, <2>3, <2>4, <2>5, <3>1, <3>6, GrantsKept, StoreKept DEF IInv
  <2> QED
    BY <2>7, <2>8
<1>3. CASE /\ g # None /\ DecrementBudget(g) /\ ~Consumable(g)
           /\ Goto(j, "refused") /\ Release(Holds(j)) /\ UNCHANGED row
  <2>1. /\ pc'[j] = "refused"
        /\ \A k \in Job \ {j} : pc'[k] = pc[k]
        /\ pc' \in [Job -> PC]
    BY <1>3 DEF Goto, IInv, JobTypeOK, PC
  <2>2. SlotInv' /\ slots' \in [Holder -> Nat]
    BY <1>1, <1>3, SlotsLeave DEF IInv, Holding
  <2>3. EvolvesBut({g}) /\ scope'[g].terms.budget = Budget(g)
    BY <1>0, <1>3, DecrementEvolves DEF IInv
  <2>4. Evolves
    BY <2>3 DEF Evolves, EvolvesBut, Budget
  <2>5. Accounts'
    BY <1>1, <1>3, <2>4, AccountsKept DEF IInv
  <2>6. RowsFit' /\ JobTypeOK' /\ Known'
    BY <1>1, <1>3, <2>1, <2>2 DEF IInv, RowsFit, Resolving, JobTypeOK, Known
  <2> QED
    BY <1>1, <2>2, <2>4, <2>5, <2>6, GrantsKept, StoreKept DEF IInv, Evolves
<1> QED
  BY <1>2, <1>3 DEF Admit, Spends

\* Steps of the jobs after the insert: the store is left alone, rows that were
\* inserted stay so.
LEMMA StoreUnchanged ==
  ASSUME IInv, UNCHANGED <<storeVars, grant, issued>>,
         JobTypeOK', SlotInv', RowsFit', Known',
         \A k \in Job : (row'[k].state = "none") = (row[k].state = "none")
  PROVE  IInv'
<1>1. Evolves
  BY StoreStutter DEF IInv
<1> QED
  BY <1>1, AccountsKept, GrantsKept, StoreKept DEF IInv, Evolves

LEMMA GoLiveStep ==
  ASSUME IInv, NEW j \in Job, GoLive(j)
  PROVE  IInv'
<1>1. /\ pc[j] = "starting" /\ pc'[j] = "live"
      /\ \A k \in Job \ {j} : pc'[k] = pc[k]
      /\ pc' \in [Job -> PC]
  BY DEF GoLive, Goto, IInv, JobTypeOK, PC
<1>2. /\ row'[j].state = "running"
      /\ \A k \in Job \ {j} : row'[k] = row[k]
      /\ row' \in [Job -> [state : LifecycleState, ended : BOOLEAN]]
  BY DEF GoLive, IInv, JobTypeOK, LifecycleState
<1>3. UNCHANGED <<storeVars, grant, issued, slots, killed, stopping, restarts>>
  BY DEF GoLive
<1>4. /\ live' \in Seq(Job)
      /\ \A i \in DOMAIN live' : live'[i] = j \/ (i \in DOMAIN live /\ live'[i] = live[i])
  BY DEF GoLive, IInv, JobTypeOK
<1>5. SlotInv'
  BY <1>1, <1>3, SlotsSame DEF IInv, Holding
<1>6. row[j].state # "none"
  BY <1>1 DEF IInv, Known, Resolving
<1>7. JobTypeOK'
  BY <1>1, <1>2, <1>3, <1>4 DEF IInv, JobTypeOK
<1>8. RowsFit'
  BY <1>1, <1>2, <1>3 DEF IInv, RowsFit, Resolving
<1>9. Known'
  BY <1>1, <1>2, <1>3, <1>4 DEF IInv, Known
<1> QED
  BY <1>2, <1>3, <1>5, <1>6, <1>7, <1>8, <1>9, StoreUnchanged

\* FailToStart and Exit: the slot is released and the row marked.
LEMMA EndStep ==
  ASSUME IInv, NEW j \in Job, NEW l \in {"failed", "exited"},
         NEW reason \in ExitReason \cup {"shed_by_host"},
         pc[j] \in {"starting", "live"},
         Goto(j, l), Release(Holds(j)), MarkTerminated(j, reason),
         live' \in Seq(Job),
         \A i \in DOMAIN live' : \E m \in DOMAIN live : live'[i] = live[m],
         UNCHANGED <<storeVars, grant, killed, stopping, restarts, issued>>
  PROVE  IInv'
<1>1. /\ pc'[j] = l
      /\ \A k \in Job \ {j} : pc'[k] = pc[k]
      /\ pc' \in [Job -> PC]
  BY DEF Goto, IInv, JobTypeOK, PC
<1>2. /\ row' \in [Job -> [state : LifecycleState, ended : BOOLEAN]]
      /\ row'[j].ended /\ ~CurrentlyActive(row'[j].state) /\ row'[j].state # "none"
      /\ \A k \in Job \ {j} : row'[k] = row[k]
  BY MarkedRow DEF IInv
<1>3. SlotInv' /\ slots' \in [Holder -> Nat]
  BY SlotsLeave DEF IInv, Holding
<1>4. row[j].state # "none"
  BY DEF IInv, Known, Resolving
<1>5. JobTypeOK'
  BY <1>1, <1>2, <1>3 DEF IInv, JobTypeOK
<1>6. RowsFit'
  BY <1>1, <1>2 DEF IInv, RowsFit, Resolving
<1>7. Known'
  BY <1>1, <1>2 DEF IInv, Known
<1> QED
  BY <1>2, <1>3, <1>4, <1>5, <1>6, <1>7, StoreUnchanged

LEMMA ExitStep ==
  ASSUME IInv, NEW j \in Job, NEW reason \in ExitReason, Exit(j, reason)
  PROVE  IInv'
<1>1. PICK i \in DOMAIN live :
        live' = SubSeq(live, 1, i - 1) \o SubSeq(live, i + 1, Len(live))
  BY DEF Exit
<1>2. live \in Seq(Job) /\ i \in 1 .. Len(live)
  BY DEF IInv, JobTypeOK
<1>3. live' \in Seq(Job)
  BY <1>1, <1>2
<1>4. \A n \in DOMAIN live' : \E m \in DOMAIN live : live'[n] = live[m]
  <2> SUFFICES ASSUME NEW n \in DOMAIN live'
               PROVE  \E m \in DOMAIN live : live'[n] = live[m]
    OBVIOUS
  <2>1. Len(live') = Len(live) - 1 /\ n \in 1 .. Len(live) - 1
    BY <1>1, <1>2
  <2>2. CASE n < i
    BY <1>1, <1>2, <2>1, <2>2
  <2>3. CASE n >= i
    <3> DEFINE A == SubSeq(live, 1, i - 1)
               B == SubSeq(live, i + 1, Len(live))
    <3>1. A \in Seq(Job) /\ Len(A) = i - 1
      BY <1>2
    <3>2. /\ B \in Seq(Job) /\ Len(B) = Len(live) - i
          /\ \A k \in 1 .. Len(live) - i : B[k] = live[i + k]
      BY <1>2
    <3> HIDE DEF A, B
    <3>3. live' = A \o B
      BY <1>1 DEF A, B
    <3>4. n - (i - 1) \in 1 .. Len(live) - i /\ n \in Nat /\ i \in Nat
      BY <1>2, <2>1, <2>3
    <3>5. live'[n] = B[n - (i - 1)]
      <4>1. n \in 1 .. Len(A) + Len(B) /\ ~(n <= Len(A)) /\ n - Len(A) = n - (i - 1)
        BY <1>2, <2>1, <2>3, <3>1, <3>2, <3>4
      <4>2. (A \o B)[n] = B[n - Len(A)]
        BY <3>1, <3>2, <4>1, ConcatProperties
      <4> QED
        BY <3>3, <4>1, <4>2
    <3>6. B[n - (i - 1)] = live[i + (n - (i - 1))]
      BY <3>2, <3>4
    <3>7. i + (n - (i - 1)) = n + 1 /\ n + 1 \in DOMAIN live
      BY <1>2, <2>1, <3>4
    <3> QED
      BY <3>5, <3>6, <3>7
  <2> QED
    BY <1>2, <2>1, <2>2, <2>3
<1> QED
  BY <1>3, <1>4, EndStep DEF Exit

LEMMA FailStep ==
  ASSUME IInv, NEW j \in Job, FailToStart(j)
  PROVE  IInv'
<1>1. live' \in Seq(Job) /\ \A i \in DOMAIN live' : \E m \in DOMAIN live : live'[i] = live[m]
  BY DEF FailToStart, IInv, JobTypeOK
<1>2. "crashed" \in ExitReason
  BY DEF ExitReason
<1> QED
  BY <1>1, <1>2, EndStep DEF FailToStart

\* GoStale, Terminate, Shed, ShedKill, Stopped: nobody moves, a row that is
\* touched was inserted and is not the row of a job that ended.
LEMMA TouchStep ==
  ASSUME IInv, NEW j \in Job, row[j].state # "none",
         UNCHANGED <<storeVars, pc, grant, live, slots, restarts, issued>>,
         JobTypeOK',
         row'[j].state # "none", \A k \in Job \ {j} : row'[k] = row[k],
         pc[j] \in {"exited", "failed"} => row'[j] = row[j],
         \A p \in stopping' : p \in stopping \/ p[1] = j
  PROVE  IInv'
<1>1. SlotInv'
  BY SlotsSame DEF IInv
<1>2. RowsFit'
  BY DEF IInv, RowsFit, Resolving
<1>3. Known'
  BY DEF IInv, Known
<1> QED
  BY <1>1, <1>2, <1>3, StoreUnchanged

LEMMA GoStaleStep ==
  ASSUME IInv, NEW j \in Job, GoStale(j)
  PROVE  IInv'
<1>1. /\ pc[j] = "live" /\ row[j].state # "none"
      /\ UNCHANGED <<storeVars, pc, grant, live, slots, killed, stopping, restarts, issued>>
  BY DEF GoStale
<1>2. /\ row'[j].state = "stale" /\ \A k \in Job \ {j} : row'[k] = row[k]
      /\ row' \in [Job -> [state : LifecycleState, ended : BOOLEAN]]
  BY DEF GoStale, IInv, JobTypeOK, LifecycleState
<1>3. JobTypeOK'
  BY <1>1, <1>2 DEF IInv, JobTypeOK
<1> QED
  BY <1>1, <1>2, <1>3, TouchStep

LEMMA TerminateStep ==
  ASSUME IInv, NEW j \in Job, Terminate(j)
  PROVE  IInv'
<1>1. /\ row[j].state # "none"
      /\ UNCHANGED <<storeVars, pc, grant, live, slots, restarts, issued>>
      /\ killed' \in SUBSET Job
      /\ stopping' \in SUBSET (Job \X {"announced", "operator", "host"})
      /\ \A p \in stopping' : p \in stopping \/ p[1] = j
  BY DEF Terminate, IInv, JobTypeOK
<1>2. CASE UNCHANGED row
  BY <1>1, <1>2, TouchStep DEF IInv, JobTypeOK
<1>3. CASE CurrentlyActive(row[j].state) /\ MarkTerminated(j, "terminated_by_user")
  <2>1. "terminated_by_user" \in ExitReason
    BY DEF ExitReason
  <2>2. /\ row' \in [Job -> [state : LifecycleState, ended : BOOLEAN]]
        /\ row'[j].state # "none" /\ \A k \in Job \ {j} : row'[k] = row[k]
    BY <1>3, <2>1, MarkedRow DEF IInv
  <2>3. pc[j] \notin {"exited", "failed"}
    BY <1>3 DEF IInv, RowsFit
  <2>4. JobTypeOK'
    BY <1>1, <2>2 DEF IInv, JobTypeOK
  <2> QED
    BY <1>1, <2>2, <2>3, <2>4, TouchStep
<1> QED
  BY <1>2, <1>3 DEF Terminate

LEMMA ShedSteps ==
  ASSUME IInv, NEW j \in Job, Shed(j) \/ ShedKill(j)
  PROVE  IInv'
<1>1. /\ UNCHANGED <<storeVars, pc, grant, row, live, slots, restarts, issued>>
      /\ killed' \in SUBSET Job
      /\ stopping' \in SUBSET (Job \X {"announced", "operator", "host"})
      /\ \A p \in stopping' : p \in stopping \/ p[1] = j
  BY DEF Shed, ShedKill, IInv, JobTypeOK
<1>2. row[j].state # "none"
  <2>1. CASE Shed(j)
    <3>1. Len(live) \in DOMAIN live /\ live[Len(live)] = j
      BY <2>1 DEF Shed, IInv, JobTypeOK
    <3> QED
      BY <3>1 DEF IInv, Known
  <2>2. CASE ShedKill(j)
    BY <2>2 DEF ShedKill, IInv, Known
  <2> QED
    BY <2>1, <2>2
<1> QED
  BY <1>1, <1>2, TouchStep DEF IInv, JobTypeOK

LEMMA StoppedStep ==
  ASSUME IInv, NEW j \in Job, NEW who \in {"operator", "host"}, Stopped(j, who)
  PROVE  IInv'
<1>1. /\ UNCHANGED <<storeVars, pc, grant, live, slots, killed, restarts, issued>>
     
      /\ stopping' \in SUBSET stopping
  BY DEF Stopped, IInv, JobTypeOK
<1>2. row[j].state # "none"
  BY DEF Stopped, IInv, Known
<1>3. CASE UNCHANGED row
  BY <1>1, <1>2, <1>3, TouchStep DEF IInv, JobTypeOK
<1>4. ASSUME NEW reason \in ExitReason \cup {"shed_by_host"}, ~row[j].ended,
             MarkTerminated(j, reason)
      PROVE  IInv'
  <2>1. /\ row' \in [Job -> [state : LifecycleState, ended : BOOLEAN]]
        /\ row'[j].state # "none" /\ \A k \in Job \ {j} : row'[k] = row[k]
    BY <1>4, MarkedRow DEF IInv
  <2>2. pc[j] \notin {"exited", "failed"}
    BY <1>4 DEF IInv, RowsFit
  <2>3. JobTypeOK'
    BY <1>1, <2>1 DEF IInv, JobTypeOK
  <2> QED
    BY <1>1, <1>2, <2>1, <2>2, <2>3, TouchStep
<1>5. PICK reason \in ExitReason \cup {"shed_by_host"} :
        UNCHANGED row \/ (~row[j].ended /\ MarkTerminated(j, reason))
  BY DEF Stopped, Unmarked, ExitReason
<1> QED
  BY <1>3, <1>4, <1>5

LEMMA RestartStep ==
  ASSUME IInv, Restart
  PROVE  IInv'
<1> DEFINE Gone == {"resolved", "reserved", "refusing", "starting", "live"}
<1>1. /\ pc' \in [Job -> PC]
      /\ \A j \in Job : pc'[j] = IF pc[j] \in Gone THEN "lost" ELSE pc[j]
  BY DEF Restart, IInv, JobTypeOK, PC
<1>2. /\ slots' \in [Holder -> Nat]
      /\ \A h \in Holder : slots'[h] = 0
      /\ live' = <<>> /\ killed' = {} /\ stopping' = {}
      /\ restarts' \in 0 .. MaxRestarts
      /\ UNCHANGED <<storeVars, grant, row, issued>>
  BY JobOrchestratorAssumption DEF Restart, IInv, JobTypeOK
<1>3. SlotInv'
  <2>1. \A h \in Holder : Holders(h)' = {}
    BY <1>1 DEF Holders, Holding
  <2>2. SlotsBalance'
    BY <1>2, <2>1, FS_EmptySet DEF SlotsBalance
  <2>3. CapKept'
    BY <1>2, JobOrchestratorAssumption DEF CapKept
  <2> QED
    BY <2>2, <2>3 DEF SlotInv
<1>4. JobTypeOK'
  BY <1>1, <1>2 DEF IInv, JobTypeOK
<1>5. RowsFit'
  BY <1>1, <1>2 DEF IInv, RowsFit, Resolving
<1>6. Known'
  BY <1>1, <1>2 DEF IInv, Known, Resolving
<1> QED
  BY <1>2, <1>3, <1>4, <1>5, <1>6, StoreUnchanged

LEMMA ProposeStep ==
  ASSUME IInv, NEW s \in Scope, NEW p \in Proposals, Propose(s, p)
  PROVE  IInv'
<1>1. Evolves /\ scope[s].status = "absent"
  BY CreateEvolves DEF Propose, CreateProposal, IInv
<1>2. UNCHANGED jobVars /\ issued' = [issued EXCEPT ![s] = p.budget]
  BY DEF Propose
<1>3. p.budget \in Nat \cup {None} /\ None \notin Scope \cup Nat
  BY TrustScopesAssumption DEF Proposal
<1>4. StoreInv' /\ GrantsFit'
  BY <1>1, <1>2, StoreKept, GrantsKept DEF IInv, Evolves, jobVars
<1>5. JobTypeOK' /\ RowsFit' /\ Known'
  BY <1>2, <1>3 DEF IInv, JobTypeOK, RowsFit, Known, jobVars
<1>6. SlotInv'
  BY <1>2, SlotsSame DEF IInv, jobVars
<1>7. \A t \in Scope : Inserted(t)' = Inserted(t)
  BY <1>2 DEF Inserted, jobVars
<1>8. Inserted(s) = {}
  BY <1>1, <1>3 DEF Inserted, IInv, GrantsFit
<1>9. Cardinality(Inserted(s)') = 0
  BY <1>7, <1>8, FS_EmptySet
<1>10. scope'[s].status # "absent" /\ Budget(s)' = p.budget
  BY DEF Propose, CreateProposal, IInv, StoreInv, StoreTypeOK, Budget
<1>11. ASSUME NEW t \in Scope, t # s, issued'[t] # None
       PROVE  /\ scope'[t].status # "absent" /\ Budget(t)' \in Nat
              /\ Budget(t)' + Cardinality(Inserted(t)') = issued'[t]
  BY <1>1, <1>2, <1>7, <1>11 DEF IInv, JobTypeOK, Accounts, Evolves, EvolvesBut, Budget
<1>12. issued'[s] = p.budget
  BY <1>2 DEF IInv, JobTypeOK
<1>13. Accounts'
  BY <1>3, <1>9, <1>10, <1>11, <1>12 DEF Accounts
<1> QED
  BY <1>4, <1>5, <1>6, <1>13 DEF IInv

LEMMA GrantSteps ==
  ASSUME IInv, NEW s \in Scope, GrantScope(s) \/ RevokeScope(s)
  PROVE  IInv'
<1>1. UNCHANGED <<jobVars, issued>>
  BY DEF GrantScope, RevokeScope
<1>2. CASE GrantScope(s)
  BY <1>1, <1>2, GrantEvolves, JobsStutter DEF GrantScope, IInv
<1>3. CASE RevokeScope(s)
  BY <1>1, <1>3, RevokeEvolves, JobsStutter DEF RevokeScope, Revocable, IInv
<1> QED
  BY <1>2, <1>3

LEMMA ClockStep ==
  ASSUME IInv, Clock
  PROVE  IInv'
BY SweepEvolves, LapseEvolves, JobsStutter DEF Clock, IInv

LEMMA NextStep == IInv /\ [Next]_vars => IInv'
<1> SUFFICES ASSUME IInv, [Next]_vars PROVE IInv'
  OBVIOUS
<1>1. ASSUME NEW j \in Job, DispatchStep(j)
      PROVE  IInv'
  BY <1>1, DispatchStepKept, AdmissionSteps, AdmitStep, GoLiveStep, FailStep DEF DispatchStep
<1>2. ASSUME NEW j \in Job, NEW reason \in ExitReason, Exit(j, reason)
      PROVE  IInv'
  BY <1>2, ExitStep
<1>3. ASSUME NEW j \in Job, GoStale(j) \/ Terminate(j) \/ Shed(j) \/ ShedKill(j)
      PROVE  IInv'
  BY <1>3, GoStaleStep, TerminateStep, ShedSteps
<1>4. ASSUME NEW j \in Job, NEW who \in {"operator", "host"}, Stopped(j, who)
      PROVE  IInv'
  BY <1>4, StoppedStep
<1>5. ASSUME NEW s \in Scope,
             (\E p \in Proposals : Propose(s, p)) \/ GrantScope(s) \/ RevokeScope(s)
      PROVE  IInv'
  BY <1>5, ProposeStep, GrantSteps
<1>6. CASE UNCHANGED vars
  BY <1>6, StoreStutter, JobsStutter DEF vars, IInv
<1> QED
  BY <1>1, <1>2, <1>3, <1>4, <1>5, <1>6, RestartStep, ClockStep DEF Next

-----------------------------------------------------------------------------
\* The inductive invariant holds in every reachable state.
THEOREM Safety == Spec => []IInv
<1> QED
  BY InitIInv, NextStep, PTL DEF Spec

\* Every variable keeps its type.
THEOREM TypeCorrect == Spec => []TypeOK
<1>1. IInv => TypeOK
  BY DEF IInv, StoreInv, JobTypeOK, TypeOK
<1> QED
  BY <1>1, Safety, PTL

\* No interleaving, failure or restart leaks a slot or returns one twice.
THEOREM Slots == Spec => []SlotsBalance
<1>1. IInv => SlotsBalance
  BY DEF IInv, SlotInv
<1> QED
  BY <1>1, Safety, PTL

\* No holder exceeds its cap of jobs that start or run.
THEOREM ActorCapKept == Spec => []ActorCapHolds
<1>1. IInv => ActorCapHolds
  BY DEF IInv, SlotInv, SlotsBalance, CapKept, ActorCapHolds
<1> QED
  BY <1>1, Safety, PTL

\* A holder's count is exact and within its cap, whatever fails or restarts.
THEOREM SlotsAlwaysHold == Spec => []SlotsHold
<1>1. SlotsBalance /\ ActorCapHolds => SlotsHold
  BY DEF SlotsHold
<1> QED
  BY <1>1, Slots, ActorCapKept, PTL

\* A grant's budget pays for each job inserted under it once, and for nothing
\* else.
THEOREM Budgets == Spec => []BudgetLedger
<1>1. IInv => BudgetLedger
  BY DEF IInv, Accounts, BudgetLedger
<1> QED
  BY <1>1, Safety, PTL

\* A dispatch starts only under a grant that is usable at that moment, and a
\* peer only under a grant.
THEOREM DispatchesStartWithinGrant == Spec => StartsWithinGrant
<1> DEFINE Good == \A j \in Job : Starts(j) =>
             IF grant[j] = None THEN ~request[j].peer
             ELSE Usable(grant[j], request[j]) /\ HasBudget(grant[j])
<1>1. IInv /\ [Next]_vars => [Good]_vars
  <2> SUFFICES ASSUME IInv, Next, NEW j \in Job, Starts(j)
               PROVE  IF grant[j] = None THEN ~request[j].peer
                      ELSE Usable(grant[j], request[j]) /\ HasBudget(grant[j])
    OBVIOUS
  <2>1. Admit(j)
    <3>1. pc[j] # "starting" /\ pc'[j] = "starting"
      BY DEF Starts
    <3>2. ASSUME NEW k \in Job, DispatchStep(k), ~Admit(k)
          PROVE  pc'[j] # "starting" \/ pc[j] = "starting"
      BY <3>2 DEF DispatchStep, Dispatch, RefuseName, CheckActor, RefuseHost, ReleaseHost,
                  GoLive, FailToStart, Goto, IInv, JobTypeOK
    <3>3. ASSUME NEW k \in Job, Admit(k), k # j
          PROVE  pc'[j] = pc[j]
      BY <3>3 DEF Admit, Insert, Goto, IInv, JobTypeOK
    <3>4. ASSUME NEW k \in Job, NEW reason \in ExitReason, Exit(k, reason)
          PROVE  pc'[j] # "starting" \/ pc[j] = "starting"
      BY <3>4 DEF Exit, Goto, IInv, JobTypeOK
    <3>5. ASSUME NEW k \in Job, GoStale(k) \/ Terminate(k) \/ Shed(k) \/ ShedKill(k)
          PROVE  pc' = pc
      BY <3>5 DEF GoStale, Terminate, Shed, ShedKill
    <3>6. ASSUME NEW k \in Job, NEW who \in {"operator", "host"}, Stopped(k, who)
          PROVE  pc' = pc
      BY <3>6 DEF Stopped
    <3>7. ASSUME NEW s \in Scope,
                 (\E p \in Proposals : Propose(s, p)) \/ GrantScope(s) \/ RevokeScope(s)
          PROVE  pc' = pc
      BY <3>7 DEF Propose, GrantScope, RevokeScope, jobVars
    <3>8. Restart \/ Clock => pc'[j] # "starting" \/ pc[j] = "starting"
      BY DEF Restart, Clock, jobVars
    <3> QED
      BY <3>1, <3>2, <3>3, <3>4, <3>5, <3>6, <3>7, <3>8 DEF Next, DispatchStep
  <2>2. pc[j] = "reserved" /\ (grant[j] # None => Consumable(grant[j]))
    <3>1. grant[j] = None \/ Consumable(grant[j])
      <4> SUFFICES ASSUME grant[j] # None, ~Consumable(grant[j]) PROVE FALSE
        OBVIOUS
      <4>1. Goto(j, "refused")
        BY <2>1 DEF Admit, Spends
      <4> QED
        BY <4>1 DEF Goto, Starts, IInv, JobTypeOK
    <3> QED
      BY <2>1, <3>1 DEF Admit
  <2>3. grant[j] = None => ~request[j].peer
    BY <2>2 DEF IInv, RowsFit, Resolving
  <2>4. grant[j] # None => Usable(grant[j], request[j]) /\ HasBudget(grant[j])
    BY <2>2 DEF IInv, GrantsFit, Consumable, Usable
  <2> QED
    BY <2>3, <2>4
<1> QED
  BY <1>1, Safety, PTL DEF Spec, StartsWithinGrant

\* The row of a job whose end was seen never changes again.
THEOREM EndsAreFinal == Spec => EndIsFinal
<1> DEFINE Final == \A j \in Job : pc[j] \in {"exited", "failed"} => row'[j] = row[j]
<1>1. IInv /\ [Next]_vars => [Final]_vars
  <2> SUFFICES ASSUME IInv, Next, NEW j \in Job, pc[j] \in {"exited", "failed"}
               PROVE  row'[j] = row[j]
    OBVIOUS
  <2>1. row[j].ended /\ ~CurrentlyActive(row[j].state)
    BY DEF IInv, RowsFit
  <2>2. ASSUME NEW k \in Job, DispatchStep(k)
        PROVE  row'[j] = row[j]
    BY <2>2 DEF DispatchStep, Dispatch, RefuseName, CheckActor, RefuseHost, ReleaseHost, Admit,
                Insert, GoLive, FailToStart, MarkTerminated, IInv, JobTypeOK
  <2>3. ASSUME NEW k \in Job, NEW reason \in ExitReason, Exit(k, reason)
        PROVE  row'[j] = row[j]
    BY <2>3 DEF Exit, MarkTerminated, IInv, JobTypeOK
  <2>4. ASSUME NEW k \in Job, GoStale(k) \/ Terminate(k) \/ Shed(k) \/ ShedKill(k)
        PROVE  row'[j] = row[j]
    BY <2>1, <2>4 DEF GoStale, Terminate, Shed, ShedKill, MarkTerminated, IInv, JobTypeOK
  <2>5. ASSUME NEW k \in Job, NEW who \in {"operator", "host"}, Stopped(k, who)
        PROVE  row'[j] = row[j]
    BY <2>1, <2>5 DEF Stopped, Unmarked, MarkTerminated, IInv, JobTypeOK
  <2>6. ASSUME NEW s \in Scope,
               (\E p \in Proposals : Propose(s, p)) \/ GrantScope(s) \/ RevokeScope(s)
        PROVE  row'[j] = row[j]
    BY <2>6 DEF Propose, GrantScope, RevokeScope, jobVars
  <2>7. Restart \/ Clock => row'[j] = row[j]
    BY DEF Restart, Clock, jobVars
  <2> QED
    BY <2>2, <2>3, <2>4, <2>5, <2>6, <2>7 DEF Next
<1> QED
  BY <1>1, Safety, PTL DEF Spec, EndIsFinal

-----------------------------------------------------------------------------
(* The watchdog.  A silence that outlasts the threshold is a debt: it is   *)
(* reported, or a pass that began in the same minute still holds the row.  *)
(* MetNow says so of this minute and the jobs on the list.                 *)

Busy(p) == pass[p] # W!Idle
Rows == UNION {[todo -> 0..MaxTime] : todo \in SUBSET WatchJobs}

\* A pass is as young as the bound on deliveries says, and reads no job that was
\* never dispatched; a row it holds is as old as the pass or the job spoke since.
PassesFit ==
  /\ pass \in [WatchPasses -> [began : 0..W!Never, rows : Rows]]
  /\ \A p \in WatchPasses : Busy(p) =>
       /\ pass[p].began <= now /\ now <= pass[p].began + 1
       /\ \A j \in DOMAIN pass[p].rows :
            /\ state[j] # "none"
            /\ pass[p].rows[j] = heard[j] \/ heard[j] >= pass[p].began

\* The watchdog's record is its last report, unless it dropped the record because the
\* job had left the list, from which only a revived job returns.
RecordsFit ==
  \A j \in WatchJobs :
    /\ emitted[j] \in {told[j], W!NoReport}
    /\ j \in W!Listed \ revived => emitted[j] = told[j]
    /\ j \in starting => state[j] \in {"dispatched", "ended"}
    /\ state[j] = "none" => emitted[j] = W!NoReport /\ told[j] = W!NoReport

Told(j) == told[j].activity = heard[j]
Awaits(j, t) ==
  \E p \in WatchPasses :
    /\ Busy(p) /\ pass[p].began = t
    /\ j \in DOMAIN pass[p].rows /\ pass[p].rows[j] = heard[j]

\* The silence of job j at time t has been reported or will be by the pass of then.
Met(j, t) == t > heard[j] + Threshold => Told(j) \/ Awaits(j, t)

MetNow == tick = "done" => \A j \in W!Listed \ revived : Met(j, now)

\* The inductive invariant of the watchdog.
WatchInv ==
  /\ W!TypeOK /\ PassesFit /\ RecordsFit /\ MetNow /\ W!NoEarlyRepeat

LEMMA Times ==
  /\ Threshold \in Nat /\ Threshold > 0 /\ MaxTime \in Nat /\ W!Never \in Nat
  /\ W!Never = MaxTime + 1
  /\ \A t \in 0..MaxTime : t \in Nat /\ t # W!Never /\ t \in 0..W!Never
BY WatchdogAssumption DEF W!Never

LEMMA NoReportIsOne == W!NoReport \in W!Reports /\ W!NoReport.activity = W!Never
BY Times DEF W!NoReport, W!Reports

LEMMA IdleFits ==
  /\ W!Idle \in [began : 0..W!Never, rows : Rows]
  /\ W!Idle.began = W!Never
<1>1. <<>> \in [{} -> 0..MaxTime]
  OBVIOUS
<1>2. <<>> \in Rows
  BY <1>1 DEF Rows
<1> QED
  BY <1>2, Times DEF W!Idle

LEMMA WatchBegins == W!Init => WatchInv
<1> SUFFICES ASSUME W!Init PROVE WatchInv
  OBVIOUS
<1>1. \A p \in WatchPasses : ~Busy(p) /\ pass[p] = W!Idle
  BY DEF W!Init, Busy
<1>2. PassesFit
  BY <1>1, IdleFits DEF W!Init, PassesFit
<1>3. \A p \in WatchPasses :
        /\ pass[p].began \in 0..W!Never
        /\ \E todo \in SUBSET WatchJobs : pass[p].rows \in [todo -> 0..MaxTime]
  BY <1>1, IdleFits DEF Rows
<1>4. W!TypeOK
  BY <1>3, Times, NoReportIsOne, WatchdogAssumption DEF W!Init, W!TypeOK
<1>5. RecordsFit /\ W!NoEarlyRepeat
  BY WatchdogAssumption DEF W!Init, RecordsFit, W!NoEarlyRepeat, W!Listed, W!Watched
<1>6. MetNow
  BY DEF W!Init, MetNow
<1> QED
  BY <1>2, <1>4, <1>5, <1>6 DEF WatchInv

\* What a type-correct pass holds.
LEMMA PassType ==
  \A r \in [began : 0..W!Never, rows : Rows] :
    /\ r.began \in 0..W!Never
    /\ \E todo \in SUBSET WatchJobs : r.rows \in [todo -> 0..MaxTime]
BY DEF Rows

\* A debt stays met while neither the job speaks nor its report and the passes change.
LEMMA MetStays ==
  ASSUME NEW j, NEW t, Met(j, t), heard'[j] = heard[j], told'[j] = told[j], pass' = pass
  PROVE  Met(j, t)'
BY DEF Met, Told, Awaits, Busy

\* Nothing is owed for a job that just spoke.
LEMMA MetAnew ==
  ASSUME NEW j, NEW t \in 0..MaxTime, now \in 0..MaxTime, heard'[j] = now, t <= now
  PROVE  Met(j, t)'
BY Times DEF Met

\* A step of a job, which leaves the watchdog and the clock alone.
Undisturbed == UNCHANGED <<now, tick, emitted, pass, starts, told, repeated>>

LEMMA WatchedDispatches ==
  ASSUME WatchInv, NEW j \in WatchJobs, W!Dispatch(j)
  PROVE  WatchInv'
<1> USE DEF WatchInv
<1>1. /\ Undisturbed /\ UNCHANGED <<alive, armed, revived>>
      /\ state[j] = "none" /\ state' = [state EXCEPT ![j] = "dispatched"]
      /\ starting' = starting \cup {j} /\ heard' = [heard EXCEPT ![j] = now]
  BY DEF W!Dispatch, W!history, Undisturbed
<1>2. now \in 0..MaxTime /\ heard \in [WatchJobs -> 0..MaxTime]
  BY DEF W!TypeOK
<1>3. W!TypeOK'
  BY <1>1, <1>2 DEF W!TypeOK, Undisturbed
<1>4. PassesFit'
  BY <1>1, <1>2, Times DEF W!TypeOK, Undisturbed, PassesFit, Busy, Rows
<1>5. RecordsFit' /\ W!NoEarlyRepeat'
  BY <1>1 DEF W!TypeOK, Undisturbed, RecordsFit, W!NoEarlyRepeat, W!Listed, W!Watched
<1>6. \A k \in WatchJobs, t \in 0..MaxTime : t <= now /\ (k = j \/ Met(k, t)) => Met(k, t)'
  BY <1>1, <1>2, MetStays, MetAnew DEF Undisturbed
<1>7. W!Listed' = W!Listed \cup {j}
  BY <1>1 DEF W!TypeOK, W!Listed, W!Watched
<1>8. MetNow'
  BY <1>1, <1>2, <1>6, <1>7 DEF MetNow, Undisturbed, W!Listed
<1> QED
  BY <1>3, <1>4, <1>5, <1>8

LEMMA WatchedGoesLive ==
  ASSUME WatchInv, NEW j \in WatchJobs, W!GoLive(j)
  PROVE  WatchInv'
<1> USE DEF WatchInv
<1>1. /\ Undisturbed /\ heard' = heard
      /\ j \in starting /\ state' = [state EXCEPT ![j] = "running"]
      /\ starting' = starting \ {j} /\ alive' = alive \cup {j}
      /\ armed' = [armed EXCEPT ![j] = now]
      /\ revived' = IF state[j] = "ended" THEN revived \cup {j} ELSE revived
  BY DEF W!GoLive, Undisturbed
<1>2. now \in 0..MaxTime /\ heard \in [WatchJobs -> 0..MaxTime] /\ armed \in [WatchJobs -> 0..MaxTime]
  BY DEF W!TypeOK
<1>3. W!TypeOK'
  BY <1>1, <1>2 DEF W!TypeOK, Undisturbed
<1>4. PassesFit'
  BY <1>1, <1>2, Times DEF W!TypeOK, Undisturbed, PassesFit, Busy, Rows
<1>5. W!Listed' \ revived' \subseteq W!Listed \ revived
  BY <1>1 DEF W!TypeOK, W!Listed, W!Watched, RecordsFit
<1>6. RecordsFit' /\ W!NoEarlyRepeat'
  BY <1>1, <1>5 DEF W!TypeOK, Undisturbed, RecordsFit, W!NoEarlyRepeat
<1>7. \A k \in WatchJobs, t \in 0..MaxTime : Met(k, t) => Met(k, t)'
  BY <1>1, MetStays DEF Undisturbed
<1>8. MetNow'
  BY <1>1, <1>2, <1>5, <1>7 DEF MetNow, Undisturbed, W!Listed
<1> QED
  BY <1>3, <1>4, <1>6, <1>8

LEMMA WatchedSpeaks ==
  ASSUME WatchInv, NEW j \in WatchJobs, W!Touch(j)
  PROVE  WatchInv'
<1> USE DEF WatchInv
<1>1. /\ Undisturbed /\ UNCHANGED <<state, starting, alive, revived>>
      /\ j \in alive /\ heard' = [heard EXCEPT ![j] = now]
      /\ armed' = [armed EXCEPT ![j] = now]
  BY DEF W!Touch, W!ArmIdle, W!history, Undisturbed
<1>2. now \in 0..MaxTime /\ heard \in [WatchJobs -> 0..MaxTime] /\ armed \in [WatchJobs -> 0..MaxTime]
  BY DEF W!TypeOK
<1>3. W!TypeOK'
  BY <1>1, <1>2 DEF W!TypeOK, Undisturbed
<1>4. PassesFit'
  BY <1>1, <1>2, Times DEF W!TypeOK, Undisturbed, PassesFit, Busy, Rows
<1>5. RecordsFit' /\ W!NoEarlyRepeat'
  BY <1>1 DEF W!TypeOK, Undisturbed, RecordsFit, W!NoEarlyRepeat, W!Listed
<1>6. \A k \in WatchJobs, t \in 0..MaxTime : t <= now /\ (k = j \/ Met(k, t)) => Met(k, t)'
  BY <1>1, <1>2, MetStays, MetAnew DEF Undisturbed
<1>7. MetNow'
  BY <1>1, <1>2, <1>6 DEF MetNow, Undisturbed, W!Listed
<1> QED
  BY <1>3, <1>4, <1>5, <1>7

\* Going stale and ending take a job off the list.
LEMMA WatchedLeaves ==
  ASSUME WatchInv, NEW j \in WatchJobs, W!GoStale(j) \/ W!End(j)
  PROVE  WatchInv'
<1> USE DEF WatchInv
<1>1. /\ Undisturbed /\ UNCHANGED <<starting, armed, revived>>
      /\ \E s \in {"stale", "ended"} :
           /\ state' = [state EXCEPT ![j] = s]
           /\ s = "stale" => j \in alive /\ state[j] = "running"
      /\ state[j] # "none"
      /\ alive' \subseteq alive
      /\ heard' \in {heard, [heard EXCEPT ![j] = now]}
  BY DEF W!GoStale, W!End, W!TimerDue, W!history, Undisturbed
<1>2. now \in 0..MaxTime /\ heard \in [WatchJobs -> 0..MaxTime]
  BY DEF W!TypeOK
<1>3. /\ state'[j] \in {"stale", "ended"}
      /\ \A k \in WatchJobs \ {j} : state'[k] = state[k] /\ heard'[k] = heard[k]
      /\ heard'[j] \in {heard[j], now}
  BY <1>1, <1>2 DEF W!TypeOK
<1>4. W!TypeOK'
  BY <1>1, <1>2 DEF W!TypeOK, Undisturbed
<1>5. PassesFit'
  BY <1>1, <1>2, <1>3, Times DEF W!TypeOK, Undisturbed, PassesFit, Busy, Rows
<1>7. W!Listed' = W!Listed \ {j}
  BY <1>3 DEF W!Listed, W!Watched
<1>8. RecordsFit' /\ W!NoEarlyRepeat'
  <2>1. j \in starting => state'[j] = "ended"
    BY <1>1 DEF RecordsFit, W!TypeOK
  <2> QED
    BY <1>1, <1>3, <1>7, <2>1 DEF W!TypeOK, Undisturbed, RecordsFit, W!NoEarlyRepeat
<1>9. \A k \in WatchJobs \ {j}, t \in 0..MaxTime : Met(k, t) => Met(k, t)'
  BY <1>1, <1>3, MetStays DEF Undisturbed
<1>10. MetNow'
  BY <1>1, <1>2, <1>7, <1>9 DEF MetNow, Undisturbed, W!Listed
<1> QED
  BY <1>4, <1>5, <1>8, <1>10

\* Pass p looks at its rows, as it found them at its beginning: its records are good,
\* and what it goes on with are the rows it has.
LooksRight(p, records, rows, at) ==
  /\ rows \in Rows /\ at \in 0..MaxTime /\ at <= now /\ now <= at + 1
  /\ records \in [WatchJobs -> W!Reports]
  /\ \A j \in WatchJobs :
       /\ records[j] \in {told[j], W!NoReport}
       /\ j \in W!Listed \ revived => records[j] = told[j]
       /\ state[j] = "none" => records[j] = W!NoReport
  /\ \A j \in DOMAIN rows : state[j] # "none" /\ (rows[j] = heard[j] \/ heard[j] >= at)
  /\ Busy(p) => pass[p].began = at /\ pass[p].rows = rows

\* Before a pass has begun, its rows are nowhere else.
LEMMA RowsType ==
  ASSUME NEW rows \in Rows
  PROVE  DOMAIN rows \subseteq WatchJobs /\ \A j \in DOMAIN rows : rows[j] \in 0..MaxTime
BY DEF Rows

\* Either nobody is stuck and the pass is over, or job j is reported, some of the
\* others that are not stuck are skipped, and the pass goes on with the rest.
LooksOver(p, records) ==
  /\ pass' = [pass EXCEPT ![p] = W!Idle]
  /\ emitted' = records /\ told' = told /\ repeated' = repeated

Reports(p, records, rows, at, j, left) ==
  /\ j \in DOMAIN rows /\ left \subseteq DOMAIN rows
  /\ pass' = [pass EXCEPT ![p] = [began |-> at, rows |-> [k \in left |-> rows[k]]]]
  /\ emitted' = [records EXCEPT ![j] = [activity |-> rows[j], at |-> at]]
  /\ told' = [told EXCEPT ![j] = [activity |-> rows[j], at |-> at]]
  /\ repeated' = repeated

\* A record that keeps a job from being reported is the last report of this silence.
LEMMA RecentIsTold ==
  ASSUME WatchInv, NEW p, NEW records, NEW rows, NEW at, LooksRight(p, records, rows, at),
         NEW j \in DOMAIN rows, rows[j] = heard[j], at > heard[j] + Threshold,
         ~W!Stuck(records, rows, j, at)
  PROVE  Told(j)
<1>1. j \in WatchJobs /\ rows[j] \in 0..MaxTime
  BY RowsType DEF LooksRight
<1>2. records[j].activity = rows[j]
  BY DEF W!Stuck, W!Recent
<1>3. records[j] # W!NoReport
  BY <1>1, <1>2, NoReportIsOne, Times
<1> QED
  BY <1>1, <1>2, <1>3 DEF LooksRight, Told

\* No report comes too early: what the list says and what the record says agree.
LEMMA LookCases ==
  ASSUME WatchInv, NEW p \in WatchPasses, NEW records, NEW rows, NEW at,
         LooksRight(p, records, rows, at), W!Look(p, records, rows, at)
  PROVE  /\ revived' = revived
         /\ \/ /\ LooksOver(p, records)
               /\ \A k \in DOMAIN rows : ~W!Stuck(records, rows, k, at)
            \/ \E j \in DOMAIN rows, left \in SUBSET DOMAIN rows :
                 /\ Reports(p, records, rows, at, j, left)
                 /\ \A k \in DOMAIN rows :
                      W!Stuck(records, rows, k, at) => k = j \/ k \in left
<1> DEFINE stuck == {j \in DOMAIN rows : W!Stuck(records, rows, j, at)}
<1>1. CASE stuck = {} /\ pass' = [pass EXCEPT ![p] = W!Idle] /\ emitted' = records
           /\ UNCHANGED W!history
  BY <1>1 DEF LooksOver, W!history
<1>2. ASSUME NEW j \in stuck, NEW skipped \in SUBSET (DOMAIN rows \ stuck),
             pass' = [pass EXCEPT ![p] =
                        [began |-> at,
                         rows |-> [k \in DOMAIN rows \ (skipped \cup {j}) |-> rows[k]]]],
             emitted' = W!Recorded(records, j, [activity |-> rows[j], at |-> at]),
             told' = [told EXCEPT ![j] = [activity |-> rows[j], at |-> at]],
             repeated' = IF j \in W!Listed \ revived /\ W!Recent(told[j], rows[j], at)
                         THEN repeated \cup {j} ELSE repeated,
             revived' = revived
      PROVE  \E left \in SUBSET DOMAIN rows :
               /\ Reports(p, records, rows, at, j, left)
               /\ \A k \in DOMAIN rows : W!Stuck(records, rows, k, at) => k = j \/ k \in left
  <2>1. j \in WatchJobs /\ ~W!Recent(records[j], rows[j], at)
    BY RowsType DEF LooksRight, W!Stuck
  <2>2. repeated' = repeated
    BY <1>2, <2>1 DEF LooksRight
  <2> DEFINE left == DOMAIN rows \ (skipped \cup {j})
  <2>3. Reports(p, records, rows, at, j, left)
    BY <1>2, <2>2 DEF Reports, W!Recorded
  <2>4. \A k \in DOMAIN rows : W!Stuck(records, rows, k, at) => k = j \/ k \in left
    OBVIOUS
  <2> QED
    BY <2>3, <2>4
<1> QED
  BY <1>1, <1>2 DEF W!Look

LEMMA ReportFits ==
  ASSUME NEW rows \in Rows, NEW at \in 0..MaxTime, NEW j \in DOMAIN rows
  PROVE  [activity |-> rows[j], at |-> at] \in W!Reports
BY RowsType, Times DEF W!Reports

LEMMA LookFits ==
  ASSUME WatchInv, UNCHANGED <<now, state, starting, alive, heard, armed>>,
         NEW p \in WatchPasses, NEW records, NEW rows, NEW at,
         LooksRight(p, records, rows, at), W!Look(p, records, rows, at)
  PROVE  /\ PassesFit' /\ RecordsFit' /\ W!NoEarlyRepeat'
         /\ emitted' \in [WatchJobs -> W!Reports] /\ told' \in [WatchJobs -> W!Reports]
         /\ revived' = revived /\ repeated' = repeated
         /\ \A q \in WatchPasses \ {p} : pass'[q] = pass[q]
<1> USE DEF WatchInv
<1>1. told \in [WatchJobs -> W!Reports] /\ pass \in [WatchPasses -> [began : 0..W!Never, rows : Rows]]
  BY DEF W!TypeOK, PassesFit
<1>2. W!Listed' = W!Listed /\ revived' = revived
  BY LookCases DEF W!Listed
<1>3. CASE LooksOver(p, records)
  <2>1. PassesFit'
    BY <1>1, <1>3, IdleFits DEF LooksOver, PassesFit, Busy
  <2>2. RecordsFit'
    BY <1>2, <1>3 DEF LooksOver, RecordsFit, LooksRight
  <2> QED
    BY <1>1, <1>2, <1>3, <2>1, <2>2 DEF LooksOver, LooksRight, W!NoEarlyRepeat
<1>4. ASSUME NEW j \in DOMAIN rows, NEW left \in SUBSET DOMAIN rows,
             Reports(p, records, rows, at, j, left)
      PROVE  /\ PassesFit' /\ RecordsFit' /\ W!NoEarlyRepeat'
             /\ emitted' \in [WatchJobs -> W!Reports] /\ told' \in [WatchJobs -> W!Reports]
             /\ repeated' = repeated
             /\ \A q \in WatchPasses \ {p} : pass'[q] = pass[q]
  <2> DEFINE report == [activity |-> rows[j], at |-> at]
             rest == [k \in left |-> rows[k]]
  <2>1. rows \in Rows /\ at \in 0..MaxTime /\ j \in WatchJobs
    BY RowsType DEF LooksRight
  <2>2. report \in W!Reports
    BY <2>1, ReportFits
  <2>3. left \in SUBSET WatchJobs /\ rest \in [left -> 0..MaxTime]
    BY <2>1, RowsType
  <2>4. rest \in Rows
    BY <2>3 DEF Rows
  <2>5. [began |-> at, rows |-> rest] \in [began : 0..W!Never, rows : Rows]
    BY <2>1, <2>4, Times
  <2>6. pass' = [pass EXCEPT ![p] = [began |-> at, rows |-> rest]]
    BY <1>4 DEF Reports
  <2>7. pass' \in [WatchPasses -> [began : 0..W!Never, rows : Rows]]
    BY <1>1, <2>5, <2>6
  <2>8. \A q \in WatchPasses \ {p} : pass'[q] = pass[q]
    BY <1>1, <2>6
  <2>9. pass'[p].began = at /\ pass'[p].rows = rest
    BY <1>1, <2>6
  <2>10. \A k \in left : rest[k] = rows[k] /\ state[k] # "none"
                         /\ (rows[k] = heard[k] \/ heard[k] >= at)
    BY DEF LooksRight
  <2>11. PassesFit'
    <3>1. DOMAIN rest = left
      OBVIOUS
    <3> HIDE DEF rest
    <3>2. at <= now /\ now <= at + 1
      BY DEF LooksRight
    <3> QED
      BY <2>7, <2>8, <2>9, <2>10, <3>1, <3>2 DEF PassesFit, Busy
  <2>12. emitted' \in [WatchJobs -> W!Reports] /\ told' \in [WatchJobs -> W!Reports]
    BY <1>1, <1>4, <2>1, <2>2 DEF Reports, LooksRight
  <2>13. emitted'[j] = told'[j]
         /\ \A k \in WatchJobs \ {j} : emitted'[k] = records[k] /\ told'[k] = told[k]
    BY <1>1, <1>4, <2>1 DEF Reports, LooksRight
  <2>14. state[j] # "none"
    BY DEF LooksRight
  <2>15. RecordsFit'
    BY <1>2, <2>13, <2>14 DEF RecordsFit, LooksRight
  <2> QED
    BY <1>4, <2>8, <2>11, <2>12, <2>15 DEF Reports, W!NoEarlyRepeat
<1> QED
  BY <1>2, <1>3, <1>4, LookCases

\* What was met stays met when a pass looks on.
LEMMA LookKeepsMet ==
  ASSUME WatchInv, UNCHANGED <<now, state, starting, alive, heard, armed>>,
         NEW p \in WatchPasses, NEW records, NEW rows, NEW at,
         LooksRight(p, records, rows, at), W!Look(p, records, rows, at)
  PROVE  /\ \A k \in DOMAIN rows : rows[k] = heard[k] => Met(k, at)'
         /\ \A k \in WatchJobs, t \in 0..MaxTime : t <= now /\ Met(k, t) => Met(k, t)'
<1> USE DEF WatchInv
<1>1. told \in [WatchJobs -> W!Reports] /\ pass \in [WatchPasses -> [began : 0..W!Never, rows : Rows]]
      /\ at \in 0..MaxTime /\ at <= now /\ now <= at + 1 /\ now \in 0..MaxTime
      /\ heard \in [WatchJobs -> 0..MaxTime]
  BY DEF W!TypeOK, PassesFit, LooksRight
\* The jobs this pass holds.
<1>2. ASSUME NEW k \in DOMAIN rows, rows[k] = heard[k], at > heard[k] + Threshold
      PROVE  (Told(k) \/ Awaits(k, at))'
  <2>1. CASE LooksOver(p, records) /\ \A i \in DOMAIN rows : ~W!Stuck(records, rows, i, at)
    <3>1. Told(k)
      BY <1>2, <2>1, RecentIsTold
    <3> QED
      BY <2>1, <3>1 DEF LooksOver, Told
  <2>2. ASSUME NEW j \in DOMAIN rows, NEW left \in SUBSET DOMAIN rows,
               Reports(p, records, rows, at, j, left),
               \A i \in DOMAIN rows : W!Stuck(records, rows, i, at) => i = j \/ i \in left
        PROVE  (Told(k) \/ Awaits(k, at))'
    <3>1. j \in WatchJobs /\ k \in WatchJobs
      BY RowsType DEF LooksRight
    <3>2. CASE k = j
      BY <1>1, <1>2, <2>2, <3>1, <3>2 DEF Reports, Told
    <3>3. CASE k \in left
      <4> DEFINE rest == [i \in left |-> rows[i]]
      <4>1. pass'[p] = [began |-> at, rows |-> rest]
        BY <1>1, <2>2 DEF Reports
      <4>2. pass'[p].began = at /\ pass'[p].rows = rest
        BY <4>1
      <4>3. k \in DOMAIN rest /\ rest[k] = heard[k]
        BY <1>2, <3>3
      <4>4. pass'[p] # W!Idle
        BY <1>1, <4>2, IdleFits, Times
      <4> QED
        BY <4>2, <4>3, <4>4 DEF Awaits, Busy
    <3>4. CASE k # j /\ k \notin left
      <4>1. Told(k)
        BY <1>2, <2>2, <3>4, RecentIsTold
      <4>2. told'[k] = told[k]
        BY <1>1, <2>2, <3>1, <3>4 DEF Reports
      <4> QED
        BY <4>1, <4>2 DEF Told
    <3> QED
      BY <3>2, <3>3, <3>4
  <2> QED
    BY <2>1, <2>2, LookCases
\* Any job: the report of an old row does not undo that of the present silence.
<1>3. ASSUME NEW k \in WatchJobs, NEW t \in 0..MaxTime, t <= now, t > heard[k] + Threshold,
             Told(k)
      PROVE  Told(k)'
  <2>1. CASE told'[k] = told[k]
    BY <1>3, <2>1 DEF Told
  <2>2. CASE told'[k] # told[k]
    <3>1. k \in DOMAIN rows /\ told'[k].activity = rows[k]
      <4>1. PICK j \in DOMAIN rows, left \in SUBSET DOMAIN rows :
              Reports(p, records, rows, at, j, left)
        BY <2>2, LookCases DEF LooksOver
      <4>2. j \in WatchJobs
        BY RowsType DEF LooksRight
      <4> QED
        BY <1>1, <2>2, <4>1, <4>2 DEF Reports
    <3>2. rows[k] = heard[k] \/ heard[k] >= at
      BY <3>1 DEF LooksRight
    <3>3. ~(heard[k] >= at)
      BY <1>1, <1>3, Times
    <3> QED
      BY <3>1, <3>2, <3>3 DEF Told
  <2> QED
    BY <2>1, <2>2
<1>4. ASSUME NEW k \in WatchJobs, NEW t \in 0..MaxTime, t > heard[k] + Threshold, Awaits(k, t)
      PROVE  (Told(k) \/ Awaits(k, t))'
  <2>1. PICK q \in WatchPasses : /\ Busy(q) /\ pass[q].began = t
                                 /\ k \in DOMAIN pass[q].rows /\ pass[q].rows[k] = heard[k]
    BY <1>4 DEF Awaits
  <2>2. CASE q = p
    <3>1. t = at /\ k \in DOMAIN rows /\ rows[k] = heard[k]
      BY <2>1, <2>2 DEF LooksRight
    <3> QED
      BY <1>2, <1>4, <3>1
  <2>3. CASE q # p
    <3>1. pass'[q] = pass[q]
      BY <2>3, LookFits
    <3> QED
      BY <2>1, <3>1 DEF Awaits, Busy
  <2> QED
    BY <2>2, <2>3
<1>5. \A k \in DOMAIN rows : rows[k] = heard[k] => Met(k, at)'
  BY <1>2 DEF Met
<1>6. ASSUME NEW k \in WatchJobs, NEW t \in 0..MaxTime, t <= now, Met(k, t)
      PROVE  Met(k, t)'
  BY <1>3, <1>4, <1>6 DEF Met
<1> QED
  BY <1>5, <1>6

LEMMA WatchBeginsPass ==
  ASSUME WatchInv, NEW p \in WatchPasses, W!Begin(p)
  PROVE  WatchInv'
<1> USE DEF WatchInv
<1>2. now \in 0..MaxTime /\ heard \in [WatchJobs -> 0..MaxTime] /\ W!Listed \subseteq WatchJobs
  BY DEF W!TypeOK, W!Listed
<1>3. PICK rows \in Rows : rows = [j \in W!Listed |-> heard[j]]
  <2>1. [j \in W!Listed |-> heard[j]] \in [W!Listed -> 0..MaxTime]
    BY <1>2
  <2> QED
    BY <1>2, <2>1 DEF Rows
<1>4. PICK records \in [WatchJobs -> W!Reports] : records = W!Kept
  <2>1. W!Kept \in [WatchJobs -> W!Reports]
    BY NoReportIsOne DEF W!Kept, W!TypeOK
  <2> QED
    BY <2>1
<1>0. PICK at \in 0..MaxTime : at = now
  BY <1>2
<1>1. /\ UNCHANGED <<now, state, starting, alive, heard, armed, starts>>
      /\ tick' = "done" /\ ~Busy(p) /\ W!Look(p, records, rows, at)
  BY <1>0, <1>3, <1>4 DEF W!Begin, W!jobs, Busy
<1>5. \A j \in WatchJobs : records[j] = IF j \in W!Listed THEN emitted[j] ELSE W!NoReport
  BY <1>4 DEF W!Kept
<1>6. \A j \in WatchJobs :
        /\ records[j] \in {told[j], W!NoReport}
        /\ j \in W!Listed \ revived => records[j] = told[j]
        /\ state[j] = "none" => records[j] = W!NoReport
  BY <1>5 DEF RecordsFit
<1>7. \A j \in DOMAIN rows : state[j] # "none" /\ rows[j] = heard[j]
  BY <1>3 DEF W!Listed, W!Watched
<1>8. LooksRight(p, records, rows, at)
  <2>1. at <= now /\ now <= at + 1
    BY <1>0
  <2> QED
    BY <1>1, <1>6, <1>7, <2>1 DEF LooksRight
<1>9. DOMAIN rows = W!Listed
  BY <1>3
<1>10. /\ PassesFit' /\ RecordsFit' /\ W!NoEarlyRepeat'
       /\ emitted' \in [WatchJobs -> W!Reports] /\ told' \in [WatchJobs -> W!Reports]
       /\ revived' = revived /\ repeated' = repeated
  BY <1>1, <1>8, LookFits
<1>11. /\ \A k \in DOMAIN rows : rows[k] = heard[k] => Met(k, at)'
       /\ \A k \in WatchJobs, t \in 0..MaxTime : t <= now /\ Met(k, t) => Met(k, t)'
  BY <1>1, <1>8, LookKeepsMet
<1>12. W!TypeOK'
  BY <1>1, <1>10, PassType DEF W!TypeOK, PassesFit
<1>14. \A k \in W!Listed : Met(k, at)'
  BY <1>7, <1>9, <1>11
<1>15. MetNow'
  BY <1>0, <1>1, <1>10, <1>14 DEF MetNow, W!Listed, Met, Told, Awaits, Busy
<1> QED
  BY <1>10, <1>12, <1>15

LEMMA WatchResumesPass ==
  ASSUME WatchInv, NEW p \in WatchPasses, W!Resume(p)
  PROVE  WatchInv'
<1> USE DEF WatchInv
<1>1. /\ UNCHANGED <<now, tick, state, starting, alive, heard, armed, starts>>
      /\ Busy(p) /\ W!Look(p, emitted, pass[p].rows, pass[p].began)
  BY DEF W!Resume, W!jobs, Busy
<1>2. PICK rows \in Rows, at \in 0..MaxTime : rows = pass[p].rows /\ at = pass[p].began
  <2>1. pass[p].rows \in Rows /\ pass[p].began \in 0..W!Never
    BY DEF PassesFit
  <2>2. pass[p].began <= now /\ now \in 0..MaxTime
    BY <1>1 DEF PassesFit, W!TypeOK
  <2> QED
    BY <2>1, <2>2, Times
<1>3. LooksRight(p, emitted, rows, at)
  <2>1. at <= now /\ now <= at + 1
        /\ \A j \in DOMAIN rows : state[j] # "none" /\ (rows[j] = heard[j] \/ heard[j] >= at)
    BY <1>1, <1>2 DEF PassesFit
  <2>2. emitted \in [WatchJobs -> W!Reports]
    BY DEF W!TypeOK
  <2>3. \A j \in WatchJobs :
          /\ emitted[j] \in {told[j], W!NoReport}
          /\ j \in W!Listed \ revived => emitted[j] = told[j]
          /\ state[j] = "none" => emitted[j] = W!NoReport
    BY DEF RecordsFit
  <2> QED
    BY <1>2, <2>1, <2>2, <2>3 DEF LooksRight
<1>4. W!Look(p, emitted, rows, at)
  BY <1>1, <1>2
<1>5. /\ PassesFit' /\ RecordsFit' /\ W!NoEarlyRepeat'
      /\ emitted' \in [WatchJobs -> W!Reports] /\ told' \in [WatchJobs -> W!Reports]
      /\ revived' = revived /\ repeated' = repeated
  BY <1>1, <1>3, <1>4, LookFits
<1>6. \A k \in WatchJobs, t \in 0..MaxTime : t <= now /\ Met(k, t) => Met(k, t)'
  BY <1>1, <1>3, <1>4, LookKeepsMet
<1>7. W!TypeOK'
  BY <1>1, <1>5, PassType DEF W!TypeOK, PassesFit
<1>9. now \in 0..MaxTime /\ W!Listed \subseteq WatchJobs /\ alive \subseteq WatchJobs
  BY DEF W!TypeOK, W!Listed
<1>10. MetNow'
  <2>1. PICK t \in 0..MaxTime : t = now
    BY <1>9
  <2>2. tick = "done" => \A k \in W!Listed \ revived : Met(k, t)'
    BY <1>6, <1>9, <2>1, Times DEF MetNow
  <2> QED
    BY <1>1, <1>5, <2>1, <2>2 DEF MetNow, W!Listed, Met, Told, Awaits, Busy
<1> QED
  BY <1>5, <1>7, <1>10

LEMMA WatchRestarts == WatchInv /\ W!Restart => WatchInv'
<1> SUFFICES ASSUME WatchInv, W!Restart PROVE WatchInv'
  OBVIOUS
<1> USE DEF WatchInv
<1>1. \A p \in WatchPasses : ~Busy(p)' /\ pass'[p] = W!Idle
  BY DEF W!Restart, Busy
<1>2. PassesFit'
  BY <1>1, IdleFits DEF W!Restart, PassesFit
<1>3. W!TypeOK'
  <2>1. starts' \in 0..MaxStarts
    BY WatchdogAssumption DEF W!Restart, W!TypeOK
  <2> QED
    BY <1>2, <2>1, PassType, NoReportIsOne DEF W!Restart, W!TypeOK, PassesFit
<1>4. RecordsFit' /\ W!NoEarlyRepeat'
  BY DEF W!Restart, RecordsFit, W!NoEarlyRepeat, W!Listed
<1>5. MetNow'
  BY DEF W!Restart, MetNow
<1> QED
  BY <1>2, <1>3, <1>4, <1>5

\* The clock goes on: no pass is older than a minute, and what was owed at the end of
\* a minute is owed by the passes that began in it.
LEMMA WatchTicks == WatchInv /\ W!Minute => WatchInv'
<1> SUFFICES ASSUME WatchInv, W!Minute PROVE WatchInv'
  OBVIOUS
<1> USE DEF WatchInv
<1>1. /\ UNCHANGED <<state, starting, alive, heard, armed, emitted, pass, starts, told,
                      repeated, revived>>
      /\ now' = now + 1 /\ now < MaxTime /\ tick # "due" /\ tick' = "due"
      /\ \A p \in WatchPasses : Busy(p) => pass[p].began = now
  BY DEF W!Minute, W!jobs, W!history, Busy
<1>2. now \in 0..MaxTime /\ now' \in 0..MaxTime /\ heard \in [WatchJobs -> 0..MaxTime]
      /\ armed \in [WatchJobs -> 0..MaxTime] /\ alive \subseteq WatchJobs
      /\ tick \in {"done", "none"}
  BY <1>1, Times DEF W!TypeOK
<1>3. W!TypeOK'
  BY <1>1, <1>2 DEF W!TypeOK
<1>4. PassesFit'
  BY <1>1, <1>2, Times DEF PassesFit, Busy
<1>6. RecordsFit' /\ W!NoEarlyRepeat'
  BY <1>1 DEF RecordsFit, W!NoEarlyRepeat, W!Listed
<1>7. MetNow'
  BY <1>1 DEF MetNow
<1> QED
  BY <1>3, <1>4, <1>6, <1>7

LEMMA WatchSteps == WatchInv /\ W!Next => WatchInv'
BY WatchedDispatches, WatchedGoesLive, WatchedSpeaks, WatchedLeaves, WatchBeginsPass,
   WatchResumesPass, WatchRestarts, WatchTicks DEF W!Next

LEMMA WatchRests == WatchInv /\ UNCHANGED watchdog => WatchInv'
<1> SUFFICES ASSUME WatchInv, UNCHANGED watchdog PROVE WatchInv'
  OBVIOUS
<1> USE DEF watchdog, WatchInv
<1>1. W!TypeOK' /\ PassesFit'
  BY DEF W!TypeOK, PassesFit, Busy
<1>2. RecordsFit' /\ W!NoEarlyRepeat'
  BY DEF RecordsFit, W!NoEarlyRepeat, W!Listed
<1>3. MetNow'
  BY DEF MetNow, W!Listed, Met, Told, Awaits, Busy
<1> QED
  BY <1>1, <1>2, <1>3

LEMMA WatchSafety == EitherSpec => []WatchInv
<1>1. EitherInit => WatchInv
  BY WatchBegins DEF EitherInit
<1>2. WatchInv /\ [EitherNext]_<<part, vars, watchdog>> => WatchInv'
  BY WatchSteps, WatchRests DEF EitherNext, Over
<1> QED
  BY <1>1, <1>2, PTL DEF EitherSpec

LEMMA MetIsReported == WatchInv => SilencesReported
<1> SUFFICES ASSUME WatchInv PROVE W!SilenceIsReported
  BY DEF WatchInv, SilencesReported, W!SilencesReported
<1> SUFFICES ASSUME tick = "done", \A p \in WatchPasses : ~Busy(p),
                    NEW j \in W!Listed \ revived, now > heard[j] + Threshold
             PROVE  told[j].activity = heard[j]
  BY DEF W!SilenceIsReported, Busy
<1> QED
  BY DEF WatchInv, MetNow, Met, Told, Awaits

\* Whatever passes overlap and whatever jobs do meanwhile, a silence that a pass can
\* see is reported in the minute it outlasts the threshold, and not again within ReEmit
\* minutes (watchdog.ts), for all times and thresholds: also where the idle timer is as
\* quick as the watchdog, and takes most silences off the list before a pass can see them.
THEOREM SilencesReportedOnce == EitherSpec => []SilencesReported
BY WatchSafety, MetIsReported, PTL
=============================================================================
