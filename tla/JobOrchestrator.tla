--------------------------- MODULE JobOrchestrator ---------------------------
(***************************************************************************)
(* JobOrchestrator: a dispatch passes its admission gates one await at a   *)
(* time (name, grant, per-actor slot, host ceiling, grant budget), inserts *)
(* a 'dispatched' row, starts the binding and becomes a live job.  Jobs    *)
(* end by themselves, when an operator terminates them or when the load    *)
(* shedder picks them; the rows outlive the daemon, its live table does    *)
(* not.                                                                    *)
(*                                                                         *)
(* Bindings are modelled after process-spawn: terminate sends a signal and *)
(* may return before the exit event arrives; there is one exit event.      *)
(***************************************************************************)
EXTENDS TrustScopes, FiniteSets

CONSTANTS
  Job,          \* dispatch calls, and the ids of the rows they insert
  Name,         \* job names
  Holder,       \* keys of the per-actor live count
  request,      \* what each dispatch asks for
  ActorCap,     \* maxConcurrentPerActor, None when not configured
  WorkerCap,    \* the host ceiling's max_concurrent_workers, None when 0
  Stoppers,     \* bound: who stops jobs, of "operator" and "host"
  MaxRestarts   \* bound: how often the daemon is restarted

Request == [name : Name, holder : Holder, actor : Actor, use : Use,
            peer : BOOLEAN, pinned : Scope \cup {None}]

ASSUME JobOrchestratorAssumption ==
  /\ request \in [Job -> Request]
  /\ ActorCap \in (Nat \ {0}) \cup {None}
  /\ WorkerCap \in (Nat \ {0}) \cup {None}
  /\ Stoppers \subseteq {"operator", "host"}
  /\ MaxRestarts \in Nat
  /\ IsFiniteSet(Job)

VARIABLES
  pc,        \* where each dispatch is suspended, or how it ended
  grant,     \* the grant a dispatch was resolved to, None for the sentinel
  row,       \* jobs rows: lifecycle state, and whether ended_at is set
  live,      \* live jobs in dispatch order
  slots,     \* liveByActor
  killed,    \* live jobs whose process was sent a signal
  stopping,  \* jobs being stopped: <<job, who waits for it>>
  restarts,
  issued     \* the budget each scope was proposed with (history)

jobVars == <<pc, grant, row, live, slots, killed, stopping, restarts>>
vars == <<storeVars, jobVars, issued>>

PC == {"idle", "resolved", "reserved", "refusing", "starting", "live",
       "exited", "refused", "failed", "lost"}
LifecycleState == {"none", "dispatched", "running", "completed", "crashed",
                   "killed-by-operator", "killed-by-system", "stale"}
Holding == {"reserved", "refusing", "starting", "live"}

\* Type invariant: in particular every row is in a state of the lifecycle.
TypeOK ==
  /\ StoreTypeOK
  /\ pc \in [Job -> PC]
  /\ grant \in [Job -> Scope \cup {None}]
  /\ row \in [Job -> [state : LifecycleState, ended : BOOLEAN]]
  /\ live \in Seq(Job)
  /\ slots \in [Holder -> Nat]
  /\ killed \in SUBSET Job
  /\ stopping \in SUBSET (Job \X {"announced", "operator", "host"})
  /\ restarts \in 0 .. MaxRestarts
  /\ issued \in [Scope -> Nat \cup {None}]

Init ==
  /\ StoreInit
  /\ pc = [j \in Job |-> "idle"]
  /\ grant = [j \in Job |-> None]
  /\ row = [j \in Job |-> [state |-> "none", ended |-> FALSE]]
  /\ live = <<>>
  /\ slots = [h \in Holder |-> 0]
  /\ killed = {}
  /\ stopping = {}
  /\ restarts = 0
  /\ issued = [s \in Scope |-> None]

Holds(j) == request[j].holder
IsLive(j) == \E i \in DOMAIN live : live[i] = j
Goto(j, l) == pc' = [pc EXCEPT ![j] = l]
Reserve(h) == slots' = [slots EXCEPT ![h] = slots[h] + 1]
ReleaseKept(h) == UNCHANGED slots
Release(h) ==
  slots' = [slots EXCEPT ![h] = IF slots[h] <= 1 THEN 0 ELSE slots[h] - 1]

CurrentlyActive(state) == state \in {"dispatched", "running"}
NameTaken(n) == \E j \in Job : request[j].name = n /\ CurrentlyActive(row[j].state)

\* markJobTerminated, by termination_reason; it overwrites whatever was there.
EndState(reason) ==
  CASE reason = "terminated_by_user" -> "killed-by-operator"
    [] reason = "shed_by_host" -> "killed-by-system"
    [] OTHER -> reason
MarkTerminated(j, reason) ==
  row' = [row EXCEPT ![j] = [state |-> EndState(reason), ended |-> TRUE]]

-----------------------------------------------------------------------------
(* dispatch, from await to await.                                          *)

\* The name is free; the grant is resolved in the same synchronous stretch.
Dispatch(j) ==
  /\ pc[j] = "idle"
  /\ ~NameTaken(request[j].name)
  /\ ResolveGrant(request[j])
  /\ IF Denied(request[j])
       THEN Goto(j, "refused") /\ UNCHANGED grant
       ELSE /\ Goto(j, "resolved")
            /\ IF Resolved(request[j]) = {} THEN UNCHANGED grant
               ELSE \E s \in Resolved(request[j]) : grant' = [grant EXCEPT ![j] = s]
  /\ UNCHANGED <<row, live, slots, killed, stopping, restarts, issued>>

RefuseName(j) ==
  /\ pc[j] = "idle"
  /\ NameTaken(request[j].name)
  /\ Goto(j, "refused")
  /\ UNCHANGED <<storeVars, grant, row, live, slots, killed, stopping, restarts, issued>>

\* checkPerActorConcurrency checks and reserves in one stretch.
AtCap(h) == ActorCap # None /\ slots[h] >= ActorCap

CheckActor(j) ==
  /\ pc[j] = "resolved"
  /\ IF AtCap(Holds(j))
       THEN Goto(j, "refused") /\ UNCHANGED slots
       ELSE Goto(j, "reserved") /\ Reserve(Holds(j))
  /\ UNCHANGED <<storeVars, grant, row, live, killed, stopping, restarts, issued>>

\* checkHostAdmission: the live count, or the host's memory and processor.
AtCeiling == WorkerCap # None /\ Len(live) >= WorkerCap

RefuseHost(j) ==
  /\ pc[j] = "reserved"
  /\ Goto(j, "refusing")
  /\ UNCHANGED <<storeVars, grant, row, live, slots, killed, stopping, restarts, issued>>

\* host_ceiling_refused is delivered; the slot is given back.
ReleaseHost(j) ==
  /\ pc[j] = "refusing"
  /\ Goto(j, "refused") /\ Release(Holds(j))
  /\ UNCHANGED <<storeVars, grant, row, live, killed, stopping, restarts, issued>>

\* Admitted: the budget is spent and the row inserted in one stretch.
Insert(j) ==
  /\ Goto(j, "starting")
  /\ row' = [row EXCEPT ![j] = [state |-> "dispatched", ended |-> FALSE]]
  /\ UNCHANGED slots

SpendsAnyway(j) == TRUE
Spends(j) == Consumable(grant[j])

Admit(j) ==
  /\ pc[j] = "reserved" /\ ~AtCeiling
  /\ IF grant[j] = None THEN Insert(j) /\ UNCHANGED storeVars
     ELSE /\ DecrementBudget(grant[j])
          /\ IF Spends(j) THEN Insert(j)
             ELSE Goto(j, "refused") /\ Release(Holds(j)) /\ UNCHANGED row
  /\ UNCHANGED <<grant, live, killed, stopping, restarts, issued>>

\* binding.dispatch returned: the row is upserted as 'running', whatever became
\* of it since the insert, and the job goes live.
GoLive(j) ==
  /\ pc[j] = "starting"
  /\ Goto(j, "live")
  /\ row' = [row EXCEPT ![j] = [state |-> "running", ended |-> FALSE]]
  /\ live' = Append(live, j)
  /\ UNCHANGED <<storeVars, grant, slots, killed, stopping, restarts, issued>>

FailToStart(j) ==
  /\ pc[j] = "starting"
  /\ Goto(j, "failed") /\ Release(Holds(j))
  /\ MarkTerminated(j, "crashed")
  /\ UNCHANGED <<storeVars, grant, live, killed, stopping, restarts, issued>>

-----------------------------------------------------------------------------
(* A live job ends, or is ended.                                           *)

\* The exit event.  A signal, ours or the operating system's, is 'terminated'.
Exit(j, reason) ==
  /\ pc[j] = "live"
  /\ Goto(j, "exited") /\ Release(Holds(j))
  /\ MarkTerminated(j, reason)
  /\ \E i \in DOMAIN live :
       /\ live[i] = j
       /\ live' = SubSeq(live, 1, i - 1) \o SubSeq(live, i + 1, Len(live))
  /\ UNCHANGED <<storeVars, grant, killed, stopping, restarts, issued>>

\* Five minutes without activity; nothing ever turns 'stale' back.
GoStale(j) ==
  /\ pc[j] = "live" /\ row[j].state = "running"
  /\ row' = [row EXCEPT ![j].state = "stale"]
  /\ UNCHANGED <<storeVars, pc, grant, live, slots, killed, stopping, restarts, issued>>

\* job_terminate on a row that is not active is a successful no-op; on an
\* active row without a live handle it only stamps the row.
Terminate(j) ==
  /\ "operator" \in Stoppers
  /\ row[j].state # "none"
  /\ IF CurrentlyActive(row[j].state) /\ IsLive(j)
       THEN /\ killed' = killed \cup {j}
            /\ stopping' = stopping \cup {<<j, "operator">>}
            /\ UNCHANGED row
       ELSE /\ IF CurrentlyActive(row[j].state) THEN MarkTerminated(j, "terminated_by_user")
               ELSE UNCHANGED row
            /\ UNCHANGED <<killed, stopping>>
  /\ UNCHANGED <<storeVars, pc, grant, live, slots, restarts, issued>>

\* The load shedder picks the last job to go live and publishes
\* host_ceiling_shed; then the handle is asked to stop.
Shed(j) ==
  /\ "host" \in Stoppers
  /\ live # <<>> /\ live[Len(live)] = j
  /\ stopping' = stopping \cup {<<j, "announced">>}
  /\ UNCHANGED <<storeVars, pc, grant, row, live, slots, killed, restarts, issued>>

ShedQuietly(j) ==
  /\ <<j, "announced">> \in stopping
  /\ stopping' = (stopping \ {<<j, "announced">>}) \cup {<<j, "host">>}
  /\ UNCHANGED <<storeVars, pc, grant, row, live, slots, killed, restarts, issued>>

ShedKill(j) ==
  /\ <<j, "announced">> \in stopping
  /\ killed' = killed \cup {j}
  /\ stopping' = (stopping \ {<<j, "announced">>}) \cup {<<j, "host">>}
  /\ UNCHANGED <<storeVars, pc, grant, row, live, slots, restarts, issued>>

\* handle.terminate after the exit or before it.
MarksAlways(j) == TRUE
Unmarked(j) == ~row[j].ended

Stopped(j, who) ==
  /\ <<j, who>> \in stopping
  /\ stopping' = stopping \ {<<j, who>>}
  /\ IF Unmarked(j)
       THEN MarkTerminated(j, IF who = "host" THEN "shed_by_host" ELSE "terminated_by_user")
       ELSE UNCHANGED row
  /\ UNCHANGED <<storeVars, pc, grant, live, slots, killed, restarts, issued>>

\* The daemon stops or dies: handles, slots and suspended calls are gone.
Restart ==
  /\ restarts < MaxRestarts
  /\ restarts' = restarts + 1
  /\ pc' = [j \in Job |-> IF pc[j] \in {"resolved", "reserved", "refusing", "starting", "live"}
                          THEN "lost" ELSE pc[j]]
  /\ live' = <<>>
  /\ slots' = [h \in Holder |-> 0]
  /\ killed' = {}
  /\ stopping' = {}
  /\ UNCHANGED <<storeVars, grant, row, issued>>

-----------------------------------------------------------------------------
(* What happens to the grants meanwhile.                                   *)

Propose(s, p) ==
  /\ CreateProposal(s, p)
  /\ issued' = [issued EXCEPT ![s] = p.budget]
  /\ UNCHANGED jobVars

GrantScope(s) ==
  /\ scope[s].status = "proposed"
  /\ Grant(s)
  /\ UNCHANGED <<jobVars, issued>>

RevokeScope(s) ==
  /\ Revocable(s)
  /\ Revoke(s)
  /\ UNCHANGED <<jobVars, issued>>

Clock ==
  /\ SweepExpired \/ \E s \in Scope : Lapse(s)
  /\ UNCHANGED <<jobVars, issued>>

-----------------------------------------------------------------------------
DispatchStep(j) ==
  \/ Dispatch(j) \/ RefuseName(j)
  \/ CheckActor(j) \/ RefuseHost(j) \/ ReleaseHost(j) \/ Admit(j)
  \/ GoLive(j) \/ FailToStart(j)

ExitReason == {"completed", "crashed", "terminated_by_user"}

Next ==
  \/ \E j \in Job : DispatchStep(j)
  \/ \E j \in Job, reason \in ExitReason : Exit(j, reason)
  \/ \E j \in Job : GoStale(j) \/ Terminate(j) \/ Shed(j) \/ ShedKill(j)
  \/ \E j \in Job, who \in {"operator", "host"} : Stopped(j, who)
  \/ Restart
  \/ \E s \in Scope : (\E p \in Proposals : Propose(s, p)) \/ GrantScope(s) \/ RevokeScope(s)
  \/ Clock

Spec == Init /\ [][Next]_vars

\* Suspended dispatches are resumed, a binding answers, a signalled process
\* exits and terminate returns (kill is escalated after five seconds).
Fairness ==
  /\ \A j \in Job :
       /\ WF_vars(CheckActor(j)) /\ WF_vars(RefuseHost(j) \/ Admit(j))
       /\ WF_vars(ReleaseHost(j)) /\ WF_vars(GoLive(j) \/ FailToStart(j))
       /\ WF_vars(ShedKill(j))
       /\ WF_vars(j \in killed /\ \E reason \in ExitReason : Exit(j, reason))
       /\ \A who \in {"operator", "host"} : WF_vars(Stopped(j, who))

FairSpec == Spec /\ Fairness

-----------------------------------------------------------------------------
Holders(h) == {j \in Job : pc[j] \in Holding /\ Holds(j) = h}

\* The live count of a holder is the number of its dispatches between their
\* reservation and their end: no path leaks a slot or gives one back twice.
SlotsBalance == \A h \in Holder : slots[h] = Cardinality(Holders(h))

\* However dispatches interleave, no holder has more than its cap of jobs
\* starting or live.
ActorCapHolds ==
  ActorCap # None => \A h \in Holder : Cardinality(Holders(h)) <= ActorCap

\* The cap on a holder is a cap on what it really has: its count is exact and
\* its jobs stay below the cap, whichever admission gate or binding fails
\* (dispatch's five ways out, releaseActorSlot).
SlotsHold == SlotsBalance /\ ActorCapHolds

Inserted(s) == {j \in Job : row[j].state # "none" /\ grant[j] = s}

\* A grant's budget is spent exactly once for each row inserted under it:
\* refused dispatches, concurrent ones and restarts cost nothing.
BudgetLedger ==
  \A s \in Scope : issued[s] # None => Budget(s) + Cardinality(Inserted(s)) = issued[s]

Starts(j) == pc[j] # "starting" /\ pc'[j] = "starting"

\* A dispatch that resolved a grant starts only while the grant is active, in
\* time, budgeted, for its actor and for its use, however long it was
\* suspended; a peer always needs one.
StartsWithinGrant ==
  [][\A j \in Job : Starts(j) =>
       IF grant[j] = None THEN ~request[j].peer
       ELSE Usable(grant[j], request[j]) /\ HasBudget(grant[j])]_vars

\* Once a job's end was seen its row is final, whichever terminate calls are
\* still waiting.
EndIsFinal ==
  [][\A j \in Job : pc[j] \in {"exited", "failed"} => row'[j] = row[j]]_vars

Suspended == {"resolved", "reserved", "refusing", "starting"}

\* No dispatch stays suspended, which would keep its slot for good, and a job
\* that was signalled or picked by the shedder stops being live.
JobsMoveOn ==
  \A j \in Job :
    /\ pc[j] \in Suspended ~> pc[j] \notin Suspended
    /\ (\E who \in {"announced", "operator", "host"} : <<j, who>> \in stopping)
         ~> pc[j] # "live"

\* Stated by the docs, not kept by the code.

\* A duplicate name is refused.
NamesUnique ==
  \A j, k \in Job : CurrentlyActive(row[j].state) /\ CurrentlyActive(row[k].state)
                      /\ request[j].name = request[k].name => j = k
=============================================================================
