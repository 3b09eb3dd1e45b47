----------------------------- MODULE BomExecutor -----------------------------
(***************************************************************************)
(* The executor of one bill of materials: an approved plan is driven step  *)
(* by step in dependency order, failed steps are retried, then replanned,  *)
(* until the BOM is done or failed.  BOMs share no state, so one is enough.*)
(* What SQLite holds (status, versions, steps, scope) outlives the daemon; *)
(* the driving loop, its retries to do and its count of replans do not.    *)
(* An action goes at most from one await, or one group of synchronous      *)
(* writes between which the process may die, to the next.                  *)
(***************************************************************************)
EXTENDS Naturals, Sequences, FiniteSets

CONSTANTS
  Plans,        \* what the planner may come up with: what each step depends on
  Concurrency,  \* stepConcurrency
  MaxRetries,   \* maxRetriesPerStep
  MaxReplans,   \* maxReplansPerBom
  MaxRestarts   \* bound on crashes

VARIABLES
  status,    \* boms.status: "none" before there is a BOM, else one of BomStatus
  version,   \* boms.active_version
  steps,     \* bom_steps by version
  scope,     \* the trust scope derived from the BOM
  approved,  \* bom_approved is published and the executor has not heard it yet
  driver,    \* where runBom is suspended, "none" when it does not run
  run,       \* where each step of the batch is suspended
  failures,  \* failed steps of the batch, in the order they came back
  replans,   \* replanCounts
  restarts

bomVars == <<status, version, steps, scope>>
loopVars == <<driver, run, failures, replans>>
vars == <<bomVars, approved, loopVars, restarts>>

Ended == {"done", "failed"}

\* The rows of a version that nobody touched; tried counts a step's executions
\* (history).
Fresh(plan) ==
  [n \in DOMAIN plan |-> [state |-> "pending", retries |-> 0, needs |-> plan[n], tried |-> 0]]

Current == steps[version]
StepNo == IF status = "none" THEN {} ELSE DOMAIN Current

Init ==
  /\ status = "none" /\ version = 1 /\ steps = <<>> /\ scope = "none"
  /\ approved = FALSE
  /\ driver = "none" /\ run = <<>> /\ failures = <<>> /\ replans = 0
  /\ restarts = 0

-----------------------------------------------------------------------------
(* Proposing and answering.                                                *)

ProposePlan(plan) ==
  /\ status = "none"
  /\ status' = "proposed"
  /\ steps' = <<Fresh(plan)>>
  /\ UNCHANGED <<version, scope, approved, loopVars, restarts>>

Respond(verdict) ==
  /\ status = "proposed"
  /\ status' = verdict
  /\ approved' = (verdict = "approved")
  /\ UNCHANGED <<version, steps, scope, loopVars, restarts>>

-----------------------------------------------------------------------------
(* The loop.                                                               *)

\* bom_approved arrives after its fan-out; a BOM is approved once, so nothing
\* drives it yet.
Hear ==
  /\ approved /\ driver = "none"
  /\ approved' = FALSE
  /\ status' = IF status = "approved" THEN "running" ELSE status
  /\ driver' = "opening"
  /\ UNCHANGED <<version, steps, scope, run, failures, replans, restarts>>

OpenScope ==
  /\ driver = "opening"
  /\ scope' = IF scope = "none" THEN "active" ELSE scope
  /\ driver' = "choosing"
  /\ UNCHANGED <<status, version, steps, approved, run, failures, replans, restarts>>

ReadyAnyOrder(n) == Current[n].state = "pending"
Ready(n) ==
  /\ Current[n].state = "pending"
  /\ \A d \in Current[n].needs : d \in StepNo /\ Current[d].state = "done"

ReadySteps == {n \in StepNo : Ready(n)}

\* The first steps that are ready, in the order of their numbers.
Batch == {n \in ReadySteps : Cardinality({m \in ReadySteps : m < n}) < Concurrency}

StartBatch ==
  /\ driver = "choosing" /\ ReadySteps # {}
  /\ driver' = "batch"
  /\ run' = [n \in Batch |-> "starting"]
  /\ steps' = [steps EXCEPT ![version] =
       [n \in StepNo |-> IF n \in Batch THEN [Current[n] EXCEPT !.state = "running"]
                         ELSE Current[n]]]
  /\ UNCHANGED <<status, version, scope, approved, failures, replans, restarts>>

\* markBomCompleted and markBomFailed: status and scope in one go, then the event.
End(how) ==
  /\ status' = how
  /\ scope' = IF scope = "active" THEN "closed" ELSE scope
  /\ driver' = "announcing"

AllDone == \A n \in StepNo : Current[n].state = "done"

Finish ==
  /\ driver = "choosing" /\ ReadySteps = {}
  /\ End(IF AllDone THEN "done" ELSE "failed")
  /\ UNCHANGED <<version, steps, approved, run, failures, replans, restarts>>

Announced ==
  /\ driver = "announcing"
  /\ driver' = "none"
  /\ UNCHANGED <<bomVars, approved, run, failures, replans, restarts>>

-----------------------------------------------------------------------------
(* One step of the batch: bom_step_started is awaited, then the connector, *)
(* then bom_step_completed or bom_step_failed.                             *)

StepRuns(n, to) == run' = [run EXCEPT ![n] = to]

Execute(n) ==
  /\ n \in DOMAIN run /\ run[n] = "starting"
  /\ StepRuns(n, "executing")
  /\ steps' = [steps EXCEPT ![version][n].tried = @ + 1]
  /\ UNCHANGED <<status, version, scope, approved, driver, failures, replans, restarts>>

StepDone(n) ==
  /\ n \in DOMAIN run /\ run[n] = "executing"
  /\ StepRuns(n, "reporting")
  /\ steps' = [steps EXCEPT ![version][n].state = "done"]
  /\ UNCHANGED <<status, version, scope, approved, driver, failures, replans, restarts>>

StepFailed(n) ==
  /\ n \in DOMAIN run /\ run[n] = "executing"
  /\ StepRuns(n, "failing")
  /\ steps' = [steps EXCEPT ![version][n].state = "failed", ![version][n].retries = @ + 1]
  /\ UNCHANGED <<status, version, scope, approved, driver, failures, replans, restarts>>

Without(n) == [m \in DOMAIN run \ {n} |-> run[m]]

\* The batch is over when its last step has reported.
Reported(n) ==
  /\ n \in DOMAIN run /\ run[n] \in {"reporting", "failing"}
  /\ run' = Without(n)
  /\ failures' = IF run[n] = "failing" THEN Append(failures, n) ELSE failures
  /\ driver' = IF DOMAIN run # {n} THEN "batch"
               ELSE IF failures' = <<>> THEN "choosing" ELSE "failing"
  /\ UNCHANGED <<bomVars, approved, replans, restarts>>

-----------------------------------------------------------------------------
(* handleFailures and the planner.                                         *)

MayRetry(n) == Current[n].retries <= MaxRetries

Retry ==
  /\ driver = "failing" /\ MayRetry(Head(failures))
  /\ steps' = [steps EXCEPT ![version][Head(failures)].state = "pending"]
  /\ failures' = Tail(failures)
  /\ driver' = IF failures' = <<>> THEN "choosing" ELSE "failing"
  /\ UNCHANGED <<status, version, scope, approved, run, replans, restarts>>

\* The other failures of the batch are dropped with the version.
AskReplan ==
  /\ driver = "failing" /\ ~MayRetry(Head(failures))
  /\ failures' = <<>>
  /\ replans' = replans + 1
  /\ IF replans' > MaxReplans THEN End("failed")
     ELSE driver' = "replanning" /\ UNCHANGED <<status, scope>>
  /\ UNCHANGED <<version, steps, approved, run, restarts>>

\* Saving an existing step updates its plan and keeps its state.
Saved(plan) ==
  IF version = Len(steps) THEN Append(steps, Fresh(plan))
  ELSE [steps EXCEPT ![version + 1] =
          [n \in DOMAIN plan |->
             IF n \in DOMAIN @ THEN [@[n] EXCEPT !.needs = plan[n]] ELSE Fresh(plan)[n]]]

Replan(plan, escalates) ==
  /\ driver = "replanning"
  /\ steps' = Saved(plan)
  /\ version' = IF escalates THEN version ELSE version + 1
  /\ driver' = IF escalates THEN "escalated" ELSE "replanned"
  /\ UNCHANGED <<status, scope, approved, run, failures, replans, restarts>>

\* bom_replanned is out: go on with the new version, or fail for want of an approval.
Replanned ==
  /\ driver \in {"replanned", "escalated"}
  /\ IF driver = "escalated" THEN End("failed")
     ELSE driver' = "choosing" /\ UNCHANGED <<status, scope>>
  /\ UNCHANGED <<version, steps, approved, run, failures, replans, restarts>>

-----------------------------------------------------------------------------
(* What happens around the loop.                                           *)

\* The scope is revoked, expires or is used up; the loop does not look.
CloseScope ==
  /\ scope = "active"
  /\ scope' = "closed"
  /\ UNCHANGED <<status, version, steps, approved, loopVars, restarts>>

\* The daemon starts again and drives the BOMs it finds 'running'.
BootIdle ==
  /\ approved' = FALSE
  /\ driver' = "none"
  /\ run' = <<>> /\ failures' = <<>> /\ replans' = 0
  /\ UNCHANGED bomVars

Boot ==
  /\ approved' = FALSE
  /\ driver' = IF status = "running" THEN "opening" ELSE "none"
  /\ run' = <<>> /\ failures' = <<>> /\ replans' = 0
  /\ UNCHANGED bomVars

Crash ==
  /\ restarts < MaxRestarts
  /\ restarts' = restarts + 1
  /\ Boot

\* A replan that throws is an unhandled rejection, and that ends the daemon.
ReplanThrows ==
  /\ driver = "replanning"
  /\ Boot
  /\ UNCHANGED restarts

-----------------------------------------------------------------------------
Loop ==
  \/ Hear \/ OpenScope \/ StartBatch \/ Finish \/ Announced
  \/ \E n \in DOMAIN run : Execute(n) \/ StepDone(n) \/ StepFailed(n) \/ Reported(n)
  \/ Retry \/ AskReplan \/ Replanned \/ ReplanThrows
  \/ \E plan \in Plans, escalates \in BOOLEAN : Replan(plan, escalates)

Next ==
  \/ \E plan \in Plans : ProposePlan(plan)
  \/ \E verdict \in {"approved", "rejected"} : Respond(verdict)
  \/ Loop
  \/ CloseScope
  \/ Crash

\* Under fairness of Loop awaits end: connectors and the planner return or throw,
\* and the watchdog starts a daemon that died.
Spec == Init /\ [][Next]_vars

-----------------------------------------------------------------------------
\* A BOM that has ended holds no active scope, whichever path ended it, and one
\* that is reported done has executed every step of the version it ended with.
EndsClean ==
  /\ status \in Ended => scope # "active"
  /\ status = "done" => \A n \in StepNo : Current[n].state = "done" /\ Current[n].tried > 0

Runs(n) == steps'[version][n].tried > steps[version][n].tried

InOrder ==
  \A n \in StepNo : version' = version /\ n \in DOMAIN steps'[version] /\ Runs(n) =>
    /\ status = "running"
    /\ Current[n].state # "done" /\ Current[n].tried <= MaxRetries
    /\ \A d \in Current[n].needs : d \in StepNo /\ Current[d].state = "done"

\* A step executes only in a BOM that runs, when everything it depends on is
\* done and it is not, and no oftener than its retries allow, across batches,
\* retries, replans and restarts.
RunsInOrder == [][InOrder]_vars

\* A BOM that runs ends, also when its planner throws and the daemon with it.
RunningEnds == status = "running" ~> status \in Ended
=============================================================================
