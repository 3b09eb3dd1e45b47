---------------------------- MODULE MCScopeUsers ----------------------------
(***************************************************************************)
(* Small instances of the three components that follow a trust scope       *)
(* through its life, side by side: the trust reporter (one scope, calls of *)
(* one action), the BOM executor with the scope it derives for its own     *)
(* BOM, and host commands.  Reporter and host commands take the table of   *)
(* scopes for themselves, so a behaviour runs one of the three.            *)
(***************************************************************************)
EXTENDS TrustReporter, FiniteSets

CONSTANTS s1, c1, c2, merge, r1, Plans, Concurrency, MaxRetries, MaxReplans

ASSUME ScopeUsersAssumption ==
  /\ Plans \subseteq Seq(SUBSET Nat)
  /\ MaxRetries \in Nat
  /\ IsFiniteSet(Call)

Merging == [c \in Call |-> merge]
TwoUses == {[allowed |-> {merge}, forbidden |-> {}, cap |-> 2, serves |-> {},
             covers |-> {}, budget |-> None]}

\* A chain, a join, and two steps that wait for each other.
ThreePlans == {<<{}, {1}>>, <<{}, {}, {1, 2}>>, <<{2}, {1}>>}

VARIABLES part, status, version, steps, bomScope, approved, driver, run, failures,
          replans, bomRestarts, hostAt, hostUnder, child, clock

B == INSTANCE BomExecutor WITH scope <- bomScope, restarts <- bomRestarts

bom == <<status, version, steps, bomScope, approved, driver, run, failures,
         replans, bomRestarts>>

X == INSTANCE HostExec WITH at <- hostAt, under <- hostUnder

host == <<hostAt, hostUnder, child, clock>>
all == <<part, vars, bom, host>>

EitherInit ==
  /\ part \in {"reporter", "bom", "host"}
  /\ Init /\ (part # "reporter" => cadence = [s \in Scope |-> "every-action"])
  /\ B!Init /\ X!Init

ReporterRuns(A) == part = "reporter" /\ A /\ UNCHANGED <<part, bom, host>>
BomRuns(A) == part = "bom" /\ A /\ UNCHANGED <<part, vars, host>>
HostRuns(A) ==
  /\ part = "host" /\ A
  /\ UNCHANGED <<part, cadence, callVars, posted, reporterVars, restarts, bom>>

EitherNext == ReporterRuns(Next) \/ BomRuns(B!Next) \/ HostRuns(X!Next)

\* The fairness of the part that runs; the parked reporter has nothing to do.
EitherSpec ==
  /\ EitherInit /\ [][EitherNext]_all
  /\ Fairness /\ WF_all(BomRuns(B!Loop))
  /\ \A c \in Call : WF_all(HostRuns(X!Proceeds(c)))

\* An ended BOM holds no active scope, and a done one has done its steps; steps
\* run in their order, in a running BOM, and within their tries.
BomKeepsPlan == []B!EndsClean /\ B!RunsInOrder

\* Host commands end with their process, and their scope is charged once each.
HostCommandsHonest ==
  part = "host" => StoreTypeOK /\ X!AnswerMeansOver /\ X!Charged

\* A running BOM ends, and so does every host command.
WorkEnds == B!RunningEnds /\ (part = "host" => X!HostCommandsEnd)
=============================================================================
