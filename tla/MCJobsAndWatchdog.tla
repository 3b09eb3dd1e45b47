-------------------------- MODULE MCJobsAndWatchdog --------------------------
(***************************************************************************)
(* Small instances of the job orchestrator and of the watchdog that reads  *)
(* its rows, side by side.  They share no state here, so a behaviour runs  *)
(* one of them.                                                            *)
(***************************************************************************)
EXTENDS MCJobOrchestrator

CONSTANTS p1, p2

CONSTANTS WatchJobs, WatchPasses, Threshold, IdleAfter, ReEmit, MaxTime, MaxStarts

\* A job is stuck only after some silence; the rest are numbers.
ASSUME WatchdogAssumption ==
  /\ Threshold \in Nat \ {0}
  /\ IdleAfter \in Nat /\ ReEmit \in Nat /\ MaxTime \in Nat /\ MaxStarts \in Nat

VARIABLES part, now, tick, state, starting, alive, heard, armed, emitted, pass, starts,
  told, repeated, revived

W == INSTANCE JobWatchdog WITH
  Jobs <- WatchJobs, Passes <- WatchPasses, live <- alive

TwoWatched == {j1, j3}
TwoPasses == {p1, p2}

watchdog == <<now, tick, state, starting, alive, heard, armed, emitted, pass, starts,
              told, repeated, revived>>

EitherInit == part \in {"orchestrator", "watchdog"} /\ Init /\ W!Init

\* The clock stops at its bound.
Over == part = "watchdog" /\ now = MaxTime /\ UNCHANGED <<part, vars, watchdog>>

EitherNext ==
  \/ part = "orchestrator" /\ Next /\ UNCHANGED <<part, watchdog>>
  \/ part = "watchdog" /\ W!Next /\ UNCHANGED <<part, vars>>
  \/ Over

EitherSpec == EitherInit /\ [][EitherNext]_<<part, vars, watchdog>>

\* Dispatches of one name and passes are interchangeable.
Alike == Builds \cup Permutations({p1, p2})

\* Whatever passes overlap, a silence that a pass can see is reported in time, and not
\* over and over.
SilencesReported == W!SilencesReported
=============================================================================
