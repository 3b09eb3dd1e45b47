------------------------------- MODULE JobRun -------------------------------
(***************************************************************************)
(* What JobOrchestrator counts on from the handle of every binding: some   *)
(* work that ends by itself or is ended from outside, one exit event that  *)
(* tells it, and calls of terminate that all return.                       *)
(***************************************************************************)
EXTENDS Sequences

CONSTANT Callers    \* calls of terminate

VARIABLES
  work,    \* "working", or how it ended: "done", "failed" or "killed"
  exits,   \* the exit events, by reason
  stop     \* per call of terminate: "idle", "waiting" or "returned"

vars == <<work, exits, stop>>

Asked == \E c \in Callers : stop[c] # "idle"

Init ==
  /\ work = "working"
  /\ exits = <<>>
  /\ stop = [c \in Callers |-> "idle"]

Work ==
  \/ UNCHANGED work
  \/ work = "working" /\ work' \in {"done", "failed", "killed"}

\* The only exit.  It says 'completed' of work that was done and 'terminated'
\* of work that was killed or of a job that somebody asked to stop.
Report ==
  \/ UNCHANGED exits
  \/ /\ exits = <<>>
     /\ \/ exits' = <<"crashed">>
        \/ exits' = <<"completed">> /\ work' = "done"
        \/ exits' = <<"terminated">> /\ (work' = "killed" \/ Asked)

Stop ==
  \/ UNCHANGED stop
  \/ \E c \in Callers :
       /\ stop[c] # "returned"
       /\ \E at \in {"waiting", "returned"} : stop' = [stop EXCEPT ![c] = at]

Next == Work /\ Report /\ Stop

\* Work that ended is reported, a job asked to stop exits, and every call of
\* terminate returns.
Settles ==
  /\ work # "working" ~> exits # <<>>
  /\ Asked ~> exits # <<>>
  /\ \A c \in Callers : stop[c] = "waiting" ~> stop[c] = "returned"

Spec == Init /\ [][Next]_vars /\ Settles
=============================================================================
