----------------------------- MODULE JobBinding -----------------------------
(***************************************************************************)
(* One job behind each of the four executor bindings of src/jobs: a child  *)
(* process, an HTTP request, a call of an MCP tool, or a Claude Code       *)
(* session the daemon only attaches to.  The work ends by itself, at its   *)
(* time-out or because terminate was called, in any order, and the binding *)
(* reports one exit on its event bus.                                      *)
(*                                                                         *)
(* The child's operating system, the HTTP and MCP peers and the session's  *)
(* adapter are external; the adapter is taken to answer detach.            *)
(***************************************************************************)
EXTENDS Sequences

CONSTANTS
  Kinds,      \* of "process", "http", "mcp" and "attach"
  Callers     \* calls of terminate

VARIABLES
  kind,
  work,      \* what the job is about: "working", "done", "failed" or "killed"
  step,      \* of a request: "calling", "reading" its body, "settled"
  timer,     \* of a request: "set", "fired" or "cleared"
  sent,      \* the strongest stop sent: "none", "term", "kill" or "abort"
  ended,     \* terminated (of a request), detached (of a session)
  exited,
  exits,     \* what the event bus emitted
  stop       \* per call of terminate: "idle", "waiting" or "returned"

vars == <<kind, work, step, timer, sent, ended, exited, exits, stop>>

Init ==
  /\ kind \in Kinds
  /\ work = "working" /\ step = "calling" /\ sent = "none"
  /\ timer = IF kind \in {"http", "mcp"} THEN "set" ELSE "cleared"
  /\ ended = FALSE /\ exited = FALSE
  /\ exits = <<>>
  /\ stop = [c \in Callers |-> "idle"]

Emit(reason) == exited' = TRUE /\ exits' = Append(exits, reason)
EmitOnce(reason) == IF exited THEN UNCHANGED <<exited, exits>> ELSE Emit(reason)
At(c, s) == stop' = [stop EXCEPT ![c] = s]
Reason(w) == CASE w = "done" -> "completed" [] w = "failed" -> "crashed" [] OTHER -> "terminated"

-----------------------------------------------------------------------------
(* process-spawn                                                           *)

\* The child exits, or a signal ends it, from whomever; a spawn that failed is
\* reported as a crash, too.
ChildEnds(w) ==
  /\ kind = "process" /\ work = "working"
  /\ work' = w
  /\ EmitOnce(Reason(w))
  /\ UNCHANGED <<kind, step, timer, sent, ended, stop>>

\* kill() that the system refuses is an 'error' of the child: the job has
\* crashed for the orchestrator, and its process lives on.
Kill(signal) ==
  \/ sent' = signal /\ UNCHANGED <<exited, exits>>
  \/ EmitOnce("crashed") /\ UNCHANGED sent

AskProcess(c, force) ==
  /\ kind = "process" /\ stop[c] = "idle"
  /\ IF exited THEN At(c, "returned") /\ UNCHANGED <<sent, exited, exits>>
     ELSE /\ Kill(IF force \/ sent = "kill" THEN "kill" ELSE "term")
          /\ At(c, IF force THEN "returned" ELSE "waiting")
  /\ UNCHANGED <<kind, work, step, timer, ended>>

\* The exit event, or five seconds without one.
ProcessStops(c) ==
  /\ kind = "process" /\ stop[c] = "waiting"
  /\ At(c, "returned")
  /\ IF exited THEN UNCHANGED <<sent, exited, exits>> ELSE Kill("kill")
  /\ UNCHANGED <<kind, work, step, timer, ended>>

-----------------------------------------------------------------------------
(* http and mcp-call                                                       *)

\* fetch resolves with the headers: the time-out is over, the body is not.
Headers ==
  /\ kind = "http" /\ step = "calling"
  /\ step' = "reading" /\ timer' = "cleared"
  /\ UNCHANGED <<kind, work, sent, ended, exited, exits, stop>>

\* The body was read, or the tool returned.  Nothing of http's looks at
\* 'exited' again after the body.
Answered(w) ==
  /\ \/ kind = "http" /\ step = "reading"
     \/ kind = "mcp" /\ step = "calling" /\ timer # "fired"
  /\ work = "working" /\ work' = w
  /\ step' = "settled" /\ timer' = "cleared"
  /\ IF kind = "http" THEN Emit(Reason(w)) ELSE EmitOnce(Reason(w))
  /\ UNCHANGED <<kind, sent, ended, stop>>

\* The peer breaks off, or the abort reaches the call.  An aborted MCP call is
\* only no longer waited for: the tool may run on.
CallBreaks ==
  /\ kind \in {"http", "mcp"} /\ step # "settled"
  /\ step' = "settled" /\ timer' = "cleared"
  /\ work' = "failed" \/ (kind = "mcp" /\ UNCHANGED work)
  /\ EmitOnce(IF kind = "http" /\ ended THEN "terminated" ELSE "crashed")
  /\ UNCHANGED <<kind, sent, ended, stop>>

TimerFires ==
  /\ timer = "set"
  /\ timer' = "fired" /\ sent' = "abort"
  /\ UNCHANGED <<kind, work, step, ended, exited, exits, stop>>

\* terminate, also of a session; a second call does not wait for the first.
AskCall(c) ==
  /\ kind # "process" /\ stop[c] = "idle"
  /\ IF ended THEN At(c, "returned") /\ UNCHANGED <<ended, sent>>
     ELSE At(c, "waiting") /\ ended' = TRUE /\ sent' = "abort"
  /\ UNCHANGED <<kind, work, step, timer, exited, exits>>

\* The synthetic exit, and the one without its guard.
TerminatedAnyway(c) == Emit("terminated")
Terminated(c) == EmitOnce("terminated")

CallStopped(c) ==
  /\ stop[c] = "waiting"
  /\ kind \in {"http", "mcp"} => step = "settled"
  /\ kind # "process"
  /\ At(c, "returned")
  /\ Terminated(c)
  /\ UNCHANGED <<kind, work, step, timer, sent, ended>>

-----------------------------------------------------------------------------
(* cc-session-attach                                                       *)

\* Nobody listens to a session any more once the detaching has begun.
SessionEnds(w) ==
  /\ kind = "attach" /\ work = "working" /\ w # "killed"
  /\ work' = w
  /\ IF ended THEN UNCHANGED <<exited, exits>> ELSE EmitOnce(Reason(w))
  /\ UNCHANGED <<kind, step, timer, sent, ended, stop>>

-----------------------------------------------------------------------------
Outcomes == {"done", "failed", "killed"}

Next ==
  \/ \E w \in Outcomes : ChildEnds(w) \/ SessionEnds(w)
  \/ \E w \in Outcomes \ {"killed"} : Answered(w)
  \/ Headers \/ CallBreaks \/ TimerFires
  \/ \E c \in Callers : ProcessStops(c) \/ AskCall(c) \/ CallStopped(c)
  \/ \E c \in Callers, force \in BOOLEAN : AskProcess(c, force)

\* A killed child dies, five seconds pass, an abort rejects what it aborts.
Killed == sent = "kill" /\ ChildEnds("killed")
Aborted == sent = "abort" /\ CallBreaks
Fairness ==
  /\ WF_vars(Killed) /\ WF_vars(Aborted)
  /\ \A c \in Callers : WF_vars(ProcessStops(c)) /\ WF_vars(CallStopped(c))

Spec == Init /\ [][Next]_vars /\ Fairness

-----------------------------------------------------------------------------
Run == INSTANCE JobRun

\* The steps of a job, seen through what the orchestrator learns of it.
RunsAsPromised == Run!Init /\ [][Run!Next]_Run!vars

\* Every binding keeps what the orchestrator counts on: one exit event, true to
\* what became of the work, however the end of the work, its time-out and calls
\* of terminate race, and no job that cannot be stopped.
KeepsJobPromise == RunsAsPromised /\ Run!Settles
=============================================================================
