-------------------------------- MODULE Shim --------------------------------
(***************************************************************************)
(* The stdio shim (src/shim.ts): it forwards one client's messages to the  *)
(* daemon through a transport of the MCP library and, when that fails,     *)
(* replaces the transport after a growing delay.  The library and the      *)
(* daemon are the environment.  start() and close() of a transport are     *)
(* awaited, so an attempt is split there; two attempts can overlap, and    *)
(* a transport that was replaced can still report errors.                  *)
(***************************************************************************)
EXTENDS Integers, FiniteSets

CONSTANTS
  Transports,    \* transport objects; a shut one without news is used again
  InitialBackoff, MaxBackoff, ResetAfterClean, GiveUpAfter,  \* in ticks
  MaxOutages     \* bound: times the daemon goes away

ASSUME ShimAssumption ==
  /\ InitialBackoff \in Nat \ {0} /\ MaxBackoff \in Nat
  /\ ResetAfterClean \in Nat /\ GiveUpAfter \in Nat
  /\ MaxOutages \in Nat

VARIABLES
  reachable,     \* is the daemon there
  outages,
  wire,          \* per transport: "none", "open", "broken" or "shut"
  sse,           \* the transport messages are sent on
  attempt,       \* per transport: the reconnect that made it, "none" when it is over
  reconnecting,  \* the flag
  pending,       \* ticks until pendingTimer fires, None without a timer
  backoff,       \* backoffMs
  failing,       \* consecutiveErrors > 0
  sinceError, sinceSuccess, sinceFirstFailure,  \* ticks, None when unset
  closed         \* "no", "gave_up" or "ended"

timeVars == <<sinceError, sinceSuccess, sinceFirstFailure>>
vars == <<reachable, outages, wire, sse, attempt, reconnecting, pending, backoff,
          failing, timeVars, closed>>

None == -1
Lower(a, b) == IF a < b THEN a ELSE b
Aged(t, bound) == IF t = None THEN None ELSE Lower(t + 1, bound)

Init ==
  /\ reachable = TRUE /\ outages = 0
  /\ sse \in Transports
  /\ wire = [t \in Transports |-> IF t = sse THEN "open" ELSE "none"]
  /\ attempt = [t \in Transports |-> "none"]
  /\ reconnecting = FALSE
  /\ pending = None /\ backoff = InitialBackoff
  /\ failing = FALSE
  /\ sinceError = None /\ sinceSuccess = 0 /\ sinceFirstFailure = None
  /\ closed = "no"

-----------------------------------------------------------------------------
\* A mutation of Schedule: an error during an attempt queues nothing.
SkipsWhileBusy(b) ==
  IF reconnecting \/ pending # None THEN pending' = pending /\ backoff' = b
  ELSE pending' = b /\ backoff' = Lower(2 * b, MaxBackoff)

\* scheduleReconnect with a back-off of b: a timer that is queued stays as it is.
Schedule(b) ==
  IF pending # None THEN pending' = pending /\ backoff' = b
  ELSE pending' = b /\ backoff' = Lower(2 * b, MaxBackoff)

\* shutdown: the timer is cleared and the current transport closed.
Shutdown(how) ==
  /\ closed' = how
  /\ pending' = None
  /\ wire' = [wire EXCEPT ![sse] = "shut"]
  /\ UNCHANGED backoff

\* A stretch without errors that wipes the counter.
CleanStretch == failing /\ sinceError > ResetAfterClean /\ sinceSuccess > ResetAfterClean

\* handleSseError, the failing transport's wire being w afterwards.
HandleError(t, w) ==
  LET first == IF CleanStretch \/ sinceFirstFailure = None THEN 0 ELSE sinceFirstFailure
  IN IF closed # "no"
     THEN /\ wire' = [wire EXCEPT ![t] = w]
          /\ UNCHANGED <<pending, backoff, failing, timeVars, closed>>
     ELSE /\ failing' = TRUE
          /\ sinceError' = 0
          /\ sinceFirstFailure' = first
          /\ UNCHANGED sinceSuccess
          /\ IF first > GiveUpAfter
             THEN Shutdown("gave_up")
             ELSE /\ Schedule(IF CleanStretch THEN InitialBackoff ELSE backoff)
                  /\ wire' = [wire EXCEPT ![t] = w]
                  /\ UNCHANGED closed

\* A transport reports an error: its stream broke or a message could not be sent.
\* One that was replaced reports at most the end of what was under way.
Error(t) ==
  /\ \/ wire[t] \in {"open", "broken"} /\ ~reachable
     \/ wire[t] = "shut"
  /\ HandleError(t, IF wire[t] = "shut" THEN "none" ELSE "broken")
  /\ UNCHANGED <<reachable, outages, sse, attempt, reconnecting>>

-----------------------------------------------------------------------------
\* The timer fires: attemptReconnect makes and wires a new transport.
Fire ==
  /\ closed = "no" /\ pending = 0
  /\ pending' = None
  /\ \E t \in Transports :
       /\ wire[t] \in {"none", "shut"} /\ attempt[t] = "none" /\ t # sse
       /\ wire' = [wire EXCEPT ![t] = "none"]
       /\ attempt' = [attempt EXCEPT ![t] = "starting"]
  /\ reconnecting' = TRUE
  /\ UNCHANGED <<reachable, outages, sse, backoff, failing, timeVars, closed>>

\* start() returned: the new transport takes over, the previous one is closed after
\* it; neither looks at `closed` again.
Started(t) ==
  /\ attempt[t] = "starting"
  /\ wire' = [wire EXCEPT ![t] = "open", ![sse] = "shut"]
  /\ sse' = t
  /\ attempt' = [attempt EXCEPT ![t] = "closing"]
  \* The previous transport's onclose: a disconnect, unless a reconnect is under way.
  /\ IF closed = "no" /\ ~reconnecting THEN Schedule(backoff) ELSE UNCHANGED <<pending, backoff>>
  /\ UNCHANGED <<reachable, outages, reconnecting, failing, timeVars, closed>>

\* start() throws: a transport that contacts the daemon may, one that does not will not.
StartFails(t) ==
  /\ attempt[t] = "starting" /\ ~reachable
  /\ attempt' = [attempt EXCEPT ![t] = "none"]
  /\ reconnecting' = FALSE
  /\ HandleError(t, "none")
  /\ UNCHANGED <<reachable, outages, sse>>

\* close() of the previous transport returned: onReconnected.
Reconnected(t) ==
  /\ attempt[t] = "closing"
  /\ attempt' = [attempt EXCEPT ![t] = "none"]
  /\ reconnecting' = FALSE
  /\ failing' = FALSE
  /\ backoff' = InitialBackoff
  /\ sinceSuccess' = 0 /\ sinceFirstFailure' = None
  /\ UNCHANGED <<reachable, outages, wire, sse, pending, sinceError, closed>>

-----------------------------------------------------------------------------
\* The client closes its end.
StdinEnds ==
  /\ closed = "no"
  /\ Shutdown("ended")
  /\ UNCHANGED <<reachable, outages, sse, attempt, reconnecting, failing, timeVars>>

Tick ==
  /\ closed = "no" /\ pending # 0
  /\ pending' = IF pending = None THEN None ELSE pending - 1
  /\ sinceError' = Aged(sinceError, ResetAfterClean + 1)
  /\ sinceSuccess' = Aged(sinceSuccess, ResetAfterClean + 1)
  /\ sinceFirstFailure' = Aged(sinceFirstFailure, GiveUpAfter + 1)
  /\ UNCHANGED <<reachable, outages, wire, sse, attempt, reconnecting, backoff, failing, closed>>

DaemonGoes ==
  /\ reachable /\ outages < MaxOutages
  /\ reachable' = FALSE /\ outages' = outages + 1
  /\ UNCHANGED <<wire, sse, attempt, reconnecting, pending, backoff, failing, timeVars, closed>>

DaemonReturns ==
  /\ ~reachable
  /\ reachable' = TRUE
  /\ UNCHANGED <<outages, wire, sse, attempt, reconnecting, pending, backoff, failing, timeVars, closed>>

Next ==
  \/ Fire \/ Tick \/ StdinEnds \/ DaemonGoes \/ DaemonReturns
  \/ \E t \in Transports : Error(t) \/ Started(t) \/ StartFails(t) \/ Reconnected(t)

\* Time passes, timers fire, the library answers, and a message sent into an
\* outage fails; the daemon need not go, return, or the client leave.
StartSettles(t) == Started(t) \/ StartFails(t)
CurrentFails(t) == t = sse /\ Error(t)
Fairness ==
  /\ WF_vars(Tick) /\ WF_vars(Fire)
  /\ \A t \in Transports :
       WF_vars(StartSettles(t)) /\ WF_vars(Reconnected(t)) /\ WF_vars(CurrentFails(t))

Spec == Init /\ [][Next]_vars /\ Fairness

-----------------------------------------------------------------------------
\* Type correctness of the shim's state.
TypeOK ==
  /\ reachable \in BOOLEAN /\ outages \in 0..MaxOutages
  /\ wire \in [Transports -> {"none", "open", "broken", "shut"}]
  /\ sse \in Transports
  /\ attempt \in [Transports -> {"none", "starting", "closing"}]
  /\ reconnecting \in BOOLEAN /\ failing \in BOOLEAN
  /\ pending \in Nat \cup {None} /\ backoff \in Nat
  /\ sinceError \in None..(ResetAfterClean + 1) /\ sinceSuccess \in 0..(ResetAfterClean + 1)
  /\ sinceFirstFailure \in None..(GiveUpAfter + 1)
  /\ closed \in {"no", "gave_up", "ended"}

\* However errors, attempts and late reports of replaced transports interleave, a
\* shim whose transport is broken has a timer or an attempt that will replace it.
NeverStranded ==
  closed = "no" /\ wire[sse] = "broken" =>
    pending # None \/ \E t \in Transports : attempt[t] = "starting"

\* No transport but the current one stays open in a shim that runs: two attempts
\* that overlap close each other's leftovers.
OneTransport ==
  closed = "no" => \A t \in Transports : wire[t] \in {"open", "broken"} => t = sse

\* A shim that runs has one transport, and one it can rely on: it works, or its
\* replacement is on the way (attemptReconnect, handleSseError).
TransportsHold == NeverStranded /\ OneTransport

\* Once the daemon stays reachable the shim works on an open transport, or is closed.
Reattaches == <>[]reachable => <>[](closed # "no" \/ wire[sse] = "open")
=============================================================================
