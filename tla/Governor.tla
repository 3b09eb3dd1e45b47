------------------------------ MODULE Governor ------------------------------
(***************************************************************************)
(* The Governor, the operator's tray companion (governor/src): the health  *)
(* monitor and its state machine (supervisor.rs, state.rs), the bridge     *)
(* that follows the daemon's event stream (event_bridge.rs), the router    *)
(* that turns events into toasts (event_router.rs) and the heartbeat it    *)
(* sends to the daemon (heartbeat.rs, src/governor/heartbeat-store.ts).    *)
(* It only observes: the daemon's state is the environment's.              *)
(*                                                                         *)
(* Time is counted in turns of the health monitor, POLL_INTERVAL each; a   *)
(* clock whose value matters only up to a bound stops at that bound.       *)
(***************************************************************************)
EXTENDS Integers, Sequences, FiniteSets

CONSTANTS
  UnreachableToDown,  \* consecutive unreachable probes that mean Down
  DegradedToDown,     \* turns since the last good probe that mean Down
  SettleWindow,       \* turns a cold start is given
  Ladder,             \* BACKOFF_LADDER_SECS, in turns
  Stability,          \* STABILITY_THRESHOLD
  Kinds,              \* event kinds that have a toast
  DebounceWindow,     \* DEBOUNCE_WINDOW
  MuteWindows,        \* the lengths the tray menu offers
  Staleness,          \* DEFAULT_STALENESS_MS of the heartbeat
  MaxChanges          \* bound: changes of the daemon and the operator's clicks

VARIABLES
  daemon,       \* what a probe of the daemon would meet
  running,      \* is the Governor itself running
  verdict,      \* StateMachine.state
  unreachable,  \* consecutive_unreachable
  sinceOk,      \* turns since last_ok_probe, Never if there is none
  sinceBoot,    \* turns since boot_at
  proven,       \* last_healthy_at is set
  bridge,       \* "open"; "broken", its end not read yet; or "waiting" to retry
  failures,     \* consecutive_failures of the bridge
  bridgeClock,  \* turns since the stream was opened, or turns left to wait
  sinceToast,   \* per kind: turns since last_emit, Never if there is none
  muted,        \* turns left of mute_until
  beat,         \* the daemon's heartbeat store: turns since received_at, or Never
  trail,        \* history: the last probes, newest last
  changes       \* changes of the environment so far

monitorVars == <<verdict, unreachable, sinceOk, sinceBoot, proven, trail>>
bridgeVars == <<bridge, failures, bridgeClock>>
toastVars == <<sinceToast, muted>>
vars == <<daemon, running, monitorVars, bridgeVars, toastVars, beat, changes>>

Never == -1
Outcomes == {"Ok", "Unhealthy", "Unreachable"}
Verdicts == {"Unknown", "Healthy", "Degraded", "Down"}

Lower(a, b) == IF a < b THEN a ELSE b
\* A clock that has started moves on by one turn, up to the bound.
Aged(t, bound) == IF t = Never THEN Never ELSE Lower(t + 1, bound)

Init ==
  /\ daemon \in Outcomes
  /\ running = TRUE
  /\ verdict = "Unknown" /\ unreachable = 0 /\ sinceOk = Never
  /\ sinceBoot = 0 /\ proven = FALSE /\ trail = <<>>
  /\ bridge = "waiting" /\ failures = 0 /\ bridgeClock = 0
  /\ sinceToast = [k \in Kinds |-> Never] /\ muted = 0
  /\ beat = Never
  /\ changes = 0

-----------------------------------------------------------------------------
(* The health monitor *)

\* A mutation of InSettleWindow: a start lasts until the first good probe.
UntilProven(age) == ~proven
InSettleWindow(age) == ~proven /\ age < SettleWindow

\* The two routes to Down: enough unreachable probes, or none good for too long.
PromotesToDown(misses, okAge) ==
  \/ misses >= UnreachableToDown
  \/ okAge # Never /\ okAge > DegradedToDown

\* record_probe at `age` turns after the start, the last good probe `okAge` turns ago.
RecordProbe(outcome, age, okAge) ==
  LET misses == Lower(unreachable + 1, UnreachableToDown)
  IN CASE outcome = "Ok" ->
            /\ verdict' = "Healthy" /\ unreachable' = 0 /\ sinceOk' = 0 /\ proven' = TRUE
       [] outcome = "Unhealthy" ->
            /\ verdict' = "Degraded" /\ unreachable' = 0 /\ sinceOk' = okAge
            /\ UNCHANGED proven
       [] outcome = "Unreachable" ->
            /\ verdict' = IF PromotesToDown(misses, okAge) /\ ~InSettleWindow(age)
                          THEN "Down" ELSE "Degraded"
            /\ unreachable' = misses /\ sinceOk' = okAge
            /\ UNCHANGED proven

TrailLength == IF UnreachableToDown > DegradedToDown + 1
               THEN UnreachableToDown ELSE DegradedToDown + 1

\* One turn of HealthMonitor.run_forever; every clock of the model moves with it.
Turn ==
  /\ running
  /\ LET age == Lower(sinceBoot + 1, SettleWindow)
     IN /\ RecordProbe(daemon, age, Aged(sinceOk, DegradedToDown + 1))
        /\ sinceBoot' = age
  /\ trail' = LET t == Append(trail, daemon)
              IN IF Len(t) > TrailLength THEN Tail(t) ELSE t
  /\ bridgeClock' = IF bridge # "waiting" THEN Lower(bridgeClock + 1, Stability)
                    ELSE IF bridgeClock = 0 THEN 0 ELSE bridgeClock - 1
  /\ sinceToast' = [k \in Kinds |-> Aged(sinceToast[k], DebounceWindow)]
  /\ muted' = IF muted = 0 THEN 0 ELSE muted - 1
  /\ beat' = Aged(beat, Staleness + 1)
  /\ UNCHANGED <<daemon, running, bridge, failures, changes>>

-----------------------------------------------------------------------------
(* The event bridge *)

\* next_backoff: no failure is one short pause, the first rung.
Backoff(n) == Ladder[Lower(IF n = 0 THEN 1 ELSE n, Len(Ladder))]

BackOff(n) ==
  /\ bridge' = "waiting"
  /\ failures' = Lower(n, Len(Ladder))
  /\ bridgeClock' = Backoff(n)

\* An attempt to open the stream fails when nothing answers, and on any status but
\* 200, which a daemon that answers its probes unhealthily may give here too.
Connect ==
  /\ running /\ bridge = "waiting" /\ bridgeClock = 0
  /\ \/ /\ daemon # "Unreachable"
        /\ bridge' = "open" /\ bridgeClock' = 0 /\ UNCHANGED failures
     \/ daemon # "Ok" /\ BackOff(failures + 1)
  /\ UNCHANGED <<daemon, running, monitorVars, toastVars, beat, changes>>

\* The end of a broken stream is read, whatever a probe would meet by then: cleanly,
\* after a stable session or not, or as an error, a failure after any session.
StreamEnds(clean) ==
  /\ running /\ bridge = "broken"
  /\ BackOff(IF clean /\ bridgeClock >= Stability THEN 0 ELSE failures + 1)
  /\ UNCHANGED <<daemon, running, monitorVars, toastVars, beat, changes>>

-----------------------------------------------------------------------------
(* The event router and the tray menu *)

\* An event reaches the router over the open stream: muted, debounced or shown.
RouteEvent(k) ==
  /\ running /\ bridge = "open" /\ daemon # "Unreachable"
  /\ muted = 0
  /\ sinceToast[k] = Never \/ sinceToast[k] >= DebounceWindow
  /\ sinceToast' = [sinceToast EXCEPT ![k] = 0]
  /\ UNCHANGED <<daemon, running, monitorVars, bridgeVars, muted, beat, changes>>

\* mute_until keeps the later end; unmute clears it.
Mute(w) ==
  /\ running /\ changes < MaxChanges
  /\ muted' = IF muted > w THEN muted ELSE w
  /\ changes' = changes + 1
  /\ UNCHANGED <<daemon, running, monitorVars, bridgeVars, sinceToast, beat>>

Unmute ==
  /\ running /\ muted > 0
  /\ muted' = 0
  /\ UNCHANGED <<daemon, running, monitorVars, bridgeVars, sinceToast, beat, changes>>

-----------------------------------------------------------------------------
(* The heartbeat and the environment *)

\* POST /governor/heartbeat; a failed one is logged and absorbed.
Heartbeat ==
  /\ running /\ daemon # "Unreachable" /\ beat # 0
  /\ beat' = 0
  /\ UNCHANGED <<daemon, running, monitorVars, bridgeVars, toastVars, changes>>

\* The daemon hangs, answers again or turns unhealthy; its sockets stay as they are.
DaemonChanges(d) ==
  /\ changes < MaxChanges /\ d \in Outcomes \ {daemon}
  /\ daemon' = d
  /\ changes' = changes + 1
  /\ UNCHANGED <<running, monitorVars, bridgeVars, toastVars, beat>>

\* The daemon's process ends, and with it its sockets and the heartbeat store it
\* keeps in memory; a probe meets nothing, or the next process, soon after or later.
DaemonEnds(d) ==
  /\ changes < MaxChanges /\ d \in Outcomes
  /\ daemon' = d
  /\ bridge' = IF bridge = "open" THEN "broken" ELSE bridge
  /\ beat' = Never
  /\ changes' = changes + 1
  /\ UNCHANGED <<running, monitorVars, failures, bridgeClock, toastVars>>

\* The operator quits the Governor; everything it knew is gone.
Quit ==
  /\ running /\ changes < MaxChanges
  /\ running' = FALSE
  /\ changes' = changes + 1
  /\ UNCHANGED <<daemon, monitorVars, bridgeVars, toastVars, beat>>

Relaunch ==
  /\ ~running
  /\ running' = TRUE
  /\ verdict' = "Unknown" /\ unreachable' = 0 /\ sinceOk' = Never
  /\ sinceBoot' = 0 /\ proven' = FALSE /\ trail' = <<>>
  /\ bridge' = "waiting" /\ failures' = 0 /\ bridgeClock' = 0
  /\ sinceToast' = [k \in Kinds |-> Never] /\ muted' = 0
  /\ UNCHANGED <<daemon, beat, changes>>

Next ==
  \/ Turn \/ Connect \/ Heartbeat \/ Unmute \/ Quit \/ Relaunch
  \/ \E clean \in BOOLEAN : StreamEnds(clean)
  \/ \E k \in Kinds : RouteEvent(k)
  \/ \E w \in MuteWindows : Mute(w)
  \/ \E d \in Outcomes : DaemonChanges(d) \/ DaemonEnds(d)

\* The monitor's and the bridge's threads run for as long as the Governor does,
\* which reads the end of a broken stream; nothing else is certain to happen.
EndIsRead == \E clean \in BOOLEAN : StreamEnds(clean)
Fairness == WF_vars(Turn) /\ WF_vars(Connect) /\ WF_vars(EndIsRead)

Spec == Init /\ [][Next]_vars /\ Fairness

-----------------------------------------------------------------------------
\* Were the last n probes of the trail all of these outcomes?
LastAre(n, outcomes) ==
  Len(trail) >= n /\ \A i \in (Len(trail) - n + 1)..Len(trail) : trail[i] \in outcomes

\* The verdict the operator sees is the one record_probe means the probes to give:
\* Healthy exactly after a good one; Down only after an unreachable one that ends a
\* streak of them or a long time without a good one, and never in a cold start.
\* state.rs:32 says any 30 s without a good probe are Down; this is the narrower
\* rule of its code, under which a daemon that answers badly stays Degraded.
VerdictMatchesProbes ==
  /\ verdict = "Unknown" <=> trail = <<>>
  /\ verdict = "Healthy" <=> LastAre(1, {"Ok"})
  /\ verdict = "Down" =>
       /\ LastAre(1, {"Unreachable"})
       /\ \/ LastAre(UnreachableToDown, {"Unreachable"})
          \/ LastAre(DegradedToDown + 1, Outcomes \ {"Ok"})
       /\ sinceBoot < SettleWindow => proven

\* A daemon that stays away is reported Down, also when it goes during the
\* Governor's own start, one that stays well is reported Healthy, and once it stays
\* well its events flow again, however and whenever the stream broke.
SeesTheTruth ==
  /\ <>[](running /\ daemon = "Unreachable") => <>[](verdict = "Down")
  /\ <>[](running /\ daemon = "Ok") => <>[](verdict = "Healthy")
  /\ <>[](running /\ daemon = "Ok") => <>[](bridge = "open")

=============================================================================
