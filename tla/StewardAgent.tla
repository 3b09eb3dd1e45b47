---------------------------- MODULE StewardAgent ----------------------------
(***************************************************************************)
(* The Steward agent as a child process: the daemon's side                 *)
(* (src/steward/spawner.ts over src/steward/ipc.ts) pings it, watches for  *)
(* its answers and asks it for plans; the agent's loop                     *)
(* (src/steward-agent/loop.ts) answers.  Messages keep their order in      *)
(* either direction; the exit of the child is an event of its own, which   *)
(* may overtake what the child had sent.                                   *)
(***************************************************************************)
EXTENDS Naturals, Sequences

CONSTANTS
  Requests,
  Missed,        \* heartbeats without an answer that make the agent unhealthy
  MaxMail,       \* bound on a channel for pings and pongs
  None           \* no time

VARIABLES
  child,      \* the process: booting, up, hung (its loop is blocked), gone, or
              \* reaped (the daemon was told of its exit)
  toChild, fromChild,
  planning,   \* requests the agent works on
  status,     \* what the daemon's handle says of the agent
  heard,      \* heartbeats since lastHeartbeatAt, or None
  plan,       \* per request: how its promise stands
  stopping    \* shutdown: not called, waiting for the child, or over

ends == <<child, toChild, fromChild, planning>>
vars == <<ends, status, heard, plan, stopping>>

Settled == {"answered", "timedOut", "exited", "closed"}
Mail == [type : {"ping", "pong", "ready"}] \cup [type : {"request", "reply"}, id : Requests]
Counts == 0..Missed + 1

\* Type invariant.
TypeOK ==
  /\ child \in {"booting", "up", "hung", "gone", "reaped"}
  /\ toChild \in Seq(Mail) /\ fromChild \in Seq(Mail)
  /\ planning \subseteq Requests
  /\ status \in {"starting", "up", "unhealthy", "down"}
  /\ heard \in Counts \cup {None}
  /\ plan \in [Requests -> {"none", "pending", "forgotten"} \cup Settled]
  /\ stopping \in {"no", "waiting", "over"}

Init ==
  /\ child = "booting" /\ toChild = <<>> /\ fromChild = <<>> /\ planning = {}
  /\ status = "starting" /\ heard = None
  /\ plan = [r \in Requests |-> "none"] /\ stopping = "no"

-----------------------------------------------------------------------------
(* The agent's process.                                                    *)

daemon == <<status, heard, plan, stopping>>

\* The loop says "ready" before it listens.
Boot ==
  /\ child = "booting" /\ child' = "up"
  /\ fromChild' = Append(fromChild, [type |-> "ready"])
  /\ UNCHANGED <<toChild, planning, daemon>>

Hang ==
  /\ child \in {"booting", "up"} /\ child' = "hung"
  /\ UNCHANGED <<toChild, fromChild, planning, daemon>>

\* A ping is answered at once, a request is worked on next to others.  One more
\* pong makes no difference to a full channel.
Read ==
  /\ child = "up" /\ toChild # <<>>
  /\ LET msg == Head(toChild)
     IN IF msg.type = "request" THEN planning' = planning \cup {msg.id} /\ UNCHANGED fromChild
        ELSE /\ fromChild' = IF Len(fromChild) < MaxMail
                              THEN Append(fromChild, [type |-> "pong"]) ELSE fromChild
             /\ UNCHANGED planning
  /\ toChild' = Tail(toChild)
  /\ UNCHANGED <<child, daemon>>

\* The runtime planned or failed; either is a message with the request's id.
Planned(r) ==
  /\ child = "up" /\ r \in planning
  /\ planning' = planning \ {r}
  /\ fromChild' = Append(fromChild, [type |-> "reply", id |-> r])
  /\ UNCHANGED <<child, toChild, daemon>>

\* What it sent stays readable.
Die ==
  /\ child \notin {"gone", "reaped"} /\ child' = "gone"
  /\ toChild' = <<>> /\ planning' = {}
  /\ UNCHANGED <<fromChild, daemon>>

-----------------------------------------------------------------------------
(* The daemon's handle.                                                    *)

Listens == stopping = "no"

\* send says whether the channel is open; for a while after the child is gone
\* it still seems to be.
Sent(msg, open) ==
  IF child \in {"gone", "reaped"} THEN open \in BOOLEAN /\ UNCHANGED toChild
  ELSE open /\ toChild' = Append(toChild, msg)

Pending(r) == plan[r] = "pending"
\* A request whose promise is dropped unsettled would be forgotten.
Forgotten(r) == IF Pending(r) THEN "forgotten" ELSE plan[r]
Failed(r) == IF Pending(r) THEN "exited" ELSE plan[r]

Answered(r) == IF Pending(r) THEN "answered" ELSE plan[r]

Receive ==
  /\ fromChild # <<>> /\ fromChild' = Tail(fromChild)
  /\ LET msg == Head(fromChild)
     IN IF ~Listens THEN UNCHANGED <<status, heard, plan>>
        ELSE IF msg.type = "reply"
        THEN /\ plan' = [plan EXCEPT ![msg.id] = Answered(msg.id)]
             /\ UNCHANGED <<status, heard>>
        ELSE status' = "up" /\ heard' = 0 /\ UNCHANGED plan
  /\ UNCHANGED <<child, toChild, planning, stopping>>

\* The exit event: every plan still asked for fails.
ExitSeen ==
  /\ child = "gone" /\ child' = "reaped"
  /\ IF Listens
     THEN status' = "down" /\ plan' = [r \in Requests |-> Failed(r)]
     ELSE UNCHANGED <<status, plan>>
  /\ UNCHANGED <<toChild, fromChild, planning, heard, stopping>>

\* One heartbeat later; beyond the threshold all ages are alike.
Older(count) == IF count \in 0..Missed THEN count + 1 ELSE count

Overdue(age) == age # None /\ age > Missed

\* The ping goes out and the age of the last answer is compared, whether or not
\* the send succeeded.  One more ping makes no difference to a full channel.
Heartbeat ==
  /\ Listens /\ status # "down"
  /\ IF Len(toChild) < MaxMail THEN \E open \in BOOLEAN : Sent([type |-> "ping"], open)
     ELSE UNCHANGED toChild
  /\ heard' = Older(heard)
  /\ status' = IF Overdue(Older(heard)) THEN "unhealthy" ELSE status
  /\ UNCHANGED <<child, fromChild, planning, plan, stopping>>

RequestPlan(r) ==
  /\ plan[r] = "none"
  /\ \E open \in BOOLEAN :
       /\ Sent([type |-> "request", id |-> r], open)
       /\ plan' = [plan EXCEPT ![r] = IF open THEN "pending" ELSE "closed"]
  /\ UNCHANGED <<child, fromChild, planning, status, heard, stopping>>

\* Sixty seconds passed.
TimeOut(r) ==
  /\ Pending(r)
  /\ plan' = [plan EXCEPT ![r] = "timedOut"]
  /\ UNCHANGED <<ends, status, heard, stopping>>

\* Handlers and heartbeat go first; then the child has two seconds to leave.
Shutdown ==
  /\ Listens /\ stopping' = "waiting"
  /\ UNCHANGED <<ends, status, heard, plan>>

ShutdownEnds ==
  /\ stopping = "waiting" /\ stopping' = "over"
  /\ status' = "down"
  /\ UNCHANGED <<ends, heard, plan>>

Next ==
  \/ Boot \/ Hang \/ Read \/ Die
  \/ \E r \in Requests : Planned(r) \/ RequestPlan(r) \/ TimeOut(r)
  \/ Receive \/ ExitSeen \/ Heartbeat \/ Shutdown \/ ShutdownEnds

\* Messages are delivered, the exit is seen, the interval and the time-outs
\* fire; nothing makes the agent read, plan or live.
Fairness ==
  /\ WF_vars(Receive) /\ WF_vars(ExitSeen) /\ WF_vars(Heartbeat)
  /\ \A r \in Requests : WF_vars(TimeOut(r))

Spec == Init /\ [][Next]_vars /\ Fairness

-----------------------------------------------------------------------------
\* The reply, the time-out, the exit of the agent and a closed channel race for a
\* plan: the first one settles it, the others find it settled, and none drops it
\* (spawner.ts, requestPlan).
SettledOnce ==
  [][\A r \in Requests :
       /\ plan[r] \in Settled => plan'[r] = plan[r]
       /\ plan[r] # "none" => plan'[r] \in {plan[r]} \cup Settled]_vars

\* Every plan that was asked for is answered or fails, once, whatever becomes of the
\* agent, its messages and the handle.
PlansSettle ==
  /\ []TypeOK /\ SettledOnce
  /\ \A r \in Requests : Pending(r) ~> plan[r] \in Settled

\* An agent that was heard and is heard no more is not called up for ever, even
\* when its last answers are read after its exit (heartbeatTimer).
SilentAgentShows ==
  <>[](child # "up" /\ Listens /\ heard # None) => <>[](status \in {"unhealthy", "down"})

\* The daemon's handle keeps its word whatever becomes of the agent.
HandleKeepsWord == PlansSettle /\ SilentAgentShows
=============================================================================
