------------------------------ MODULE MCServer ------------------------------
(***************************************************************************)
(* Four parts of the daemon every MCP client meets, side by side: the      *)
(* sessions of its HTTP endpoint, the resumable streams of a session, the  *)
(* event hub, and the gate in front of the tools.  They share no state, so *)
(* a behaviour runs one of them.                                           *)
(***************************************************************************)
EXTENDS Naturals

CONSTANTS
  Sessions, Streams, Publishers, PageLimit, MaxEvents,              \* the hub
  Tools, Actors, Calls, NoGo, OperatorShaped, Rows, DefaultTier,    \* the gate
  HttpSessions, ToolCalls,                                          \* the sessions
  MaxEventsPerStream, MaxMessages                                   \* a stream

ASSUME ServerAssumption == MaxEvents \in Nat /\ MaxEventsPerStream \in Nat

\* One tool asks by default, the others need a passkey.
MergeAsks == [t \in Tools |-> IF t = "merge" THEN "CONFIRM" ELSE "EXPLICIT"]

VARIABLES part,
  made, stored, pub, session, replay, wire, got, last, stream,
  switch, matrix, present, call,
  up, at, listed, registered, keepalive, sweeps, dead, toolCall, inFlight, abandoned,
  newest, aged, buf, channel, next, pipe, taken, cursor, skipped

H == INSTANCE EventHub
K == INSTANCE ChokepointGate
S == INSTANCE McpSessions WITH
  Sessions <- HttpSessions, Calls <- ToolCalls, call <- toolCall
R == INSTANCE SessionStream WITH
  made <- newest, stream <- channel, wire <- pipe

hub == <<made, stored, pub, session, replay, wire, got, last, stream>>
gate == <<switch, matrix, present, call>>
sessions == <<up, at, listed, registered, keepalive, sweeps, dead, toolCall, inFlight, abandoned>>
resumption == <<newest, aged, buf, channel, next, pipe, taken, cursor, skipped>>
all == <<part, hub, gate, sessions, resumption>>

ServerInit ==
  /\ part \in {"hub", "gate", "sessions", "stream"}
  /\ H!Init /\ K!Init /\ S!Init /\ R!Init

Publishes(A) == part = "hub" /\ A /\ UNCHANGED <<part, gate, sessions, resumption>>
Checks(A) == part = "gate" /\ A /\ UNCHANGED <<part, hub, sessions, resumption>>
Serves(A) == part = "sessions" /\ A /\ UNCHANGED <<part, hub, gate, resumption>>
Resumes(A) == part = "stream" /\ A /\ UNCHANGED <<part, hub, gate, sessions>>

ServerNext == Publishes(H!Next) \/ Checks(K!Next) \/ Serves(S!Next) \/ Resumes(R!Next)

\* The fairness of the part that runs.
ServerSpec ==
  /\ ServerInit /\ [][ServerNext]_all
  /\ \A p \in Publishers :
       WF_all(Publishes(H!OneTimesOut(p))) /\ WF_all(Publishes(H!RawListeners(p)))
  /\ \A c \in Calls : WF_all(Checks(K!Deadline(c))) /\ WF_all(Checks(K!Start(c)))

\* Subscribers get every event once and raw streams miss none, where one page was
\* enough for the replay.
EventsArrive == H!EventsArrive

\* A subscriber that does not drain cannot keep a publisher.
PublishReturns == H!PublishReturns

\* A session that ends, however it ends, leaves nothing behind.
NothingOutlives == S!NothingOutlives

\* A broken stream resumes without a message twice or out of order; missing are only
\* those after an evicted cursor and those an insert's pruning moved under the replay.
StreamResumes == R!StreamResumes

\* A bar lets nobody in while it stands, and one the operator leaves in place takes effect.
BarTakesEffect == K!NothingPassesABar /\ K!BarTakesEffect
=============================================================================
