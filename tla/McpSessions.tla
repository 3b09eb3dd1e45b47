---------------------------- MODULE McpSessions ----------------------------
(***************************************************************************)
(* The MCP sessions of the daemon's HTTP endpoint (src/transports.ts):     *)
(* what an initialize request builds, and the several ways a session ends. *)
(* A session leaves traces in four places, the sseSessions map, the        *)
(* broker's subscribers, a keep-alive interval and the record of tool      *)
(* calls under way, and each way to end it has to remove all of them.      *)
(*                                                                         *)
(* Session ids are fresh, so an id of Sessions is used once.  The library's *)
(* transport is external: it adopts an id, refuses or throws, delivers a   *)
(* response or not, and calls onclose when close is called and never else. *)
(***************************************************************************)
EXTENDS Naturals

CONSTANTS
  Sessions,
  Calls         \* bound: tools/call requests

VARIABLES
  up,           \* "up", "closing": shutdown began, "down"
  at,           \* per session: how far it is
  listed,       \* the sseSessions map
  registered,   \* the broker's subscribers
  keepalive,    \* sessions with a running interval
  sweeps,       \* sessions whose 30 s check after onclose is due
  dead,         \* sessions whose transport shows a destroyed socket
  call,         \* per call: its session and its progress
  inFlight,     \* the calls in the inFlight maps
  abandoned     \* per call: how often it was counted as abandoned by close

vars == <<up, at, listed, registered, keepalive, sweeps, dead, call, inFlight, abandoned>>

InProgress == {"connecting", "handling"}

\* Type invariant.
TypeOK ==
  /\ up \in {"up", "closing", "down"}
  /\ at \in [Sessions -> {"none", "open", "closed"} \cup InProgress]
  /\ listed \cup registered \cup keepalive \cup sweeps \cup dead \subseteq Sessions
  /\ call \in [Calls -> [of : Sessions,
                         at : {"running", "delivered", "answered", "undelivered"}]
                        \cup {<<>>}]
  /\ inFlight \subseteq Calls
  /\ abandoned \in [Calls -> Nat]

Init ==
  /\ up = "up"
  /\ at = [s \in Sessions |-> "none"]
  /\ listed = {} /\ registered = {} /\ keepalive = {} /\ sweeps = {} /\ dead = {}
  /\ call = [c \in Calls |-> <<>>]
  /\ inFlight = {}
  /\ abandoned = [c \in Calls |-> 0]

-----------------------------------------------------------------------------
(* How a session ends.                                                      *)

Made(c) == call[c] # <<>>
CallsOf(S) == {c \in inFlight : call[c].of \in S}

\* Whatever is in flight is counted, and every trace of the sessions S removed.
Released(S) ==
  /\ abandoned' = [c \in Calls |-> IF c \in CallsOf(S) THEN abandoned[c] + 1 ELSE abandoned[c]]
  /\ inFlight' = inFlight \ CallsOf(S)
  /\ keepalive' = keepalive \ S
  /\ listed' = listed \ S
  /\ registered' = registered \ S
  /\ at' = [s \in Sessions |-> IF s \in S THEN "closed" ELSE at[s]]

\* transport.close() runs onclose in the same stretch.
Closed(s) ==
  /\ Released({s})
  /\ sweeps' = sweeps \cup {s}
  /\ UNCHANGED <<dead, call>>

\* DELETE /mcp; an id that is not in the map gets a 404.
Delete(s) == s \in listed /\ Closed(s) /\ UNCHANGED up

\* The check half a minute after onclose, should the map still hold the session.
Sweep(s) ==
  /\ s \in sweeps
  /\ sweeps' = sweeps \ {s}
  /\ listed' = listed \ {s} /\ registered' = registered \ (listed \cap {s})
  /\ UNCHANGED <<up, at, keepalive, dead, call, inFlight, abandoned>>

\* The five-minute janitor; it does not close the transport.
Janitor ==
  /\ up = "up" /\ dead \cap listed # {}
  /\ Released(dead \cap listed)
  /\ UNCHANGED <<up, sweeps, dead, call>>

SocketDies(s) ==
  /\ s \in listed \ dead
  /\ dead' = dead \cup {s}
  /\ UNCHANGED <<up, at, listed, registered, keepalive, sweeps, call, inFlight, abandoned>>

\* fanout drops a subscriber that does not drain; its session stays.
Dropped(s) ==
  /\ s \in registered
  /\ registered' = registered \ {s}
  /\ UNCHANGED <<up, at, listed, keepalive, sweeps, dead, call, inFlight, abandoned>>

-----------------------------------------------------------------------------
(* POST /mcp with initialize.                                               *)

\* createSwitchServer registers with the broker; then connect is awaited.
Initialize(s) ==
  /\ up # "down" /\ at[s] = "none"
  /\ at' = [at EXCEPT ![s] = "connecting"]
  /\ registered' = registered \cup {s}
  /\ UNCHANGED <<up, listed, keepalive, sweeps, dead, call, inFlight, abandoned>>

\* handleRequest is awaited.
Connected(s) ==
  /\ at[s] = "connecting"
  /\ at' = [at EXCEPT ![s] = "handling"]
  /\ UNCHANGED <<up, listed, registered, keepalive, sweeps, dead, call, inFlight, abandoned>>

\* The transport adopted an id: the session is listed and kept alive.
Opens(s) ==
  /\ at[s] = "handling"
  /\ at' = [at EXCEPT ![s] = "open"]
  /\ listed' = listed \cup {s}
  /\ keepalive' = keepalive \cup {s}
  /\ UNCHANGED <<up, registered, sweeps, dead, call, inFlight, abandoned>>

\* A mutation of Refused: the server built for the request is forgotten.
Forgotten(s) ==
  /\ at[s] = "handling"
  /\ at' = [at EXCEPT ![s] = "closed"]
  /\ UNCHANGED <<up, listed, registered, keepalive, sweeps, dead, call, inFlight, abandoned>>

\* The transport refused the request, or handleRequest threw.
Refused(s) == at[s] = "handling" /\ Closed(s) /\ UNCHANGED up

-----------------------------------------------------------------------------
(* Tool calls.                                                              *)

Call(c, s) ==
  /\ ~Made(c) /\ s \in listed
  /\ call' = [call EXCEPT ![c] = [of |-> s, at |-> "running"]]
  /\ inFlight' = inFlight \cup {c}
  /\ UNCHANGED <<up, at, listed, registered, keepalive, sweeps, dead, abandoned>>

Progress(c, from, to) ==
  /\ Made(c) /\ call[c].at = from
  /\ call' = [call EXCEPT ![c].at = to]
  /\ UNCHANGED <<up, at, listed, registered, keepalive, sweeps, dead, abandoned>>

\* The response is sent, and forgotten in a later stretch; a send that throws,
\* for want of a connection, leaves the call in flight.
Delivered(c) ==
  /\ Progress(c, "running", "delivered")
  /\ call[c].of \in listed
  /\ UNCHANGED inFlight
Cleared(c) == Progress(c, "delivered", "answered") /\ inFlight' = inFlight \ {c}
SendThrows(c) == Progress(c, "running", "undelivered") /\ UNCHANGED inFlight

-----------------------------------------------------------------------------
(* Shutdown closes the sessions one by one, then the HTTP server, which     *)
(* takes requests until then.                                               *)

Shutdown ==
  /\ up = "up" /\ up' = "closing"
  /\ UNCHANGED <<at, listed, registered, keepalive, sweeps, dead, call, inFlight, abandoned>>

CloseNext(s) == up = "closing" /\ s \in listed /\ Closed(s) /\ UNCHANGED up

ServerClosed ==
  /\ up = "closing" /\ listed = {} /\ up' = "down"
  /\ UNCHANGED <<at, listed, registered, keepalive, sweeps, dead, call, inFlight, abandoned>>

-----------------------------------------------------------------------------
Next ==
  \/ \E s \in Sessions :
       \/ Initialize(s) \/ Connected(s) \/ Opens(s) \/ Refused(s)
       \/ Delete(s) \/ Sweep(s) \/ SocketDies(s) \/ Dropped(s) \/ CloseNext(s)
  \/ \E c \in Calls :
       \/ \E s \in Sessions : Call(c, s)
       \/ Delivered(c) \/ Cleared(c) \/ SendThrows(c)
  \/ Janitor \/ Shutdown \/ ServerClosed

Spec == Init /\ [][Next]_vars

-----------------------------------------------------------------------------
\* Nothing of a session outlives it, whichever of DELETE, a refusal, the
\* janitor, the sweep and shutdown end it and in whatever order they come: its
\* server is in the broker only while it is being built or is listed, its
\* interval runs exactly while it is listed, and each call it leaves without an
\* answer is counted as abandoned once, and none before.
NothingOutlives ==
  /\ TypeOK
  /\ registered \subseteq listed \cup {s \in Sessions : at[s] \in InProgress}
  /\ keepalive = listed
  /\ \A s \in Sessions : at[s] = "open" <=> s \in listed
  /\ \A c \in Calls : Made(c) =>
       IF call[c].of \in listed
         THEN abandoned[c] = 0 /\ (c \in inFlight <=> call[c].at # "answered")
         ELSE /\ c \notin inFlight /\ abandoned[c] <= 1
              /\ call[c].at \in {"running", "undelivered"} => abandoned[c] = 1
=============================================================================
